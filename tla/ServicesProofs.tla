--------------------------- MODULE ServicesProofs ---------------------------
(***************************************************************************)
(* The services of a node, for any numbers of requests, calls, accounts,   *)
(* clients, blocks and messages.  Each part has its inductive invariant    *)
(* and its theorems: the request coordinator, the wallet, JSON-RPC calls,  *)
(* what clients are told about blocks, the server, and the command line    *)
(* program around it.  The last theorem puts them side by side.            *)
(***************************************************************************)
EXTENDS MCServices, SequenceTheorems, FiniteSetTheorems, WellFoundedInduction, TLAPS

(***************************************************************************)
(* The request coordinator (request-coordinator.ts).  All steps but Stop,  *)
(* End and the environment's run #process, so what #process does is one    *)
(* lemma, ProcessLemma.                                                    *)
(***************************************************************************)
Distinct(s) == \A i, j \in 1..Len(s) : s[i] = s[j] => i = j

Suffix(s, t) ==
  /\ Len(s) <= Len(t)
  /\ s = SubSeq(t, Len(t) - Len(s) + 1, Len(t))

RunningIn(st) == {t \in Tasks : st[t] = "running"}

(***************************************************************************)
(* The inductive invariant.  WithinLimit alone is not inductive: #process  *)
(* adds the number of entries it shifts off to runningTasks, which is the  *)
(* number of tasks that start only if no task is pending twice and none    *)
(* that is pending runs already.                                           *)
(***************************************************************************)
CoordinatorInv ==
  /\ TypeOK
  /\ WithinLimit
  /\ NoIdleCapacity
  /\ Distinct(pending)
  /\ \A i \in 1..Len(pending) : status[pending[i]] = "pending"
  /\ Suffix(pending, queued)
  /\ stopped => paused

(***************************************************************************)
(* As many tasks start as entries are shifted off the pending queue.       *)
(***************************************************************************)
LEMMA PrefixCardinality ==
  ASSUME NEW q \in Seq(Tasks), Distinct(q), NEW n \in 0..Len(q)
  PROVE  /\ IsFiniteSet({q[i] : i \in 1..n})
         /\ Cardinality({q[i] : i \in 1..n}) = n
<1> DEFINE shifted == {q[i] : i \in 1..n}
           f == [i \in 1..n |-> q[i]]
<1>1. n \in Nat /\ 1..n \subseteq 1..Len(q)
  BY LenProperties
<1>2. f \in Bijection(1..n, shifted)
  BY <1>1 DEF Distinct, Bijection, Injection, Surjection, IsInjective
<1>3. ExistsBijection(1..n, shifted)
  BY <1>2 DEF ExistsBijection
<1>4. IsFiniteSet(1..n) /\ Cardinality(1..n) = n
  BY <1>1, FS_Interval
<1>5. QED
  BY <1>3, <1>4, FS_Bijection

(***************************************************************************)
(* A suffix, read element by element.                                      *)
(***************************************************************************)
LEMMA SuffixElements ==
  ASSUME NEW s \in Seq(Tasks), NEW t \in Seq(Tasks), Len(s) <= Len(t)
  PROVE  Suffix(s, t) <=>
           \A i \in 1..Len(s) : s[i] = t[Len(t) - Len(s) + i]
<1> DEFINE m == Len(t) - Len(s) + 1
           u == SubSeq(t, m, Len(t))
<1>1. Len(s) \in Nat /\ Len(t) \in Nat /\ m \in 1..Len(t) + 1
  BY LenProperties
<1>2. \A i \in m..Len(t) : t[i] \in Tasks
  BY <1>1, ElementOfSeq
<1>3. /\ u \in Seq(Tasks)
      /\ Len(u) = Len(s)
      /\ \A i \in 1..Len(s) : u[i] = t[Len(t) - Len(s) + i]
  BY <1>1, <1>2, SubSeqProperties
<1>4. CASE Suffix(s, t)
  BY <1>3, <1>4 DEF Suffix
<1>5. CASE \A i \in 1..Len(s) : s[i] = t[Len(t) - Len(s) + i]
  <2>1. s = u
    BY <1>3, <1>5, SeqEqual
  <2>2. QED
    BY <1>5, <2>1 DEF Suffix
<1>6. QED
  BY <1>4, <1>5

LEMMA SuffixTransitive ==
  ASSUME NEW s \in Seq(Tasks), NEW t \in Seq(Tasks), NEW u \in Seq(Tasks),
         Suffix(s, t), Suffix(t, u)
  PROVE  Suffix(s, u)
<1>1. /\ Len(s) \in Nat /\ Len(t) \in Nat /\ Len(u) \in Nat
      /\ Len(s) <= Len(t) /\ Len(t) <= Len(u) /\ Len(s) <= Len(u)
  BY LenProperties DEF Suffix
<1>2. \A i \in 1..Len(s) : s[i] = t[Len(t) - Len(s) + i]
  BY <1>1, SuffixElements
<1>3. \A i \in 1..Len(t) : t[i] = u[Len(u) - Len(t) + i]
  BY <1>1, SuffixElements
<1>4. \A i \in 1..Len(s) : s[i] = u[Len(u) - Len(s) + i]
  <2> SUFFICES ASSUME NEW i \in 1..Len(s)
               PROVE  s[i] = u[Len(u) - Len(s) + i]
    OBVIOUS
  <2>1. Len(t) - Len(s) + i \in 1..Len(t)
    BY <1>1
  <2>2. t[Len(t) - Len(s) + i] = u[Len(u) - Len(t) + (Len(t) - Len(s) + i)]
    BY <1>3, <2>1
  <2>3. Len(u) - Len(t) + (Len(t) - Len(s) + i) = Len(u) - Len(s) + i
    BY <1>1
  <2>4. QED
    BY <1>2, <2>2, <2>3
<1>5. QED
  BY <1>1, <1>4, SuffixElements

LEMMA SuffixAppend ==
  ASSUME NEW s \in Seq(Tasks), NEW t \in Seq(Tasks), NEW e \in Tasks,
         Suffix(s, t)
  PROVE  Suffix(Append(s, e), Append(t, e))
<1> DEFINE a == Append(s, e)
           b == Append(t, e)
<1>1. /\ Len(s) \in Nat /\ Len(t) \in Nat /\ Len(s) <= Len(t)
      /\ a \in Seq(Tasks) /\ Len(a) = Len(s) + 1
      /\ b \in Seq(Tasks) /\ Len(b) = Len(t) + 1
  BY LenProperties, AppendProperties DEF Suffix
<1>2. \A i \in 1..Len(s) : s[i] = t[Len(t) - Len(s) + i]
  BY <1>1, SuffixElements
<1>3. \A i \in 1..Len(a) : a[i] = b[Len(b) - Len(a) + i]
  <2> SUFFICES ASSUME NEW i \in 1..Len(a)
               PROVE  a[i] = b[Len(b) - Len(a) + i]
    OBVIOUS
  <2>1. CASE i = Len(a)
    BY <1>1, <2>1, AppendProperties
  <2>2. CASE i # Len(a)
    <3>1. i \in 1..Len(s) /\ Len(t) - Len(s) + i \in 1..Len(t)
      BY <1>1, <2>2
    <3>2. a[i] = s[i] /\ b[Len(t) - Len(s) + i] = t[Len(t) - Len(s) + i]
      BY <3>1, AppendProperties
    <3>3. Len(b) - Len(a) + i = Len(t) - Len(s) + i
      BY <1>1
    <3>4. QED
      BY <1>2, <3>1, <3>2, <3>3
  <2>3. QED
    BY <2>1, <2>2
<1> HIDE DEF a, b
<1>4. Len(a) <= Len(b)
  BY <1>1
<1>5. Suffix(a, b)
  BY <1>1, <1>3, <1>4, SuffixElements
<1>6. QED
  BY <1>5 DEF a, b

(***************************************************************************)
(* How many tasks #process starts: as many as fit, and if a task stays     *)
(* pending although the coordinator is not paused, no slot is left.        *)
(***************************************************************************)
LEMMA StartableBounds ==
  ASSUME NEW q \in Seq(Tasks), NEW r \in Nat, NEW p \in BOOLEAN,
         limit \in Nat, limit > 0 => r <= limit
  PROVE  /\ Startable(q, r, p) \in 0..Len(q)
         /\ p => Startable(q, r, p) = 0
         /\ limit > 0 => r + Startable(q, r, p) <= limit
         /\ ~p /\ Startable(q, r, p) < Len(q) =>
              limit > 0 /\ r + Startable(q, r, p) = limit
<1>1. Len(q) \in Nat
  BY LenProperties
<1>2. QED
  BY <1>1 DEF Startable

(***************************************************************************)
(* What #process does to a queue of distinct waiting tasks.                *)
(***************************************************************************)
LEMMA ProcessLemma ==
  ASSUME NEW q \in Seq(Tasks), NEW r \in Nat, NEW p \in BOOLEAN,
         NEW st \in [Tasks -> Statuses],
         limit \in Nat, limit > 0 => r <= limit,
         Distinct(q),
         \A i \in 1..Len(q) : st[q[i]] = "pending",
         r = Cardinality(RunningIn(st)),
         Process(q, r, p, st)
  PROVE  /\ pending' \in Seq(Tasks)
         /\ runningTasks' \in Nat
         /\ status' \in [Tasks -> Statuses]
         /\ runningTasks' = Cardinality(RunningIn(status'))
         /\ limit > 0 => runningTasks' <= limit
         /\ ~p /\ pending' # <<>> => limit > 0 /\ runningTasks' = limit
         /\ Distinct(pending')
         /\ \A i \in 1..Len(pending') : status'[pending'[i]] = "pending"
         /\ Suffix(pending', q)
         /\ p => RunningIn(status') = RunningIn(st)
<1> DEFINE n == Startable(q, r, p)
           starting == {q[i] : i \in 1..n}
<1>1. /\ pending' = SubSeq(q, n + 1, Len(q))
      /\ runningTasks' = r + n
      /\ status' = [t \in Tasks |-> IF t \in starting THEN "running" ELSE st[t]]
  BY DEF Process
<1>2. /\ n \in 0..Len(q)
      /\ p => n = 0
      /\ limit > 0 => r + n <= limit
      /\ ~p /\ n < Len(q) => limit > 0 /\ r + n = limit
  BY StartableBounds
<1> HIDE DEF n
<1>3. Len(q) \in Nat /\ n \in Nat /\ n <= Len(q)
  BY <1>2, LenProperties
<1>4. \A i \in 1..Len(q) : q[i] \in Tasks
  BY ElementOfSeq
<1>5. /\ pending' \in Seq(Tasks)
      /\ Len(pending') = Len(q) - n
      /\ \A i \in 1..Len(q) - n : pending'[i] = q[n + i]
  <2>1. \A i \in n + 1..Len(q) : q[i] \in Tasks
    BY <1>3, <1>4
  <2>2. /\ SubSeq(q, n + 1, Len(q)) \in Seq(Tasks)
        /\ Len(SubSeq(q, n + 1, Len(q))) = Len(q) - n
        /\ \A i \in 1..Len(q) - n : SubSeq(q, n + 1, Len(q))[i] = q[n + 1 + i - 1]
    BY <1>3, <2>1, SubSeqProperties
  <2>3. \A i \in 1..Len(q) - n : n + 1 + i - 1 = n + i
    BY <1>3
  <2>4. QED
    BY <1>1, <2>2, <2>3
<1>6. starting \subseteq Tasks
  BY <1>3, <1>4
<1>7. status' \in [Tasks -> Statuses]
  BY <1>1 DEF Statuses
<1>8. RunningIn(status') = RunningIn(st) \cup starting
  BY <1>1, <1>6 DEF RunningIn
<1>9. RunningIn(st) \cap starting = {}
  BY <1>3 DEF RunningIn
<1>10. runningTasks' = Cardinality(RunningIn(status'))
  <2>1. IsFiniteSet(RunningIn(st))
    BY TasksAssumption, FS_Subset DEF RunningIn
  <2>2. IsFiniteSet(starting) /\ Cardinality(starting) = n
    BY <1>2, PrefixCardinality
  <2>3. Cardinality(RunningIn(st) \cup starting) = r + n - Cardinality({})
    BY <1>9, <2>1, <2>2, FS_Union
  <2>4. Cardinality({}) = 0
    BY FS_EmptySet
  <2> HIDE DEF starting
  <2>5. Cardinality(RunningIn(st) \cup starting) = r + n
    BY <1>3, <2>3, <2>4
  <2>6. runningTasks' = r + n
    BY <1>1
  <2>7. QED
    BY <1>8, <2>5, <2>6
<1>11. ~p /\ pending' # <<>> => limit > 0 /\ runningTasks' = limit
  <2>1. pending' # <<>> => Len(pending') # 0
    BY <1>5, EmptySeq
  <2>2. QED
    BY <1>1, <1>2, <1>3, <1>5, <2>1
<1>12. Distinct(pending')
  <2> SUFFICES ASSUME NEW i \in 1..Len(q) - n, NEW j \in 1..Len(q) - n,
                      q[n + i] = q[n + j]
               PROVE  i = j
    BY <1>5 DEF Distinct
  <2>1. n + i \in 1..Len(q) /\ n + j \in 1..Len(q)
    BY <1>3
  <2>2. n + i = n + j
    BY <2>1 DEF Distinct
  <2>3. QED
    BY <1>3, <2>2
<1>13. \A i \in 1..Len(pending') : status'[pending'[i]] = "pending"
  <2> SUFFICES ASSUME NEW i \in 1..Len(q) - n
               PROVE  status'[q[n + i]] = "pending"
    BY <1>5
  <2>1. n + i \in 1..Len(q)
    BY <1>3
  <2>2. q[n + i] \notin starting
    <3>1. ASSUME NEW j \in 1..n, q[n + i] = q[j]
          PROVE  FALSE
      <4>1. j \in 1..Len(q)
        BY <1>3
      <4>2. n + i = j
        BY <2>1, <3>1, <4>1 DEF Distinct
      <4>3. QED
        BY <1>3, <4>2
    <3>2. QED
      BY <3>1
  <2>3. QED
    BY <1>1, <1>4, <2>1, <2>2
<1>14. Suffix(pending', q)
  <2>1. Len(q) - Len(pending') + 1 = n + 1
    BY <1>3, <1>5
  <2>2. Len(pending') <= Len(q)
    BY <1>3, <1>5
  <2>3. pending' = SubSeq(q, Len(q) - Len(pending') + 1, Len(q))
    BY <1>1, <2>1
  <2>4. QED
    BY <2>2, <2>3 DEF Suffix
<1>15. p => RunningIn(status') = RunningIn(st)
  <2>1. p => starting = {}
    BY <1>2
  <2>2. QED
    BY <1>8, <2>1
<1>16. runningTasks' \in Nat /\ (limit > 0 => runningTasks' <= limit)
  BY <1>1, <1>2, <1>3
<1> HIDE DEF starting
<1>17. QED
  BY <1>5, <1>7, <1>10, <1>11, <1>12, <1>13, <1>14, <1>15, <1>16

(***************************************************************************)
(* The lemma applied to a step of the specification: a step that runs      *)
(* #process on such a queue, which is a suffix of what has been queued,    *)
(* establishes the invariant but for the types it does not touch.          *)
(***************************************************************************)
LEMMA ProcessKeepsInvariant ==
  ASSUME NEW q \in Seq(Tasks), NEW r \in Nat,
         NEW st \in [Tasks -> Statuses],
         limit \in Nat, limit > 0 => r <= limit, limit' = limit,
         Distinct(q),
         \A i \in 1..Len(q) : st[q[i]] = "pending",
         r = Cardinality(RunningIn(st)),
         paused' \in BOOLEAN,
         Process(q, r, paused', st),
         queued' \in Seq(Tasks), Suffix(q, queued')
  PROVE  /\ pending' \in Seq(Tasks)
         /\ runningTasks' \in Nat
         /\ status' \in [Tasks -> Statuses]
         /\ WithinLimit'
         /\ NoIdleCapacity'
         /\ Distinct(pending')
         /\ \A i \in 1..Len(pending') : status'[pending'[i]] = "pending"
         /\ Suffix(pending', queued')
<1> DEFINE p == paused'
<1>1. /\ pending' \in Seq(Tasks)
      /\ runningTasks' \in Nat
      /\ status' \in [Tasks -> Statuses]
      /\ runningTasks' = Cardinality(RunningIn(status'))
      /\ limit > 0 => runningTasks' <= limit
      /\ ~p /\ pending' # <<>> => limit > 0 /\ runningTasks' = limit
      /\ Distinct(pending')
      /\ \A i \in 1..Len(pending') : status'[pending'[i]] = "pending"
      /\ Suffix(pending', q)
  <2> HIDE DEF p
  <2>1. p \in BOOLEAN /\ Process(q, r, p, st)
    BY DEF p
  <2>2. QED
    BY <2>1, ProcessLemma
<1>2. RunningIn(status') = Running'
  BY DEF RunningIn, Running
<1>3. WithinLimit'
  BY <1>1, <1>2 DEF WithinLimit
<1>4. NoIdleCapacity'
  BY <1>1 DEF NoIdleCapacity
<1>5. Suffix(pending', queued')
  BY <1>1, SuffixTransitive
<1>6. QED
  BY <1>1, <1>3, <1>4, <1>5

LEMMA CoordinatorInit == Init => CoordinatorInv
<1> SUFFICES ASSUME Init PROVE CoordinatorInv
  OBVIOUS
<1>1. TypeOK
  BY EmptySeq DEF Init, TypeOK, Statuses
<1>2. WithinLimit
  <2>1. Running = {}
    BY DEF Init, Running
  <2>2. Cardinality(Running) = 0
    BY <2>1, FS_EmptySet
  <2>3. limit > 0 => 0 <= limit
    BY LimitsAssumption DEF Init
  <2>4. QED
    BY <2>2, <2>3 DEF Init, WithinLimit
<1>3. Suffix(pending, queued)
  <2>1. Len(<<>>) = 0 /\ SubSeq(<<>>, 1, 0) = <<>>
    BY EmptySeq, SubSeqEmpty
  <2>2. QED
    BY <2>1 DEF Init, Suffix
<1>4. QED
  BY <1>1, <1>2, <1>3 DEF Init, CoordinatorInv, NoIdleCapacity, Distinct

(***************************************************************************)
(* A step that neither runs #process nor starts or withdraws a task.       *)
(***************************************************************************)
LEMMA QuietStep ==
  ASSUME CoordinatorInv, TypeOK',
         UNCHANGED <<limit, pending, runningTasks, queued>>,
         Running' = Running,
         \A i \in 1..Len(pending) : status'[pending[i]] = status[pending[i]],
         paused' \in {paused, TRUE},
         stopped' => paused'
  PROVE  CoordinatorInv'
<1>1. WithinLimit' /\ NoIdleCapacity'
  BY DEF CoordinatorInv, WithinLimit, NoIdleCapacity, TypeOK
<1>2. Distinct(pending') /\ Suffix(pending', queued')
  BY DEF CoordinatorInv
<1>3. \A i \in 1..Len(pending') : status'[pending'[i]] = "pending"
  BY DEF CoordinatorInv
<1>4. QED
  BY <1>1, <1>2, <1>3 DEF CoordinatorInv

LEMMA QueueStep ==
  ASSUME CoordinatorInv, NEW t \in Tasks, Queue(t)
  PROVE  CoordinatorInv'
<1>1. CASE stopped
  <2>1. /\ status' = [status EXCEPT ![t] = "refused"]
        /\ status \in [Tasks -> Statuses] /\ status[t] = "idle"
        /\ UNCHANGED <<limit, pending, runningTasks, paused, stopped, queued>>
    BY <1>1 DEF Queue, CoordinatorInv, TypeOK
  <2>2. TypeOK'
    BY <1>1 DEF Queue, CoordinatorInv, TypeOK, Statuses
  <2>3. Running' = Running
    BY <2>1 DEF Running
  <2>4. \A i \in 1..Len(pending) : pending[i] \in Tasks /\ pending[i] # t
    BY <2>1, ElementOfSeq DEF CoordinatorInv, TypeOK
  <2>5. \A i \in 1..Len(pending) : status'[pending[i]] = status[pending[i]]
    BY <2>1, <2>4
  <2>6. QED
    BY <2>1, <2>2, <2>3, <2>5, QuietStep DEF CoordinatorInv
<1>2. CASE ~stopped
  <2> DEFINE q == AtEnd(t)
             st == [status EXCEPT ![t] = "pending"]
  <2>1. /\ limit \in Nat /\ limit' = limit /\ runningTasks \in Nat
        /\ limit > 0 => runningTasks <= limit
        /\ pending \in Seq(Tasks) /\ queued \in Seq(Tasks)
        /\ status \in [Tasks -> Statuses] /\ status[t] = "idle"
        /\ Distinct(pending) /\ Suffix(pending, queued)
        /\ \A i \in 1..Len(pending) : status[pending[i]] = "pending"
    BY LimitsAssumption DEF Queue, CoordinatorInv, TypeOK, WithinLimit
  <2>2. /\ queued' = Append(queued, t)
        /\ Process(q, runningTasks, paused', st)
        /\ paused' = paused /\ paused' \in BOOLEAN
        /\ UNCHANGED <<stopped, blockchain, loader, disconnect>>
    BY <1>2 DEF Queue, CoordinatorInv, TypeOK
  <2>3. /\ q \in Seq(Tasks) /\ Len(q) = Len(pending) + 1 /\ Len(pending) \in Nat
        /\ \A i \in 1..Len(pending) : q[i] = pending[i] /\ pending[i] \in Tasks
        /\ q[Len(pending) + 1] = t
    BY <2>1, AppendProperties, LenProperties, ElementOfSeq DEF AtEnd
  <2>4. \A i \in 1..Len(pending) : pending[i] # t
    BY <2>1
  <2>5. Distinct(q)
    BY <2>1, <2>3, <2>4 DEF Distinct
  <2>6. st \in [Tasks -> Statuses] /\ RunningIn(st) = Running
    BY <2>1 DEF Statuses, RunningIn, Running
  <2>7. \A i \in 1..Len(q) : st[q[i]] = "pending"
    BY <2>1, <2>3, <2>4
  <2>8. runningTasks = Cardinality(RunningIn(st))
    BY <2>6 DEF CoordinatorInv, WithinLimit
  <2>9. queued' \in Seq(Tasks) /\ Suffix(q, queued')
    BY <2>1, <2>2, AppendProperties, SuffixAppend DEF AtEnd
  <2> HIDE DEF q, st
  <2>10. /\ pending' \in Seq(Tasks)
         /\ runningTasks' \in Nat
         /\ status' \in [Tasks -> Statuses]
         /\ WithinLimit'
         /\ NoIdleCapacity'
         /\ Distinct(pending')
         /\ \A i \in 1..Len(pending') : status'[pending'[i]] = "pending"
         /\ Suffix(pending', queued')
    BY <2>1, <2>2, <2>3, <2>5, <2>6, <2>7, <2>8, <2>9, ProcessKeepsInvariant
  <2>11. TypeOK'
    BY <2>1, <2>2, <2>9, <2>10 DEF CoordinatorInv, TypeOK
  <2>12. QED
    BY <1>2, <2>2, <2>10, <2>11 DEF CoordinatorInv
<1>3. QED
  BY <1>1, <1>2

LEMMA SettleStep ==
  ASSUME CoordinatorInv, NEW t \in Tasks, Settle(t)
  PROVE  CoordinatorInv'
<1> DEFINE st == [status EXCEPT ![t] = "settled"]
           r == runningTasks - 1
<1>1. /\ limit \in Nat /\ runningTasks \in Nat
      /\ limit > 0 => runningTasks <= limit
      /\ pending \in Seq(Tasks) /\ queued \in Seq(Tasks)
      /\ status \in [Tasks -> Statuses] /\ status[t] = "running"
      /\ Distinct(pending) /\ Suffix(pending, queued)
      /\ \A i \in 1..Len(pending) : status[pending[i]] = "pending"
      /\ runningTasks = Cardinality(Running)
  BY LimitsAssumption DEF Settle, CoordinatorInv, TypeOK, WithinLimit
<1>2. /\ Process(pending, r, paused', st)
      /\ paused' = paused /\ paused' \in BOOLEAN
      /\ UNCHANGED <<limit, stopped, blockchain, loader, disconnect, queued>>
  BY DEF Settle, SettleAndProcess, CoordinatorInv, TypeOK
<1>3. st \in [Tasks -> Statuses] /\ RunningIn(st) = Running \ {t}
  BY <1>1 DEF Statuses, RunningIn, Running
<1>4. IsFiniteSet(Running) /\ t \in Running
  BY <1>1, TasksAssumption, FS_Subset DEF Running
<1>5. r = Cardinality(RunningIn(st))
  BY <1>1, <1>3, <1>4, FS_RemoveElement
<1>6. r \in Nat /\ (limit > 0 => r <= limit)
  <2>1. Cardinality(RunningIn(st)) \in Nat
    BY <1>3, <1>4, FS_RemoveElement, FS_CardinalityType
  <2>2. r \in Nat
    BY <1>5, <2>1
  <2>3. QED
    BY <1>1, <2>2
<1>7. \A i \in 1..Len(pending) : st[pending[i]] = "pending"
  BY <1>1
<1> HIDE DEF st, r
<1>8. /\ pending' \in Seq(Tasks)
      /\ runningTasks' \in Nat
      /\ status' \in [Tasks -> Statuses]
      /\ WithinLimit'
      /\ NoIdleCapacity'
      /\ Distinct(pending')
      /\ \A i \in 1..Len(pending') : status'[pending'[i]] = "pending"
      /\ Suffix(pending', queued')
  BY <1>1, <1>2, <1>3, <1>5, <1>6, <1>7, ProcessKeepsInvariant
<1>9. TypeOK'
  BY <1>2, <1>8 DEF CoordinatorInv, TypeOK
<1>10. QED
  BY <1>2, <1>8, <1>9 DEF CoordinatorInv

LEMMA ResumeStep ==
  ASSUME CoordinatorInv, Resume
  PROVE  CoordinatorInv'
<1>1. CASE stopped
  <2>1. TypeOK' /\ UNCHANGED <<limit, pending, runningTasks, paused, stopped,
                               status, queued>>
    BY <1>1 DEF Resume, CurrentResume, CoordinatorInv, TypeOK
  <2>2. Running' = Running
    BY <2>1 DEF Running
  <2>3. QED
    BY <2>1, <2>2, QuietStep DEF CoordinatorInv
<1>2. CASE ~stopped
  <2>1. /\ limit \in Nat /\ runningTasks \in Nat
        /\ limit > 0 => runningTasks <= limit
        /\ pending \in Seq(Tasks) /\ queued \in Seq(Tasks)
        /\ status \in [Tasks -> Statuses]
        /\ Distinct(pending) /\ Suffix(pending, queued)
        /\ \A i \in 1..Len(pending) : status[pending[i]] = "pending"
        /\ runningTasks = Cardinality(RunningIn(status))
    BY LimitsAssumption DEF CoordinatorInv, TypeOK, WithinLimit, Running, RunningIn
  <2>2. /\ paused' = FALSE
        /\ Process(pending, runningTasks, paused', status)
        /\ UNCHANGED <<limit, stopped, blockchain, disconnect, queued>>
        /\ loader' = "resumed"
    BY <1>2 DEF Resume, CurrentResume
  <2>3. /\ pending' \in Seq(Tasks)
        /\ runningTasks' \in Nat
        /\ status' \in [Tasks -> Statuses]
        /\ WithinLimit'
        /\ NoIdleCapacity'
        /\ Distinct(pending')
        /\ \A i \in 1..Len(pending') : status'[pending'[i]] = "pending"
        /\ Suffix(pending', queued')
    BY <2>1, <2>2, ProcessKeepsInvariant
  <2>4. TypeOK'
    BY <2>2, <2>3 DEF CoordinatorInv, TypeOK
  <2>5. QED
    BY <1>2, <2>2, <2>3, <2>4 DEF CoordinatorInv
<1>3. QED
  BY <1>1, <1>2

LEMMA EndStep ==
  ASSUME CoordinatorInv, End
  PROVE  CoordinatorInv' /\ Running' = Running
<1>1. /\ pending \in Seq(Tasks) /\ queued \in Seq(Tasks)
      /\ status \in [Tasks -> Statuses] /\ pending' = <<>>
      /\ \A i \in 1..Len(pending) : status[pending[i]] = "pending"
      /\ status' = [t \in Tasks |-> IF t \in AllPending THEN "rejected"
                                                        ELSE status[t]]
      /\ UNCHANGED <<limit, runningTasks, paused, stopped, blockchain, loader,
                     queued>>
  BY DEF End, CoordinatorInv, TypeOK
<1>2. TypeOK'
  BY <1>1, EmptySeq DEF End, CoordinatorInv, TypeOK, Statuses
<1>3. Running' = Running
  <2>1. \A t \in AllPending : status[t] = "pending"
    BY <1>1 DEF AllPending
  <2>2. QED
    BY <1>1, <2>1 DEF Running
<1>4. WithinLimit' /\ NoIdleCapacity'
  BY <1>1, <1>3 DEF CoordinatorInv, WithinLimit, NoIdleCapacity
<1>5. Suffix(pending', queued')
  <2>1. Len(queued) \in Nat /\ Len(<<>>) = 0
    BY <1>1, LenProperties, EmptySeq
  <2>2. SubSeq(queued, Len(queued) + 1, Len(queued)) = <<>>
    BY <2>1, SubSeqEmpty
  <2>3. Len(queued) - 0 + 1 = Len(queued) + 1
    BY <2>1
  <2>4. QED
    BY <1>1, <2>1, <2>2, <2>3 DEF Suffix
<1>6. Len(pending') = 0
  BY <1>1, EmptySeq
<1>7. QED
  BY <1>1, <1>2, <1>3, <1>4, <1>5, <1>6 DEF CoordinatorInv, Distinct

(***************************************************************************)
(* The steps of the blockchain, the call of stop() and stuttering.         *)
(***************************************************************************)
LEMMA OutsideStep ==
  ASSUME CoordinatorInv, BlockchainReady \/ Stop \/ BlockchainStopped \/ UNCHANGED vars
  PROVE  CoordinatorInv' /\ Running' = Running
<1>1. UNCHANGED <<limit, pending, runningTasks, status, queued>>
  BY DEF BlockchainReady, Stop, BlockchainStopped, vars
<1>2. TypeOK'
  BY DEF CoordinatorInv, TypeOK, BlockchainReady, Stop, BlockchainStopped, vars
<1>3. paused' \in {paused, TRUE} /\ (stopped' => paused')
  <2>1. CASE Stop
    BY <2>1 DEF Stop
  <2>2. CASE BlockchainReady \/ BlockchainStopped \/ UNCHANGED vars
    <3>1. paused' = paused /\ stopped' = stopped
      BY <2>2 DEF BlockchainReady, BlockchainStopped, vars
    <3>2. stopped => paused
      BY DEF CoordinatorInv
    <3>3. QED
      BY <3>1, <3>2
  <2>3. QED
    BY <2>1, <2>2
<1>4. Running' = Running
  BY <1>1 DEF Running
<1>5. QED
  BY <1>1, <1>2, <1>3, <1>4, QuietStep

LEMMA CoordinatorStep == CoordinatorInv /\ [Next]_vars => CoordinatorInv'
<1> SUFFICES ASSUME CoordinatorInv, [Next]_vars PROVE CoordinatorInv'
  OBVIOUS
<1>1. ASSUME NEW t \in Tasks, Queue(t) PROVE CoordinatorInv'
  BY <1>1, QueueStep
<1>2. ASSUME NEW t \in Tasks, Settle(t) PROVE CoordinatorInv'
  BY <1>2, SettleStep
<1>3. CASE Resume
  BY <1>3, ResumeStep
<1>4. CASE End
  BY <1>4, EndStep
<1>5. CASE BlockchainReady \/ Stop \/ BlockchainStopped \/ UNCHANGED vars
  BY <1>5, OutsideStep
<1>6. QED
  BY <1>1, <1>2, <1>3, <1>4, <1>5 DEF Next

(***************************************************************************)
(* The invariant holds in every reachable state of the coordinator.        *)
(***************************************************************************)
THEOREM CoordinatorInvariance == Spec => []CoordinatorInv
<1>1. Init => CoordinatorInv
  BY CoordinatorInit
<1>2. CoordinatorInv /\ [Next]_vars => CoordinatorInv'
  BY CoordinatorStep
<1>3. QED
  BY <1>1, <1>2, PTL DEF Spec

(***************************************************************************)
(* request-coordinator.ts is type correct under every interleaving of      *)
(* queue, settle, resume, stop and end; runningTasks never goes negative.  *)
(***************************************************************************)
THEOREM CoordinatorTypes == Spec => []TypeOK
<1>1. CoordinatorInv => TypeOK
  BY DEF CoordinatorInv
<1>2. QED
  BY <1>1, CoordinatorInvariance, PTL

(***************************************************************************)
(* #process never has more requests in flight than the limit, for every    *)
(* limit and any number of requests, its counter is exact, and it never    *)
(* leaves a request waiting that it could start.                           *)
(***************************************************************************)
THEOREM LimitKept == Spec => []KeepsToLimit
<1>1. CoordinatorInv => KeepsToLimit
  BY DEF CoordinatorInv, KeepsToLimit
<1>2. QED
  BY <1>1, CoordinatorInvariance, PTL

(***************************************************************************)
(* Requests leave the queue, to start or to be rejected, in the order in   *)
(* which queue() accepted them.                                            *)
(***************************************************************************)
THEOREM FirstInFirstOut == Spec => []StartsInOrder
<1>1. CoordinatorInv => StartsInOrder
  BY DEF CoordinatorInv, Suffix, StartsInOrder
<1>2. QED
  BY <1>1, CoordinatorInvariance, PTL

(***************************************************************************)
(* After stop() no request starts, whatever settles and whoever resumes.   *)
(***************************************************************************)
THEOREM StopIsFinal == Spec => NothingStartsAfterStop
<1>1. ASSUME CoordinatorInv, [Next]_vars, stopped
      PROVE  Running' \subseteq Running
  <2>1. ASSUME NEW t \in Tasks, Queue(t) PROVE Running' \subseteq Running
    <3>1. status' = [status EXCEPT ![t] = "refused"]
      BY <1>1, <2>1 DEF Queue
    <3>2. QED
      BY <1>1, <3>1 DEF CoordinatorInv, TypeOK, Running
  <2>2. ASSUME NEW t \in Tasks, Settle(t) PROVE Running' \subseteq Running
    <3> DEFINE st == [status EXCEPT ![t] = "settled"]
    <3>1. paused
      BY <1>1 DEF CoordinatorInv
    <3>2. status' = [u \in Tasks |-> st[u]]
      BY <2>2, <3>1 DEF Settle, SettleAndProcess, Process, Startable
    <3>3. QED
      BY <3>2 DEF Running
  <2>3. CASE Resume
    BY <1>1, <2>3 DEF Resume, CurrentResume, Running
  <2>4. CASE End
    BY <1>1, <2>4, EndStep
  <2>5. CASE BlockchainReady \/ Stop \/ BlockchainStopped \/ UNCHANGED vars
    BY <1>1, <2>5, OutsideStep
  <2>6. QED
    BY <1>1, <2>1, <2>2, <2>3, <2>4, <2>5 DEF Next
<1>2. QED
  BY <1>1, CoordinatorInvariance, PTL DEF Spec, NothingStartsAfterStop

-----------------------------------------------------------------------------

(***************************************************************************)
(* The wallet (wallet.ts).                                                 *)
(***************************************************************************)
IsOverWith(c, a) == c \in Calls /\ call[c] = [kind |-> "over", account |-> a]

CallRecords ==
  {W!NoCall, W!Over}
    \cup [kind : {"over", "remove"}, account : Accounts]
    \cup [kind : {"add"}, account : Accounts, passphrase : Passphrases]
    \cup [kind : {"unlock"}, account : Accounts, timed : BOOLEAN]

WalletTypes ==
  /\ call \in [Calls -> CallRecords]
  /\ known \subseteq Accounts /\ unlocked \subseteq Accounts
  /\ addresses \in Seq(Accounts)
  /\ lockTimers \in [Accounts -> Calls \cup {None}]
  /\ running \subseteq Calls
  /\ serial \in BOOLEAN

\* A timer that is recorded for an account locks that account; one that runs is recorded,
\* unless its account has been removed; and an account has one just if it is unlocked for
\* a while.
TimersOK ==
  /\ \A a \in Accounts : lockTimers[a] # None => IsOverWith(lockTimers[a], a)
  /\ \A c \in running :
       \E a \in Accounts : IsOverWith(c, a) /\ (a \notin removed => lockTimers[a] = c)
  /\ \A a \in stay \ removed : a \in unlocked /\ lockTimers[a] \notin running
  /\ \A a \in unlocked \ stay : lockTimers[a] \in running

IsBusyWith(c) == call[c].kind \notin {"none", "over"}

\* One at a time: an account whose removal has begun is still known when it ends.
SerialOK ==
  serial =>
    /\ \A c, d \in Calls : IsBusyWith(c) /\ IsBusyWith(d) => c = d
    /\ \A c \in Calls : call[c].kind = "remove" => call[c].account \in known
    /\ known \subseteq W!ToSet(addresses)

WalletInv == WalletTypes /\ TimersOK /\ SerialOK

LEMMA WalletInvSuffices == WalletInv => WalletIsExact
<1> SUFFICES ASSUME WalletInv PROVE WalletIsExact
  OBVIOUS
<1> USE DEF WalletInv
<1>1. W!KnownAreListed
  BY DEF SerialOK, W!KnownAreListed, W!AllKnownAreListed
<1>2. W!UnlockedUntilLocked
  BY DEF TimersOK, W!UnlockedUntilLocked
<1>3. ASSUME NEW a \in unlocked \ stay
      PROVE  lockTimers[a] \in running /\ call[lockTimers[a]].account = a
  <2>1. lockTimers[a] \in running /\ a \in Accounts
    BY DEF TimersOK, WalletTypes
  <2>2. lockTimers[a] # None
    BY <2>1, ServicesAssumption DEF WalletTypes
  <2>3. call[lockTimers[a]] = [kind |-> "over", account |-> a]
    BY <2>1, <2>2 DEF TimersOK, IsOverWith
  <2>4. QED
    BY <2>1, <2>3
<1>4. QED
  BY <1>1, <1>2, <1>3 DEF WalletIsExact, W!UnlockedForAWhile

(***************************************************************************)
(* What a call does leaves the records of the calls that are over alone.   *)
(***************************************************************************)
LEMMA RecordsKept ==
  ASSUME WalletTypes, NEW c \in Calls, call[c].kind # "over",
         NEW r \in CallRecords, call' = [call EXCEPT ![c] = r]
  PROVE  /\ call' \in [Calls -> CallRecords]
         /\ \A d \in Calls : call'[d] = IF d = c THEN r ELSE call[d]
         /\ \A d \in Calls, a \in Accounts : IsOverWith(d, a) => d # c /\ IsOverWith(d, a)'
<1>1. call \in [Calls -> CallRecords]
  BY DEF WalletTypes
<1>2. call' \in [Calls -> CallRecords] /\ \A d \in Calls : call'[d] = IF d = c THEN r ELSE call[d]
  BY <1>1
<1>3. \A a \in Accounts : [kind |-> "over", account |-> a].kind = "over"
  OBVIOUS
<1>4. \A d \in Calls, a \in Accounts : IsOverWith(d, a) => d # c
  BY <1>3 DEF IsOverWith
<1>5. QED
  BY <1>2, <1>4 DEF IsOverWith

\* A timer is recorded for one account.
LEMMA TimersDiffer ==
  ASSUME WalletInv, NEW a \in Accounts, NEW b \in Accounts, a # b, lockTimers[b] # None
  PROVE  lockTimers[b] # lockTimers[a]
<1>1. [kind |-> "over", account |-> a] # [kind |-> "over", account |-> b]
  OBVIOUS
<1>2. QED
  BY <1>1 DEF WalletInv, TimersOK, IsOverWith

LEMMA StartsStep ==
  ASSUME WalletInv,
         UNCHANGED <<known, addresses, unlocked, lockTimers, running, serial, stay, removed>>,
         NEW c \in Calls, W!Starts(c),
         NEW r \in CallRecords, call' = [call EXCEPT ![c] = r],
         r.kind = "remove" => r.account \in known
  PROVE  WalletInv'
<1> USE DEF WalletInv
<1>1. call[c].kind = "none"
  BY DEF W!Starts, W!NoCall
<1>2. /\ call' \in [Calls -> CallRecords]
      /\ \A d \in Calls : call'[d] = IF d = c THEN r ELSE call[d]
      /\ \A d \in Calls, a \in Accounts : IsOverWith(d, a) => d # c /\ IsOverWith(d, a)'
  BY <1>1, RecordsKept
<1>3. WalletTypes'
  BY <1>2 DEF WalletTypes
<1>4. TimersOK'
  BY <1>2 DEF TimersOK, WalletTypes
<1>5. serial => \A d \in Calls : ~IsBusyWith(d)
  BY DEF W!Starts, IsBusyWith
<1>6. SerialOK'
  BY <1>2, <1>5 DEF SerialOK, IsBusyWith, W!ToSet
<1>7. QED
  BY <1>3, <1>4, <1>6

\* The least of some numbers, for SelectInSeq.
LEMMA LeastIndex ==
  ASSUME NEW I, I \subseteq Nat, I # {}
  PROVE  \E n \in I : \A k \in I : n <= k
<1>1. PICK x \in I : \A y \in I : ~(<<y, x>> \in OpToRel(<, Nat))
  BY NatLessThanWellFounded, WFMin, Zenon
<1>2. \A y \in I : ~(y < x)
  BY <1>1, Zenon DEF OpToRel
<1>3. QED
  BY <1>2

(***************************************************************************)
(* splice() leaves every other address in the list that the removed one    *)
(* was in.                                                                 *)
(***************************************************************************)
LEMMA OthersStayListed ==
  ASSUME NEW a \in Accounts, addresses \in Seq(Accounts)
  PROVE  /\ W!Unlisted(a) \in Seq(Accounts)
         /\ a \in W!ToSet(addresses) =>
              W!ToSet(addresses) \ {a} \subseteq W!ToSet(W!Unlisted(a))
<1> DEFINE s == addresses
           I == {i \in 1..Len(s) : s[i] = a}
           n == W!Min(I)
<1>1. Len(s) \in Nat /\ DOMAIN s = 1..Len(s) /\ s \in [1..Len(s) -> Accounts]
  BY LenProperties
<1>2. CASE W!Contains(s, a)
  <2>1. I # {} /\ I \subseteq Nat
    BY <1>1, <1>2 DEF W!Contains
  <2>2. n \in I
    <3>1. \E m \in I : \A k \in I : m <= k
      BY <2>1, LeastIndex
    <3> HIDE DEF I
    <3>2. QED
      BY <3>1 DEF W!Min
  <2>3. W!Unlisted(a) = W!RemoveAt(s, n)
    BY <1>2, <2>1 DEF W!Unlisted, W!SelectInSeq
  <2> HIDE DEF n
  <2>4. n \in 1..Len(s) /\ s[n] = a
    BY <2>2
  <2> DEFINE t == SubSeq(s, 1, n - 1)
             u == SubSeq(s, n + 1, Len(s))
  <2>5. /\ t \in Seq(Accounts) /\ Len(t) = n - 1
        /\ \A i \in 1..n - 1 : t[i] = s[i]
    <3>1. \A i \in 1..n - 1 : s[i] \in Accounts
      BY <1>1, <2>4
    <3>2. /\ SubSeq(s, 1, n - 1) \in Seq(Accounts)
          /\ Len(SubSeq(s, 1, n - 1)) = IF 1 <= n - 1 THEN n - 1 - 1 + 1 ELSE 0
          /\ \A i \in 1 .. n - 1 - 1 + 1 : SubSeq(s, 1, n - 1)[i] = s[1 + i - 1]
      BY <1>1, <2>4, <3>1, SubSeqProperties
    <3>3. QED
      BY <2>4, <3>2
  <2>6. /\ u \in Seq(Accounts) /\ Len(u) = Len(s) - n
        /\ \A i \in 1..Len(s) - n : u[i] = s[n + i]
    <3>1. \A i \in n + 1..Len(s) : s[i] \in Accounts
      BY <1>1, <2>4
    <3>2. /\ SubSeq(s, n + 1, Len(s)) \in Seq(Accounts)
          /\ Len(SubSeq(s, n + 1, Len(s))) = IF n + 1 <= Len(s) THEN Len(s) - (n + 1) + 1 ELSE 0
          /\ \A i \in 1 .. Len(s) - (n + 1) + 1 : SubSeq(s, n + 1, Len(s))[i] = s[n + 1 + i - 1]
      BY <1>1, <2>4, <3>1, SubSeqProperties
    <3>3. Len(s) - (n + 1) + 1 = Len(s) - n /\ (n + 1 <= Len(s) \/ Len(s) - n = 0)
      <4>1. n \in Nat /\ Len(s) \in Nat /\ n <= Len(s)
        BY <1>1, <2>4
      <4>2. QED
        BY <4>1
    <3>4. \A i \in 1..Len(s) - n : n + 1 + i - 1 = n + i
      BY <1>1, <2>4
    <3>5. QED
      BY <3>2, <3>3, <3>4
  <2>7. W!Unlisted(a) = t \o u
    BY <2>3 DEF W!RemoveAt
  <2> HIDE DEF t, u
  <2>8. /\ t \o u \in Seq(Accounts)
        /\ Len(t \o u) = Len(s) - 1
        /\ \A i \in 1..Len(s) - 1 : (t \o u)[i] = IF i <= n - 1 THEN t[i] ELSE u[i - (n - 1)]
    <3>1. /\ t \o u \in Seq(Accounts)
          /\ Len(t \o u) = Len(t) + Len(u)
          /\ \A i \in 1..Len(t) + Len(u) :
               (t \o u)[i] = IF i <= Len(t) THEN t[i] ELSE u[i - Len(t)]
      BY <2>5, <2>6, ConcatProperties
    <3>2. Len(t) + Len(u) = Len(s) - 1
      BY <1>1, <2>4, <2>5, <2>6
    <3>3. QED
      BY <2>5, <3>1, <3>2
  <2>9. DOMAIN (t \o u) = 1..Len(s) - 1
    BY <2>8, LenProperties
  <2>10. ASSUME NEW i \in 1..Len(s), s[i] # a
         PROVE  \E j \in DOMAIN (t \o u) : (t \o u)[j] = s[i]
    <3>1. CASE i < n
      <4>1. i \in 1..Len(s) - 1 /\ (t \o u)[i] = s[i]
        BY <1>1, <2>4, <2>5, <2>8, <3>1
      <4>2. QED
        BY <2>9, <4>1
    <3>2. CASE i > n
      <4>1. i - 1 \in 1..Len(s) - 1 /\ ~(i - 1 <= n - 1) /\ (i - 1) - (n - 1) = i - n
        BY <1>1, <2>4, <3>2
      <4>2. i - n \in 1..Len(s) - n /\ n + (i - n) = i
        BY <1>1, <2>4, <3>2
      <4>3. (t \o u)[i - 1] = s[i]
        BY <2>6, <2>8, <4>1, <4>2
      <4>4. QED
        BY <2>9, <4>1, <4>3
    <3>3. i < n \/ i > n
      BY <2>4, <2>10
    <3>4. QED
      BY <3>1, <3>2, <3>3
  <2>11. QED
    BY <1>1, <2>7, <2>8, <2>10 DEF W!ToSet
<1>3. CASE ~W!Contains(s, a)
  <2>1. a \notin W!ToSet(s)
    BY <1>1, <1>3 DEF W!Contains, W!ToSet
  <2>2. CASE s = <<>>
    BY <1>3, <2>1, <2>2 DEF W!Unlisted
  <2>3. CASE s # <<>>
    <3>1. W!Unlisted(a) = SubSeq(s, 1, Len(s) - 1)
      BY <1>3, <2>3 DEF W!Unlisted, W!Front
    <3>2. \A i \in 1..Len(s) - 1 : s[i] \in Accounts
      BY <1>1
    <3>3. SubSeq(s, 1, Len(s) - 1) \in Seq(Accounts)
      BY <1>1, <3>2, SubSeqProperties
    <3>4. QED
      BY <2>1, <3>1, <3>3
  <2>4. QED
    BY <2>2, <2>3
<1>4. QED
  BY <1>2, <1>3

LEMMA WalletInit == W!Init => WalletInv
<1> SUFFICES ASSUME W!Init PROVE WalletInv
  OBVIOUS
<1> DEFINE n == Cardinality(InitialAccounts)
<1>1. addresses \in [1..n -> InitialAccounts] /\ W!IsInjective(addresses) /\ n \in Nat
  <2>1. n \in Nat /\ ExistsBijection(1..n, InitialAccounts)
    BY ServicesAssumption, FS_CardinalityType
  <2>2. PICK f \in Bijection(1..n, InitialAccounts) : TRUE
    BY <2>1 DEF ExistsBijection
  <2>3. f \in [1..n -> InitialAccounts] /\ W!IsInjective(f)
    BY <2>2 DEF Bijection, Injection, W!IsInjective, IsInjective
  <2>4. addresses = CHOOSE g \in [1..n -> InitialAccounts] : W!IsInjective(g)
    <3>1. addresses = W!SetToSeq(InitialAccounts)
      BY DEF W!Init
    <3>2. W!Cardinality(InitialAccounts) = n
      BY Zenon DEF W!Cardinality, Cardinality
    <3>3. QED
      BY <3>1, <3>2 DEF W!SetToSeq
  <2>5. QED
    BY <2>1, <2>3, <2>4
<1>2. addresses \in Seq(Accounts)
  <2>1. addresses \in [1..n -> Accounts]
    BY <1>1, ServicesAssumption
  <2>2. QED
    BY <1>1, <2>1
<1>3. WalletTypes
  <2>1. W!NoCall \in CallRecords
    BY DEF CallRecords
  <2>2. QED
    BY <1>2, <2>1, ServicesAssumption DEF W!Init, WalletTypes
<1>4. TimersOK
  <2>1. \A a \in stay : a \in unlocked
    BY DEF W!Init
  <2>2. QED
    BY <2>1 DEF W!Init, TimersOK
<1>5. InitialAccounts \subseteq W!ToSet(addresses)
  <2>1. ExistsInjection(1..n, InitialAccounts) /\ IsFiniteSet(1..n) /\ Cardinality(1..n) = n
    <3>1. addresses \in Injection(1..n, InitialAccounts)
      BY <1>1 DEF Injection, W!IsInjective, IsInjective
    <3>2. QED
      BY <1>1, <3>1, FS_Interval DEF ExistsInjection
  <2>2. addresses \in Injection(1..n, InitialAccounts)
    BY <1>1 DEF Injection, W!IsInjective, IsInjective
  <2>3. addresses \in Surjection(1..n, InitialAccounts)
    BY <2>1, <2>2, ServicesAssumption, FS_Injection
  <2>4. QED
    BY <1>1, <2>3 DEF Surjection, W!ToSet
<1>6. SerialOK
  <2>1. \A c \in Calls : call[c].kind = "none"
    BY DEF W!Init, W!NoCall
  <2>2. known \subseteq W!ToSet(addresses)
    BY <1>5 DEF W!Init
  <2>3. QED
    BY <2>1, <2>2 DEF SerialOK, IsBusyWith
<1>7. QED
  BY <1>3, <1>4, <1>6 DEF WalletInv

LEMMA AddedStep ==
  ASSUME WalletInv, NEW c \in Calls, W!Added(c)
  PROVE  WalletInv'
<1> USE DEF WalletInv
<1> DEFINE a == call[c].account
<1>1. call[c].kind = "add" /\ call' = [call EXCEPT ![c] = W!Over] /\ W!Over \in CallRecords
  BY DEF W!Added, W!EndOf, CallRecords
<1>2. a \in Accounts
  BY <1>1 DEF WalletTypes, CallRecords, W!NoCall, W!Over
<1>3. /\ call' \in [Calls -> CallRecords]
      /\ \A d \in Calls : call'[d] = IF d = c THEN W!Over ELSE call[d]
      /\ \A d \in Calls, b \in Accounts : IsOverWith(d, b) => d # c /\ IsOverWith(d, b)'
  BY <1>1, RecordsKept
<1>4. addresses' = Append(addresses, a) /\ addresses' \in Seq(Accounts)
  BY <1>2 DEF W!Added, WalletTypes
<1>5. known' = known \cup {a}
      /\ UNCHANGED <<unlocked, lockTimers, running, serial, stay, removed>>
  BY DEF W!Added
<1>6. WalletTypes'
  BY <1>2, <1>3, <1>4, <1>5 DEF WalletTypes
<1>7. TimersOK'
  BY <1>3, <1>5 DEF TimersOK, WalletTypes
<1>8. W!ToSet(addresses) \cup {a} \subseteq W!ToSet(addresses)'
  <2>1. /\ addresses \in Seq(Accounts)
        /\ DOMAIN addresses = 1..Len(addresses) /\ Len(addresses) \in Nat
    BY LenProperties DEF WalletTypes
  <2>2. /\ Len(addresses') = Len(addresses) + 1
        /\ \A i \in 1..Len(addresses) : addresses'[i] = addresses[i]
        /\ addresses'[Len(addresses) + 1] = a
    BY <1>2, <1>4, <2>1, AppendProperties
  <2>3. DOMAIN addresses' = 1..Len(addresses) + 1
    BY <1>4, <2>2, LenProperties
  <2>4. QED
    BY <2>1, <2>2, <2>3 DEF W!ToSet
<1>9. SerialOK'
  <2>1. W!Over.kind = "over"
    BY DEF W!Over
  <2>2. \A d \in Calls : IsBusyWith(d)' => IsBusyWith(d)
    BY <1>3, <2>1 DEF IsBusyWith
  <2>3. serial => \A d \in Calls : call'[d].kind = "remove" => call'[d].account \in known'
    BY <1>3, <1>5, <2>1 DEF SerialOK
  <2>4. serial => known' \subseteq W!ToSet(addresses)'
    BY <1>5, <1>8 DEF SerialOK
  <2>5. QED
    BY <1>5, <2>2, <2>3, <2>4 DEF SerialOK
<1>10. QED
  BY <1>6, <1>7, <1>9

LEMMA RemovedStep ==
  ASSUME WalletInv, NEW c \in Calls, W!Removed(c)
  PROVE  WalletInv'
<1> USE DEF WalletInv
<1> DEFINE a == call[c].account
<1>1. call[c].kind = "remove" /\ call' = [call EXCEPT ![c] = W!Over] /\ W!Over \in CallRecords
  BY DEF W!Removed, W!EndOf, CallRecords
<1>2. a \in Accounts
  BY <1>1 DEF WalletTypes, CallRecords, W!NoCall, W!Over
<1>3. /\ call' \in [Calls -> CallRecords]
      /\ \A d \in Calls : call'[d] = IF d = c THEN W!Over ELSE call[d]
      /\ \A d \in Calls, b \in Accounts : IsOverWith(d, b) => d # c /\ IsOverWith(d, b)'
  BY <1>1, RecordsKept
<1>4. /\ known' = known \ {a} /\ addresses' = W!Unlisted(a)
      /\ lockTimers' = [lockTimers EXCEPT ![a] = None]
      /\ unlocked' = unlocked \ {a} /\ stay' = stay \ {a} /\ removed' = removed \cup {a}
      /\ UNCHANGED <<running, serial>>
  BY DEF W!Removed
<1>5. /\ W!Unlisted(a) \in Seq(Accounts)
      /\ a \in W!ToSet(addresses) =>
           W!ToSet(addresses) \ {a} \subseteq W!ToSet(W!Unlisted(a))
  BY <1>2, OthersStayListed DEF WalletTypes
<1>6. WalletTypes'
  BY <1>2, <1>3, <1>4, <1>5 DEF WalletTypes
<1>7. TimersOK'
  <2>1. \A b \in Accounts : lockTimers'[b] = IF b = a THEN None ELSE lockTimers[b]
    BY <1>4 DEF WalletTypes
  <2>3. ASSUME NEW d \in running
        PROVE  \E b \in Accounts :
                 IsOverWith(d, b)' /\ (b \notin removed' => lockTimers'[b] = d)
    <3>1. PICK b \in Accounts : IsOverWith(d, b) /\ (b \notin removed => lockTimers[b] = d)
      BY DEF TimersOK
    <3>2. IsOverWith(d, b)' /\ (b \notin removed' => lockTimers'[b] = d)
      BY <1>3, <1>4, <2>1, <3>1 DEF WalletTypes
    <3>3. QED
      BY <3>2
  <2>4. \A b \in stay' \ removed' : b \in unlocked' /\ lockTimers'[b] \notin running
    <3>1. \A b \in stay \ removed : b \in Accounts
      BY DEF TimersOK, WalletTypes
    <3>2. QED
      BY <1>4, <2>1, <3>1 DEF TimersOK
  <2>5. \A b \in unlocked' \ stay' : lockTimers'[b] \in running
    BY <1>4, <2>1 DEF TimersOK, WalletTypes
  <2>8. \A b \in Accounts :
          lockTimers'[b] # None => lockTimers'[b] \in Calls /\ call'[lockTimers'[b]] = [kind |-> "over", account |-> b]
    BY <1>3, <2>1 DEF TimersOK, IsOverWith
  <2>9. QED
    BY <1>4, <2>3, <2>4, <2>5, <2>8 DEF TimersOK, IsOverWith
<1>8. SerialOK'
  <2>1. W!Over.kind = "over"
    BY DEF W!Over
  <2>2. \A d \in Calls : IsBusyWith(d)' => IsBusyWith(d) /\ d # c
    BY <1>3, <2>1 DEF IsBusyWith
  <2>3. serial => \A d \in Calls : ~IsBusyWith(d)'
    BY <1>1, <2>2 DEF SerialOK, IsBusyWith
  <2>4. serial => known' \subseteq W!ToSet(addresses)'
    BY <1>1, <1>4, <1>5 DEF SerialOK, W!ToSet
  <2>5. serial => \A d \in Calls : call'[d].kind # "remove"
    BY <2>3 DEF IsBusyWith
  <2>6. QED
    BY <1>4, <2>3, <2>4, <2>5 DEF SerialOK
<1>9. QED
  BY <1>6, <1>7, <1>8

LEMMA UnlockedStep ==
  ASSUME WalletInv, NEW c \in Calls, W!Unlocked(c)
  PROVE  WalletInv'
<1> USE DEF WalletInv
<1> DEFINE a == call[c].account
           timed == call[c].timed
           r == IF timed THEN [kind |-> "over", account |-> a] ELSE W!Over
<1>1. call[c].kind = "unlock" /\ call' = [call EXCEPT ![c] = r]
  BY DEF W!Unlocked
<1>2. a \in Accounts /\ timed \in BOOLEAN
  BY <1>1 DEF WalletTypes, CallRecords, W!NoCall, W!Over
<1>3. r \in CallRecords /\ r.kind = "over"
  BY <1>2 DEF CallRecords, W!Over
<1>4. /\ call' \in [Calls -> CallRecords]
      /\ \A d \in Calls : call'[d] = IF d = c THEN r ELSE call[d]
      /\ \A d \in Calls, b \in Accounts : IsOverWith(d, b) => d # c /\ IsOverWith(d, b)'
  <2> HIDE DEF r
  <2>1. QED
    BY <1>1, <1>3, RecordsKept
<1>5. /\ running' = (running \ {lockTimers[a]}) \cup (IF timed THEN {c} ELSE {})
      /\ lockTimers' = IF timed THEN [lockTimers EXCEPT ![a] = c] ELSE lockTimers
      /\ unlocked' = unlocked \cup {a}
      /\ stay' = IF timed THEN stay \ {a} ELSE stay \cup {a}
      /\ UNCHANGED <<known, addresses, serial, removed>>
  BY DEF W!Unlocked, W!TimersWithout
<1>6. WalletTypes'
  BY <1>2, <1>4, <1>5 DEF WalletTypes
<1>7. \A d \in running : d # c /\ d \in Calls
  BY <1>4 DEF TimersOK, WalletTypes
<1>8. \A b \in Accounts : b # a /\ lockTimers[b] # None => lockTimers[b] # lockTimers[a]
  BY <1>2, TimersDiffer
<1>9. \A b \in Accounts : lockTimers[b] # c
  BY <1>4, ServicesAssumption DEF TimersOK, WalletTypes
<1>10. timed => call'[c] = [kind |-> "over", account |-> a]
  BY <1>4
<1>11. \A b \in Accounts : lockTimers'[b] = IF timed /\ b = a THEN c ELSE lockTimers[b]
  BY <1>2, <1>5 DEF WalletTypes
<1> HIDE DEF a, timed, r
<1>12. TimersOK'
  <2>1. \A b \in Accounts :
          lockTimers'[b] # None =>
            lockTimers'[b] \in Calls /\ call'[lockTimers'[b]] = [kind |-> "over", account |-> b]
    BY <1>4, <1>10, <1>11 DEF TimersOK, IsOverWith
  <2>2. ASSUME NEW d \in running'
        PROVE  \E b \in Accounts :
                 IsOverWith(d, b)' /\ (b \notin removed => lockTimers'[b] = d)
    <3>1. CASE timed /\ d = c
      BY <1>2, <1>10, <1>11, <3>1 DEF IsOverWith
    <3>2. CASE d \in running \ {lockTimers[a]}
      <4>1. PICK b \in Accounts : IsOverWith(d, b) /\ (b \notin removed => lockTimers[b] = d)
        BY <3>2 DEF TimersOK
      <4>2. IsOverWith(d, b)'
        BY <1>4, <4>1 DEF IsOverWith
      <4>3. b \notin removed => lockTimers'[b] = d
        BY <1>11, <3>2, <4>1
      <4>4. QED
        BY <4>2, <4>3
    <3>3. QED
      BY <1>5, <3>1, <3>2
  <2>3. ASSUME NEW b \in stay' \ removed
        PROVE  b \in unlocked' /\ lockTimers'[b] \notin running'
    <3>1. CASE b = a
      <4>1. ~timed
        BY <1>5, <3>1
      <4>2. QED
        BY <1>2, <1>5, <3>1, <4>1
    <3>2. CASE b # a
      <4>1. b \in stay \ removed /\ b \in Accounts
        BY <1>5, <3>2 DEF TimersOK, WalletTypes
      <4>2. b \in unlocked /\ lockTimers[b] \notin running
        BY <4>1 DEF TimersOK
      <4>3. QED
        BY <1>5, <1>9, <1>11, <3>2, <4>1, <4>2
    <3>3. QED
      BY <3>1, <3>2
  <2>4. ASSUME NEW b \in unlocked' \ stay'
        PROVE  lockTimers'[b] \in running'
    <3>1. CASE b = a
      <4>1. timed
        BY <1>2, <1>5, <3>1
      <4>2. QED
        BY <1>2, <1>5, <1>11, <3>1, <4>1
    <3>2. CASE b # a
      <4>1. b \in unlocked \ stay /\ b \in Accounts
        BY <1>5, <3>2 DEF WalletTypes
      <4>2. lockTimers[b] \in running /\ lockTimers[b] # None
        BY <4>1, ServicesAssumption DEF TimersOK, WalletTypes
      <4>3. QED
        BY <1>5, <1>8, <1>11, <3>2, <4>1, <4>2
    <3>3. QED
      BY <3>1, <3>2
  <2>5. QED
    BY <1>5, <2>1, <2>2, <2>3, <2>4 DEF TimersOK, IsOverWith
<1>13. SerialOK'
  <2>1. \A d \in Calls : IsBusyWith(d)' => IsBusyWith(d)
    BY <1>3, <1>4 DEF IsBusyWith
  <2>2. \A d \in Calls : call'[d].kind = "remove" => call'[d] = call[d]
    BY <1>3, <1>4
  <2>3. QED
    BY <1>5, <2>1, <2>2 DEF SerialOK, W!ToSet
<1>14. QED
  BY <1>6, <1>12, <1>13

(***************************************************************************)
(* A timer fires: it is the one recorded for its account, unless that has  *)
(* been removed.                                                           *)
(***************************************************************************)
LEMMA FireStep ==
  ASSUME WalletInv, NEW c \in Calls, W!Fire(c)
  PROVE  WalletInv'
<1> USE DEF WalletInv
<1>1. PICK a \in Accounts : IsOverWith(c, a) /\ (a \notin removed => lockTimers[a] = c)
  BY DEF W!Fire, TimersOK
<1>2. call[c].account = a /\ call[c].kind = "over"
  <2>1. call[c] = [kind |-> "over", account |-> a]
    BY <1>1 DEF IsOverWith
  <2>2. QED
    BY <2>1
<1>3. /\ c \in running
      /\ lockTimers' = [lockTimers EXCEPT ![a] = None]
      /\ unlocked' = unlocked \ {a}
      /\ running' = running \ {c}
      /\ call' = [call EXCEPT ![c] = W!Over]
      /\ UNCHANGED <<known, addresses, serial, stay, removed>>
  BY <1>2 DEF W!Fire, W!EndOf
<1>4. W!Over \in CallRecords /\ W!Over.kind = "over"
  BY DEF CallRecords, W!Over
<1>5. \A d \in Calls : call'[d] = IF d = c THEN W!Over ELSE call[d]
  BY <1>3 DEF WalletTypes
<1>6. WalletTypes'
  BY <1>3, <1>4 DEF WalletTypes
<1>7. \A b \in Accounts : IsOverWith(c, b) => b = a
  <2>1. \A b \in Accounts : [kind |-> "over", account |-> b].account = b
    OBVIOUS
  <2>2. QED
    BY <1>2, <2>1 DEF IsOverWith
<1>8. \A b \in Accounts : lockTimers'[b] = IF b = a THEN None ELSE lockTimers[b]
  BY <1>3 DEF WalletTypes
<1>9. \A b \in Accounts : b # a => lockTimers[b] # c
  BY <1>7, ServicesAssumption DEF TimersOK
<1>10. TimersOK'
  <2>1. \A b \in Accounts : lockTimers'[b] # None =>
          lockTimers'[b] \in Calls /\ call'[lockTimers'[b]] = [kind |-> "over", account |-> b]
    BY <1>5, <1>8, <1>9 DEF TimersOK, IsOverWith
  <2>2. ASSUME NEW d \in running'
        PROVE  \E b \in Accounts :
                 IsOverWith(d, b)' /\ (b \notin removed => lockTimers'[b] = d)
    <3>1. d \in running /\ d # c
      BY <1>3
    <3>2. PICK b \in Accounts : IsOverWith(d, b) /\ (b \notin removed => lockTimers[b] = d)
      BY <3>1 DEF TimersOK
    <3>3. IsOverWith(d, b)'
      BY <1>5, <3>1, <3>2 DEF IsOverWith
    <3>4. b \notin removed => lockTimers'[b] = d
      BY <1>1, <1>8, <3>1, <3>2
    <3>5. QED
      BY <3>3, <3>4
  <2>3. ASSUME NEW b \in stay \ removed
        PROVE  b \in unlocked' /\ lockTimers'[b] \notin running'
    <3>1. b \in unlocked /\ lockTimers[b] \notin running /\ b \in Accounts
      BY DEF TimersOK, WalletTypes
    <3>2. b # a
      BY <1>1, <1>3, <3>1
    <3>3. QED
      BY <1>3, <1>8, <3>1, <3>2
  <2>4. ASSUME NEW b \in unlocked' \ stay
        PROVE  lockTimers'[b] \in running'
    <3>1. b # a /\ b \in Accounts /\ lockTimers[b] \in running
      BY <1>3 DEF TimersOK, WalletTypes
    <3>2. QED
      BY <1>3, <1>8, <1>9, <3>1
  <2>5. \A b \in stay' \ removed' : b \in unlocked' /\ lockTimers'[b] \notin running'
    BY <1>3, <2>3
  <2>6. \A b \in unlocked' \ stay' : lockTimers'[b] \in running'
    BY <1>3, <2>4
  <2>7. \A d \in running' :
          \E b \in Accounts : IsOverWith(d, b)' /\ (b \notin removed' => lockTimers'[b] = d)
    BY <1>3, <2>2
  <2>8. QED
    BY <2>1, <2>5, <2>6, <2>7 DEF TimersOK, IsOverWith
<1>11. SerialOK'
  <2>1. \A d \in Calls : IsBusyWith(d)' => IsBusyWith(d)
    BY <1>4, <1>5 DEF IsBusyWith
  <2>2. \A d \in Calls : call'[d].kind = "remove" => call'[d] = call[d]
    BY <1>4, <1>5
  <2>3. QED
    BY <1>3, <2>1, <2>2 DEF SerialOK, W!ToSet
<1>12. QED
  BY <1>6, <1>10, <1>11

(***************************************************************************)
(* lockAccount() clears the timer that is recorded.                        *)
(***************************************************************************)
LEMMA LockStep ==
  ASSUME WalletInv, NEW a \in Accounts, W!Lock(a)
  PROVE  WalletInv'
<1> USE DEF WalletInv
<1>1. /\ running' = running \ {lockTimers[a]}
      /\ lockTimers' = [lockTimers EXCEPT ![a] = None]
      /\ unlocked' = unlocked \ {a}
      /\ stay' = stay \ {a}
      /\ UNCHANGED <<known, addresses, call, serial, removed>>
  BY DEF W!Lock, W!TimersWithout
<1>2. WalletTypes'
  BY <1>1 DEF WalletTypes
<1>3. \A b \in Accounts : lockTimers'[b] = IF b = a THEN None ELSE lockTimers[b]
  BY <1>1 DEF WalletTypes
<1>4. \A b \in Accounts : b # a /\ lockTimers[b] # None => lockTimers[b] # lockTimers[a]
  BY TimersDiffer
<1>5. TimersOK'
  <2>1. \A b \in Accounts : lockTimers'[b] # None =>
          lockTimers'[b] \in Calls /\ call[lockTimers'[b]] = [kind |-> "over", account |-> b]
    BY <1>3 DEF TimersOK, IsOverWith
  <2>2. ASSUME NEW d \in running'
        PROVE  \E b \in Accounts :
                 IsOverWith(d, b) /\ (b \notin removed => lockTimers'[b] = d)
    <3>1. d \in running /\ d # lockTimers[a]
      BY <1>1
    <3>2. PICK b \in Accounts : IsOverWith(d, b) /\ (b \notin removed => lockTimers[b] = d)
      BY <3>1 DEF TimersOK
    <3>3. b \notin removed => lockTimers'[b] = d
      BY <1>3, <3>1, <3>2
    <3>4. QED
      BY <3>2, <3>3
  <2>3. ASSUME NEW b \in stay' \ removed
        PROVE  b \in unlocked' /\ lockTimers'[b] \notin running'
    <3>1. b # a /\ b \in unlocked /\ lockTimers[b] \notin running /\ b \in Accounts
      BY <1>1 DEF TimersOK, WalletTypes
    <3>2. QED
      BY <1>1, <1>3, <3>1
  <2>4. ASSUME NEW b \in unlocked' \ stay'
        PROVE  lockTimers'[b] \in running'
    <3>1. b # a /\ b \in Accounts /\ lockTimers[b] \in running
      BY <1>1 DEF TimersOK, WalletTypes
    <3>2. lockTimers[b] # None
      BY <3>1, ServicesAssumption DEF WalletTypes
    <3>3. QED
      BY <1>1, <1>3, <1>4, <3>1, <3>2
  <2>5. QED
    BY <1>1, <2>1, <2>2, <2>3, <2>4 DEF TimersOK, IsOverWith
<1>6. SerialOK'
  BY <1>1 DEF SerialOK, IsBusyWith, W!ToSet
<1>7. QED
  BY <1>2, <1>5, <1>6

LEMMA WalletStep == WalletInv /\ [W!Next]_(W!vars) => WalletInv'
<1> SUFFICES ASSUME WalletInv, [W!Next]_(W!vars) PROVE WalletInv'
  OBVIOUS
<1>1. ASSUME NEW c \in Calls, NEW a \in Accounts, NEW p \in Passphrases,
             W!AddAccount(c, a, p) \/ W!Import(c, a, p)
      PROVE  WalletInv'
  <2>1. \E r \in {W!Over, [kind |-> "add", account |-> a, passphrase |-> p]} :
          call' = [call EXCEPT ![c] = r]
    BY <1>1 DEF W!AddAccount, W!Import, W!EndOf
  <2>2. \A r \in {W!Over, [kind |-> "add", account |-> a, passphrase |-> p]} :
          r \in CallRecords /\ r.kind # "remove"
    BY DEF CallRecords, W!Over
  <2>3. /\ W!Starts(c)
        /\ UNCHANGED <<known, addresses, unlocked, lockTimers, running, serial, stay, removed>>
    BY <1>1 DEF W!AddAccount, W!Import
  <2>4. QED
    BY <2>1, <2>2, <2>3, StartsStep
<1>2. ASSUME NEW c \in Calls, NEW a \in Accounts, NEW p \in Passphrases, W!RemoveAccount(c, a, p)
      PROVE  WalletInv'
  <2>1. \E r \in {W!Over, [kind |-> "remove", account |-> a]} :
          call' = [call EXCEPT ![c] = r] /\ (r # W!Over => a \in known)
    BY <1>2 DEF W!RemoveAccount, W!EndOf
  <2>2. \A r \in {W!Over, [kind |-> "remove", account |-> a]} :
          r \in CallRecords /\ (r.kind = "remove" => r # W!Over /\ r.account = a)
    BY DEF CallRecords, W!Over
  <2>3. /\ W!Starts(c)
        /\ UNCHANGED <<known, addresses, unlocked, lockTimers, running, serial, stay, removed>>
    BY <1>2 DEF W!RemoveAccount
  <2>4. QED
    BY <2>1, <2>2, <2>3, StartsStep
<1>3. ASSUME NEW c \in Calls, NEW a \in Accounts, NEW p \in Passphrases,
             NEW timed \in BOOLEAN, W!Unlock(c, a, p, timed)
      PROVE  WalletInv'
  <2>1. \E r \in {W!Over, [kind |-> "unlock", account |-> a, timed |-> timed]} :
          call' = [call EXCEPT ![c] = r]
    BY <1>3 DEF W!Unlock, W!EndOf
  <2>2. \A r \in {W!Over, [kind |-> "unlock", account |-> a, timed |-> timed]} :
          r \in CallRecords /\ r.kind # "remove"
    BY DEF CallRecords, W!Over
  <2>3. /\ W!Starts(c)
        /\ UNCHANGED <<known, addresses, unlocked, lockTimers, running, serial, stay, removed>>
    BY <1>3 DEF W!Unlock
  <2>4. QED
    BY <2>1, <2>2, <2>3, StartsStep
<1>4. ASSUME NEW c \in Calls, W!Added(c) PROVE WalletInv'
  BY <1>4, AddedStep
<1>5. ASSUME NEW c \in Calls, W!Removed(c) PROVE WalletInv'
  BY <1>5, RemovedStep
<1>6. ASSUME NEW c \in Calls, W!Unlocked(c) PROVE WalletInv'
  BY <1>6, UnlockedStep
<1>7. ASSUME NEW c \in Calls, W!Fire(c) PROVE WalletInv'
  BY <1>7, FireStep
<1>8. ASSUME NEW a \in Accounts, W!Lock(a) PROVE WalletInv'
  BY <1>8, LockStep
<1>9. CASE UNCHANGED W!vars
  <2>1. UNCHANGED <<call, known, addresses, unlocked, lockTimers, running, serial, stay, removed>>
    BY <1>9 DEF W!vars
  <2>2. WalletTypes'
    BY <2>1 DEF WalletInv, WalletTypes
  <2>3. TimersOK'
    BY <2>1 DEF WalletInv, TimersOK, IsOverWith
  <2>4. SerialOK'
    BY <2>1 DEF WalletInv, SerialOK, IsBusyWith, W!ToSet
  <2>5. QED
    BY <2>2, <2>3, <2>4 DEF WalletInv
<1>10. QED
  BY <1>1, <1>2, <1>3, <1>4, <1>5, <1>6, <1>7, <1>8, <1>9 DEF W!Next

\* wallet.ts: every account that is known is listed when calls come one at a time, and an
\* account is unlocked just as long as the last unlocking asked for, whatever calls, timers
\* and removals interleave.
THEOREM WalletExact == W!Spec => []WalletIsExact
<1>1. W!Init => WalletInv
  BY WalletInit
<1>2. WalletInv /\ [W!Next]_(W!vars) => WalletInv'
  BY WalletStep
<1>3. WalletInv => WalletIsExact
  BY WalletInvSuffices
<1>4. QED
  BY <1>1, <1>2, <1>3, PTL DEF W!Spec

-----------------------------------------------------------------------------

(***************************************************************************)
(* JSON-RPC calls (http-server.ts, ws-server.ts, connector.ts).            *)
(***************************************************************************)
MessagesOK ==
  /\ message \in [Messages -> [via : P!Transports, calls : Batches \cup {None}, batch : BOOLEAN]]
  /\ \A m \in Messages :
       P!CallsOf(m) # None /\ ~message[m].batch => Len(P!CallsOf(m)) = 1

\* The outcomes that the calls of a message may have, and what is then sent for it.
IsOutcome(m, o) ==
  P!CallsOf(m) # None =>
    /\ o \in [DOMAIN P!CallsOf(m) -> {None, "value", "error"}]
    /\ \A n \in DOMAIN P!CallsOf(m) :
         P!CallsOf(m)[n].method = "subscribe" /\ o[n] # None =>
           (o[n] = "error" <=> P!Via(m) = "http")

IsAnswer(m, s, o, r) ==
  /\ s # "answered" => r = None
  /\ s = "answered" /\ P!CallsOf(m) # None =>
       r = P!Formatted(m, o) /\ \A n \in DOMAIN P!CallsOf(m) : o[n] # None

OutcomesOK ==
  /\ outcomes \in [Messages -> {outcomes[m] : m \in Messages}]
  /\ \A m \in Messages : stage[m] # "sent" => IsOutcome(m, outcomes[m])

AnswersOK ==
  /\ stage \in [Messages -> {"sent", "running", "answered", "dropped", "lost"}]
  /\ answer \in [Messages -> {answer[m] : m \in Messages}]
  /\ \A m \in Messages : IsAnswer(m, stage[m], outcomes[m], answer[m])

\* An aborted request and a closed socket get nothing.
ListenersOK ==
  /\ listeners \subseteq {m \in Messages : stage[m] = "answered"}
  /\ ~open => listeners = {}
  /\ heard = {}
  /\ \A m \in aborted : m \in Messages /\ P!Via(m) = "http" /\ answer[m] = None

RpcInv == MessagesOK /\ OutcomesOK /\ AnswersOK /\ ListenersOK

LEMMA BatchIsASequence ==
  ASSUME MessagesOK, NEW m \in Messages, P!CallsOf(m) # None
  PROVE  /\ Len(P!CallsOf(m)) \in Nat
         /\ DOMAIN P!CallsOf(m) = 1..Len(P!CallsOf(m))
<1> DEFINE b == P!CallsOf(m)
<1>1. b \in Batches
  BY DEF MessagesOK, P!CallsOf
<1>2. b \in Seq({b[n] : n \in DOMAIN b})
  BY <1>1, ServicesAssumption
<1> HIDE DEF b
<1>3. QED
  BY <1>2, LenProperties DEF b

(***************************************************************************)
(* What is sent has the ids and the results of the calls.                  *)
(***************************************************************************)
LEMMA FormattedMatches ==
  ASSUME MessagesOK, NEW m \in Messages, P!CallsOf(m) # None, NEW ended
  PROVE  /\ Len(P!Formatted(m, ended)) = Len(P!CallsOf(m))
         /\ \A n \in DOMAIN P!CallsOf(m) :
              LET r == P!Formatted(m, ended)[n]
              IN /\ r.is = ended[n]
                 /\ r.id = P!CallsOf(m)[n].id
                      \/ (P!CallsOf(m)[n].id = 0 /\ ~message[m].batch /\ r.is = "error")
<1> DEFINE b == P!CallsOf(m)
           k == Len(b)
<1>1. k \in Nat /\ DOMAIN b = 1..k
  BY BatchIsASequence
<1>2. message[m].batch \in BOOLEAN /\ (~message[m].batch => k = 1)
  BY DEF MessagesOK
<1>3. CASE message[m].batch
  <2> DEFINE f == [n \in 1..k |-> [id |-> b[n].id, is |-> ended[n]]]
  <2>1. P!Formatted(m, ended) = f
    BY <1>1, <1>3 DEF P!Formatted
  <2>2. f \in Seq({f[n] : n \in 1..k})
    BY <1>1
  <2>3. Len(f) = k
    BY <1>1, <2>2
  <2>4. QED
    BY <1>1, <2>1, <2>3
<1>4. CASE ~message[m].batch
  <2>1. 1 \in DOMAIN b /\ \A n \in DOMAIN b : n = 1
    BY <1>1, <1>2, <1>4
  <2>2. CASE P!Via(m) \in {"http", "ws"} /\ ended[1] = "error"
    <3>1. P!Formatted(m, ended) = <<[id |-> P!IdOfError(b[1].id), is |-> "error"]>>
      BY <1>4, <2>2 DEF P!Formatted
    <3>2. P!IdOfError(b[1].id) = b[1].id \/ b[1].id = 0
      BY DEF P!IdOfError
    <3>3. QED
      BY <1>2, <1>4, <2>1, <2>2, <3>1, <3>2
  <2>3. CASE ~(P!Via(m) \in {"http", "ws"} /\ ended[1] = "error")
    <3>1. P!Formatted(m, ended) = <<[id |-> b[1].id, is |-> ended[1]]>>
      BY <1>4, <2>3 DEF P!Formatted
    <3>2. QED
      BY <1>2, <1>4, <2>1, <3>1
  <2>4. QED
    BY <2>2, <2>3
<1>5. QED
  BY <1>2, <1>3, <1>4

LEMMA RpcInvSuffices == RpcInv => AnswersMatch
<1> SUFFICES ASSUME RpcInv PROVE P!AnswersMatch
  BY DEF AnswersMatch
<1> USE DEF RpcInv
<1>1. ASSUME NEW m \in Messages, answer[m] # None, P!CallsOf(m) # None
      PROVE  /\ Len(answer[m]) = Len(P!CallsOf(m))
             /\ \A n \in DOMAIN P!CallsOf(m) :
                  /\ answer[m][n].is = outcomes[m][n]
                  /\ answer[m][n].id = P!CallsOf(m)[n].id
                       \/ (P!CallsOf(m)[n].id = 0 /\ ~message[m].batch /\ answer[m][n].is = "error")
                  /\ P!CallsOf(m)[n].method = "subscribe" =>
                       (outcomes[m][n] = "error" <=> P!Via(m) = "http")
  <2>1. /\ stage[m] = "answered" /\ answer[m] = P!Formatted(m, outcomes[m])
        /\ \A n \in DOMAIN P!CallsOf(m) : outcomes[m][n] # None
    BY <1>1 DEF AnswersOK, IsAnswer
  <2>2. \A n \in DOMAIN P!CallsOf(m) :
          P!CallsOf(m)[n].method = "subscribe" => (outcomes[m][n] = "error" <=> P!Via(m) = "http")
    BY <1>1, <2>1 DEF OutcomesOK, IsOutcome
  <2>3. /\ Len(answer[m]) = Len(P!CallsOf(m))
        /\ \A n \in DOMAIN P!CallsOf(m) :
             /\ answer[m][n].is = outcomes[m][n]
             /\ answer[m][n].id = P!CallsOf(m)[n].id
                  \/ (P!CallsOf(m)[n].id = 0 /\ ~message[m].batch /\ answer[m][n].is = "error")
    BY <1>1, <2>1, FormattedMatches
  <2>4. QED
    BY <2>2, <2>3
<1>2. /\ \A m \in aborted : answer[m] = None
      /\ heard = {} /\ (~open => listeners = {})
  BY DEF ListenersOK
<1>3. QED
  BY <1>1, <1>2 DEF P!AnswersMatch

LEMMA RpcInit == P!Init => RpcInv
<1> SUFFICES ASSUME P!Init PROVE RpcInv
  OBVIOUS
<1>1. MessagesOK
  BY DEF P!Init, MessagesOK, P!CallsOf
<1>2. OutcomesOK
  BY DEF P!Init, OutcomesOK
<1>3. AnswersOK
  BY DEF P!Init, AnswersOK, IsAnswer
<1>4. ListenersOK
  BY DEF P!Init, ListenersOK
<1>5. QED
  BY <1>1, <1>2, <1>3, <1>4 DEF RpcInv

(***************************************************************************)
(* A step that changes the stage, the outcomes and the answer of no        *)
(* message but m keeps what is said of the others.                         *)
(***************************************************************************)
OnlyChanges(m) ==
  /\ UNCHANGED message
  /\ stage' \in [Messages -> {"sent", "running", "answered", "dropped", "lost"}]
  /\ outcomes' \in [Messages -> {outcomes'[k] : k \in Messages}]
  /\ answer' \in [Messages -> {answer'[k] : k \in Messages}]
  /\ \A k \in Messages \ {m} :
       stage'[k] = stage[k] /\ outcomes'[k] = outcomes[k] /\ answer'[k] = answer[k]

LEMMA OthersKept ==
  ASSUME RpcInv, NEW m \in Messages, OnlyChanges(m),
         IsOutcome(m, outcomes'[m]), IsAnswer(m, stage'[m], outcomes'[m], answer'[m])
  PROVE  MessagesOK' /\ OutcomesOK' /\ AnswersOK'
<1> USE DEF RpcInv
<1>1. MessagesOK'
  BY DEF OnlyChanges, MessagesOK, P!CallsOf
<1>2. \A k \in Messages :
        /\ IsOutcome(k, outcomes[k])' <=> IsOutcome(k, outcomes'[k])
        /\ IsAnswer(k, stage[k], outcomes[k], answer[k])' <=>
             IsAnswer(k, stage'[k], outcomes'[k], answer'[k])
  BY DEF OnlyChanges, IsOutcome, IsAnswer, P!CallsOf, P!Via, P!Formatted
<1>3. ASSUME NEW k \in Messages
      PROVE  /\ stage'[k] # "sent" => IsOutcome(k, outcomes'[k])
             /\ IsAnswer(k, stage'[k], outcomes'[k], answer'[k])
  <2>1. CASE k = m
    BY <2>1
  <2>2. CASE k # m
    <3>1. stage'[k] = stage[k] /\ outcomes'[k] = outcomes[k] /\ answer'[k] = answer[k]
      BY <2>2 DEF OnlyChanges
    <3>2. /\ stage[k] # "sent" => IsOutcome(k, outcomes[k])
          /\ IsAnswer(k, stage[k], outcomes[k], answer[k])
      BY DEF OutcomesOK, AnswersOK
    <3>3. QED
      BY <3>1, <3>2 DEF IsOutcome, IsAnswer
  <2>3. QED
    BY <2>1, <2>2
<1>4. OutcomesOK'
  BY <1>2, <1>3 DEF OnlyChanges, OutcomesOK
<1>5. AnswersOK'
  BY <1>2, <1>3 DEF OnlyChanges, AnswersOK
<1>6. QED
  BY <1>1, <1>4, <1>5

\* Before it is answered a message has no listener.
LEMMA UnansweredStep ==
  ASSUME RpcInv, NEW m \in Messages, stage[m] # "answered",
         \A k \in Messages \ {m} : stage'[k] = stage[k],
         UNCHANGED <<message, aborted, open, answer, listeners, heard>>
  PROVE  ListenersOK'
<1>1. \A k \in listeners : k \in Messages /\ k # m /\ stage[k] = "answered"
  BY DEF RpcInv, ListenersOK
<1>2. QED
  BY <1>1 DEF RpcInv, ListenersOK, P!Via

LEMMA UnparsableStep ==
  ASSUME RpcInv, NEW m \in Messages, P!Unparsable(m)
  PROVE  RpcInv'
<1>1. /\ stage[m] = "sent" /\ P!CallsOf(m) = None /\ P!CanSend(m)
      /\ stage' = [stage EXCEPT ![m] = "answered"]
      /\ answer' = [answer EXCEPT ![m] = <<[id |-> None, is |-> "error"]>>]
      /\ UNCHANGED <<message, aborted, open, outcomes, listeners, heard>>
  BY DEF P!Unparsable, P!rest
<1>2. stage'[m] = "answered" /\ OnlyChanges(m)
  BY <1>1 DEF OnlyChanges, RpcInv, OutcomesOK, AnswersOK
<1>3. MessagesOK' /\ OutcomesOK' /\ AnswersOK'
  <2>1. IsOutcome(m, outcomes'[m]) /\ IsAnswer(m, stage'[m], outcomes'[m], answer'[m])
    BY <1>1, <1>2 DEF IsOutcome, IsAnswer
  <2>2. QED
    BY <1>2, <2>1, OthersKept
<1>4. ListenersOK'
  <2>1. m \notin aborted
    BY <1>1 DEF P!CanSend, RpcInv, ListenersOK
  <2>2. listeners \subseteq {k \in Messages : stage'[k] = "answered"}
    BY <1>2 DEF OnlyChanges, RpcInv, ListenersOK
  <2>3. QED
    BY <1>1, <1>2, <2>1, <2>2 DEF OnlyChanges, RpcInv, ListenersOK, P!Via
<1>5. QED
  BY <1>3, <1>4 DEF RpcInv

LEMMA HandleStep ==
  ASSUME RpcInv, NEW m \in Messages, P!Handle(m)
  PROVE  RpcInv'
<1>1. /\ stage[m] = "sent"
      /\ stage' = [stage EXCEPT ![m] = "running"]
      /\ outcomes' = [outcomes EXCEPT ![m] = [n \in DOMAIN P!CallsOf(m) |-> None]]
      /\ UNCHANGED <<message, aborted, open, answer, listeners, heard>>
  BY DEF P!Handle, P!rest
<1>2. /\ stage'[m] = "running" /\ OnlyChanges(m)
      /\ outcomes'[m] = [n \in DOMAIN P!CallsOf(m) |-> None]
  BY <1>1 DEF OnlyChanges, RpcInv, OutcomesOK, AnswersOK
<1>3. IsOutcome(m, outcomes'[m])
  BY <1>2 DEF IsOutcome
<1>4. IsAnswer(m, stage'[m], outcomes'[m], answer'[m])
  BY <1>1, <1>2 DEF IsAnswer, RpcInv, AnswersOK
<1>5. MessagesOK' /\ OutcomesOK' /\ AnswersOK'
  BY <1>2, <1>3, <1>4, OthersKept
<1>6. ListenersOK'
  BY <1>1, <1>2, UnansweredStep DEF OnlyChanges
<1>7. QED
  BY <1>5, <1>6 DEF RpcInv

LEMMA CallEndsStep ==
  ASSUME RpcInv, NEW m \in Messages, NEW n, NEW outcome \in {"value", "error"},
         P!CallEnds(m, n, outcome)
  PROVE  RpcInv'
<1>1. /\ stage[m] = "running" /\ n \in DOMAIN P!CallsOf(m)
      /\ P!CallsOf(m)[n].method = "subscribe" => (outcome = "error" <=> P!Via(m) = "http")
      /\ outcomes' = [outcomes EXCEPT ![m][n] = outcome]
      /\ UNCHANGED <<message, aborted, open, stage, answer, listeners, heard>>
  BY DEF P!CallEnds, P!rest
<1>2. OnlyChanges(m) /\ outcomes'[m] = [outcomes[m] EXCEPT ![n] = outcome]
  BY <1>1 DEF OnlyChanges, RpcInv, OutcomesOK, AnswersOK
<1>3. IsOutcome(m, outcomes'[m])
  <2>1. IsOutcome(m, outcomes[m])
    BY <1>1 DEF RpcInv, OutcomesOK
  <2>2. QED
    BY <1>1, <1>2, <2>1 DEF IsOutcome
<1>4. IsAnswer(m, stage'[m], outcomes'[m], answer'[m])
  BY <1>1 DEF IsAnswer, RpcInv, AnswersOK
<1>5. MessagesOK' /\ OutcomesOK' /\ AnswersOK'
  BY <1>2, <1>3, <1>4, OthersKept
<1>6. ListenersOK'
  BY <1>1, UnansweredStep
<1>7. QED
  BY <1>5, <1>6 DEF RpcInv

LEMMA RespondStep ==
  ASSUME RpcInv, NEW m \in Messages, P!Respond(m)
  PROVE  RpcInv'
<1>1. /\ stage[m] = "running" /\ None \notin P!Range(outcomes[m]) /\ P!CanSend(m)
      /\ stage' = [stage EXCEPT ![m] = "answered"]
      /\ answer' = [answer EXCEPT ![m] = P!Formatted(m, outcomes[m])]
      /\ listeners' = IF P!IsPassedOn(m) THEN listeners \cup {m} ELSE listeners
      /\ heard' = IF open \/ P!Via(m) # "ws" THEN heard ELSE heard \cup {m}
      /\ UNCHANGED <<message, aborted, open, outcomes>>
  BY DEF P!Respond, P!HasEnded, P!rest
<1>2. /\ OnlyChanges(m)
      /\ stage'[m] = "answered" /\ answer'[m] = P!Formatted(m, outcomes[m])
  BY <1>1 DEF OnlyChanges, RpcInv, OutcomesOK, AnswersOK
<1>3. IsOutcome(m, outcomes[m])
  BY <1>1 DEF RpcInv, OutcomesOK
<1>4. IsAnswer(m, stage'[m], outcomes'[m], answer'[m])
  <2>1. P!CallsOf(m) # None => \A n \in DOMAIN P!CallsOf(m) : outcomes[m][n] # None
    BY <1>1, <1>3 DEF P!Range, IsOutcome
  <2>2. QED
    BY <1>1, <1>2, <2>1 DEF IsAnswer
<1>5. MessagesOK' /\ OutcomesOK' /\ AnswersOK'
  BY <1>1, <1>2, <1>3, <1>4, OthersKept
<1>6. ListenersOK'
  <2>1. m \notin aborted
    BY <1>1 DEF P!CanSend, RpcInv, ListenersOK
  <2>2. heard' = {} /\ (~open => listeners' = {})
    BY <1>1 DEF P!CanSend, P!IsPassedOn, RpcInv, ListenersOK
  <2>3. listeners' \subseteq {k \in Messages : stage'[k] = "answered"}
    BY <1>1, <1>2 DEF OnlyChanges, RpcInv, ListenersOK
  <2>4. \A k \in aborted : k \in Messages /\ P!Via(k) = "http" /\ answer'[k] = None
    BY <1>2, <2>1 DEF OnlyChanges, RpcInv, ListenersOK
  <2>5. message' = message /\ open' = open /\ aborted' = aborted
    BY <1>1
  <2>6. QED
    BY <2>2, <2>3, <2>4, <2>5 DEF ListenersOK, P!Via
<1>7. QED
  BY <1>5, <1>6 DEF RpcInv

\* The answer is not sent, or its callback is not called.
LEMMA NoAnswerStep ==
  ASSUME RpcInv, NEW m \in Messages, P!Drop(m) \/ P!LoseCallback(m)
  PROVE  RpcInv'
<1>1. PICK s \in {"dropped", "lost"} :
        /\ stage[m] = "running"
        /\ stage' = [stage EXCEPT ![m] = s]
        /\ UNCHANGED <<message, aborted, open, outcomes, answer, listeners, heard>>
  BY DEF P!Drop, P!LoseCallback, P!HasEnded, P!rest
<1>2. OnlyChanges(m) /\ stage'[m] = s
  BY <1>1 DEF OnlyChanges, RpcInv, OutcomesOK, AnswersOK
<1>3. IsOutcome(m, outcomes'[m]) /\ IsAnswer(m, stage'[m], outcomes'[m], answer'[m])
  <2>1. IsOutcome(m, outcomes[m]) /\ answer[m] = None
    BY <1>1 DEF RpcInv, OutcomesOK, AnswersOK, IsAnswer
  <2>2. QED
    BY <1>1, <1>2, <2>1 DEF IsAnswer
<1>4. MessagesOK' /\ OutcomesOK' /\ AnswersOK'
  BY <1>2, <1>3, OthersKept
<1>5. ListenersOK'
  BY <1>1, <1>2, UnansweredStep DEF OnlyChanges
<1>6. QED
  BY <1>4, <1>5 DEF RpcInv

\* Steps that change no message.
LEMMA SocketStep ==
  ASSUME RpcInv,
         \/ \E m \in Messages : P!Publish(m) \/ P!Abort(m)
         \/ P!CloseSocket
         \/ UNCHANGED P!vars
  PROVE  RpcInv'
<1>1. UNCHANGED <<message, stage, outcomes, answer>>
  BY DEF P!Publish, P!Abort, P!CloseSocket, P!vars, P!rest
<1>2. MessagesOK' /\ OutcomesOK'
  BY <1>1 DEF RpcInv, MessagesOK, OutcomesOK, IsOutcome, P!CallsOf, P!Via
<1>3. AnswersOK'
  BY <1>1 DEF RpcInv, AnswersOK, IsAnswer, P!Formatted, P!CallsOf, P!Via
<1>4. ListenersOK'
  <2>1. CASE \E m \in Messages : P!Publish(m)
    BY <1>1, <2>1 DEF P!Publish, P!rest, RpcInv, ListenersOK, P!Via
  <2>2. ASSUME NEW m \in Messages, P!Abort(m)
        PROVE  ListenersOK'
    <3>1. answer[m] = None
      BY <2>2 DEF P!Abort, RpcInv, AnswersOK, IsAnswer
    <3>2. QED
      BY <1>1, <2>2, <3>1 DEF P!Abort, RpcInv, ListenersOK, P!Via
  <2>3. CASE P!CloseSocket
    BY <1>1, <2>3 DEF P!CloseSocket, RpcInv, ListenersOK, P!Via
  <2>4. CASE UNCHANGED P!vars
    BY <2>4 DEF P!vars, RpcInv, ListenersOK, P!Via
  <2>5. QED
    BY <2>1, <2>2, <2>3, <2>4
<1>5. QED
  BY <1>2, <1>3, <1>4 DEF RpcInv

LEMMA RpcStep == RpcInv /\ [P!Next]_(P!vars) => RpcInv'
<1> SUFFICES ASSUME RpcInv, [P!Next]_(P!vars) PROVE RpcInv'
  OBVIOUS
<1>1. ASSUME NEW m \in Messages, P!Unparsable(m) PROVE RpcInv'
  BY <1>1, UnparsableStep
<1>2. ASSUME NEW m \in Messages, P!Handle(m) PROVE RpcInv'
  BY <1>2, HandleStep
<1>3. ASSUME NEW m \in Messages, P!Respond(m) PROVE RpcInv'
  BY <1>3, RespondStep
<1>4. ASSUME NEW m \in Messages, P!Drop(m) \/ P!LoseCallback(m) PROVE RpcInv'
  BY <1>4, NoAnswerStep
<1>5. ASSUME NEW m \in Messages, NEW n \in 1..2, NEW outcome \in {"value", "error"},
             P!CallEnds(m, n, outcome)
      PROVE  RpcInv'
  BY <1>5, CallEndsStep
<1>6. CASE \/ \E m \in Messages : P!Publish(m) \/ P!Abort(m)
           \/ P!CloseSocket
           \/ UNCHANGED P!vars
  BY <1>6, SocketStep
<1>7. QED
  BY <1>1, <1>2, <1>3, <1>4, <1>5, <1>6 DEF P!Next

\* http-server.ts, ws-server.ts and connector.ts: every answer sent is that of the calls of
\* its message, in their order and with their ids, in whatever order the calls end, and
\* nothing is sent to a client that has gone.
THEOREM AnswersOfTheCalls == P!Spec => []AnswersMatch
<1>1. P!Init => RpcInv
  BY RpcInit
<1>2. RpcInv /\ [P!Next]_(P!vars) => RpcInv'
  BY RpcStep
<1>3. RpcInv => AnswersMatch
  BY RpcInvSuffices
<1>4. QED
  BY <1>1, <1>2, <1>3, PTL DEF P!Spec

-----------------------------------------------------------------------------

(***************************************************************************)
(* What clients are told about blocks (api.ts, ws-server.ts,               *)
(* blockchain.ts).                                                         *)
(***************************************************************************)
NumbersOK ==
  /\ eager \in BOOLEAN
  /\ latest \in Nat /\ saved \in Nat /\ emitted \in Nat
  /\ emitted <= saved /\ saved <= latest /\ latest <= saved + 1
  /\ ~eager => emitted = saved

FilterRecords == [kind : {"block", "log"}, range : N!Ranges, updates : Seq(Nat), since : Nat]

\* What the README says of the eager mode.
IsExempt(f) == eager /\ filter[f].kind = "log" /\ filter[f].range.from = Latest

FiltersOK ==
  /\ filter \in [Filters -> FilterRecords \cup {None}]
  /\ polled \in [Filters -> Seq(Nat)]
  /\ \A f \in Filters : filter[f] = None => polled[f] = <<>>
  /\ \A f \in Filters : filter[f] # None =>
       filter[f].since <= emitted /\ (N!IsExact(f) \/ IsExempt(f))

SubscriptionsOK ==
  /\ phase \in [Subscriptions -> {"none", "asked", "subscribed", "answered", "dropped"}]
  /\ sent \in [Subscriptions -> Seq(Nat)]
  /\ \A s \in Subscriptions : phase[s] = "answered" => sent[s] # <<>>
  /\ N!NotifiedOfAll

NotificationsInv == NumbersOK /\ FiltersOK /\ SubscriptionsOK

LEMMA NoneIsNoFilter == None \notin FilterRecords
BY ServicesAssumption DEF FilterRecords, N!Ranges

(***************************************************************************)
(* One more block at the end of what a filter has returned.                *)
(***************************************************************************)
Increases(q) == \A i, j \in DOMAIN q : i < j => q[i] < q[j]

LEMMA IncreasesWith ==
  ASSUME NEW q \in Seq(Nat), NEW n \in Nat, Increases(q), \A k \in N!ToSet(q) : k < n
  PROVE  /\ Increases(Append(q, n))
         /\ N!ToSet(Append(q, n)) = N!ToSet(q) \cup {n}
<1> DEFINE t == Append(q, n)
<1>1. Len(q) \in Nat /\ DOMAIN q = 1..Len(q)
  BY LenProperties
<1>2. /\ t \in Seq(Nat) /\ Len(t) = Len(q) + 1
      /\ \A i \in 1..Len(q) : t[i] = q[i]
      /\ t[Len(q) + 1] = n
  BY AppendProperties
<1>3. DOMAIN t = 1..Len(q) + 1
  BY <1>2, LenProperties
<1> HIDE DEF t
<1>4. Increases(t)
  <2> SUFFICES ASSUME NEW i \in DOMAIN t, NEW j \in DOMAIN t, i < j
               PROVE  t[i] < t[j]
    BY DEF Increases
  <2>1. i \in 1..Len(q) /\ t[i] = q[i]
    BY <1>1, <1>2, <1>3
  <2>2. CASE j = Len(q) + 1
    BY <1>1, <1>2, <2>1, <2>2 DEF N!ToSet
  <2>3. CASE j # Len(q) + 1
    <3>1. j \in 1..Len(q) /\ t[j] = q[j]
      BY <1>1, <1>2, <1>3, <2>3
    <3>2. QED
      BY <1>1, <2>1, <3>1 DEF Increases
  <2>4. QED
    BY <2>2, <2>3
<1>5. N!ToSet(t) = N!ToSet(q) \cup {n}
  <2>1. \A i \in 1..Len(q) + 1 : i \in 1..Len(q) \/ i = Len(q) + 1
    BY <1>1
  <2>2. \A i \in 1..Len(q) : i \in 1..Len(q) + 1
    BY <1>1
  <2>3. Len(q) + 1 \in 1..Len(q) + 1
    BY <1>1
  <2>4. \A x \in N!ToSet(t) : x \in N!ToSet(q) \cup {n}
    BY <1>1, <1>2, <1>3, <2>1 DEF N!ToSet
  <2>5. \A x \in N!ToSet(q) \cup {n} : x \in N!ToSet(t)
    BY <1>1, <1>2, <1>3, <2>2, <2>3 DEF N!ToSet
  <2>6. QED
    BY <2>4, <2>5
<1>6. QED
  BY <1>4, <1>5 DEF t

LEMMA ConcatOfAppend ==
  ASSUME NEW q \in Seq(Nat), NEW t \in Seq(Nat), NEW n \in Nat
  PROVE  q \o Append(t, n) = Append(q \o t, n)
<1>1. PICK u \in Seq(Nat) : u = Append(t, n)
  BY AppendProperties
<1>2. PICK v \in Seq(Nat) : v = q \o t
  BY ConcatProperties
<1>3. PICK x \in Seq(Nat) : x = q \o u
  BY <1>1, ConcatProperties
<1>4. PICK y \in Seq(Nat) : y = Append(v, n)
  BY <1>2, AppendProperties
<1>5. Len(q) \in Nat /\ Len(t) \in Nat
  BY LenProperties
<1>6. Len(u) = Len(t) + 1 /\ (\A i \in 1..Len(t) : u[i] = t[i]) /\ u[Len(t) + 1] = n
  BY <1>1, AppendProperties
<1>7. /\ Len(v) = Len(q) + Len(t)
      /\ \A i \in 1..Len(q) + Len(t) : v[i] = IF i <= Len(q) THEN q[i] ELSE t[i - Len(q)]
  BY <1>2, ConcatProperties
<1>8. /\ Len(x) = Len(q) + Len(u)
      /\ \A i \in 1..Len(q) + Len(u) : x[i] = IF i <= Len(q) THEN q[i] ELSE u[i - Len(q)]
  BY <1>1, <1>3, ConcatProperties
<1>9. Len(y) = Len(v) + 1 /\ (\A i \in 1..Len(v) : y[i] = v[i]) /\ y[Len(v) + 1] = n
  BY <1>2, <1>4, AppendProperties
<1>10. Len(x) = Len(y)
  BY <1>5, <1>6, <1>7, <1>8, <1>9
<1>11. ASSUME NEW i \in 1..Len(x) PROVE x[i] = y[i]
  <2>1. i \in Nat /\ 1 <= i /\ i <= Len(q) + Len(t) + 1
    BY <1>5, <1>6, <1>8, <1>11
  <2>2. CASE i <= Len(q)
    <3>1. i \in 1..Len(q) + Len(t) /\ i \in 1..Len(q) + Len(u) /\ i \in 1..Len(v)
      BY <1>5, <1>6, <1>7, <2>1, <2>2
    <3>2. QED
      BY <1>7, <1>8, <1>9, <2>2, <3>1
  <2>3. CASE i > Len(q) /\ i # Len(q) + Len(t) + 1
    <3>1. i \in 1..Len(q) + Len(t) /\ i \in 1..Len(q) + Len(u) /\ i \in 1..Len(v)
      BY <1>5, <1>6, <1>7, <2>1, <2>3
    <3>2. i - Len(q) \in 1..Len(t) /\ ~(i <= Len(q))
      <4>1. \A a, b \in Nat : i > a /\ i <= a + b + 1 /\ i # a + b + 1 =>
                             i - a \in 1..b /\ ~(i <= a)
        BY <2>1
      <4>2. QED
        BY <1>5, <2>1, <2>3, <4>1, Zenon
    <3>3. QED
      BY <1>6, <1>7, <1>8, <1>9, <3>1, <3>2
  <2>4. CASE i = Len(q) + Len(t) + 1
    <3>1. /\ i \in 1..Len(q) + Len(u) /\ i = Len(v) + 1
          /\ i - Len(q) = Len(t) + 1 /\ ~(i <= Len(q))
      BY <1>5, <1>6, <1>7, <2>1, <2>4
    <3>2. QED
      BY <1>6, <1>8, <1>9, <3>1
  <2>5. QED
    BY <1>5, <2>1, <2>2, <2>3, <2>4
<1>12. x = y
  BY <1>10, <1>11, SeqEqual
<1>13. QED
  BY <1>1, <1>2, <1>3, <1>4, <1>12

(***************************************************************************)
(* A block is in the range of a filter when its event is emitted just if   *)
(* the filter is meant to see it, in the modes the property is about.      *)
(***************************************************************************)
LEMMA SeesWhatIsMeant ==
  ASSUME NumbersOK, FiltersOK, NEW f \in Filters, filter[f] # None, ~IsExempt(f),
         NEW n \in Nat, n <= latest, ~eager => n = latest
  PROVE  filter[f].kind = "block" \/ N!InRange(filter[f].range, n) <=> N!IsMeant(f, n)
<1>1. /\ filter[f].kind \in {"block", "log"}
      /\ filter[f].range.from \in {0, 2, Latest} /\ filter[f].range.to \in {2, Latest}
  BY DEF FiltersOK, FilterRecords, N!Ranges
<1>2. CASE filter[f].kind = "block"
  BY <1>2 DEF N!IsMeant
<1>3. CASE filter[f].kind = "log"
  <2>1. N!EffectiveNumber(filter[f].range.to) >= n <=>
          filter[f].range.to = Latest \/ n <= filter[f].range.to
    BY <1>1 DEF N!EffectiveNumber, NumbersOK
  <2>2. N!EffectiveNumber(filter[f].range.from) <= n <=>
          filter[f].range.from = Latest \/ filter[f].range.from <= n
    BY <1>1, <1>3 DEF N!EffectiveNumber, NumbersOK, IsExempt
  <2>3. N!EffectiveNumber(filter[f].range.to) \in Nat
    BY <1>1 DEF N!EffectiveNumber, NumbersOK
  <2>4. QED
    BY <1>3, <2>1, <2>2, <2>3 DEF N!IsMeant, N!InRange
<1>4. QED
  BY <1>1, <1>2, <1>3

LEMMA FiltersAreToldOf ==
  ASSUME NumbersOK, FiltersOK, emitted + 1 <= latest, ~eager => emitted + 1 = latest,
         N!Emit(emitted + 1), UNCHANGED eager
  PROVE  FiltersOK'
<1>1. PICK n \in Nat : n = emitted + 1
  BY DEF NumbersOK
<1>2. emitted' = n /\ polled' = polled
  BY <1>1 DEF N!Emit
<1>3. filter' = [f \in Filters |-> N!Updated(f, n)]
  BY <1>1 DEF N!Emit
<1>4. ASSUME NEW f \in Filters
      PROVE  /\ filter'[f] \in FilterRecords \cup {None}
             /\ filter'[f] = None <=> filter[f] = None
             /\ filter'[f] # None => filter'[f].since <= emitted'
             /\ filter'[f] # None => N!IsExact(f)' \/ IsExempt(f)'
  <2>1. CASE filter[f] = None
    BY <1>3, <2>1 DEF N!Updated
  <2>2. CASE filter[f] # None
    <3>1. /\ filter[f] \in FilterRecords /\ filter[f].since <= emitted
          /\ filter[f].updates \in Seq(Nat) /\ polled[f] \in Seq(Nat) /\ filter[f].since \in Nat
      BY <2>2 DEF FiltersOK, FilterRecords
    <3> DEFINE sees == filter[f].kind = "block" \/ N!InRange(filter[f].range, n)
    <3>2. filter'[f] = IF sees THEN [filter[f] EXCEPT !.updates = Append(filter[f].updates, n)]
                       ELSE filter[f]
      BY <1>3, <2>2 DEF N!Updated
    <3>3. Append(filter[f].updates, n) \in Seq(Nat)
      BY <3>1, AppendProperties
    <3>4. /\ filter'[f] \in FilterRecords
          /\ filter'[f].kind = filter[f].kind /\ filter'[f].range = filter[f].range
          /\ filter'[f].since = filter[f].since
          /\ filter'[f].updates = IF sees THEN Append(filter[f].updates, n) ELSE filter[f].updates
      <4> HIDE DEF sees
      <4>1. QED
        BY <3>1, <3>2, <3>3 DEF FilterRecords
    <3>5. filter'[f] # None /\ filter'[f].since <= emitted'
      BY <1>1, <1>2, <3>1, <3>4, NoneIsNoFilter DEF NumbersOK
    <3>6. ASSUME ~IsExempt(f) PROVE N!IsExact(f)'
      <4>1. sees <=> N!IsMeant(f, n)
        BY <1>1, <2>2, <3>6, SeesWhatIsMeant
      <4>2. /\ N!ToSet(N!Seen(f)) = {k \in filter[f].since + 1 .. emitted : N!IsMeant(f, k)}
            /\ Increases(N!Seen(f))
        BY <2>2, <3>6 DEF FiltersOK, N!IsExact, Increases
      <4>3. N!Seen(f) \in Seq(Nat) /\ N!Seen(f) = polled[f] \o filter[f].updates
        BY <3>1, ConcatProperties DEF N!Seen
      <4>4. N!Seen(f)' = IF sees THEN Append(N!Seen(f), n) ELSE N!Seen(f)
        <5>1. CASE sees
          <6>1. N!Seen(f)' = polled[f] \o Append(filter[f].updates, n)
            BY <1>2, <3>4, <5>1 DEF N!Seen
          <6>2. polled[f] \o Append(filter[f].updates, n) = Append(N!Seen(f), n)
            <7>1. polled[f] \o Append(filter[f].updates, n) = Append(polled[f] \o filter[f].updates, n)
              BY <3>1, ConcatOfAppend, Zenon
            <7>2. QED
              BY <4>3, <7>1
          <6> HIDE DEF sees
          <6>3. QED
            BY <5>1, <6>1, <6>2
        <5>2. CASE ~sees
          BY <1>2, <3>4, <5>2 DEF N!Seen
        <5>3. QED
          BY <5>1, <5>2
      <4>5. \A k : N!IsMeant(f, k)' <=> N!IsMeant(f, k)
        BY <3>4 DEF N!IsMeant
      <4> DEFINE D == {k \in filter[f].since + 1 .. emitted : N!IsMeant(f, k)}
                 E == {k \in filter[f].since + 1 .. n : N!IsMeant(f, k)}
      <4>6. E = IF sees THEN D \cup {n} ELSE D
        <5> HIDE DEF sees
        <5>1. \A k : k \in filter[f].since + 1 .. n <=>
                       k \in filter[f].since + 1 .. emitted \/ k = n
          BY <1>1, <3>1 DEF NumbersOK
        <5>2. QED
          BY <4>1, <5>1
      <4>7. \A k \in D : k < n
        BY <1>1, <3>1 DEF NumbersOK
      <4>8. N!ToSet(N!Seen(f)') = E /\ Increases(N!Seen(f)')
        <5>1. PICK q \in Seq(Nat) : q = N!Seen(f)
          BY <4>3
        <5>2. N!ToSet(q) = D /\ Increases(q)
          BY <4>2, <5>1
        <5>3. /\ Increases(Append(q, n))
              /\ N!ToSet(Append(q, n)) = D \cup {n}
          <6> HIDE DEF D
          <6>1. QED
            BY <4>7, <5>2, IncreasesWith
        <5>4. CASE sees
          BY <4>4, <4>6, <5>1, <5>3, <5>4
        <5>5. CASE ~sees
          BY <4>4, <4>6, <5>1, <5>2, <5>5
        <5>6. QED
          BY <5>4, <5>5
      <4>9. filter'[f].since + 1 .. emitted' = filter[f].since + 1 .. n
        BY <1>2, <3>4
      <4>10. N!ToSet(N!Seen(f))' = {k \in filter[f].since + 1 .. n : N!IsMeant(f, k)'}
        BY <4>5, <4>8 DEF N!ToSet
      <4>11. QED
        BY <4>8, <4>9, <4>10 DEF N!IsExact, Increases
    <3>7. IsExempt(f)' <=> IsExempt(f)
      BY <3>4 DEF IsExempt
    <3>8. QED
      BY <2>2, <3>4, <3>5, <3>6, <3>7
  <2>3. QED
    BY <2>1, <2>2
<1>5. filter' \in [Filters -> FilterRecords \cup {None}]
  BY <1>3, <1>4
<1>6. QED
  BY <1>2, <1>4, <1>5 DEF FiltersOK

LEMMA SubscribersAreToldOf ==
  ASSUME NumbersOK, SubscriptionsOK, N!Emit(emitted + 1)
  PROVE  SubscriptionsOK'
<1>1. PICK n \in Nat : n = emitted + 1
  BY DEF NumbersOK
<1>2. /\ emitted' = n /\ UNCHANGED <<phase, listens>>
      /\ sent' = [s \in Subscriptions |-> IF N!PassesOn(s) THEN Append(sent[s], n) ELSE sent[s]]
  BY <1>1 DEF N!Emit
<1>3. \A s \in Subscriptions : sent[s] \in Seq(Nat) /\ Append(sent[s], n) \in Seq(Nat)
                               /\ Append(sent[s], n) # <<>>
  <2>1. \A s \in Subscriptions : sent[s] \in Seq(Nat)
    BY DEF SubscriptionsOK
  <2>2. QED
    BY <2>1, AppendProperties
<1>4. /\ sent' \in [Subscriptions -> Seq(Nat)]
      /\ \A s \in Subscriptions : phase[s] = "answered" => sent'[s] # <<>>
  BY <1>2, <1>3 DEF SubscriptionsOK
<1>5. ASSUME NEW s \in Subscriptions, phase[s] = "answered", s \in listens
      PROVE  Tail(sent'[s]) =
               [i \in 1 .. Len(Tail(sent'[s])) |-> emitted' - Len(Tail(sent'[s])) + i]
  <2>1. PICK t : t = Tail(sent[s])
    OBVIOUS
  <2>2. sent[s] # <<>> /\ sent[s] \in Seq(Nat)
    BY <1>5 DEF SubscriptionsOK
  <2>3. t \in Seq(Nat) /\ Len(t) \in Nat /\ DOMAIN t = 1..Len(t)
    BY <2>1, <2>2, HeadTailProperties, LenProperties
  <2>4. t = [i \in 1..Len(t) |-> emitted - Len(t) + i]
    BY <1>5, <2>1 DEF SubscriptionsOK, N!NotifiedOfAll
  <2>5. sent'[s] = Append(sent[s], n)
    BY <1>2, <1>5 DEF N!PassesOn
  <2>6. Tail(sent'[s]) = Append(t, n)
    BY <2>1, <2>2, <2>5, HeadTailAppend
  <2>7. /\ Append(t, n) \in Seq(Nat) /\ Len(Append(t, n)) = Len(t) + 1
        /\ \A i \in 1..Len(t) : Append(t, n)[i] = t[i]
        /\ Append(t, n)[Len(t) + 1] = n
    BY <2>3, AppendProperties
  <2>8. DOMAIN Append(t, n) = 1..Len(t) + 1
    BY <2>7, LenProperties
  <2> DEFINE u == Append(t, n)
  <2>9. \A i \in 1..Len(t) + 1 : u[i] = n - (Len(t) + 1) + i
    <3>1. \A i \in 1..Len(t) : t[i] = emitted - Len(t) + i
      BY <2>4
    <3>2. \A i \in 1..Len(t) + 1 : i \in 1..Len(t) \/ i = Len(t) + 1
      BY <2>3
    <3>3. ASSUME NEW i \in 1..Len(t) PROVE u[i] = n - (Len(t) + 1) + i
      <4>1. u[i] = emitted - Len(t) + i
        BY <2>7, <3>1
      <4>2. emitted \in Nat /\ Len(t) \in Nat /\ i \in Nat
        BY <2>3 DEF NumbersOK
      <4> HIDE DEF u
      <4>3. QED
        BY <1>1, <4>1, <4>2
    <3>4. u[Len(t) + 1] = n - (Len(t) + 1) + (Len(t) + 1)
      <4>1. u[Len(t) + 1] = n
        BY <2>7
      <4> HIDE DEF u
      <4>2. QED
        BY <2>3, <4>1
    <3>5. QED
      BY <3>2, <3>3, <3>4
  <2>10. u = [i \in 1..Len(t) + 1 |-> u[i]]
    <3>1. u \in [1..Len(u) -> Nat] /\ Len(u) = Len(t) + 1
      BY <2>7, LenProperties
    <3> HIDE DEF u
    <3>2. QED
      BY <3>1
  <2> HIDE DEF u
  <2>11. u = [i \in 1..Len(t) + 1 |-> n - (Len(t) + 1) + i]
    BY <2>9, <2>10
  <2>12. QED
    BY <1>2, <2>6, <2>7, <2>11 DEF u
<1>6. N!NotifiedOfAll'
  BY <1>2, <1>5 DEF N!NotifiedOfAll
<1>7. QED
  BY <1>2, <1>4, <1>6 DEF SubscriptionsOK

(***************************************************************************)
(* The other steps.                                                        *)
(***************************************************************************)
LEMMA NotificationsInit == N!Init => NotificationsInv
<1> SUFFICES ASSUME N!Init PROVE NotificationsInv
  OBVIOUS
<1>1. NumbersOK
  BY DEF N!Init, NumbersOK
<1>2. <<>> \in Seq(Nat)
  BY EmptySeq
<1>3. FiltersOK
  BY <1>2 DEF N!Init, FiltersOK
<1>4. SubscriptionsOK
  BY <1>2 DEF N!Init, SubscriptionsOK, N!NotifiedOfAll
<1>5. QED
  BY <1>1, <1>3, <1>4 DEF NotificationsInv

\* What FiltersOK and SubscriptionsOK look at.
LEMMA FiltersKeptAlone ==
  ASSUME FiltersOK, UNCHANGED <<eager, emitted, filter, polled>>
  PROVE  FiltersOK'
BY DEF FiltersOK, IsExempt, N!IsExact, N!Seen, N!IsMeant, N!ToSet

LEMMA SubscriptionsKeptAlone ==
  ASSUME SubscriptionsOK, UNCHANGED <<emitted, phase, listens, sent>>
  PROVE  SubscriptionsOK'
BY DEF SubscriptionsOK, N!NotifiedOfAll

LEMMA BlocksStep ==
  ASSUME NotificationsInv, N!Mine \/ N!StartSaving \/ N!Saved \/ N!EmitLate
  PROVE  NotificationsInv'
<1>1. CASE N!Mine
  <2>1. UNCHANGED <<eager, latest, saved, emitted, filter, polled, phase, listens, sent>>
    BY <1>1 DEF N!Mine, N!filterVars, N!socketVars
  <2>2. QED
    BY <2>1, FiltersKeptAlone, SubscriptionsKeptAlone DEF NotificationsInv, NumbersOK
<1>2. CASE N!StartSaving
  <2>1. /\ latest = saved /\ latest' = latest + 1
        /\ UNCHANGED <<eager, saved, emitted, filter, polled, phase, listens, sent>>
    BY <1>2 DEF N!StartSaving, N!filterVars, N!socketVars
  <2>2. NumbersOK'
    BY <2>1 DEF NotificationsInv, NumbersOK
  <2>3. QED
    BY <2>1, <2>2, FiltersKeptAlone, SubscriptionsKeptAlone DEF NotificationsInv
<1>3. CASE N!Saved
  <2>1. saved < latest /\ saved' = latest /\ UNCHANGED <<eager, latest>>
    BY <1>3 DEF N!Saved
  <2>2. CASE eager
    <3>1. UNCHANGED <<emitted, filter, polled, phase, listens, sent>>
      BY <1>3, <2>2 DEF N!Saved, N!filterVars, N!socketVars
    <3>2. NumbersOK'
      BY <2>1, <2>2, <3>1 DEF NotificationsInv, NumbersOK
    <3>3. QED
      BY <2>1, <3>1, <3>2, FiltersKeptAlone, SubscriptionsKeptAlone DEF NotificationsInv
  <2>3. CASE ~eager
    <3>1. latest = emitted + 1
      BY <2>1, <2>3 DEF NotificationsInv, NumbersOK
    <3>2. N!Emit(emitted + 1)
      BY <1>3, <2>3, <3>1 DEF N!Saved
    <3>3. emitted' = latest
      BY <3>1, <3>2 DEF N!Emit
    <3>4. NumbersOK'
      BY <2>1, <3>3 DEF NotificationsInv, NumbersOK
    <3>5. emitted + 1 <= latest
      BY <3>1 DEF NotificationsInv, NumbersOK
    <3>6. FiltersOK'
      BY <2>1, <3>1, <3>2, <3>5, FiltersAreToldOf DEF NotificationsInv
    <3>7. SubscriptionsOK'
      BY <3>2, SubscribersAreToldOf DEF NotificationsInv
    <3>8. QED
      BY <3>4, <3>6, <3>7 DEF NotificationsInv
  <2>4. QED
    BY <2>2, <2>3
<1>4. CASE N!EmitLate
  <2>1. /\ eager /\ emitted < saved /\ N!Emit(emitted + 1)
        /\ UNCHANGED <<eager, latest, saved>>
    BY <1>4 DEF N!EmitLate, N!NextToEmit
  <2>2. emitted' = emitted + 1 /\ emitted + 1 <= latest
    BY <2>1 DEF N!Emit, NotificationsInv, NumbersOK
  <2>3. NumbersOK'
    BY <2>1, <2>2 DEF NotificationsInv, NumbersOK
  <2>4. FiltersOK'
    BY <2>1, <2>2, FiltersAreToldOf DEF NotificationsInv
  <2>5. SubscriptionsOK'
    BY <2>1, SubscribersAreToldOf DEF NotificationsInv
  <2>6. QED
    BY <2>3, <2>4, <2>5 DEF NotificationsInv
<1>5. QED
  BY <1>1, <1>2, <1>3, <1>4

\* A step of one filter leaves the others exact.
LEMMA OneFilterChanges ==
  ASSUME FiltersOK, NEW f \in Filters, UNCHANGED <<eager, emitted>>,
         filter' \in [Filters -> FilterRecords \cup {None}],
         polled' \in [Filters -> Seq(Nat)],
         \A g \in Filters \ {f} : filter'[g] = filter[g] /\ polled'[g] = polled[g],
         filter'[f] = None => polled'[f] = <<>>,
         filter'[f] # None =>
           filter'[f].since <= emitted /\ (N!IsExact(f)' \/ IsExempt(f)')
  PROVE  FiltersOK'
<1>1. ASSUME NEW g \in Filters \ {f} PROVE (N!IsExact(g)' <=> N!IsExact(g)) /\ (IsExempt(g)' <=> IsExempt(g))
  <2>1. filter'[g] = filter[g] /\ polled'[g] = polled[g]
    BY <1>1
  <2>2. N!Seen(g)' = N!Seen(g) /\ \A n : N!IsMeant(g, n)' <=> N!IsMeant(g, n)
    BY <2>1 DEF N!Seen, N!IsMeant
  <2>3. N!ToSet(N!Seen(g))' = N!ToSet(N!Seen(g))
    BY <2>2 DEF N!ToSet
  <2>4. N!IsExact(g)' <=> N!IsExact(g)
    BY <2>1, <2>2, <2>3 DEF N!IsExact
  <2>5. QED
    BY <2>1, <2>4 DEF IsExempt
<1>2. ASSUME NEW g \in Filters, filter'[g] # None
      PROVE  filter'[g].since <= emitted' /\ (N!IsExact(g)' \/ IsExempt(g)')
  <2>1. CASE g = f
    BY <1>2, <2>1
  <2>2. CASE g # f
    <3>1. filter'[g] = filter[g] /\ filter[g] # None
      BY <1>2, <2>2
    <3>2. QED
      BY <1>1, <2>2, <3>1 DEF FiltersOK
  <2>3. QED
    BY <2>1, <2>2
<1>3. \A g \in Filters : filter'[g] = None => polled'[g] = <<>>
  BY DEF FiltersOK
<1>4. QED
  BY <1>2, <1>3 DEF FiltersOK

LEMMA FiltersStep ==
  ASSUME NotificationsInv, NEW f \in Filters,
         \/ \E kind \in {"block", "log"}, range \in N!Ranges : N!NewFilter(f, kind, range)
         \/ N!GetFilterChanges(f) \/ N!UninstallFilter(f)
  PROVE  NotificationsInv'
<1>1. UNCHANGED <<eager, latest, saved, emitted, phase, listens, sent>>
  BY DEF N!NewFilter, N!GetFilterChanges, N!UninstallFilter, N!chainVars, N!socketVars
<1>2. NumbersOK' /\ SubscriptionsOK'
  BY <1>1, SubscriptionsKeptAlone DEF NotificationsInv, NumbersOK
<1>3. FiltersOK /\ emitted \in Nat
  BY DEF NotificationsInv, NumbersOK
<1>4. ASSUME NEW kind \in {"block", "log"}, NEW range \in N!Ranges, N!NewFilter(f, kind, range)
      PROVE  FiltersOK'
  <2> DEFINE r == [kind |-> kind, range |-> range, updates |-> <<>>, since |-> emitted]
  <2>1. filter[f] = None /\ filter' = [filter EXCEPT ![f] = r] /\ polled' = polled
    BY <1>4 DEF N!NewFilter
  <2>2. r \in FilterRecords
    BY <1>3, <1>4, EmptySeq DEF FilterRecords
  <2>3. r.since = emitted /\ r.updates = <<>> /\ r # None
    BY <2>2, NoneIsNoFilter
  <2> HIDE DEF r
  <2>4. /\ filter' \in [Filters -> FilterRecords \cup {None}] /\ filter'[f] = r
        /\ polled' \in [Filters -> Seq(Nat)] /\ polled'[f] = <<>>
        /\ \A g \in Filters \ {f} : filter'[g] = filter[g] /\ polled'[g] = polled[g]
    BY <1>3, <2>1, <2>2 DEF FiltersOK
  <2>5. N!Seen(f)' = <<>>
    <3>1. <<>> \o <<>> = <<>>
      BY ConcatEmptySeq, EmptySeq
    <3>2. QED
      BY <2>3, <2>4, <3>1 DEF N!Seen
  <2>6. N!IsExact(f)'
    <3>1. \A n \in filter'[f].since + 1 .. emitted' : FALSE
      BY <1>1, <1>3, <2>3, <2>4
    <3>2. DOMAIN (N!Seen(f)') = {}
      BY <2>5, EmptySeq, LenProperties
    <3>3. QED
      BY <3>1, <3>2 DEF N!IsExact, N!ToSet
  <2>7. QED
    BY <1>1, <1>3, <2>3, <2>4, <2>6, OneFilterChanges
<1>5. ASSUME N!GetFilterChanges(f) PROVE FiltersOK'
  <2>1. filter[f] # None
    BY <1>5 DEF N!GetFilterChanges
  <2>2. filter[f] \in FilterRecords /\ polled[f] \in Seq(Nat) /\ filter[f].updates \in Seq(Nat)
    BY <1>3, <2>1 DEF FiltersOK, FilterRecords
  <2>3. /\ filter' = [filter EXCEPT ![f] = [filter[f] EXCEPT !.updates = <<>>]]
        /\ polled' = [polled EXCEPT ![f] = polled[f] \o filter[f].updates]
    BY <1>5 DEF N!GetFilterChanges, N!UpdatesTaken
  <2> DEFINE r == [filter[f] EXCEPT !.updates = <<>>]
             q == polled[f] \o filter[f].updates
  <2>4. /\ r \in FilterRecords /\ r.updates = <<>> /\ r.kind = filter[f].kind
        /\ r.range = filter[f].range /\ r.since = filter[f].since
    BY <2>2, EmptySeq DEF FilterRecords
  <2>5. r # None
    BY <2>4, NoneIsNoFilter
  <2>6. q \in Seq(Nat) /\ q \o <<>> = q /\ q = N!Seen(f)
    <3>1. q \in Seq(Nat)
      BY <2>2, ConcatProperties
    <3> HIDE DEF q
    <3>2. q \o <<>> = q
      BY <3>1, ConcatEmptySeq
    <3>3. QED
      BY <3>1, <3>2 DEF q, N!Seen
  <2>7. filter' = [filter EXCEPT ![f] = r] /\ polled' = [polled EXCEPT ![f] = q]
    BY <2>3
  <2> HIDE DEF r, q
  <2>8. /\ filter' \in [Filters -> FilterRecords \cup {None}] /\ filter'[f] = r
        /\ polled' \in [Filters -> Seq(Nat)] /\ polled'[f] = q
        /\ \A g \in Filters \ {f} : filter'[g] = filter[g] /\ polled'[g] = polled[g]
    BY <1>3, <2>4, <2>6, <2>7 DEF FiltersOK
  <2>9. N!Seen(f)' = N!Seen(f)
    BY <2>4, <2>6, <2>8 DEF N!Seen
  <2>10. \A n : N!IsMeant(f, n)' <=> N!IsMeant(f, n)
    BY <2>4, <2>8 DEF N!IsMeant
  <2>11. (N!IsExact(f)' <=> N!IsExact(f)) /\ (IsExempt(f)' <=> IsExempt(f))
    <3>1. N!ToSet(N!Seen(f))' = N!ToSet(N!Seen(f))
      BY <2>9 DEF N!ToSet
    <3>2. filter'[f].since + 1 .. emitted' = filter[f].since + 1 .. emitted
      BY <1>1, <2>4, <2>8
    <3>3. N!IsExact(f)' <=> N!IsExact(f)
      BY <2>9, <2>10, <3>1, <3>2 DEF N!IsExact
    <3>4. QED
      BY <1>1, <2>4, <2>8, <3>3 DEF IsExempt
  <2>12. filter[f].since <= emitted /\ (N!IsExact(f) \/ IsExempt(f))
    BY <1>3, <2>1 DEF FiltersOK
  <2>13. QED
    BY <1>1, <1>3, <2>4, <2>5, <2>8, <2>11, <2>12, OneFilterChanges
<1>6. ASSUME N!UninstallFilter(f) PROVE FiltersOK'
  <2>1. filter' = [filter EXCEPT ![f] = None] /\ polled' = [polled EXCEPT ![f] = <<>>]
    BY <1>6 DEF N!UninstallFilter
  <2>2. /\ filter' \in [Filters -> FilterRecords \cup {None}] /\ filter'[f] = None
        /\ polled' \in [Filters -> Seq(Nat)] /\ polled'[f] = <<>>
        /\ \A g \in Filters \ {f} : filter'[g] = filter[g] /\ polled'[g] = polled[g]
    BY <1>3, <2>1, EmptySeq DEF FiltersOK
  <2>3. QED
    BY <1>1, <1>3, <2>2, OneFilterChanges
<1>7. QED
  BY <1>2, <1>4, <1>5, <1>6 DEF NotificationsInv

LEMMA SubscriptionsStep ==
  ASSUME NotificationsInv,
         \/ \E s \in Subscriptions :
              \/ \E k \in Sockets : N!Subscribe(s, k)
              \/ N!Subscribed(s) \/ N!Answer(s) \/ N!Unsubscribe(s)
         \/ \E k \in Sockets : N!SocketCloses(k)
  PROVE  NotificationsInv'
<1>1. UNCHANGED <<eager, latest, saved, emitted, filter, polled>>
  BY DEF N!Subscribe, N!Subscribed, N!Answer, N!Unsubscribe, N!SocketCloses, N!chainVars,
         N!filterVars
<1>2. NumbersOK' /\ FiltersOK'
  BY <1>1, FiltersKeptAlone DEF NotificationsInv, NumbersOK
<1>3. SubscriptionsOK
  BY DEF NotificationsInv
<1>4. ASSUME NEW s \in Subscriptions, NEW k \in Sockets, N!Subscribe(s, k)
      PROVE  SubscriptionsOK'
  BY <1>1, <1>3, <1>4 DEF N!Subscribe, SubscriptionsOK, N!NotifiedOfAll
<1>5. ASSUME NEW s \in Subscriptions, N!Subscribed(s)
      PROVE  SubscriptionsOK'
  BY <1>1, <1>3, <1>5 DEF N!Subscribed, SubscriptionsOK, N!NotifiedOfAll
<1>6. ASSUME NEW s \in Subscriptions, N!Answer(s)
      PROVE  SubscriptionsOK'
  <2>1. CASE N!StillThere(s)
    <3>1. /\ phase' = [phase EXCEPT ![s] = "answered"] /\ sent' = [sent EXCEPT ![s] = <<0>>]
          /\ listens' = listens
      BY <1>6, <2>1 DEF N!Answer
    <3>2. <<0>> \in Seq(Nat) /\ Len(<<0>>) = 1 /\ <<0>> # <<>>
      OBVIOUS
    <3>3. Tail(<<0>>) \in Seq(Nat) /\ Len(Tail(<<0>>)) = 0
      BY <3>2, HeadTailProperties
    <3>4. Tail(<<0>>) = [i \in 1..Len(Tail(<<0>>)) |-> emitted - Len(Tail(<<0>>)) + i]
      <4>1. 1..Len(Tail(<<0>>)) = {}
        BY <3>3
      <4>2. DOMAIN Tail(<<0>>) = {}
        BY <3>3, <4>1, LenProperties
      <4>3. Tail(<<0>>) \in [{} -> Nat]
        BY <3>3, <4>1, LenProperties
      <4>4. QED
        BY <4>1, <4>3
    <3>5. /\ \A t \in Subscriptions : sent'[t] \in Seq(Nat)
          /\ \A t \in Subscriptions : phase'[t] = "answered" => sent'[t] # <<>>
          /\ sent' \in [Subscriptions -> Seq(Nat)]
          /\ phase' \in [Subscriptions -> {"none", "asked", "subscribed", "answered", "dropped"}]
      BY <1>3, <3>1, <3>2 DEF SubscriptionsOK
    <3>6. N!NotifiedOfAll'
      <4> SUFFICES ASSUME NEW t \in Subscriptions, phase'[t] = "answered", t \in listens'
                   PROVE  Tail(sent'[t]) = [i \in 1 .. Len(Tail(sent'[t])) |->
                                              emitted' - Len(Tail(sent'[t])) + i]
        BY DEF N!NotifiedOfAll
      <4>1. CASE t = s
        <5>1. sent'[t] = <<0>>
          BY <1>3, <3>1, <4>1 DEF SubscriptionsOK
        <5>2. QED
          BY <1>1, <3>4, <5>1
      <4>2. CASE t # s
        <5>1. sent'[t] = sent[t] /\ phase[t] = "answered" /\ t \in listens
          BY <1>3, <3>1, <4>2 DEF SubscriptionsOK
        <5>2. QED
          BY <1>1, <1>3, <5>1 DEF SubscriptionsOK, N!NotifiedOfAll
      <4>3. QED
        BY <4>1, <4>2
    <3>7. QED
      BY <3>5, <3>6 DEF SubscriptionsOK
  <2>2. CASE ~N!StillThere(s)
    <3>1. /\ phase' = [phase EXCEPT ![s] = "dropped"] /\ UNCHANGED <<sent, listens>>
      BY <1>6, <2>2 DEF N!Answer
    <3>2. QED
      BY <1>1, <1>3, <3>1 DEF SubscriptionsOK, N!NotifiedOfAll
  <2>3. QED
    BY <2>1, <2>2
<1>7. ASSUME NEW s \in Subscriptions, N!Unsubscribe(s)
      PROVE  SubscriptionsOK'
  BY <1>1, <1>3, <1>7 DEF N!Unsubscribe, SubscriptionsOK, N!NotifiedOfAll
<1>8. ASSUME NEW k \in Sockets, N!SocketCloses(k)
      PROVE  SubscriptionsOK'
  BY <1>1, <1>3, <1>8 DEF N!SocketCloses, N!Disposed, SubscriptionsOK, N!NotifiedOfAll
<1>9. QED
  BY <1>2, <1>4, <1>5, <1>6, <1>7, <1>8 DEF NotificationsInv

LEMMA NotificationsStep ==
  NotificationsInv /\ [N!Next]_(N!vars) => NotificationsInv'
<1> SUFFICES ASSUME NotificationsInv, [N!Next]_(N!vars) PROVE NotificationsInv'
  OBVIOUS
<1>1. CASE N!Mine \/ N!StartSaving \/ N!Saved \/ N!EmitLate
  BY <1>1, BlocksStep
<1>2. ASSUME NEW f \in Filters,
             \/ \E range \in N!Ranges : N!NewFilter(f, "log", range)
             \/ N!NewFilter(f, "block", [from |-> Latest, to |-> Latest])
             \/ N!GetFilterChanges(f) \/ N!UninstallFilter(f)
      PROVE  NotificationsInv'
  <2>1. [from |-> Latest, to |-> Latest] \in N!Ranges
    BY DEF N!Ranges
  <2>2. \/ \E kind \in {"block", "log"}, range \in N!Ranges : N!NewFilter(f, kind, range)
        \/ N!GetFilterChanges(f) \/ N!UninstallFilter(f)
    BY <1>2, <2>1
  <2>3. QED
    BY <2>2, FiltersStep
<1>3. CASE \/ \E s \in Subscriptions :
                \/ \E k \in Sockets : N!Subscribe(s, k)
                \/ N!Subscribed(s) \/ N!Answer(s) \/ N!Unsubscribe(s)
           \/ \E k \in Sockets : N!SocketCloses(k)
  BY <1>3, SubscriptionsStep
<1>4. CASE UNCHANGED N!vars
  BY <1>4, FiltersKeptAlone, SubscriptionsKeptAlone
     DEF N!vars, N!chainVars, N!filterVars, N!socketVars, NotificationsInv, NumbersOK
<1>5. QED
  BY <1>1, <1>2, <1>3, <1>4 DEF N!Next

LEMMA NotificationsInvSuffices == NotificationsInv => ClientsAreTold
BY DEF NotificationsInv, FiltersOK, SubscriptionsOK, ClientsAreTold, N!FiltersAreExact, IsExempt

\* api.ts (eth_getFilterChanges, eth_subscribe) and ws-server.ts: however mining, polling and
\* the sockets interleave, a filter has for its client each block it is meant to see once
\* and in order, and a subscriber is told of the blocks one by one without a gap.
THEOREM ClientsTold == N!Spec => []ClientsAreTold
<1>1. N!Init => NotificationsInv
  BY NotificationsInit
<1>2. NotificationsInv /\ [N!Next]_(N!vars) => NotificationsInv'
  BY NotificationsStep
<1>3. NotificationsInv => ClientsAreTold
  BY NotificationsInvSuffices
<1>4. QED
  BY <1>1, <1>2, <1>3, PTL DEF N!Spec

-----------------------------------------------------------------------------

(***************************************************************************)
(* The server (packages/core/src/server.ts).                               *)
(***************************************************************************)
IsStopping(c) == pc[c] \in {"awaitingReady", "stopping"}

HasStopped(c) == pc[c] \in {"failed", "closed"}

PlacesOK ==
  /\ \A l \in Listens :
       pc[l] \in {"idle", "waiting", "awaitingReady", "stopping", "opened", "failed", "refused"}
  /\ \A c \in Closes : pc[c] \in {"idle", "awaitingReady", "stopping", "closed", "refused"}

\* A socket is asked for by a call that waits, and by one at a time.
SocketsOK ==
  /\ \A l \in Listens : socket[l] = "asked" => pc[l] = "waiting" /\ bound = {}
  /\ \A k, l \in Listens : socket[k] = "asked" /\ socket[l] = "asked" => k = l
  /\ app /\ serverStatus \in {"ready", "closed"} =>
       bound = {} /\ \A l \in Listens : socket[l] # "asked"

\* The socket that is known is that of a call that has not failed.
OwnerOK ==
  /\ S!SocketIsKnown
  /\ listenSocket # None =>
       pc[listenSocket] \in {"waiting", "opened"} /\ socket[listenSocket] = "open"

\* After a close() of the program no socket opens any more.
ClosesOK ==
  \A c \in Closes :
    IsStopping(c) \/ HasStopped(c) =>
      /\ listenSocket = None
      /\ \A l \in Listens : socket[l] # "asked"
      /\ app => serverStatus = "closing"

\* What each status says of the calls.
StatusOK ==
  /\ serverStatus = "ready" => \A l \in Listens : pc[l] = "idle"
  /\ serverStatus = "opening" =>
       \E l \in Listens : pc[l] = "waiting" /\ socket[l] \in {"asked", "failed"}
  /\ serverStatus = "open" => listenSocket # None
  /\ serverStatus = "closing" => \E c \in S!Callers : IsStopping(c)
  /\ serverStatus = "closed" /\ app =>
       \E l \in Listens : pc[l] = "waiting" /\ socket[l] = "failed"

\* What a close() has done when it waits, and when it has ended.
CloseOK ==
  /\ coordinator = "stopped" <=> \E c \in S!Callers : IsStopping(c) \/ HasStopped(c)
  /\ ~app => \E c \in S!Callers : HasStopped(c)
  /\ ~app => chain = "stopped" \/ (chain = "stopping" /\ \E c \in S!Callers : pc[c] = "stopping")

\* How far the start is.
StartOK ==
  /\ \A l \in Listens : pc[l] = "opened" => initializer = "resolved"
  /\ initializer = "resolved" => ready /\ coordinator # "paused"
  /\ ready => chain # "starting"
  /\ ready /\ coordinator # "stopped" => chain = "started"

CallsAndSockets == PlacesOK /\ SocketsOK /\ OwnerOK /\ ClosesOK /\ StatusOK

ServerInv == S!TypeOK /\ CallsAndSockets /\ CloseOK /\ StartOK

LEMMA ServersAreApart == Listens \cap Closes = {} /\ None \notin Listens
BY ServicesAssumption

LEMMA ServerInit == S!Init => ServerInv
<1> SUFFICES ASSUME S!Init PROVE ServerInv
  OBVIOUS
<1> USE DEF S!Init
<1>1. S!TypeOK
  BY DEF S!TypeOK
<1>2. PlacesOK /\ SocketsOK /\ StatusOK /\ StartOK
  BY DEF PlacesOK, SocketsOK, StatusOK, StartOK, S!Callers
<1>3. OwnerOK /\ ClosesOK /\ CloseOK
  BY DEF OwnerOK, S!SocketIsKnown, ClosesOK, CloseOK, S!Callers, IsStopping, HasStopped
<1>4. QED
  BY <1>1, <1>2, <1>3 DEF ServerInv, CallsAndSockets

LEMMA ServerTypes ==
  ASSUME S!TypeOK, [S!Next]_(S!vars)
  PROVE  S!TypeOK'
<1> USE DEF S!TypeOK, S!Callers
<1>1. ASSUME NEW l \in Listens, S!Listen(l) \/ S!SocketOpens(l) \/ S!SocketInUse(l)
      PROVE  S!TypeOK'
  BY <1>1 DEF S!Listen, S!SocketOpens, S!SocketInUse, S!connectorVars
<1>2. ASSUME NEW c \in S!Callers, S!StartClose(c) PROVE S!TypeOK'
  BY <1>2 DEF S!StartClose, S!OtherSockets
<1>3. ASSUME NEW l \in Listens, S!Settles(l) PROVE S!TypeOK'
  BY <1>2, <1>3 DEF S!Settles, S!connectorVars
<1>4. ASSUME NEW c \in Closes, S!Close(c) PROVE S!TypeOK'
  BY <1>2, <1>4 DEF S!Close, S!connectorVars
<1>5. ASSUME NEW c \in S!Callers, S!StopGoesOn(c) \/ S!StopEnds(c) PROVE S!TypeOK'
  <2>1. CASE S!StopGoesOn(c)
    BY <2>1 DEF S!StopGoesOn
  <2>2. CASE S!StopEnds(c)
    <3>1. S!PendingRejected \in [Connections -> {"none", "idle", "pending", "running"}]
      BY DEF S!PendingRejected, S!Answered
    <3>2. QED
      BY <2>2, <3>1 DEF S!StopEnds
  <2>3. QED
    BY <1>5, <2>1, <2>2
<1>6. CASE S!BlockchainReady \/ S!BlockchainFails \/ S!StartThrows \/ S!Resume
  BY <1>6 DEF S!BlockchainReady, S!BlockchainFails, S!StartThrows, S!Resume
<1>7. ASSUME NEW k \in Connections, S!Connect(k) \/ S!Post(k) \/ S!Respond(k) \/ S!Abort(k)
      PROVE  S!TypeOK'
  BY <1>7 DEF S!Connect, S!Post, S!Respond, S!Abort, S!Answered, S!connectorVars
<1>8. CASE UNCHANGED S!vars
  BY <1>8 DEF S!vars, S!connectorVars
<1>9. QED
  BY <1>1, <1>2, <1>3, <1>4, <1>5, <1>6, <1>7, <1>8 DEF S!Next

LEMMA ListenKeeps ==
  ASSUME ServerInv, NEW l \in Listens, S!Listen(l) \/ S!SocketOpens(l) \/ S!SocketInUse(l)
  PROVE  CallsAndSockets' /\ CloseOK' /\ StartOK'
<1> USE ServersAreApart DEF ServerInv, CallsAndSockets, S!TypeOK, S!Callers
<1>1. CASE S!Listen(l) /\ ~S!MayListen
  <2>1. /\ serverStatus \in {"opening", "open", "closing"} /\ pc[l] = "idle"
        /\ pc' = [pc EXCEPT ![l] = "refused"]
        /\ UNCHANGED <<serverStatus, socket, app, listenSocket, bound, isClosing, chain, ready,
                       initializer, coordinator, connection>>
    BY <1>1 DEF S!Listen, S!MayListen, S!connectorVars
  <2>2. PlacesOK' /\ SocketsOK' /\ OwnerOK'
    BY <2>1 DEF PlacesOK, SocketsOK, OwnerOK, S!SocketIsKnown
  <2>3. ClosesOK' /\ StatusOK'
    BY <2>1 DEF PlacesOK, ClosesOK, StatusOK, IsStopping, HasStopped
  <2>4. CloseOK' /\ StartOK'
    BY <2>1 DEF CloseOK, StartOK, IsStopping, HasStopped
  <2>5. QED
    BY <2>2, <2>3, <2>4
<1>2. CASE S!Listen(l) /\ S!MayListen
  <2>1. /\ serverStatus \in {"ready", "closed"} /\ serverStatus' = "opening" /\ pc[l] = "idle"
        /\ pc' = [pc EXCEPT ![l] = "waiting"]
        /\ socket' = [socket EXCEPT ![l] = IF app THEN "asked" ELSE "failed"]
        /\ UNCHANGED <<app, listenSocket, bound, isClosing, chain, ready,
                       initializer, coordinator, connection>>
    BY <1>2 DEF S!Listen, S!MayListen, S!connectorVars
  <2>2. PlacesOK' /\ SocketsOK' /\ OwnerOK'
    BY <2>1 DEF PlacesOK, SocketsOK, OwnerOK, S!SocketIsKnown
  <2>3. ClosesOK' /\ StatusOK'
    BY <2>1 DEF PlacesOK, ClosesOK, StatusOK, IsStopping, HasStopped
  <2>4. CloseOK' /\ StartOK'
    BY <2>1 DEF CloseOK, StartOK, IsStopping, HasStopped
  <2>5. QED
    BY <2>2, <2>3, <2>4
<1>3. CASE S!SocketOpens(l)
  <2>1. /\ socket[l] = "asked" /\ socket' = [socket EXCEPT ![l] = "open"]
        /\ serverStatus' = "open" /\ listenSocket' = l /\ bound' = bound \cup {l}
        /\ UNCHANGED <<app, isClosing, chain, ready, initializer, coordinator, pc, connection>>
    BY <1>3 DEF S!SocketOpens, S!connectorVars
  <2>2. pc[l] = "waiting" /\ bound = {} /\ \A k \in Listens \ {l} : socket[k] # "asked"
    BY <2>1 DEF SocketsOK
  <2>3. PlacesOK' /\ SocketsOK' /\ OwnerOK'
    BY <2>1, <2>2 DEF PlacesOK, SocketsOK, OwnerOK, S!SocketIsKnown
  <2>4. ClosesOK' /\ StatusOK'
    BY <2>1 DEF ClosesOK, StatusOK, IsStopping, HasStopped
  <2>5. CloseOK' /\ StartOK'
    BY <2>1 DEF CloseOK, StartOK, IsStopping, HasStopped
  <2>6. QED
    BY <2>3, <2>4, <2>5
<1>4. CASE S!SocketInUse(l)
  <2>1. /\ socket[l] = "asked" /\ socket' = [socket EXCEPT ![l] = "failed"]
        /\ serverStatus' = "closed"
        /\ UNCHANGED <<app, listenSocket, bound, isClosing, chain, ready, initializer,
                       coordinator, pc, connection>>
    BY <1>4 DEF S!SocketInUse, S!connectorVars
  <2>2. pc[l] = "waiting" /\ bound = {} /\ \A k \in Listens \ {l} : socket[k] # "asked"
    BY <2>1 DEF SocketsOK
  <2>3. PlacesOK' /\ SocketsOK' /\ OwnerOK'
    BY <2>1, <2>2 DEF PlacesOK, SocketsOK, OwnerOK, S!SocketIsKnown
  <2>4. ClosesOK' /\ StatusOK'
    BY <2>1, <2>2 DEF ClosesOK, StatusOK, IsStopping, HasStopped
  <2>5. CloseOK' /\ StartOK'
    BY <2>1 DEF CloseOK, StartOK, IsStopping, HasStopped
  <2>6. QED
    BY <2>3, <2>4, <2>5
<1>5. QED
  BY <1>1, <1>2, <1>3, <1>4

\* A close() begins, of the program or of a listen() that has failed.
LEMMA StartCloseKeeps ==
  ASSUME ServerInv, NEW c \in S!Callers, S!StartClose(c),
         c \in Listens => pc[c] = "waiting" /\ socket[c] # "asked",
         c \in Closes => pc[c] = "idle" /\ S!MayClose
  PROVE  CallsAndSockets' /\ CloseOK' /\ StartOK'
<1> USE ServersAreApart DEF ServerInv, CallsAndSockets, S!TypeOK, S!Callers
<1>1. /\ serverStatus' = "closing" /\ listenSocket' = None /\ bound' = bound \ {listenSocket}
      /\ isClosing' = TRUE /\ coordinator' = "stopped"
      /\ chain' = (IF chain = "starting" THEN chain ELSE "stopping")
      /\ pc' = [pc EXCEPT ![c] = IF chain = "starting" THEN "awaitingReady" ELSE "stopping"]
      /\ UNCHANGED <<app, ready, initializer, socket, connection>>
  BY DEF S!StartClose, S!OtherSockets, S!HasToWait
<1>2. bound' = {}
  BY <1>1 DEF OwnerOK, S!SocketIsKnown
<1>3. PlacesOK' /\ SocketsOK' /\ OwnerOK'
  <2>1. PlacesOK'
    BY <1>1 DEF PlacesOK
  <2>2. SocketsOK'
    BY <1>1, <1>2 DEF PlacesOK, SocketsOK
  <2>3. OwnerOK'
    BY <1>1, <1>2 DEF OwnerOK, S!SocketIsKnown
  <2>4. QED
    BY <2>1, <2>2, <2>3
<1>4. ClosesOK'
  <2>1. ASSUME c \in Closes PROVE \A l \in Listens : socket[l] # "asked"
    <3>1. serverStatus \in {"ready", "open"}
      BY <2>1 DEF S!MayClose
    <3>2. CASE serverStatus = "ready"
      BY <3>2 DEF StatusOK, SocketsOK
    <3>3. CASE serverStatus = "open"
      <4>1. listenSocket \in bound
        BY <3>3 DEF StatusOK, OwnerOK, S!SocketIsKnown
      <4>2. QED
        BY <4>1 DEF SocketsOK
    <3>4. QED
      BY <3>1, <3>2, <3>3
  <2>2. QED
    BY <1>1, <2>1 DEF ClosesOK, IsStopping, HasStopped
<1>5. StatusOK'
  BY <1>1 DEF StatusOK, IsStopping
<1>6. CloseOK'
  BY <1>1 DEF CloseOK, IsStopping, HasStopped
<1>7. StartOK'
  BY <1>1 DEF StartOK
<1>8. QED
  BY <1>3, <1>4, <1>5, <1>6, <1>7

LEMMA SettlesKeeps ==
  ASSUME ServerInv, NEW l \in Listens, S!Settles(l)
  PROVE  CallsAndSockets' /\ CloseOK' /\ StartOK'
<1>1. CASE initializer = "resolved" /\ socket[l] = "open"
  <2> USE ServersAreApart DEF ServerInv, CallsAndSockets, S!TypeOK, S!Callers
  <2>1. /\ pc[l] = "waiting" /\ pc' = [pc EXCEPT ![l] = "opened"]
        /\ UNCHANGED <<serverStatus, socket, app, listenSocket, bound, isClosing, chain, ready,
                       initializer, coordinator, connection>>
    BY <1>1 DEF S!Settles, S!connectorVars
  <2>2. PlacesOK' /\ SocketsOK' /\ OwnerOK'
    BY <1>1, <2>1 DEF PlacesOK, SocketsOK, OwnerOK, S!SocketIsKnown
  <2>3. ClosesOK'
    BY <2>1 DEF ClosesOK, IsStopping, HasStopped
  <2>4. StatusOK'
    BY <1>1, <2>1 DEF StatusOK, IsStopping
  <2>5. CloseOK' /\ StartOK'
    BY <1>1, <2>1 DEF CloseOK, StartOK, IsStopping, HasStopped
  <2>6. QED
    BY <2>2, <2>3, <2>4, <2>5
<1>2. CASE ~(initializer = "resolved" /\ socket[l] = "open")
  <2>1. S!StartClose(l) /\ pc[l] = "waiting" /\ socket[l] # "asked" /\ l \in S!Callers
    BY <1>2 DEF S!Settles, S!Callers
  <2>2. l \notin Closes
    BY ServersAreApart
  <2>3. QED
    BY <2>1, <2>2, StartCloseKeeps
<1>3. QED
  BY <1>1, <1>2

LEMMA CloseKeeps ==
  ASSUME ServerInv, NEW c \in Closes, S!Close(c)
  PROVE  CallsAndSockets' /\ CloseOK' /\ StartOK'
<1>1. CASE S!MayClose
  <2>1. S!StartClose(c) /\ pc[c] = "idle" /\ c \in S!Callers
    BY <1>1 DEF S!Close, S!Callers
  <2>2. c \notin Listens
    BY ServersAreApart
  <2>3. QED
    BY <1>1, <2>1, <2>2, StartCloseKeeps
<1>2. CASE ~S!MayClose
  <2> USE ServersAreApart DEF ServerInv, CallsAndSockets, S!TypeOK, S!Callers
  <2>1. /\ pc[c] = "idle" /\ pc' = [pc EXCEPT ![c] = "refused"]
        /\ UNCHANGED <<serverStatus, socket, app, listenSocket, bound, isClosing, chain, ready,
                       initializer, coordinator, connection>>
    BY <1>2 DEF S!Close, S!connectorVars
  <2>2. PlacesOK' /\ SocketsOK' /\ OwnerOK'
    BY <2>1 DEF PlacesOK, SocketsOK, OwnerOK, S!SocketIsKnown
  <2>3. ClosesOK' /\ StatusOK'
    BY <2>1 DEF ClosesOK, StatusOK, IsStopping, HasStopped
  <2>4. CloseOK' /\ StartOK'
    BY <2>1 DEF CloseOK, StartOK, IsStopping, HasStopped
  <2>5. QED
    BY <2>2, <2>3, <2>4
<1>3. QED
  BY <1>1, <1>2

LEMMA StopKeeps ==
  ASSUME ServerInv, NEW c \in S!Callers, S!StopGoesOn(c) \/ S!StopEnds(c)
  PROVE  CallsAndSockets' /\ CloseOK' /\ StartOK'
<1> USE ServersAreApart DEF ServerInv, CallsAndSockets, S!TypeOK, S!Callers
<1>1. CASE S!StopGoesOn(c)
  <2>1. /\ pc[c] = "awaitingReady" /\ pc' = [pc EXCEPT ![c] = "stopping"] /\ chain' = "stopping"
        /\ UNCHANGED <<serverStatus, socket, app, listenSocket, bound, isClosing, ready,
                       initializer, coordinator, connection>>
    BY <1>1 DEF S!StopGoesOn
  <2>2. PlacesOK' /\ SocketsOK' /\ OwnerOK'
    BY <2>1 DEF PlacesOK, SocketsOK, OwnerOK, S!SocketIsKnown
  <2>3. ClosesOK' /\ StatusOK'
    BY <2>1 DEF ClosesOK, StatusOK, IsStopping, HasStopped
  <2>4. CloseOK'
    BY <2>1 DEF CloseOK, IsStopping, HasStopped
  <2>5. StartOK'
    BY <2>1 DEF StartOK, CloseOK, IsStopping
  <2>6. QED
    BY <2>2, <2>3, <2>4, <2>5
<1>2. CASE S!StopEnds(c)
  <2>1. /\ pc[c] = "stopping" /\ serverStatus' = "closed" /\ app' = FALSE /\ chain' = "stopped"
        /\ pc' = [pc EXCEPT ![c] = IF c \in Listens THEN "failed" ELSE "closed"]
        /\ UNCHANGED <<socket, listenSocket, bound, isClosing, ready, initializer, coordinator>>
    BY <1>2 DEF S!StopEnds
  <2>2. PlacesOK' /\ SocketsOK' /\ OwnerOK'
    BY <2>1 DEF PlacesOK, SocketsOK, OwnerOK, S!SocketIsKnown
  <2>3. ClosesOK' /\ StatusOK'
    BY <2>1 DEF ClosesOK, StatusOK, IsStopping, HasStopped
  <2>4. CloseOK'
    BY <2>1 DEF CloseOK, IsStopping, HasStopped
  <2>5. StartOK'
    BY <2>1 DEF StartOK, CloseOK, IsStopping
  <2>6. QED
    BY <2>2, <2>3, <2>4, <2>5
<1>3. QED
  BY <1>1, <1>2

LEMMA ChainKeeps ==
  ASSUME ServerInv, S!BlockchainReady \/ S!BlockchainFails \/ S!StartThrows \/ S!Resume
  PROVE  CallsAndSockets' /\ CloseOK' /\ StartOK'
<1>1. UNCHANGED <<serverStatus, app, listenSocket, bound, pc, socket>>
  BY DEF S!BlockchainReady, S!BlockchainFails, S!StartThrows, S!Resume
<1>2. CallsAndSockets'
  BY <1>1 DEF ServerInv, CallsAndSockets, PlacesOK, SocketsOK, OwnerOK, S!SocketIsKnown,
              ClosesOK, StatusOK, IsStopping, HasStopped
<1>3. CloseOK'
  BY <1>1 DEF ServerInv, CloseOK, IsStopping, HasStopped, S!TypeOK,
              S!BlockchainReady, S!BlockchainFails, S!StartThrows, S!Resume
<1>4. StartOK'
  BY <1>1 DEF ServerInv, StartOK, S!TypeOK,
              S!BlockchainReady, S!BlockchainFails, S!StartThrows, S!Resume
<1>5. QED
  BY <1>2, <1>3, <1>4

LEMMA ConnectionsKeep ==
  ASSUME ServerInv, UNCHANGED <<serverStatus, app, listenSocket, bound, isClosing, chain, ready,
                                initializer, coordinator, pc, socket>>
  PROVE  CallsAndSockets' /\ CloseOK' /\ StartOK'
BY DEF ServerInv, CallsAndSockets, PlacesOK, SocketsOK, OwnerOK, S!SocketIsKnown, ClosesOK,
       StatusOK, CloseOK, StartOK, IsStopping, HasStopped

LEMMA ServerStep == ServerInv /\ [S!Next]_(S!vars) => ServerInv'
<1> SUFFICES ASSUME ServerInv, [S!Next]_(S!vars) PROVE ServerInv'
  OBVIOUS
<1>1. S!TypeOK'
  BY ServerTypes DEF ServerInv
<1>2. CallsAndSockets' /\ CloseOK' /\ StartOK'
  <2>1. ASSUME NEW k \in Connections, S!Connect(k) \/ S!Post(k) \/ S!Respond(k) \/ S!Abort(k)
        PROVE  UNCHANGED <<serverStatus, app, listenSocket, bound, isClosing, chain, ready,
                           initializer, coordinator, pc, socket>>
    BY <2>1 DEF S!Connect, S!Post, S!Respond, S!Abort, S!connectorVars
  <2>2. CASE UNCHANGED S!vars
    BY <2>2, ConnectionsKeep DEF S!vars, S!connectorVars
  <2>3. QED
    BY <2>1, <2>2, ListenKeeps, SettlesKeeps, CloseKeeps, StopKeeps, ChainKeeps, ConnectionsKeep
       DEF S!Next
<1>3. QED
  BY <1>1, <1>2 DEF ServerInv

LEMMA ServerIsTrue == ServerInv => S!StatusIsTrue /\ S!SocketIsKnown
<1> SUFFICES ASSUME ServerInv PROVE S!StatusIsTrue /\ S!SocketIsKnown
  OBVIOUS
<1> USE DEF ServerInv, CallsAndSockets, S!TypeOK
<1>1. S!SocketIsKnown
  BY DEF OwnerOK
<1>2. ASSUME S!AtRest, ~S!OpenedLate
      PROVE  /\ serverStatus \in {"ready", "open", "closed"}
             /\ serverStatus = "open" =>
                  listenSocket # None /\ chain = "started" /\ coordinator = "running" /\ app
             /\ serverStatus = "closed" =>
                  listenSocket = None /\ chain = "stopped" /\ coordinator = "stopped" /\ ~app
  <2>1. \A c \in S!Callers : pc[c] # "waiting" /\ ~IsStopping(c)
    BY <1>2 DEF S!AtRest, S!InProgress, IsStopping
  <2>2. \A l \in Listens : l \in S!Callers
    BY DEF S!Callers
  <2>3. serverStatus \in {"ready", "open", "closed"}
    BY <2>1, <2>2 DEF StatusOK
  <2>4. ASSUME listenSocket # None PROVE pc[listenSocket] = "opened" /\ listenSocket \in Listens
    BY <2>1, <2>2, <2>4 DEF OwnerOK
  <2>5. ASSUME listenSocket # None, NEW c \in S!Callers, HasStopped(c) PROVE FALSE
    <3>1. CASE c \in Closes
      BY <2>5, <3>1 DEF ClosesOK
    <3>2. CASE c \in Listens
      <4>1. pc[c] = "failed"
        BY <2>5, <3>2 DEF HasStopped, PlacesOK
      <4>2. c # listenSocket
        BY <2>4, <2>5, <4>1
      <4>3. QED
        BY <1>2, <2>4, <2>5, <3>2, <4>1, <4>2 DEF S!OpenedLate
    <3>3. QED
      BY <2>5, <3>1, <3>2 DEF S!Callers
  <2>6. ASSUME serverStatus = "open"
        PROVE  listenSocket # None /\ chain = "started" /\ coordinator = "running" /\ app
    <3>1. listenSocket # None
      BY <2>6 DEF StatusOK
    <3>2. app /\ coordinator # "stopped"
      BY <2>1, <2>5, <3>1 DEF CloseOK
    <3>3. ready /\ coordinator # "paused"
      BY <2>4, <3>1 DEF StartOK
    <3>4. QED
      BY <3>1, <3>2, <3>3 DEF StartOK
  <2>7. ASSUME serverStatus = "closed"
        PROVE  listenSocket = None /\ chain = "stopped" /\ coordinator = "stopped" /\ ~app
    <3>1. ~app
      BY <2>1, <2>2, <2>7 DEF StatusOK
    <3>2. PICK c \in S!Callers : HasStopped(c)
      BY <3>1 DEF CloseOK
    <3>3. chain = "stopped" /\ coordinator = "stopped"
      BY <2>1, <3>1, <3>2 DEF CloseOK, IsStopping
    <3>4. QED
      BY <2>5, <3>1, <3>2, <3>3
  <2>8. QED
    BY <2>3, <2>6, <2>7
<1>3. QED
  BY <1>1, <1>2 DEF S!StatusIsTrue

\* server.ts: when no call of listen() or close() is in progress the status tells the truth,
\* and the only socket that accepts connections is the one the next close() will close.
THEOREM ServerStatusIsTrue == S!Spec => [](S!StatusIsTrue /\ S!SocketIsKnown)
<1>1. S!Init => ServerInv
  BY ServerInit
<1>2. ServerInv /\ [S!Next]_(S!vars) => ServerInv'
  BY ServerStep
<1>3. ServerInv => S!StatusIsTrue /\ S!SocketIsKnown
  BY ServerIsTrue
<1>4. QED
  BY <1>1, <1>2, <1>3, PTL DEF S!Spec

-----------------------------------------------------------------------------

(***************************************************************************)
(* The program around a server (packages/cli/src/cli.ts).                  *)
(***************************************************************************)
\* It listens once, closes only a server that is open, and is announced by a listen() that
\* has ended well.
ProgramInv ==
  /\ \A k, l \in Listens : pc[k] # "idle" /\ pc[l] # "idle" => k = l
  /\ \A c \in Closes : pc[c] # "refused"
  /\ started => \E l \in Listens : pc[l] = "opened"

\* The steps of the program's server are steps of a server.
LEMMA SameServer ==
  /\ C!Callers = S!Callers /\ (UNCHANGED C!vars <=> UNCHANGED S!vars)
  /\ \A l \in Listens : /\ C!Listen(l) <=> S!Listen(l)
                        /\ C!SocketOpens(l) <=> S!SocketOpens(l)
                        /\ C!SocketInUse(l) <=> S!SocketInUse(l)
                        /\ C!Settles(l) <=> S!Settles(l)
  /\ \A c \in Closes : C!Close(c) <=> S!Close(c)
  /\ \A c \in S!Callers : /\ C!StopGoesOn(c) <=> S!StopGoesOn(c)
                          /\ C!StopEnds(c) <=> S!StopEnds(c)
  /\ C!BlockchainReady <=> S!BlockchainReady
  /\ C!BlockchainFails <=> S!BlockchainFails
  /\ C!StartThrows <=> S!StartThrows
  /\ C!Resume <=> S!Resume
<1>1. /\ C!Callers = S!Callers /\ (UNCHANGED C!vars <=> UNCHANGED S!vars)
      /\ C!connectorVars' = S!connectorVars' /\ C!connectorVars = S!connectorVars
  BY DEF C!Callers, S!Callers, C!vars, S!vars, C!connectorVars, S!connectorVars
<1>2. ASSUME NEW l \in Listens
      PROVE  /\ C!Listen(l) <=> S!Listen(l)
             /\ C!SocketOpens(l) <=> S!SocketOpens(l)
             /\ C!SocketInUse(l) <=> S!SocketInUse(l)
  BY <1>1 DEF C!Listen, S!Listen, C!MayListen, S!MayListen, C!SocketOpens, S!SocketOpens,
              C!SocketInUse, S!SocketInUse
<1>3. ASSUME NEW c \in S!Callers PROVE C!StartClose(c) <=> S!StartClose(c)
  BY DEF C!StartClose, S!StartClose, C!OtherSockets, S!OtherSockets, C!HasToWait, S!HasToWait
<1>4. ASSUME NEW l \in Listens PROVE C!Settles(l) <=> S!Settles(l)
  <2>1. l \in S!Callers
    BY DEF S!Callers
  <2>2. QED
    BY <1>1, <1>3, <2>1 DEF C!Settles, S!Settles
<1>5. ASSUME NEW c \in Closes PROVE C!Close(c) <=> S!Close(c)
  <2>1. c \in S!Callers
    BY DEF S!Callers
  <2>2. QED
    BY <1>1, <1>3, <2>1 DEF C!Close, S!Close, C!MayClose, S!MayClose
<1>6. ASSUME NEW c \in S!Callers
      PROVE  (C!StopGoesOn(c) <=> S!StopGoesOn(c)) /\ (C!StopEnds(c) <=> S!StopEnds(c))
  BY DEF C!StopGoesOn, S!StopGoesOn, C!StopEnds, S!StopEnds, C!PendingRejected,
         S!PendingRejected, C!Answered, S!Answered
<1>7. /\ C!BlockchainReady <=> S!BlockchainReady
      /\ C!BlockchainFails <=> S!BlockchainFails
      /\ C!StartThrows <=> S!StartThrows
      /\ C!Resume <=> S!Resume
  BY DEF C!BlockchainReady, S!BlockchainReady, C!BlockchainFails, S!BlockchainFails,
         C!StartThrows, S!StartThrows, C!Resume, S!Resume
<1>8. QED
  BY <1>1, <1>2, <1>4, <1>5, <1>6, <1>7

\* The steps of the server that the program lets happen, besides a listen().
ProgramGoesOn ==
  \/ \E c \in Closes : S!MayClose /\ S!Close(c)
  \/ \E c \in S!Callers : S!StopGoesOn(c) \/ S!StopEnds(c)
  \/ \E l \in Listens : S!SocketOpens(l) \/ S!SocketInUse(l) \/ S!Settles(l)
  \/ S!BlockchainReady \/ S!BlockchainFails \/ S!StartThrows \/ S!Resume
  \/ UNCHANGED S!vars

LEMMA ProgramSteps ==
  ASSUME C!CliNext
  PROVE  \/ \E l \in Listens : (\A k \in Listens : pc[k] = "idle") /\ S!Listen(l)
         \/ ProgramGoesOn
<1>1. ASSUME NEW l \in Listens, C!Starts(l)
      PROVE  (\A k \in Listens : pc[k] = "idle") /\ S!Listen(l)
  BY <1>1, SameServer DEF C!Starts
<1>2. ASSUME C!CloseHandler PROVE ProgramGoesOn
  <2>1. (\E c \in Closes : S!MayClose /\ S!Close(c)) \/ UNCHANGED S!vars
    BY <1>2, SameServer DEF C!CloseHandler, C!ClosesNow, S!MayClose
  <2>2. QED
    BY <2>1 DEF ProgramGoesOn
<1>3. ASSUME NEW l \in Listens, C!StartGanache(l) PROVE ProgramGoesOn
  <2>1. C!CloseHandler \/ UNCHANGED C!vars
    BY <1>3 DEF C!StartGanache, C!vars, C!connectorVars
  <2>2. QED
    BY <1>2, <2>1, SameServer DEF ProgramGoesOn
<1>4. ASSUME C!HandleSignal PROVE ProgramGoesOn
  BY <1>2, <1>4 DEF C!HandleSignal
<1>5. ASSUME NEW c \in C!Callers, C!CloseEnds(c) PROVE ProgramGoesOn
  BY <1>5, SameServer DEF C!CloseEnds, ProgramGoesOn
<1>6. ASSUME C!ServerGoesOn PROVE ProgramGoesOn
  BY <1>6, SameServer DEF C!ServerGoesOn, ProgramGoesOn
<1>7. QED
  BY <1>1, <1>3, <1>4, <1>5, <1>6 DEF C!CliNext

\* After such a step no call of listen() has begun that had not, one that has ended well
\* stays where it is, and no call of close() has been refused.
LEMMA ProgramPlaces ==
  ASSUME S!TypeOK, ProgramGoesOn
  PROVE  /\ \A l \in Listens : pc[l] = "idle" => pc'[l] = "idle"
         /\ \A l \in Listens : pc[l] = "opened" => pc'[l] = "opened"
         /\ \A c \in Closes : pc[c] # "refused" => pc'[c] # "refused"
<1> USE ServersAreApart DEF S!TypeOK, S!Callers
<1>1. ASSUME NEW c \in Closes, S!MayClose, S!Close(c)
      PROVE  pc[c] = "idle" /\ \E p \in {"awaitingReady", "stopping"} : pc' = [pc EXCEPT ![c] = p]
  BY <1>1 DEF S!Close, S!StartClose
<1>2. ASSUME NEW c \in S!Callers, S!StopGoesOn(c) \/ S!StopEnds(c)
      PROVE  /\ pc[c] \in {"awaitingReady", "stopping"}
             /\ \E p \in {"stopping", "failed", "closed"} : pc' = [pc EXCEPT ![c] = p]
  BY <1>2 DEF S!StopGoesOn, S!StopEnds
<1>3. ASSUME NEW l \in Listens, S!Settles(l)
      PROVE  /\ pc[l] = "waiting"
             /\ \E p \in {"opened", "awaitingReady", "stopping"} : pc' = [pc EXCEPT ![l] = p]
  BY <1>3 DEF S!Settles, S!StartClose
<1>4. ASSUME \/ \E l \in Listens : S!SocketOpens(l) \/ S!SocketInUse(l)
             \/ S!BlockchainReady \/ S!BlockchainFails \/ S!StartThrows \/ S!Resume
             \/ UNCHANGED S!vars
      PROVE  pc' = pc
  BY <1>4 DEF S!SocketOpens, S!SocketInUse, S!BlockchainReady, S!BlockchainFails, S!StartThrows,
              S!Resume, S!vars
<1>5. CASE \E c \in Closes : S!MayClose /\ S!Close(c)
  BY <1>1, <1>5
<1>6. CASE \E c \in S!Callers : S!StopGoesOn(c) \/ S!StopEnds(c)
  BY <1>2, <1>6
<1>7. CASE \E l \in Listens : S!Settles(l)
  BY <1>3, <1>7
<1>8. CASE \/ \E l \in Listens : S!SocketOpens(l) \/ S!SocketInUse(l)
           \/ S!BlockchainReady \/ S!BlockchainFails \/ S!StartThrows \/ S!Resume
           \/ UNCHANGED S!vars
  BY <1>4, <1>8
<1>9. QED
  BY <1>5, <1>6, <1>7, <1>8 DEF ProgramGoesOn

LEMMA ProgramStep ==
  ASSUME ServerInv, ProgramInv, C!CliNext
  PROVE  ServerInv' /\ ProgramInv'
<1>1. ServerInv'
  <2>1. [S!Next]_(S!vars)
    BY ProgramSteps DEF ProgramGoesOn, S!Next
  <2>2. QED
    BY <2>1, ServerStep
<1>2. S!TypeOK
  BY DEF ServerInv
<1>3. \A k, l \in Listens : pc'[k] # "idle" /\ pc'[l] # "idle" => k = l
  <2>1. ASSUME NEW i \in Listens, \A k \in Listens : pc[k] = "idle", S!Listen(i)
        PROVE  \A k \in Listens : pc'[k] # "idle" => k = i
    BY <1>2, <2>1 DEF S!Listen, S!TypeOK, S!Callers
  <2>2. CASE ProgramGoesOn
    BY <1>2, <2>2, ProgramPlaces DEF ProgramInv
  <2>3. QED
    BY <2>1, <2>2, ProgramSteps
<1>4. \A c \in Closes : pc'[c] # "refused"
  <2>1. ASSUME NEW i \in Listens, S!Listen(i)
        PROVE  \A c \in Closes : pc'[c] = pc[c]
    BY <1>2, <2>1, ServersAreApart DEF S!Listen, S!TypeOK, S!Callers
  <2>2. CASE ProgramGoesOn
    BY <1>2, <2>2, ProgramPlaces DEF ProgramInv
  <2>3. QED
    BY <2>1, <2>2, ProgramSteps DEF ProgramInv
<1>5. started' => \E l \in Listens : pc'[l] = "opened"
  <2>1. \A l \in Listens : pc[l] = "opened" => pc'[l] = "opened"
    <3>1. ASSUME NEW i \in Listens, \A k \in Listens : pc[k] = "idle"
          PROVE  \A l \in Listens : pc[l] # "opened"
      BY <3>1
    <3>2. QED
      BY <1>2, <3>1, ProgramSteps, ProgramPlaces
  <2>2. started' => started \/ \E l \in Listens : pc[l] = "opened"
    <3>1. ASSUME NEW l \in Listens, C!StartGanache(l), started'
          PROVE  started \/ pc[l] = "opened"
      BY <3>1 DEF C!StartGanache, C!IsOver
    <3>2. CASE (\E l \in Listens : C!Starts(l)) \/ C!HandleSignal
               \/ (\E c \in C!Callers : C!CloseEnds(c)) \/ C!ServerGoesOn
      BY <3>2 DEF C!Starts, C!HandleSignal, C!CloseEnds, C!ServerGoesOn, C!cliVars
    <3>3. QED
      BY <3>1, <3>2 DEF C!CliNext
  <2>3. QED
    BY <2>1, <2>2 DEF ProgramInv
<1>6. QED
  BY <1>1, <1>3, <1>4, <1>5 DEF ProgramInv

LEMMA ProgramIsGraceful == ServerInv /\ ProgramInv => C!ShutdownIsGraceful
<1> SUFFICES ASSUME ServerInv, ProgramInv, started
             PROVE  serverStatus \in {"open", "closing", "closed"} /\ ready
  BY DEF ProgramInv, C!ShutdownIsGraceful
<1>1. PICK l \in Listens : pc[l] = "opened"
  BY DEF ProgramInv
<1>2. ready
  BY <1>1 DEF ServerInv, StartOK
<1>3. serverStatus # "ready" /\ serverStatus # "opening"
  BY <1>1 DEF ServerInv, CallsAndSockets, StatusOK, ProgramInv
<1>4. QED
  BY <1>2, <1>3 DEF ServerInv, S!TypeOK

\* server.ts and cli.ts (startGanache, closeHandler): in every behaviour of the services the
\* status of a server at rest tells the truth and its socket is known; and in those of the
\* program no signal makes it call a close() that throws, and a server it has announced is
\* open or has been closed since.
THEOREM StatusTold == MCSpec => []StatusIsTrue
<1> DEFINE Inv == ServerInv /\ (part = "cli" => ProgramInv)
<1>1. MCInit => Inv
  <2> SUFFICES ASSUME MCInit PROVE Inv
    OBVIOUS
  <2>1. S!Init /\ C!CliInit
    BY DEF MCInit
  <2>2. ProgramInv
    BY <2>1, ServersAreApart DEF S!Init, C!CliInit, ProgramInv, S!Callers
  <2>3. QED
    BY <2>1, <2>2, ServerInit
<1>2. Inv /\ [MCNext]_<<part, vars, serviceVars>> => Inv'
  <2> SUFFICES ASSUME Inv, [MCNext]_<<part, vars, serviceVars>> PROVE Inv'
    OBVIOUS
  <2>1. CASE part = "server" /\ S!Next /\ part' = part
    BY <2>1, ServerStep
  <2>2. CASE part = "cli" /\ C!CliNext /\ part' = part
    BY <2>2, ProgramStep
  <2>3. CASE UNCHANGED <<part, serverVars>> /\ (part = "cli" => UNCHANGED cliVars)
    <3>1. UNCHANGED S!vars
      BY <2>3 DEF serverVars, S!vars, S!connectorVars
    <3>2. ServerInv'
      BY <3>1, ServerStep
    <3>3. ASSUME part = "cli" PROVE ProgramInv'
      BY <2>3, <3>3 DEF serverVars, cliVars, ProgramInv
    <3>4. QED
      BY <2>3, <3>2, <3>3
  <2>4. QED
    BY <2>1, <2>2, <2>3 DEF MCNext, serviceVars
<1>3. Inv => StatusIsTrue
  BY ServerIsTrue, ProgramIsGraceful DEF StatusIsTrue
<1>4. QED
  <2> HIDE DEF Inv
  <2>1. QED
    BY <1>1, <1>2, <1>3, PTL DEF MCSpec

-----------------------------------------------------------------------------

(***************************************************************************)
(* The services side by side.                                              *)
(***************************************************************************)
\* Every invariant that is checked of the six parts, in any behaviour of any of them.
THEOREM ServicesAreRight ==
  MCSpec => [](StatusIsTrue /\ AnswersMatch /\ WalletIsExact /\ ClientsAreTold
                 /\ KeepsToLimit /\ StartsInOrder)
<1> DEFINE Inv == CoordinatorInv /\ WalletInv /\ RpcInv /\ NotificationsInv
<1>1. MCInit => Inv
  BY CoordinatorInit, WalletInit, RpcInit, NotificationsInit DEF MCInit
<1>2. Inv /\ [MCNext]_<<part, vars, serviceVars>> => Inv'
  <2> SUFFICES ASSUME Inv, [MCNext]_<<part, vars, serviceVars>> PROVE Inv'
    OBVIOUS
  <2>1. /\ UNCHANGED walletVars => UNCHANGED W!vars
        /\ UNCHANGED rpcVars => UNCHANGED P!vars
        /\ UNCHANGED notificationVars => UNCHANGED N!vars
    BY DEF walletVars, W!vars, rpcVars, P!vars, notificationVars, N!vars, N!chainVars,
           N!filterVars, N!socketVars
  <2>2. [Next]_vars
    BY DEF MCNext
  <2>3. [W!Next]_(W!vars)
    BY <2>1 DEF MCNext, serviceVars
  <2>4. [P!Next]_(P!vars)
    BY <2>1 DEF MCNext, serviceVars
  <2>5. [N!Next]_(N!vars)
    BY <2>1 DEF MCNext, serviceVars
  <2>6. CoordinatorInv'
    BY <2>2, CoordinatorStep
  <2>7. WalletInv'
    BY <2>3, WalletStep
  <2>8. RpcInv'
    BY <2>4, RpcStep
  <2>9. NotificationsInv'
    BY <2>5, NotificationsStep
  <2>10. QED
    BY <2>6, <2>7, <2>8, <2>9
<1>3. /\ CoordinatorInv => KeepsToLimit /\ StartsInOrder
      /\ WalletInv => WalletIsExact
      /\ RpcInv => AnswersMatch
      /\ NotificationsInv => ClientsAreTold
  BY WalletInvSuffices, RpcInvSuffices, NotificationsInvSuffices
     DEF CoordinatorInv, KeepsToLimit, StartsInOrder, Suffix
<1>4. QED
  <2> HIDE DEF Inv
  <2>1. Inv => WalletIsExact /\ AnswersMatch /\ ClientsAreTold /\ KeepsToLimit /\ StartsInOrder
    BY <1>3 DEF Inv
  <2>2. QED
    BY <1>1, <1>2, <2>1, StatusTold, PTL DEF MCSpec

=============================================================================
