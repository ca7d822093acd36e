---------------------------- MODULE ForkRequests ----------------------------
(***************************************************************************)
(* Requests to a forked chain: E/forking/handlers/*.ts, the part of        *)
(* E/forking/rate-limiter/rate-limiter.ts that decides who sends, and the  *)
(* life of the fork (E/forking/fork.ts): initialize() makes the requests   *)
(* of Boot, attaches the persistent cache, and then the chain serves the   *)
(* other requests until stop() calls close().                              *)
(*                                                                         *)
(* A request looks in requestCache (promises), in valueCache and then, in  *)
(* an await, in the persistent cache; what is not found waits for the      *)
(* limiter's semaphore, is sent, and sent again when the node answers      *)
(* LIMIT_EXCEEDED.  When a request under the limit may be sent is the      *)
(* subject of RateLimiter.  Fork.abort() is called by nobody, so the       *)
(* branches for an aborted signal never run and are left out.              *)
(***************************************************************************)
EXTENDS Integers, Sequences, FiniteSets

CONSTANTS
  Boot,        \* the requests of Fork.initialize
  Later,       \* the requests of the chain once it has started
  Key,         \* Key[r]: the method and parameters of request r
  Uncached,    \* the requests made with disableCache: true
  Transports,  \* of "http", "ws", "provider"
  Caching,     \* whether the persistent cache may be used: fork.disableCache
  MaxRefusals, \* bound: how often the node answers LIMIT_EXCEEDED
  None

Requests == Boot \cup Later
RequestKeys == {Key[r] : r \in Requests}

VARIABLES
  transport,    \* which handler: HttpHandler, WsHandler or ProviderHandler
  fork,         \* Fork.initialize: "starting", "ready" or "failed"
  open,         \* WsHandler.open: "connecting", "open", or "gone" for good
  phase,        \* where each request is
  on,           \* the request whose promise a "joined" request awaits
  outcome,      \* what each request was answered
  requestCache, \* the request whose promise is cached under a key, or None
  valueCache,   \* the answer cached under a key, or None
  attached,     \* is persistentCache set?
  disk,         \* the content of the persistent cache
  sem,          \* the limiter's semaphore: its holder, and who waits for it
  puts,         \* fireForget: puts of the persistent cache under way
  awaited,      \* the puts close() waits for
  closing,      \* close(): "no", "waiting", "closed"
  refusals,     \* how often the node answered LIMIT_EXCEEDED
  before,       \* history: equal requests that had failed when r looked in the caches
  raced,        \* history: keys two requests looked up on disk together
  refused       \* history: keys the node answered with LIMIT_EXCEEDED

caches == <<requestCache, valueCache, disk>>
history == <<before, raced, refused>>
life == <<transport, fork, open, attached, awaited, closing>>
vars == <<life, phase, on, outcome, caches, sem, puts, refusals, history>>

NoAnswer == [kind |-> "none", by |-> None]
Answer(kind, by) == [kind |-> kind, by |-> by]

Phases == {"idle", "opening", "joined", "lookup", "queued", "sent", "backoff",
           "lost", "done"}

TypeOK ==
  /\ transport \in Transports
  /\ fork \in {"starting", "ready", "failed"}
  /\ open \in {"connecting", "open", "gone"}
  /\ phase \in [Requests -> Phases]
  /\ on \in [Requests -> Requests \cup {None}]
  /\ requestCache \in [RequestKeys -> Requests \cup {None}]
  /\ \A r \in Requests : phase[r] = "done" <=> outcome[r].kind # "none"
  /\ \A i \in 1..Len(sem) : phase[sem[i]] \in {"queued", "sent", "backoff", "lost"}
  /\ \A i \in 2..Len(sem) : phase[sem[i]] = "queued"

Init ==
  /\ transport \in Transports
  /\ fork = "starting"
  /\ open = IF transport = "ws" THEN "connecting" ELSE "open"
  /\ phase = [r \in Requests |-> "idle"]
  /\ on = [r \in Requests |-> None]
  /\ outcome = [r \in Requests |-> NoAnswer]
  /\ requestCache = [k \in RequestKeys |-> None]
  /\ valueCache = [k \in RequestKeys |-> None]
  /\ attached = FALSE
  /\ disk \in {[k \in RequestKeys |-> None],
               [k \in RequestKeys |-> Answer("result", None)]}
  /\ sem = <<>>
  /\ puts = {}
  /\ awaited = {}
  /\ closing = "no"
  /\ refusals = 0
  /\ before = [r \in Requests |-> {}]
  /\ raced = {}
  /\ refused = {}

-----------------------------------------------------------------------------
(***************************************************************************)
(* Steps of a request.                                                     *)
(***************************************************************************)

\* The promise of r settles: r and who joined it are answered.
Settle(r, answer) ==
  LET those == {r} \cup {q \in Requests : phase[q] = "joined" /\ on[q] = r}
  IN  /\ phase' = [q \in Requests |-> IF q \in those THEN "done" ELSE phase[q]]
      /\ outcome' = [q \in Requests |-> IF q \in those THEN answer
                                                       ELSE outcome[q]]

\* Mutant: getFromMemCache looks at the values only.
NoPromise(k) == None

\* getFromMemCache: a promise has precedence over a value.
CachedRequest(k) == requestCache[k]

FailedFor(k) == {q \in Requests : Key[q] = k /\ outcome[q].kind = "error"}

\* queueRequest up to its first await.
Enter(r) ==
  LET k == Key[r]
      q == CachedRequest(k)
  IN /\ before' = [before EXCEPT ![r] = FailedFor(k)]
     /\ CASE r \in Uncached ->
               /\ phase' = [phase EXCEPT ![r] = "queued"]
               /\ sem' = Append(sem, r)
               /\ requestCache' = [requestCache EXCEPT ![k] = r]
               /\ UNCHANGED <<on, outcome, raced>>
          [] r \notin Uncached /\ q # None ->
               /\ IF outcome[q].kind = "none"
                  THEN /\ phase' = [phase EXCEPT ![r] = "joined"]
                       /\ on' = [on EXCEPT ![r] = q]
                       /\ UNCHANGED outcome
                  ELSE Settle(r, outcome[q]) /\ UNCHANGED on
               /\ UNCHANGED <<sem, requestCache, raced>>
          [] r \notin Uncached /\ q = None /\ valueCache[k] # None ->
               /\ Settle(r, valueCache[k])
               /\ UNCHANGED <<on, sem, requestCache, raced>>
          [] OTHER ->
               /\ phase' = [phase EXCEPT ![r] = "lookup"]
               /\ raced' = IF \E p \in Requests : phase[p] = "lookup" /\ Key[p] = k
                           THEN raced \cup {k} ELSE raced
               /\ UNCHANGED <<on, outcome, sem, requestCache>>
     /\ UNCHANGED <<valueCache, disk, puts, refusals, refused>>

\* Fork.request: WsHandler awaits its connection first.
Request(r) ==
  /\ phase[r] = "idle"
  /\ IF r \in Boot THEN fork = "starting" ELSE fork = "ready"
  /\ IF open = "open"
     THEN Enter(r)
     ELSE /\ phase' = [phase EXCEPT ![r] = "opening"]
          /\ UNCHANGED <<on, outcome, caches, sem, puts, refusals, history>>
  /\ UNCHANGED life

Opened(r) ==
  /\ phase[r] = "opening"
  /\ open = "open"
  /\ Enter(r)
  /\ UNCHANGED life

\* getFromSlowCache: without a cache, and when nothing is found, nothing.
Found(r) ==
  /\ attached
  /\ closing # "closed"
  /\ disk[Key[r]] # None

\* queueRequest goes on after the lookup; a closed database throws.
LookedUp(r) ==
  /\ phase[r] = "lookup"
  /\ CASE attached /\ closing = "closed" ->
            /\ Settle(r, Answer("error", r))
            /\ UNCHANGED <<valueCache, requestCache, sem>>
       [] Found(r) ->
            /\ valueCache' = [valueCache EXCEPT ![Key[r]] = disk[Key[r]]]
            /\ Settle(r, disk[Key[r]])
            /\ UNCHANGED <<requestCache, sem>>
       [] OTHER ->
            /\ sem' = Append(sem, r)
            /\ requestCache' = [requestCache EXCEPT ![Key[r]] = r]
            /\ phase' = [phase EXCEPT ![r] = "queued"]
            /\ UNCHANGED <<valueCache, outcome>>
  /\ UNCHANGED <<life, on, disk, puts, refusals, history>>

\* RateLimiter.schedule in its holder: at once, or after a backoff.
Send(r) ==
  /\ sem # <<>> /\ Head(sem) = r
  /\ phase[r] \in {"queued", "backoff"}
  /\ phase' = [phase EXCEPT ![r] = "sent"]
  /\ UNCHANGED <<life, on, outcome, caches, sem, puts, refusals, history>>

\* The finally of send() in HttpHandler and WsHandler; ProviderHandler has none.
Forget(k) ==
  IF transport = "provider"
  THEN UNCHANGED requestCache
  ELSE requestCache' = [requestCache EXCEPT ![k] = None]

\* Mutant: handle() leaves the semaphore without a finally.
LeaveUnlessFailed(kind) == IF kind = "error" THEN UNCHANGED sem ELSE sem' = Tail(sem)

\* handle() leaves the semaphore in a finally.
Leave(kind) == sem' = Tail(sem)

\* A result is kept, and put in the persistent cache without waiting for it.
Keep(r) ==
  IF r \in Uncached
  THEN UNCHANGED <<valueCache, puts>>
  ELSE /\ valueCache' = [valueCache EXCEPT ![Key[r]] = Answer("result", r)]
       /\ puts' = IF attached THEN puts \cup {r} ELSE puts

(***************************************************************************)
(* The node answers with a result or an error; a provider rejects; or      *)
(* HttpHandler hears that its request timed out, that the connection was   *)
(* refused, or that the answer is not JSON.  A socket that has closed      *)
(* brings no answers.                                                      *)
(***************************************************************************)
Receive(r, kind) ==
  /\ phase[r] = "sent"
  /\ open = "open"
  /\ Forget(Key[r])
  /\ Leave(kind)
  /\ IF kind = "result" THEN Keep(r) ELSE UNCHANGED <<valueCache, puts>>
  /\ Settle(r, Answer(kind, r))
  /\ UNCHANGED <<life, on, disk, refusals, history>>

\* LIMIT_EXCEEDED with a rate: wait, and go round schedule()'s loop again.
Refuse(r) ==
  /\ phase[r] = "sent"
  /\ open = "open"
  /\ refusals < MaxRefusals
  /\ refusals' = refusals + 1
  /\ phase' = [phase EXCEPT ![r] = "backoff"]
  /\ Forget(Key[r])
  /\ refused' = refused \cup {Key[r]}
  /\ UNCHANGED <<life, on, outcome, valueCache, disk, sem, puts, before, raced>>

\* An answer that settles nothing: the request keeps the semaphore.
LoseAnswer(r) ==
  /\ phase[r] = "sent"
  /\ phase' = [phase EXCEPT ![r] = "lost"]
  /\ UNCHANGED <<life, on, outcome, caches, sem, puts, refusals, history>>

\* HttpHandler: the body ends early, and nobody hears that buffer rejects.
BodyEndsEarly(r) == transport = "http" /\ LoseAnswer(r)

\* WsHandler.onMessage throws if the answer is not JSON, before it knows which request it is
\* of, and passes over one with an id that no request in flight has.
AnswerIsDropped(r) == transport = "ws" /\ open = "open" /\ LoseAnswer(r)

\* A put ends; it fails, unheard, when the database is closed.
PutEnds(r) ==
  /\ r \in puts
  /\ puts' = puts \ {r}
  /\ disk' = IF closing = "closed" THEN disk
             ELSE [disk EXCEPT ![Key[r]] = Answer("result", r)]
  /\ UNCHANGED <<life, phase, on, outcome, requestCache, valueCache, sem,
                 refusals, history>>

-----------------------------------------------------------------------------
(***************************************************************************)
(* The connection and the life of the fork.                                *)
(***************************************************************************)

Connected ==
  /\ open = "connecting"
  /\ open' = "open"
  /\ UNCHANGED <<transport, fork, attached, awaited, closing, phase, on, outcome,
                 caches, sem, puts, refusals, history>>

\* What awaited open rejects; then "close" replaces open by a new promise,
\* which nothing will settle: a WebSocket that has closed never opens.
ConnectFails ==
  /\ open = "connecting"
  /\ open' = "gone"
  /\ LET those == {r \in Requests : phase[r] = "opening"}
     IN /\ phase' = [r \in Requests |-> IF r \in those THEN "done" ELSE phase[r]]
        /\ outcome' = [r \in Requests |-> IF r \in those THEN Answer("error", r)
                                          ELSE outcome[r]]
  /\ UNCHANGED <<transport, fork, attached, awaited, closing, on, caches, sem,
                 puts, refusals, history>>

\* The requests in flight on a connection that closes are not answered.
Closed(p) == [r \in Requests |-> IF p[r] = "sent" THEN "lost" ELSE p[r]]

Disconnected ==
  /\ transport = "ws"
  /\ open = "open"
  /\ open' = "gone"
  /\ phase' = Closed(phase)
  /\ UNCHANGED <<transport, fork, attached, awaited, closing, on, outcome, caches,
                 sem, puts, refusals, history>>

\* All that initialize() awaits has been answered: initCache and setCache.
Initialized ==
  /\ fork = "starting"
  /\ \A r \in Boot : outcome[r].kind = "result"
  /\ fork' = "ready"
  /\ attached' \in {FALSE, Caching}
  /\ UNCHANGED <<transport, open, awaited, closing, phase, on, outcome, caches, sem,
                 puts, refusals, history>>

InitializeFails ==
  /\ fork = "starting"
  /\ \E r \in Boot : outcome[r].kind = "error"
  /\ fork' = "failed"
  /\ UNCHANGED <<transport, open, attached, awaited, closing, phase, on, outcome,
                 caches, sem, puts, refusals, history>>

\* BaseHandler.close, called by Blockchain.stop.
Close ==
  /\ fork = "ready"
  /\ closing = "no"
  /\ closing' = "waiting"
  /\ awaited' = puts
  /\ UNCHANGED <<transport, fork, open, attached, phase, on, outcome, caches, sem,
                 puts, refusals, history>>

\* The awaited puts have ended: the database and the connection close.
PutsAwaited ==
  /\ closing = "waiting"
  /\ awaited \cap puts = {}
  /\ closing' = "closed"
  /\ IF transport = "ws"
     THEN open' = "gone" /\ phase' = Closed(phase)
     ELSE UNCHANGED <<open, phase>>
  /\ UNCHANGED <<transport, fork, attached, awaited, on, outcome, caches, sem, puts,
                 refusals, history>>

Answers(r) == \E kind \in {"result", "error"} : Receive(r, kind)

Next ==
  \/ \E r \in Requests :
       \/ Request(r) \/ Opened(r) \/ LookedUp(r) \/ Send(r)
       \/ Answers(r) \/ Refuse(r) \/ BodyEndsEarly(r) \/ AnswerIsDropped(r)
       \/ PutEnds(r)
  \/ Connected \/ ConnectFails \/ Disconnected
  \/ Initialized \/ InitializeFails
  \/ Close \/ PutsAwaited

Spec == Init /\ [][Next]_vars

(***************************************************************************)
(* Promises and timers go on by themselves; the node answers, or the five  *)
(* seconds of HttpHandler pass (nothing bounds the wait of the others).    *)
(***************************************************************************)
Fairness ==
  /\ \A r \in Requests :
       /\ WF_vars(Opened(r)) /\ WF_vars(LookedUp(r)) /\ WF_vars(Send(r))
       /\ WF_vars(Answers(r)) /\ WF_vars(PutEnds(r))
  /\ WF_vars(Connected \/ ConnectFails)
  /\ WF_vars(PutsAwaited)

FairSpec == Spec /\ Fairness

-----------------------------------------------------------------------------

InFlight(r) == phase[r] \in {"queued", "sent", "backoff"}

(***************************************************************************)
(* The caches keep equal requests from being sent together.  There are two *)
(* ways around them, both because the promise is not in requestCache: two  *)
(* requests that looked in the persistent cache together (it is set after  *)
(* that await), and one that was refused (the finally of its first send    *)
(* deletes it although it will be sent again).                             *)
(***************************************************************************)
Coalesced ==
  \A r, q \in Requests \ Uncached :
    r # q /\ Key[r] = Key[q] /\ InFlight(r) /\ InFlight(q)
      => Key[r] \in raced \cup refused

\* The semaphore and the phases of the requests agree, and so do the caches.
RequestsAreSound == TypeOK /\ Coalesced

(***************************************************************************)
(* "cache non-error responses only": who asks after an equal request has   *)
(* failed is not answered with that failure.                               *)
(***************************************************************************)
ErrorsAreNotCached ==
  \A r \in Requests :
    outcome[r].kind = "error" => outcome[r].by \notin before[r]

\* The same for the handlers that clean up (HttpHandler, WsHandler).
ErrorsAreNotCachedByUrl == transport # "provider" => ErrorsAreNotCached

\* An answer that never came, or came to nothing: nothing after it can be sent any more.
Stuck == open = "gone" \/ \E r \in Requests : phase[r] = "lost"

(***************************************************************************)
(* Every request is answered, through refusals and errors of others and    *)
(* while the fork closes, unless an answer is lost on the way: a socket    *)
(* that closes, or that brings an answer which is not JSON or has an       *)
(* unknown id (ws-handler.ts:97-105), and over HTTP a body that ends early *)
(* (http-handler.ts:143-168).                                              *)
(***************************************************************************)
Answered ==
  \A r \in Requests : phase[r] # "idle" ~> (phase[r] = "done" \/ Stuck)
=============================================================================
