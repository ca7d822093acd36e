---------------------------- MODULE RateLimiter -----------------------------
(***************************************************************************)
(* The sliding window of E/forking/rate-limiter/: when may the request     *)
(* that holds the semaphore be sent?  There is always one that wants to    *)
(* be; ForkRequests has those behind it.  Time is counted in a unit of     *)
(* which windowSizeMs has several.                                         *)
(*                                                                         *)
(* A request over the limit sleeps for Date.now() - next milliseconds, a   *)
(* negative number, so it asks again at once, until it may be sent: a      *)
(* busy wait, in which only time passes.                                   *)
(***************************************************************************)
EXTENDS Integers, FiniteSets

CONSTANTS
  requestsPerSecond, \* fork.requestsPerSecond, per unit of time
  WINDOW_SECONDS,    \* the constant of base-handler.ts, in units of time: an even number
  AllowedRps,        \* the rates a refusal may name
  Backoffs,          \* the times it may ask to wait
  MaxTime            \* bound: how long the model is watched

\* "the rate limiter splits the window in 2"
windowSizeMs == WINDOW_SECONDS \div 2

VARIABLES
  now,
  requestLimit,
  counters,    \* LimitCounter: window |-> how many and when the last
  lastEvict,   \* when old windows were last dropped; -1: never
  mustBackoff, \* nothing is sent before
  answered,    \* has the last request sent been answered?
  sent         \* history: the requests of this window and the last, <<when, which of that time>>

vars == <<now, requestLimit, counters, lastEvict, mustBackoff, answered, sent>>

currentWindow == now - (now % windowSizeMs)

Init ==
  /\ now = 0
  /\ requestLimit = requestsPerSecond * WINDOW_SECONDS
  /\ counters = [w \in {} |-> 0]
  /\ lastEvict = -1
  /\ mustBackoff = 0
  /\ answered = TRUE
  /\ sent = {}

-----------------------------------------------------------------------------

SentIn(from, to) == Cardinality({s \in sent : from <= s[1] /\ s[1] < to})

\* LimitCounter.get for one window.
Count(w) == IF w \in DOMAIN counters THEN counters[w].value ELSE 0

currCount == Count(currentWindow)
prevCount == Count(currentWindow - windowSizeMs)

\* rate * windowSizeMs
Rate == prevCount * (windowSizeMs - (now - currentWindow)) + currCount * windowSizeMs

Over == Rate + windowSizeMs > requestLimit * windowSizeMs

\* status(): is the time of the next request, a fraction, in the future?
NextIsLater ==
  /\ requestLimit > 0
  /\ IF prevCount = 0 THEN TRUE
     ELSE windowSizeMs * (prevCount + (currCount + 1) - (requestLimit + 1))
            > (now - currentWindow) * prevCount

MustWait == Over /\ NextIsLater

\* Mutant: the window of the last request is old enough to be dropped.
EvictedEarly == [w \in {v \in DOMAIN counters :
                          now - counters[v].updatedAt < windowSizeMs} |-> counters[w]]

\* LimitCounter.evict: drop what has not changed for three windows.
Evicted ==
  LET d == windowSizeMs * 3
  IN  [w \in {v \in DOMAIN counters : now - counters[v].updatedAt < d} |-> counters[w]]

Increment ==
  LET evicts == lastEvict = -1 \/ now - lastEvict >= windowSizeMs * 3
      kept == IF evicts THEN Evicted ELSE counters
      counted == [value |-> (IF currentWindow \in DOMAIN kept
                             THEN kept[currentWindow].value ELSE 0) + 1,
                  updatedAt |-> now]
  IN /\ lastEvict' = IF evicts THEN now ELSE lastEvict
     /\ counters' = [w \in DOMAIN kept \cup {currentWindow} |->
                       IF w = currentWindow THEN counted ELSE kept[w]]

Send ==
  /\ answered
  /\ now >= mustBackoff
  /\ ~MustWait
  /\ Increment
  /\ sent' = sent \cup {<<now, SentIn(now, now + 1)>>}
  /\ answered' = FALSE
  /\ UNCHANGED <<now, requestLimit, mustBackoff>>

Answer ==
  /\ ~answered
  /\ answered' = TRUE
  /\ UNCHANGED <<now, requestLimit, counters, lastEvict, mustBackoff, sent>>

\* LIMIT_EXCEEDED: the node's own limit replaces ours.
Refuse ==
  /\ ~answered
  /\ \E rps \in AllowedRps, backoff \in Backoffs :
       /\ requestLimit' = rps * windowSizeMs
       /\ mustBackoff' = now + backoff
  /\ answered' = TRUE
  /\ UNCHANGED <<now, counters, lastEvict, sent>>

Tick ==
  /\ now < MaxTime
  /\ now' = now + 1
  /\ sent' = {s \in sent : s[1] >= currentWindow' - windowSizeMs}
  /\ UNCHANGED <<requestLimit, counters, lastEvict, mustBackoff, answered>>

Next == Send \/ Answer \/ Refuse \/ Tick

Spec == Init /\ [][Next]_vars

-----------------------------------------------------------------------------

\* What there may be in a window: our own limit, or one that a refusal names.
Limits == {requestsPerSecond * WINDOW_SECONDS} \cup {r * windowSizeMs : r \in AllowedRps}

(***************************************************************************)
(* The counters of this window and the last, which the rate is computed    *)
(* from, know every request sent in them, although old windows are dropped *)
(* now and then; and so no window sees more requests than a limit, nor     *)
(* any stretch of that length twice as many (limit-counter.ts:27-48,       *)
(* rate-limiter.ts:151-183).                                               *)
(***************************************************************************)
WindowsAreCounted ==
  /\ currCount = SentIn(currentWindow, currentWindow + windowSizeMs)
  /\ prevCount = SentIn(currentWindow - windowSizeMs, currentWindow)
  /\ \E l \in Limits : currCount <= l
  /\ \E l \in Limits : SentIn(now - windowSizeMs + 1, now + 1) < 2 * l
=============================================================================
