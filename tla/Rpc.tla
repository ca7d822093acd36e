-------------------------------- MODULE Rpc --------------------------------
(***************************************************************************)
(* A JSON-RPC call, from the message that brings it to its answer          *)
(* (http-server.ts, ws-server.ts, connector.ts, provider.ts, executor.ts): *)
(* over HTTP, over a web socket, by request() or by the old send() with a  *)
(* callback; alone or in a batch, whose calls run at once and end in any   *)
(* order.  Meanwhile the socket may be closed, the HTTP request aborted,   *)
(* and subscriptions have news.                                            *)
(*                                                                         *)
(* The methods themselves are external: one succeeds or fails when it      *)
(* likes, or makes a subscription.                                         *)
(***************************************************************************)
EXTENDS Integers, SequencesExt

CONSTANTS
  Messages,   \* what is sent; the web socket is the same for all
  Batches,    \* the calls of each message that may be sent: sequences of ids and methods
  None

VARIABLES
  message,    \* [via, calls, batch], or calls = None: what cannot be parsed
  stage,      \* "sent", "running", "answered", "dropped", "lost"
  outcomes,   \* of the calls of a message: None, "value", "error"
  aborted,    \* #aborted of the HTTP requests
  open,       \* the web socket is
  answer,     \* what has been sent for each message
  listeners,  \* the subscriptions whose messages are passed on to the socket
  heard       \* what the socket was sent of a subscription before its answer, or once closed

vars == <<message, stage, outcomes, aborted, open, answer, listeners, heard>>

Transports == {"http", "ws", "request", "send"}

Init ==
  /\ message \in [Messages -> [via : Transports, calls : Batches \cup {None}, batch : BOOLEAN]]
  /\ \A m \in Messages :
       /\ message[m].calls = None => message[m].via \in {"http", "ws"} /\ ~message[m].batch
       /\ message[m].calls # None /\ ~message[m].batch => Len(message[m].calls) = 1
       /\ message[m].batch => message[m].via # "request"
  /\ stage = [m \in Messages |-> "sent"]
  /\ outcomes = [m \in Messages |-> None]
  /\ aborted = {}
  /\ open = TRUE
  /\ answer = [m \in Messages |-> None]
  /\ listeners = {}
  /\ heard = {}

Via(m) == message[m].via
CallsOf(m) == message[m].calls

(***************************************************************************)
(* What the client gets.                                                   *)
(***************************************************************************)

\* An error that is an answer of its own has the id, unless that is 0 (connector.ts:163).
IdOfError(id) == IF id = 0 THEN None ELSE id

Formatted(m, ended) ==
  CASE message[m].batch -> [n \in DOMAIN CallsOf(m) |-> [id |-> CallsOf(m)[n].id, is |-> ended[n]]]
    [] ~message[m].batch /\ Via(m) \in {"http", "ws"} /\ ended[1] = "error" ->
         <<[id |-> IdOfError(CallsOf(m)[1].id), is |-> "error"]>>
    [] OTHER -> <<[id |-> CallsOf(m)[1].id, is |-> ended[1]]>>

\* Mutant: what was true when the call was begun is not looked at again.
CanSendAnyway(m) == TRUE

CanSend(m) == (Via(m) = "http" => m \notin aborted) /\ (Via(m) = "ws" => open)

rest == <<message, aborted, open>>

Unparsable(m) ==
  /\ stage[m] = "sent"
  /\ CallsOf(m) = None
  /\ CanSend(m)
  /\ stage' = [stage EXCEPT ![m] = "answered"]
  /\ answer' = [answer EXCEPT ![m] = <<[id |-> None, is |-> "error"]>>]
  /\ UNCHANGED <<rest, outcomes, listeners, heard>>

Handle(m) ==
  /\ stage[m] = "sent"
  /\ CallsOf(m) # None
  /\ CanSend(m)
  /\ stage' = [stage EXCEPT ![m] = "running"]
  /\ outcomes' = [outcomes EXCEPT ![m] = [n \in DOMAIN CallsOf(m) |-> None]]
  /\ UNCHANGED <<rest, answer, listeners, heard>>

\* A method ends, or is none that there is; eth_subscribe is refused over HTTP.
CallEnds(m, n, outcome) ==
  /\ stage[m] = "running"
  /\ n \in DOMAIN CallsOf(m)
  /\ outcomes[m][n] = None
  /\ CallsOf(m)[n].method = "none" => outcome = "error"
  /\ CallsOf(m)[n].method = "subscribe" => (outcome = "error" <=> Via(m) = "http")
  /\ outcomes' = [outcomes EXCEPT ![m][n] = outcome]
  /\ UNCHANGED <<rest, stage, answer, listeners, heard>>

HasEnded(m) == stage[m] = "running" /\ None \notin Range(outcomes[m])

\* The errors of an old batch are put in an array that is not there (provider.ts:449).
CallbackIsLost(m) == Via(m) = "send" /\ message[m].batch /\ "error" \in Range(outcomes[m])

\* Only a single call is still what it was when it was handled, with its events.
IsPassedOn(m) ==
  Via(m) = "ws" /\ ~message[m].batch /\ CallsOf(m)[1].method = "subscribe"

Respond(m) ==
  /\ HasEnded(m)
  /\ CanSend(m)
  /\ ~CallbackIsLost(m)
  /\ stage' = [stage EXCEPT ![m] = "answered"]
  /\ answer' = [answer EXCEPT ![m] = Formatted(m, outcomes[m])]
  /\ listeners' = IF IsPassedOn(m) THEN listeners \cup {m} ELSE listeners
  /\ heard' = IF open \/ Via(m) # "ws" THEN heard ELSE heard \cup {m}
  /\ UNCHANGED <<rest, outcomes>>

Drop(m) ==
  /\ HasEnded(m)
  /\ ~CanSend(m)
  /\ stage' = [stage EXCEPT ![m] = "dropped"]
  /\ UNCHANGED <<rest, outcomes, answer, listeners, heard>>

LoseCallback(m) ==
  /\ HasEnded(m)
  /\ CallbackIsLost(m)
  /\ stage' = [stage EXCEPT ![m] = "lost"]
  /\ UNCHANGED <<rest, outcomes, answer, listeners, heard>>

\* A subscription has news.
Publish(m) ==
  /\ m \in listeners
  /\ heard' = IF open /\ stage[m] = "answered" THEN heard ELSE heard \cup {m}
  /\ UNCHANGED <<rest, stage, outcomes, answer, listeners>>

Abort(m) ==
  /\ Via(m) = "http"
  /\ stage[m] \in {"sent", "running"}
  /\ aborted' = aborted \cup {m}
  /\ UNCHANGED <<message, stage, outcomes, open, answer, listeners, heard>>

\* By the client, or by the server's close().
CloseSocket ==
  /\ open
  /\ open' = FALSE
  /\ listeners' = {}
  /\ UNCHANGED <<message, stage, outcomes, aborted, answer, heard>>

Next ==
  \/ \E m \in Messages :
       \/ Unparsable(m) \/ Handle(m) \/ Respond(m) \/ Drop(m) \/ LoseCallback(m)
       \/ Publish(m) \/ Abort(m)
       \/ \E n \in 1..2, outcome \in {"value", "error"} : CallEnds(m, n, outcome)
  \/ CloseSocket

\* Methods end; what follows a promise runs.
Goes(m) == \/ Unparsable(m) \/ Handle(m) \/ Respond(m) \/ Drop(m) \/ LoseCallback(m)
           \/ \E n \in 1..2, outcome \in {"value", "error"} : CallEnds(m, n, outcome)

Fairness == \A m \in Messages : WF_vars(Goes(m))

Spec == Init /\ [][Next]_vars /\ Fairness

(***************************************************************************)
(* An answer has the result of every call that was sent, in the order they *)
(* were sent and whatever the order they ended in, with its own id; none   *)
(* goes to a client that has gone, and no news of a subscription before    *)
(* its id (http-server.ts:235-281, ws-server.ts:124-177,                   *)
(* connector.ts:78-165).                                                   *)
(***************************************************************************)
AnswersMatch ==
  /\ \A m \in Messages :
       answer[m] # None /\ CallsOf(m) # None =>
         /\ Len(answer[m]) = Len(CallsOf(m))
         /\ \A n \in DOMAIN CallsOf(m) :
              /\ answer[m][n].is = outcomes[m][n]
              /\ answer[m][n].id = CallsOf(m)[n].id
                   \/ (CallsOf(m)[n].id = 0 /\ ~message[m].batch /\ answer[m][n].is = "error")
              /\ CallsOf(m)[n].method = "subscribe" => (outcomes[m][n] = "error" <=> Via(m) = "http")
  /\ \A m \in aborted : answer[m] = None
  /\ heard = {}
  /\ ~open => listeners = {}

\* Every message that is handled is answered, unless its client has gone, or it was an old
\* batch with an error in it.
MessagesEnd ==
  \A m \in Messages :
    stage[m] = "running" ~>
      \/ answer[m] # None
      \/ Via(m) = "http" /\ m \in aborted
      \/ Via(m) = "ws" /\ ~open
      \/ stage[m] = "lost"

(***************************************************************************)
(* Refuted: every answer has the id of its call; every callback is called; *)
(* the news of every subscription of the socket is passed on (see the      *)
(* README).                                                                *)
(***************************************************************************)
IdsMatch ==
  \A m \in Messages :
    answer[m] # None /\ CallsOf(m) # None => \A n \in DOMAIN CallsOf(m) : answer[m][n].id = CallsOf(m)[n].id

CallbacksAreCalled == \A m \in Messages : stage[m] # "lost"

SubscribersAreHeard ==
  \A m \in Messages :
    Via(m) = "ws" /\ open /\ stage[m] = "answered" /\ CallsOf(m) # None =>
      \A n \in DOMAIN CallsOf(m) : CallsOf(m)[n].method = "subscribe" => m \in listeners
=============================================================================
