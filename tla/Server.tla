------------------------------- MODULE Server -------------------------------
(***************************************************************************)
(* The life of a server (packages/core/src/server.ts): listen() and        *)
(* close(), which a program may call at any time and as often as it likes,  *)
(* around a connector that starts and stops at its own pace and may fail to *)
(* start; and the HTTP connections that are open meanwhile.                 *)
(*                                                                         *)
(* A call of listen() waits for two things at once, the initializer and its *)
(* socket, and closes the server itself if one of them fails.  So a call of *)
(* either kind can be inside close(), and all of them write the status.     *)
(***************************************************************************)
CONSTANTS Listens,      \* calls of listen()
          Closes,       \* calls of close() by the program
          Connections,  \* connections of HTTP clients
          None

Callers == Listens \cup Closes

VARIABLES
  status,        \* #status
  app,           \* whether #app is set
  listenSocket,  \* #listenSocket: the call whose socket it is, or None
  bound,         \* the calls whose sockets accept connections
  isClosing,     \* #isClosing of the HTTP server
  chain,         \* #state of the blockchain
  ready,         \* whether the blockchain has emitted "ready"
  coordinator,   \* "paused", "running" or "stopped"
  initializer,   \* the promise #initializer: "pending", "resolved", "rejected"
  pc,            \* where each call is
  socket,        \* the socket of each listen(): "none", "asked", "open", "failed"
  connection     \* "none", "idle", or its request "pending" or "running"

connectorVars == <<chain, ready, initializer>>

vars == <<status, app, listenSocket, bound, isClosing, connectorVars, coordinator,
          pc, socket, connection>>

Init ==
  /\ status = "ready"  /\ app = TRUE  /\ listenSocket = None  /\ bound = {}
  /\ isClosing = FALSE  /\ chain = "starting"  /\ ready = FALSE
  /\ coordinator = "paused"  /\ initializer = "pending"
  /\ pc = [c \in Callers |-> "idle"]
  /\ socket = [l \in Listens |-> "none"]
  /\ connection = [k \in Connections |-> "none"]

(***************************************************************************)
(* listen()                                                                *)
(***************************************************************************)

MayListen == status \notin {"closing", "opening", "open"}

\* Once the server has been closed #app is null, and calling its listen() throws
\* inside the promise of the socket.
Listen(l) ==
  /\ pc[l] = "idle"
  /\ IF MayListen
       THEN /\ status' = "opening"
            /\ pc' = [pc EXCEPT ![l] = "waiting"]
            /\ socket' = [socket EXCEPT ![l] = IF app THEN "asked" ELSE "failed"]
       ELSE /\ pc' = [pc EXCEPT ![l] = "refused"]
            /\ UNCHANGED <<status, socket>>
  /\ UNCHANGED <<app, listenSocket, bound, isClosing, connectorVars, coordinator, connection>>

\* The port was free.
SocketOpens(l) ==
  /\ socket[l] = "asked"
  /\ socket' = [socket EXCEPT ![l] = "open"]
  /\ status' = "open"
  /\ listenSocket' = l
  /\ bound' = bound \cup {l}
  /\ UNCHANGED <<app, isClosing, connectorVars, coordinator, pc, connection>>

SocketInUse(l) ==
  /\ socket[l] = "asked"
  /\ socket' = [socket EXCEPT ![l] = "failed"]
  /\ status' = "closed"
  /\ UNCHANGED <<app, listenSocket, bound, isClosing, connectorVars, coordinator, pc,
                 connection>>

(***************************************************************************)
(* close(), called by the program or by a listen() that has failed.  It     *)
(* stops the coordinator at once and then waits for the blockchain to stop. *)
(***************************************************************************)

\* The sockets that are left when #listenSocket is closed.
OtherSockets == bound \ {listenSocket}

\* blockchain.stop() waits for "ready" if the blockchain is still starting.
HasToWait == chain = "starting"

StartClose(c) ==
  /\ status' = "closing"
  /\ listenSocket' = None
  /\ bound' = OtherSockets
  /\ isClosing' = TRUE
  /\ coordinator' = "stopped"
  /\ chain' = IF HasToWait THEN chain ELSE "stopping"
  /\ pc' = [pc EXCEPT ![c] = IF HasToWait THEN "awaitingReady" ELSE "stopping"]
  /\ UNCHANGED <<app, ready, initializer, socket, connection>>

\* Mutant: close() runs while the server is opening.
MayCloseWhileOpening == status \notin {"closing", "closed"}

MayClose == status \notin {"opening", "closing", "closed"}

Close(c) ==
  /\ pc[c] = "idle"
  /\ \/ /\ MayClose
        /\ StartClose(c)
     \/ /\ ~MayClose
        /\ pc' = [pc EXCEPT ![c] = "refused"]
        /\ UNCHANGED <<status, app, listenSocket, bound, isClosing, connectorVars,
                       coordinator, socket, connection>>

\* Both parts of a listen() have settled: it is done, or sets the status to unknown,
\* which lets its own close() through whatever the status was.
Settles(l) ==
  /\ pc[l] = "waiting"
  /\ initializer # "pending"
  /\ socket[l] # "asked"
  /\ \/ /\ initializer = "resolved"  /\ socket[l] = "open"
        /\ pc' = [pc EXCEPT ![l] = "opened"]
        /\ UNCHANGED <<status, app, listenSocket, bound, isClosing, connectorVars,
                       coordinator, socket, connection>>
     \/ /\ ~(initializer = "resolved" /\ socket[l] = "open")
        /\ StartClose(l)

StopGoesOn(c) ==
  /\ pc[c] = "awaitingReady"
  /\ ready
  /\ chain' = "stopping"
  /\ pc' = [pc EXCEPT ![c] = "stopping"]
  /\ UNCHANGED <<status, app, listenSocket, bound, isClosing, ready, initializer,
                 coordinator, socket, connection>>

\* end() rejects the requests that are still pending, which answers them.
Answered(k) == IF isClosing THEN "none" ELSE "idle"

PendingRejected ==
  [k \in Connections |-> IF connection[k] = "pending" THEN Answered(k) ELSE connection[k]]

StopEnds(c) ==
  /\ pc[c] = "stopping"
  /\ chain' = "stopped"
  /\ connection' = PendingRejected
  /\ status' = "closed"
  /\ app' = FALSE
  /\ pc' = [pc EXCEPT ![c] = IF c \in Listens THEN "failed" ELSE "closed"]
  /\ UNCHANGED <<listenSocket, bound, isClosing, ready, initializer, coordinator, socket>>

(***************************************************************************)
(* The blockchain starts, or fails to and stops; the loader resumes the     *)
(* coordinator, which throws if it has been stopped.                        *)
(***************************************************************************)

BlockchainReady ==
  /\ chain = "starting"
  /\ chain' = "started"
  /\ ready' = TRUE
  /\ UNCHANGED <<status, app, listenSocket, bound, isClosing, coordinator, initializer,
                 pc, socket, connection>>

BlockchainFails ==
  /\ chain = "starting"
  /\ chain' = "stopping"
  /\ UNCHANGED <<status, app, listenSocket, bound, isClosing, coordinator, ready,
                 initializer, pc, socket, connection>>

\* The stop() of the failed start is over; its error is that of the initializer.
StartThrows ==
  /\ ~ready
  /\ chain \in {"stopping", "stopped"}
  /\ initializer = "pending"
  /\ chain' = "stopped"
  /\ initializer' = "rejected"
  /\ UNCHANGED <<status, app, listenSocket, bound, isClosing, coordinator, ready, pc,
                 socket, connection>>

Resume ==
  /\ ready
  /\ initializer = "pending"
  /\ IF coordinator = "stopped"
       THEN /\ initializer' = "rejected"
            /\ UNCHANGED <<coordinator, connection>>
       ELSE /\ initializer' = "resolved"
            /\ coordinator' = "running"
            /\ connection' = [k \in Connections |->
                  IF connection[k] = "pending" THEN "running" ELSE connection[k]]
  /\ UNCHANGED <<status, app, listenSocket, bound, isClosing, chain, ready, pc, socket>>

(***************************************************************************)
(* HTTP connections, each with one request at a time.  A connection stays   *)
(* open when the socket that accepted it is closed, until it is answered.   *)
(***************************************************************************)

Connect(k) ==
  /\ connection[k] = "none"
  /\ bound # {}
  /\ connection' = [connection EXCEPT ![k] = "idle"]
  /\ UNCHANGED <<status, app, listenSocket, bound, isClosing, connectorVars, coordinator,
                 pc, socket>>

Post(k) ==
  /\ connection[k] = "idle"
  /\ connection' = [connection EXCEPT ![k] =
       CASE coordinator = "paused"  -> "pending"
         [] coordinator = "running" -> "running"
         [] coordinator = "stopped" -> Answered(k)]
  /\ UNCHANGED <<status, app, listenSocket, bound, isClosing, connectorVars, coordinator,
                 pc, socket>>

Respond(k) ==
  /\ connection[k] = "running"
  /\ connection' = [connection EXCEPT ![k] = Answered(k)]
  /\ UNCHANGED <<status, app, listenSocket, bound, isClosing, connectorVars, coordinator,
                 pc, socket>>

\* The client is gone; a request of it that is under way is not answered.
Abort(k) ==
  /\ connection[k] # "none"
  /\ connection' = [connection EXCEPT ![k] = "none"]
  /\ UNCHANGED <<status, app, listenSocket, bound, isClosing, connectorVars, coordinator,
                 pc, socket>>

Next ==
  \/ \E l \in Listens : Listen(l) \/ SocketOpens(l) \/ SocketInUse(l) \/ Settles(l)
  \/ \E c \in Closes : Close(c)
  \/ \E c \in Callers : StopGoesOn(c) \/ StopEnds(c)
  \/ BlockchainReady \/ BlockchainFails \/ StartThrows \/ Resume
  \/ \E k \in Connections : Connect(k) \/ Post(k) \/ Respond(k) \/ Abort(k)

\* The program and the clients need do nothing; what they have begun goes on.
Fairness ==
  /\ WF_vars(BlockchainReady \/ BlockchainFails)
  /\ WF_vars(StartThrows)
  /\ WF_vars(Resume)
  /\ \A l \in Listens :
       /\ WF_vars(SocketOpens(l) \/ SocketInUse(l))
       /\ WF_vars(Settles(l))
  /\ \A c \in Callers : WF_vars(StopGoesOn(c)) /\ WF_vars(StopEnds(c))
  /\ \A k \in Connections : WF_vars(Respond(k))

Spec == Init /\ [][Next]_vars /\ Fairness

(***************************************************************************)
(* Properties                                                              *)
(***************************************************************************)

InProgress(c) == pc[c] \in {"waiting", "awaitingReady", "stopping"}

AtRest == \A c \in Callers : ~InProgress(c)

TypeOK ==
  /\ status \in {"ready", "opening", "open", "closing", "closed"}
  /\ app \in BOOLEAN  /\ isClosing \in BOOLEAN  /\ ready \in BOOLEAN
  /\ listenSocket \in Listens \cup {None}
  /\ bound \subseteq Listens
  /\ chain \in {"starting", "started", "stopping", "stopped"}
  /\ coordinator \in {"paused", "running", "stopped"}
  /\ initializer \in {"pending", "resolved", "rejected"}
  /\ pc \in [Callers -> {"idle", "waiting", "awaitingReady", "stopping", "opened", "failed",
                       "closed", "refused"}]
  /\ socket \in [Listens -> {"none", "asked", "open", "failed"}]
  /\ connection \in [Connections -> {"none", "idle", "pending", "running"}]

\* Whatever the calls do, the only socket that accepts connections is the one that
\* the next close() will close: SocketOpens() overwrites #listenSocket, and close() and
\* a socket in use write the status that lets another listen() in.
SocketIsKnown == bound = {listenSocket} \ {None}

\* A listen() was let in by the status of one whose port was in use and which has not
\* closed the server yet: its socket may open after that.
OpenedLate == \E k, l \in Listens : k # l /\ pc[k] = "failed" /\ pc[l] = "opened"

\* When no call is in progress the status tells the truth.  An open server has its
\* socket, a blockchain that runs and a coordinator that serves requests, although the
\* status is set to open before the blockchain has started; a closed one has stopped
\* for good; and no other status is left behind, although listen() sets opening and
\* unknown on its way.
StatusIsTrue ==
  AtRest /\ ~OpenedLate =>
    /\ status \in {"ready", "open", "closed"}
    /\ status = "open" =>
         listenSocket # None /\ chain = "started" /\ coordinator = "running" /\ app
    /\ status = "closed" =>
         listenSocket = None /\ chain = "stopped" /\ coordinator = "stopped" /\ ~app

\* close() waits for a "ready" that will not come.
StuckInStart(c) == c \in Closes /\ pc[c] = "awaitingReady" /\ ~ready /\ initializer = "rejected"

\* Every call of listen() and close() settles, unless it was close() that came while the
\* blockchain was starting and the start failed (blockchain.ts, stop()).
CallsEnd ==
  \A c \in Callers : InProgress(c) ~> (~InProgress(c) \/ StuckInStart(c))

\* Every HTTP request gets an answer, also one that waits for the start when the server
\* is closed or the start fails, and one that comes over a connection that outlives the
\* server.
RequestsEnd ==
  \A k \in Connections :
    connection[k] \in {"pending", "running"} ~> connection[k] \in {"none", "idle"}
=============================================================================
