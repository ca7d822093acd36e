----------------------------- MODULE MCServices -----------------------------
(***************************************************************************)
(* Six parts of a node, checked side by side: the request coordinator, the  *)
(* server, the command line program with its server, JSON-RPC calls, the    *)
(* wallet, and what clients are told about blocks.  A behaviour is one of   *)
(* them (part says which), with the others at rest.                        *)
(***************************************************************************)
EXTENDS RequestCoordinator

CONSTANTS
  Listens, Closes, Connections,                       \* Server
  Accounts, InitialAccounts, Passphrases, Calls,      \* Wallet
  Filters, Sockets, Subscriptions, MaxBlocks, Latest, \* Notifications
  Messages, Batches,                                  \* Rpc
  None

\* The calls of the program are distinct, the accounts made at startup are finitely many, a
\* batch is a sequence, and None is none of the values it stands in for.
ASSUME ServicesAssumption ==
  /\ Listens \cap Closes = {}
  /\ InitialAccounts \subseteq Accounts /\ IsFiniteSet(InitialAccounts)
  /\ \A b \in Batches : b \in Seq({b[n] : n \in DOMAIN b})
  /\ None \notin Listens \cup Calls
  /\ None \notin [kind : {"block", "log"}, range : [from : {0, 2, Latest}, to : {2, Latest}],
                 updates : Seq(Nat), since : Nat]

VARIABLES
  part,
  serverStatus, app, listenSocket, bound, isClosing, chain, ready, coordinator, initializer,
  pc, socket, connection,
  keyFiles, known, addresses, unlocked, lockTimers, running, call, serial, stay, removed,
  eager, mined, latest, saved, emitted, filter, polled, closed, subscriber, phase,
  listens, sent,
  receivedShutdownSignal, started, exitCode, called, signalled,
  message, stage, outcomes, aborted, open, answer, listeners, heard

S == INSTANCE Server WITH status <- serverStatus
W == INSTANCE Wallet
N == INSTANCE Notifications
C == INSTANCE Cli WITH status <- serverStatus
P == INSTANCE Rpc

\* Calls alone, and batches of which either may end first.
MCBatches ==
  {<<[id |-> 0, method |-> m]>> : m \in {"some", "none", "subscribe"}}
  \cup {<<[id |-> 1, method |-> m], [id |-> 0, method |-> "some"]>> : m \in {"some", "subscribe"}}

\* All but one of the messages come over the web socket.
MCMessages == \A k \in Messages \ {CHOOSE m \in Messages : TRUE} : P!Via(k) = "ws"

MCInit ==
  /\ part \in {"coordinator", "server", "cli", "rpc", "wallet", "notifications"}
  /\ Init
  /\ part # "coordinator" => limit = 1
  /\ S!Init
  /\ W!Init
  /\ part # "wallet" => serial /\ unlocked = {}
  /\ N!Init
  /\ part # "notifications" => eager
  /\ C!CliInit
  /\ P!Init
  /\ IF part = "rpc" THEN MCMessages ELSE \A m \in Messages : P!CallsOf(m) = None /\ P!Via(m) = "ws"

serverVars == <<serverStatus, app, listenSocket, bound, isClosing, chain, ready, coordinator,
                initializer, pc, socket, connection>>
walletVars == <<keyFiles, known, addresses, unlocked, lockTimers, running, call, serial,
                stay, removed>>
notificationVars == <<eager, mined, latest, saved, emitted, filter, polled, closed,
                      subscriber, phase, listens, sent>>
cliVars == <<receivedShutdownSignal, started, exitCode, called, signalled>>
rpcVars == <<message, stage, outcomes, aborted, open, answer, listeners, heard>>

serviceVars == <<serverVars, cliVars, rpcVars, walletVars, notificationVars>>

MCNext ==
  \/ part = "coordinator" /\ Next /\ UNCHANGED <<part, serviceVars>>
  \/ part = "server" /\ S!Next /\ UNCHANGED <<part, vars, cliVars, rpcVars, walletVars, notificationVars>>
  \/ part = "cli" /\ C!CliNext /\ UNCHANGED <<part, vars, rpcVars, walletVars, notificationVars>>
  \/ part = "rpc" /\ P!Next /\ UNCHANGED <<part, vars, serverVars, cliVars, walletVars, notificationVars>>
  \/ part = "wallet" /\ W!Next /\ UNCHANGED <<part, vars, serverVars, cliVars, rpcVars, notificationVars>>
  \/ part = "notifications" /\ N!Next /\ UNCHANGED <<part, vars, serverVars, cliVars, rpcVars, walletVars>>

Of(p, A) == part = p /\ A

(***************************************************************************)
(* The fairness of the coordinator, the server, the program and the calls, *)
(* each of the behaviours of its part: only of these is liveness claimed.  *)
(***************************************************************************)
MCFairness ==
  /\ \A t \in Tasks : WF_vars(Of("coordinator", Settle(t)))
  /\ WF_vars(Of("coordinator", BlockchainReady))
  /\ WF_vars(Of("coordinator", Resume))
  /\ WF_vars(Of("coordinator", BlockchainStopped))
  /\ WF_vars(Of("coordinator", End))
  /\ WF_serverVars(Of("server", S!BlockchainReady \/ S!BlockchainFails))
  /\ WF_serverVars(Of("server", S!StartThrows))
  /\ WF_serverVars(Of("server", S!Resume))
  /\ \A l \in Listens :
       /\ WF_serverVars(Of("server", S!SocketOpens(l) \/ S!SocketInUse(l)))
       /\ WF_serverVars(Of("server", S!Settles(l)))
  /\ \A c \in S!Callers :
       /\ WF_serverVars(Of("server", S!StopGoesOn(c)))
       /\ WF_serverVars(Of("server", S!StopEnds(c)))
  /\ \A k \in Connections : WF_serverVars(Of("server", S!Respond(k)))
  /\ WF_<<serverVars, cliVars>>(Of("cli", C!ServerGoesOn))
  /\ \A l \in Listens : WF_<<serverVars, cliVars>>(Of("cli", C!StartGanache(l)))
  /\ \A c \in S!Callers : WF_<<serverVars, cliVars>>(Of("cli", C!CloseEnds(c)))
  /\ \A m \in Messages : WF_rpcVars(Of("rpc", P!Goes(m)))

MCSpec == MCInit /\ [][MCNext]_<<part, vars, serviceVars>> /\ MCFairness

\* The server's status tells whether it listens, and close() knows its socket; a signal
\* never makes the program call a close() that throws.
StatusIsTrue == S!StatusIsTrue /\ S!SocketIsKnown /\ (part = "cli" => C!ShutdownIsGraceful)

\* Every request that is queued is answered, every call of listen() and close() ends, and so
\* does every request that a server has received; a signal ends in a closed server; and
\* every message is answered.
CallsEnd == Answered /\ S!CallsEnd /\ S!RequestsEnd /\ C!SignalCloses /\ P!MessagesEnd

\* The answers are those of the calls, in their order, to a client that is still there.
AnswersMatch == P!AnswersMatch

\* The addresses listed have their key files, and an account is unlocked just as long as
\* the last unlocking asked for.
WalletIsExact == W!KnownAreListed /\ W!UnlockedForAWhile /\ W!UnlockedUntilLocked

\* What a filter has for its client is every block since it was last asked, and a
\* subscriber is told of all blocks, in order.
ClientsAreTold == N!FiltersAreExact /\ N!NotifiedOfAll

\* "Every account the wallet knows is listed", "until the process ends", and "all changes":
\* see the README for when these do not hold.
AllKnownAreListed == W!AllKnownAreListed
UnlockedForGood == W!UnlockedForGood
EveryFilterIsExact == N!EveryFilterIsExact
=============================================================================
