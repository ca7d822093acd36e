-------------------------------- MODULE Cli --------------------------------
(***************************************************************************)
(* The command line program around a server (packages/cli/src/cli.ts): it  *)
(* listens once, and a signal closes the server, at once or as soon as it  *)
(* has opened.                                                             *)
(*                                                                         *)
(* What follows a promise runs before the next signal is handled: between  *)
(* the two parts of a listen() and its callback there is no signal.        *)
(***************************************************************************)
EXTENDS Server

VARIABLES
  receivedShutdownSignal, started, exitCode,
  called,     \* whether startGanache has been called
  signalled   \* whether there was any signal

cliVars == <<receivedShutdownSignal, started, exitCode, called, signalled>>

CliInit ==
  /\ receivedShutdownSignal = FALSE
  /\ started = FALSE
  /\ exitCode = None
  /\ called = FALSE
  /\ signalled = FALSE

Starts(l) ==
  /\ \A k \in Listens : pc[k] = "idle"
  /\ Listen(l)
  /\ UNCHANGED cliVars

\* Mutant: a signal that comes while the server is opening closes it too.
ClosesAtOnce == status \in {"opening", "open"}

ClosesNow == status = "open"

\* closeHandler, up to its await; it ends with an exit code of 0 unless the server opens.
CloseHandler ==
  IF ClosesNow
    THEN /\ \E c \in Closes : Close(c)
         /\ UNCHANGED <<receivedShutdownSignal, exitCode>>
    ELSE /\ receivedShutdownSignal' = (receivedShutdownSignal \/ status = "opening")
         /\ exitCode' = IF status = "opening" THEN exitCode ELSE 0
         /\ UNCHANGED vars

\* The initializer settles as soon as the blockchain is ready, and a listen() goes on as
\* soon as both its parts have settled.
GoesOn ==
  \/ ready /\ initializer = "pending"
  \/ \E l \in Listens : pc[l] = "waiting" /\ initializer # "pending" /\ socket[l] # "asked"

IsOver(l) == pc[l] \in {"opened", "failed"} /\ ~called

HandleSignal ==
  /\ \E l \in Listens : pc[l] # "idle"
  /\ ~GoesOn
  /\ \A l \in Listens : ~IsOver(l)
  /\ signalled' = TRUE
  /\ CloseHandler
  /\ UNCHANGED <<started, called>>

StartGanache(l) ==
  /\ IsOver(l)
  /\ called' = TRUE
  /\ IF pc[l] = "failed"
       THEN exitCode' = 1 /\ UNCHANGED <<vars, receivedShutdownSignal, started>>
       ELSE IF receivedShutdownSignal
         THEN CloseHandler /\ UNCHANGED started
         ELSE started' = TRUE /\ UNCHANGED <<vars, receivedShutdownSignal, exitCode>>
  /\ UNCHANGED signalled

\* The close() of closeHandler is over.
CloseEnds(c) ==
  /\ StopEnds(c)
  /\ exitCode' = IF c \in Closes THEN 0 ELSE exitCode
  /\ UNCHANGED <<receivedShutdownSignal, started, called, signalled>>

ServerGoesOn ==
  /\ \/ \E l \in Listens : SocketOpens(l) \/ SocketInUse(l) \/ Settles(l)
     \/ \E c \in Callers : StopGoesOn(c)
     \/ BlockchainReady \/ BlockchainFails \/ StartThrows \/ Resume
  /\ UNCHANGED cliVars

CliNext ==
  \/ \E l \in Listens : Starts(l) \/ StartGanache(l)
  \/ HandleSignal
  \/ \E c \in Callers : CloseEnds(c)
  \/ ServerGoesOn

CliFairness ==
  /\ WF_<<vars, cliVars>>(ServerGoesOn)
  /\ \A l \in Listens : WF_<<vars, cliVars>>(StartGanache(l))
  /\ \A c \in Callers : WF_<<vars, cliVars>>(CloseEnds(c))

CliSpec == Init /\ CliInit /\ [][CliNext]_<<vars, cliVars>> /\ CliFairness

(***************************************************************************)
(* No signal, however early or often it comes, makes closeHandler call a   *)
(* close() that throws, which would force the exit; and a server that is   *)
(* announced runs or has been closed since (cli.ts:65-132).                *)
(***************************************************************************)
ShutdownIsGraceful ==
  /\ \A c \in Closes : pc[c] # "refused"
  /\ started => status \in {"open", "closing", "closed"} /\ ready

\* After a signal the server is closed, whenever the signal came (cli.ts:71-82, 124-126).
SignalCloses == signalled ~> status = "closed" /\ bound = {}

(***************************************************************************)
(* Refuted: the exit code after a signal is 0 if the blockchain has        *)
(* started (see the README).                                               *)
(***************************************************************************)
SignalExitsWith0 ==
  signalled /\ ready /\ AtRest /\ called /\ (\A l \in Listens : socket[l] # "failed") => exitCode # 1
=============================================================================
