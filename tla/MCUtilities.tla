----------------------------- MODULE MCUtilities -----------------------------
(***************************************************************************)
(* Seven parts that share no state, checked side by side: the promise      *)
(* queue, the heap, the rate limiter of the fork's requests, the search of *)
(* eth_estimateGas, the options, the tracing of a transaction, and the     *)
(* simulation of a call.  A behaviour is of one of them (part says of      *)
(* which), with the others at rest.                                        *)
(***************************************************************************)
EXTENDS PromiseQueue

CONSTANTS
  Elements, Contexts, price,                                        \* HeapOperations
  requestsPerSecond, WINDOW_SECONDS, AllowedRps, Backoffs, MaxTime, \* RateLimiter
  Unset, Latest, Invalid,                                           \* Options
  Contracts, Slots, Examined, GasLimit, MaxResult, None,            \* Tracing
  Sender, Target, Other, Precompile, IntrinsicGas, BaseFee, Empty,  \* Simulation
  Gas

VARIABLES
  part,
  heap, context, members,
  now, requestLimit, counters, lastEvict, mustBackoff, answered, sent,
  startingGas, needed, lo, hi, phase,
  namespace, given, old, at, config, supplied, outcome,
  call, block, i, traceStage, state, frames, currentDepth, storageStack, gas, log, priced,
  clean, arriving, keys, page,
  request, overrides, touches, accounts, pending, warmed, previous, runs, result, stage, events

(***************************************************************************)
(* There is a rate to keep (requestsPerSecond = 0 turns the limiter off,   *)
(* and so would a refusal that allows 0), and the window has two halves.   *)
(***************************************************************************)
ASSUME LimiterAssumption ==
  /\ requestsPerSecond \in Nat \ {0}
  /\ WINDOW_SECONDS \in Nat \ {0, 1}
  /\ AllowedRps \subseteq Nat \ {0}

\* Every element has a number for its priority in every context.
ASSUME HeapAssumption == price \in [Contexts -> [Elements -> Int]]

H == INSTANCE HeapOperations
R == INSTANCE RateLimiter
O == INSTANCE Options
T == INSTANCE Tracing WITH stage <- traceStage
S == INSTANCE Simulation

(***************************************************************************)
(* Seven elements make a heap of three levels; two contexts, with ties,    *)
(* whose orders nearly reverse each other.                                 *)
(***************************************************************************)
MCElements == 1..7

MCContexts == {"low", "high"}

MCPrice ==
  [c \in MCContexts |->
    [x \in MCElements |-> IF c = "low" THEN (x + 1) \div 2 ELSE 8 - x]]

\* Enough for a step of more than one between two attempts.
MCGas == 252..270

heapVars == <<heap, context, members>>
limiterVars == <<now, requestLimit, counters, lastEvict, mustBackoff, answered, sent>>
gasVars == <<startingGas, needed, lo, hi, phase>>
optionVars == <<namespace, given, old, at, config, supplied, outcome>>
traceVars == <<call, block, i, traceStage, state, frames, currentDepth, storageStack, gas, log,
               priced, clean, arriving, keys, page>>
simulationVars == <<request, overrides, touches, accounts, pending, warmed, previous, runs,
                    result, stage, events>>
smallVars == <<vars, heapVars, limiterVars, gasVars>>
allVars == <<part, smallVars, optionVars, traceVars, simulationVars>>

(***************************************************************************)
(* These three have many initial states: at rest there is nothing in them. *)
(***************************************************************************)
OptionsAtRest ==
  /\ namespace = None /\ given = None /\ old = None /\ at = None /\ config = None
  /\ supplied = None /\ outcome = None

TracingAtRest ==
  /\ call = None /\ block = None /\ i = None /\ traceStage = None /\ state = None
  /\ frames = None /\ currentDepth = None /\ storageStack = None /\ gas = None /\ log = None
  /\ priced = None /\ clean = None /\ arriving = None /\ keys = None /\ page = None

SimulationAtRest ==
  /\ request = None /\ overrides = None /\ touches = None /\ accounts = None /\ pending = None
  /\ warmed = None /\ previous = None /\ runs = None /\ result = None /\ stage = None
  /\ events = None

MCInit ==
  /\ part \in {"queue", "heap", "limiter", "gas", "options", "tracing", "simulation"}
  /\ Init
  /\ H!Init
  /\ part # "heap" => context = "low"
  /\ R!Init
  /\ S!EstimateInit
  /\ part # "gas" => startingGas = 252 /\ needed = 252
  /\ IF part = "options" THEN O!Init ELSE OptionsAtRest
  /\ IF part = "tracing" THEN T!Init ELSE TracingAtRest
  /\ IF part = "simulation" THEN S!Init ELSE SimulationAtRest

SmallNext ==
  \/ part = "queue" /\ Next /\ UNCHANGED <<heapVars, limiterVars, gasVars>>
  \/ part = "heap" /\ H!Next /\ UNCHANGED <<vars, limiterVars, gasVars>>
  \/ part = "limiter" /\ R!Next /\ UNCHANGED <<vars, heapVars, gasVars>>
  \/ part = "gas" /\ S!EstimateNext /\ UNCHANGED <<vars, heapVars, limiterVars>>

MCNext ==
  /\ UNCHANGED part
  /\ \/ SmallNext /\ UNCHANGED <<optionVars, traceVars, simulationVars>>
     \/ part = "options" /\ O!Next /\ UNCHANGED <<smallVars, traceVars, simulationVars>>
     \/ part = "tracing" /\ T!Next /\ UNCHANGED <<smallVars, optionVars, simulationVars>>
     \/ part = "simulation" /\ S!Next /\ UNCHANGED <<smallVars, optionVars, traceVars>>

\* Liveness is claimed of the search only.
MCSpec == MCInit /\ [][MCNext]_allVars /\ (part = "gas" => S!EstimateFairness)

\* The heap answers every sequence of calls as a sorted collection would.
HeapIsRight == H!HeapIsRight

\* The rate limiter knows all the requests it has let through lately.
WindowsAreCounted == R!WindowsAreCounted

\* A configuration is the one that was asked for, by whichever names.
ConfigIsAsAsked == part = "options" => O!ConfigIsAsAsked

\* A transaction that is run again, and a call that is run on a copy, show what was there.
RerunsAreTrue ==
  /\ part = "tracing" => T!RerunIsTrue
  /\ part = "simulation" => S!SimulationIsTrue

\* The search ends with the least gas that is enough.
EstimateIsEnough == part = "gas" => S!EstimateIsEnough
=============================================================================
