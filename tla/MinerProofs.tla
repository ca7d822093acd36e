---------------------------- MODULE MinerProofs ----------------------------
(***************************************************************************)
(* The miner mines for one call of mine() at a time, and for none once     *)
(* pause() has returned, whatever the transactions, the calls and the      *)
(* bounds; and what the base fee does, for all limits and fees.            *)
(*                                                                         *)
(* Of the miner only the place of each loop, #isBusy and the pausing       *)
(* matter for this.  LoopStep says what a step may do to them, and every   *)
(* step of Miner is shown to be one: of the instamining miner (M) first,   *)
(* then of the interval miner (V), of which more is said.                  *)
(***************************************************************************)
EXTENDS MCMiner, FiniteSetTheorems, TLAPS

(***************************************************************************)
(* The loops                                                               *)
(***************************************************************************)

\* The places of a loop in which the VM has a checkpoint, or is about to have one.
Busily == {"loop", "running", "finish"}

Fields == {"pc", "max", "only"}

Typed == DOMAIN loops = Loops /\ \A l \in Loops : Fields \subseteq DOMAIN loops[l]

Pcs == [l \in Loops |-> loops[l].pc]

\* A step of one loop: the others stay as they are.
OnlyLoop(l) ==
  /\ loops' = [loops EXCEPT ![l] = loops'[l]]
  /\ Fields \subseteq DOMAIN loops'[l]

\* A call of mine() begins to mine.
Begins ==
  /\ ~isBusy /\ isBusy'
  /\ \A l \in Loops : loops[l].pc # "after"
  /\ \E l \in Loops, pc \in Busily : loops[l].pc = "free" /\ Pcs' = [Pcs EXCEPT ![l] = pc]
  /\ ~paused \/ released # <<>>
  /\ released = <<>> => released' = <<>>
  /\ UNCHANGED <<paused, pauser>>

\* #mineTxs goes on, and may return.
GoesOn(l) ==
  /\ loops[l].pc \in Busily
  /\ \E pc \in Busily \cup {"after"} :
       /\ Pcs' = [Pcs EXCEPT ![l] = pc]
       /\ isBusy /\ pc # "after" => isBusy'
  /\ UNCHANGED <<paused, released, pauser>>

\* #mine mines on, or returns.
Ends(l) ==
  /\ loops[l].pc = "after"
  /\ \/ /\ \E pc \in Busily : Pcs' = [Pcs EXCEPT ![l] = pc]
        /\ isBusy' /\ UNCHANGED pauser
     \/ /\ Pcs' = [Pcs EXCEPT ![l] = "free"]
        /\ pauser' = IF pauser = "waiting" THEN "holding" ELSE pauser
        /\ UNCHANGED isBusy
  /\ UNCHANGED <<paused, released>>

Pauses ==
  /\ \A l \in Loops : loops[l].pc # "after"
  /\ released = <<>> /\ pauser = "no"
  /\ paused'
  /\ pauser' = IF isBusy THEN "waiting" ELSE "holding"
  /\ UNCHANGED <<Pcs, isBusy, released>>

Resumes ==
  /\ pauser = "holding" /\ pauser' = "no"
  /\ UNCHANGED <<Pcs, isBusy>>

\* All else leaves the loops alone.
Quiet ==
  /\ UNCHANGED <<Pcs, isBusy, paused, pauser>>
  /\ released = <<>> => released' = <<>>

LoopStep ==
  \/ Begins \/ Pauses \/ Resumes \/ Quiet
  \/ \E l \in Loops : GoesOn(l) \/ Ends(l)

(***************************************************************************)
(* The invariant: besides what is to be shown, a loop that may use the VM  *)
(* makes the miner busy, so that no other call begins; and as long as the  *)
(* miner is being paused, no call is let past the #resumer.                *)
(***************************************************************************)
OneAtATime ==
  \A l, m \in Loops : loops[l].pc # "free" /\ loops[m].pc # "free" => l = m

PcIsKnown == \A l \in Loops : loops[l].pc \in Busily \cup {"free", "after"}

BusyWhileMining == \A l \in Loops : loops[l].pc \in Busily => isBusy

PauserKeepsCallsOut == pauser # "no" => paused /\ released = <<>>

HoldingIsQuiet == pauser = "holding" => \A l \in Loops : loops[l].pc = "free"

LoopsInv ==
  /\ Typed /\ OneAtATime /\ PcIsKnown /\ BusyWhileMining
  /\ PauserKeepsCallsOut /\ HoldingIsQuiet

\* What LoopsInv says of the places of the loops.
LEMMA PcsSuffice ==
  ASSUME Typed
  PROVE  \A l \in Loops : loops[l].pc = Pcs[l]
  BY DEF Pcs

\* A step of one loop moves that loop.
LEMMA Changed ==
  ASSUME Typed, NEW l \in Loops, OnlyLoop(l)
  PROVE  /\ Typed'
         /\ Pcs' = [Pcs EXCEPT ![l] = loops'[l].pc]
         /\ \A m \in Loops \ {l} : loops'[m] = loops[m]
  BY DEF Typed, Pcs, OnlyLoop, Fields

\* Whatever a step does to the loops, one at most is taken afterwards, and none when the miner
\* is held.
LEMMA LoopStepKeepsInv ==
  ASSUME LoopsInv, LoopStep, Typed'
  PROVE  LoopsInv'
<1> DEFINE Free(l) == Pcs[l] = "free"
<1>1. \A l \in Loops : loops[l].pc = Pcs[l] /\ loops'[l].pc = Pcs'[l]
  BY DEF Pcs
<1>2. DOMAIN Pcs = Loops
  BY DEF Pcs
<1> USE DEF LoopsInv, OneAtATime, PcIsKnown, BusyWhileMining, PauserKeepsCallsOut,
            HoldingIsQuiet, Busily
<1>3. CASE Begins
  BY <1>1, <1>2, <1>3 DEF Begins
<1>4. CASE Pauses
  BY <1>1, <1>4 DEF Pauses
<1>5. CASE Resumes
  BY <1>1, <1>5 DEF Resumes
<1>6. CASE Quiet
  BY <1>1, <1>6 DEF Quiet
<1>7. ASSUME NEW l \in Loops, GoesOn(l) PROVE LoopsInv'
  BY <1>1, <1>2, <1>7 DEF GoesOn
<1>8. ASSUME NEW l \in Loops, Ends(l) PROVE LoopsInv'
  BY <1>1, <1>2, <1>8 DEF Ends
<1> QED BY <1>3, <1>4, <1>5, <1>6, <1>7, <1>8 DEF LoopStep

-----------------------------------------------------------------------------

(* The instamining miner. *)

\* Where a loop begins.
LEMMA MBegin ==
  ASSUME NEW STATE loop, Fields \subseteq DOMAIN loop
  PROVE  /\ Fields \subseteq DOMAIN M!Begin(loop)
         /\ M!Begin(loop).pc \in Busily
         /\ M!Begin(loop).max = loop.max /\ M!Begin(loop).only = loop.only
  BY DEF M!Begin, Busily, Fields

\* A call of mine() that finds the miner busy leaves the loops alone.
LEMMA MEnter ==
  ASSUME Typed, NEW STATE max, NEW STATE only, NEW STATE parent, M!Enter(max, only, parent),
         M!NotAfterLoop, ~paused \/ released # <<>>,
         released = <<>> => released' = <<>>, UNCHANGED <<paused, pauser>>
  PROVE  Typed' /\ (Begins \/ Quiet)
<1>1. CASE isBusy
  BY <1>1 DEF M!Enter, M!Busy, Quiet, Pcs, Typed
<1>2. CASE ~isBusy
  <2> DEFINE new == [M!FreeLoop EXCEPT !.max = max, !.only = only, !.parent = parent,
                                      !.behind = M!Behind(parent)]
  <2>1. PICK l \in Loops :
          /\ M!IsFree(l)
          /\ isBusy' = TRUE
          /\ loops' = [loops EXCEPT ![l] = M!Begin(new)]
    BY <1>2 DEF M!Enter, M!Busy
  <2>2. Fields \subseteq DOMAIN new /\ new.max = max /\ new.only = only
    BY DEF M!FreeLoop, Fields
  <2> HIDE DEF new
  <2>3. /\ OnlyLoop(l) /\ loops'[l].pc \in Busily
        /\ loops'[l].max = max /\ loops'[l].only = only
    BY <2>1, <2>2, MBegin DEF Typed, OnlyLoop
  <2>4. /\ Typed' /\ Pcs' = [Pcs EXCEPT ![l] = loops'[l].pc]
        /\ \A m \in Loops \ {l} : loops'[m] = loops[m]
    BY <2>3, Changed
  <2>5. Begins
    BY <1>2, <2>1, <2>3, <2>4 DEF Begins, M!IsFree, M!NotAfterLoop
  <2> QED BY <2>3, <2>4, <2>5
<1> QED BY <1>1, <1>2

\* While the miner is paused, it waits.
LEMMA MCall ==
  ASSUME Typed, NEW STATE max, NEW STATE only, M!Call(max, only), M!NotAfterLoop,
         UNCHANGED <<paused, released, pauser>>
  PROVE  Typed' /\ (Begins \/ Quiet)
<1>1. CASE paused
  BY <1>1 DEF M!Call, M!mineVars, Quiet, Pcs, Typed
<1>2. CASE ~paused
  BY <1>2, MEnter DEF M!Call
<1> QED BY <1>1, <1>2

\* The loop over the transactions, until the block is to be finished.
LEMMA MMines ==
  ASSUME Typed, NEW l \in Loops,
         M!SelectBest(l) \/ M!RunCommits(l) \/ M!RunDoesNotFit(l) \/ M!RunFails(l)
  PROVE  Typed' /\ GoesOn(l)
<1>1. /\ OnlyLoop(l) /\ loops[l].pc \in Busily /\ loops'[l].pc \in Busily
      /\ UNCHANGED <<isBusy, paused, released, pauser>>
      /\ loops'[l].max = loops[l].max /\ loops'[l].only = loops[l].only
  <2> USE DEF Busily, Typed, Fields, OnlyLoop, M!pauseVars
  <2>1. CASE M!SelectBest(l)
    BY <2>1 DEF M!SelectBest
  <2>2. CASE M!RunCommits(l)
    BY <2>2 DEF M!RunCommits
  <2>3. CASE M!RunDoesNotFit(l)
    BY <2>3 DEF M!RunDoesNotFit
  <2>4. CASE M!RunFails(l)
    BY <2>4 DEF M!RunFails
  <2> QED BY <2>1, <2>2, <2>3, <2>4
<1>2. GoesOn(l)
  BY <1>1, Changed DEF GoesOn, Busily
<1> QED BY <1>1, <1>2, Changed

\* A block is emitted: the miner mines on only if it stays busy.
LEMMA MFinish ==
  ASSUME Typed, NEW l \in Loops, M!Finish(l)
  PROVE  Typed' /\ GoesOn(l)
<1>1. loops[l].pc = "finish" /\ UNCHANGED <<paused, released, pauser>>
  BY DEF M!Finish, M!pauseVars
<1>2. OnlyLoop(l) /\ loops'[l].pc \in Busily \cup {"after"}
  <2> DEFINE id == Len(emitted) + 1
             stop == loops[l].only \/ loops[l].max = M!Empty
             done == [loops[l] EXCEPT !.pc = "after", !.last = id]
             next == [loops[l] EXCEPT !.last = id, !.behind = FALSE,
                        !.parent = IF priced # <<>> \/ M!Late(0) # {} THEN id ELSE @]
             idle == [next EXCEPT !.pc = "after"]
  <2>1. /\ stop => loops' = [loops EXCEPT ![l] = done]
        /\ ~stop => loops' = [loops EXCEPT ![l] =
                                IF loops[l].keep THEN M!Begin(next) ELSE idle]
    BY DEF M!Finish
  <2>2. /\ Fields \subseteq DOMAIN done /\ done.pc = "after"
        /\ Fields \subseteq DOMAIN next
        /\ Fields \subseteq DOMAIN idle /\ idle.pc = "after"
    BY DEF Typed, Fields
  <2> HIDE DEF done, next, idle, stop
  <2> QED BY <2>1, <2>2, MBegin DEF Typed, OnlyLoop
<1>3. isBusy /\ loops'[l].pc # "after" => isBusy'
  BY DEF M!Finish, M!StaysBusy, Typed, Fields
<1> QED BY <1>1, <1>2, <1>3, Changed DEF GoesOn, Busily

\* What comes after #mineTxs.
LEMMA MAfter ==
  ASSUME Typed, NEW l \in Loops, M!After(l)
  PROVE  Typed' /\ Ends(l)
<1>1. loops[l].pc = "after" /\ UNCHANGED <<paused, released>>
  BY DEF M!After
<1>2. CASE again /\ M!Continues(loops[l])
  <2> DEFINE next == [loops[l] EXCEPT !.parent = loops[l].last, !.behind = FALSE]
  <2>1. loops' = [loops EXCEPT ![l] = M!Begin(next)] /\ isBusy' = TRUE /\ UNCHANGED pauser
    BY <1>2 DEF M!After
  <2>2. /\ Fields \subseteq DOMAIN next
        /\ next.max = loops[l].max /\ next.only = loops[l].only
    BY DEF Typed, Fields
  <2> HIDE DEF next
  <2>3. /\ OnlyLoop(l) /\ loops'[l].pc \in Busily
        /\ loops'[l].max = loops[l].max /\ loops'[l].only = loops[l].only
    BY <2>1, <2>2, MBegin DEF Typed, OnlyLoop
  <2> QED BY <1>1, <2>1, <2>3, Changed DEF Ends
<1>3. CASE ~(again /\ M!Continues(loops[l]))
  <2>1. /\ loops' = [loops EXCEPT ![l] = M!FreeLoop]
        /\ pauser' = IF pauser = "waiting" THEN "holding" ELSE pauser
        /\ UNCHANGED isBusy
    BY <1>3 DEF M!After
  <2>2. OnlyLoop(l) /\ loops'[l].pc = "free"
    BY <2>1 DEF M!FreeLoop, Typed, Fields, OnlyLoop
  <2> QED BY <1>1, <2>1, <2>2, Changed DEF Ends
<1> QED BY <1>2, <1>3

\* Every step of the miner is a step of the loops.
LEMMA MStep ==
  ASSUME Typed, M!Next
  PROVE  Typed' /\ LoopStep
<1> USE DEF LoopStep
<1> DEFINE Same == UNCHANGED <<loops, isBusy, paused, released, pauser>>
<1>1. ASSUME Same PROVE Typed' /\ LoopStep
  BY <1>1 DEF Quiet, Pcs, Typed
<1>2. ASSUME NEW l \in Loops, M!Loop(l) PROVE Typed' /\ LoopStep
  BY <1>2, MAfter, MMines, MFinish DEF M!Loop
<1>3. CASE M!Released
  <2>1. UNCHANGED <<paused, pauser>>
    BY <1>3 DEF M!Released
  <2>2. /\ M!NotAfterLoop /\ released # <<>>
        /\ M!Enter(released[1][1], released[1][2], released[1][3])
    BY <1>3 DEF M!Released
  <2> QED BY <2>1, <2>2, MEnter
<1>4. CASE M!Drain
  <2>1. M!NotAfterLoop /\ UNCHANGED <<paused, released, pauser>>
    BY <1>4 DEF M!Drain
  <2>2. CASE stopped
    BY <1>1, <1>4, <2>1, <2>2 DEF M!Drain, M!mineVars
  <2>3. CASE ~stopped
    <3>1. M!Call(M!Single, FALSE)
      BY <1>4, <2>3 DEF M!Drain
    <3> QED BY <2>1, <3>1, MCall
  <2> QED BY <2>2, <2>3
<1>5. CASE M!MinerStart
  <2>1. M!NotAfterLoop /\ UNCHANGED <<paused, released, pauser>>
    BY <1>5 DEF M!MinerStart, M!NoMicrotask
  <2>2. CASE ~Instamine
    BY <1>1, <1>5, <2>1, <2>2 DEF M!MinerStart, M!mineVars
  <2>3. CASE Instamine
    <3>1. M!Call(M!FillBlock, FALSE)
      BY <1>5, <2>3 DEF M!MinerStart
    <3> QED BY <2>1, <3>1, MCall
  <2> QED BY <2>2, <2>3
<1>6. CASE M!Pause
  BY <1>6 DEF M!Pause, M!PauseOutcome, M!BoundedCall, M!NoMicrotask, M!NotAfterLoop, M!mineVars,
     Pauses, Pcs, Typed
<1>7. CASE M!Resume
  BY <1>7 DEF M!Resume, M!mineVars, Resumes, Pcs, Typed
<1>8. CASE M!BlockSaved
  BY <1>1, <1>8 DEF M!BlockSaved, M!mineVars, M!pauseVars
<1>9. ASSUME NEW t \in Txs, M!AddTx(t) \/ M!ReplaceTx(t) PROVE Typed' /\ LoopStep
  BY <1>1, <1>9 DEF M!AddTx, M!ReplaceTx, M!mineVars, M!pauseVars
<1>10. CASE M!Tick
  <2>1. M!NotAfterLoop /\ UNCHANGED <<paused, released, pauser>> /\ M!Call(M!FillBlock, TRUE)
    BY <1>10 DEF M!Tick, M!BoundedCall, M!NoMicrotask
  <2> QED BY <2>1, MCall
<1>11. CASE M!ExplicitCall
  <2>1. M!NotAfterLoop /\ UNCHANGED <<paused, released, pauser>>
    BY <1>11 DEF M!ExplicitCall, M!BoundedCall, M!NoMicrotask
  <2>2. PICK m \in Modes : M!Call(m[1], m[2])
    BY <1>11 DEF M!ExplicitCall
  <2> QED BY <2>1, <2>2, MCall
<1>12. CASE M!MinerStop
  BY <1>1, <1>12 DEF M!MinerStop, M!mineVars, M!pauseVars
<1> QED BY <1>2, <1>3, <1>4, <1>5, <1>6, <1>7, <1>8, <1>9, <1>10, <1>11, <1>12
        DEF M!Next, M!Client

-----------------------------------------------------------------------------

(***************************************************************************)
(* The interval miner, of which nobody asks for more than a block: every   *)
(* loop stops after one, and is then idle.                                 *)
(***************************************************************************)
StopRequests == {c \in Int \X BOOLEAN \X Nat : StopsAfter(c[1], c[2])}

Requests ==
  /\ waiting \in Seq(StopRequests) /\ released \in Seq(StopRequests)
  /\ saved \in Nat /\ drains = 0

StoppingLoops ==
  \A l \in Loops : loops[l].pc # "free" => StopsAfter(loops[l].max, loops[l].only)

StopsIdle(l) == loops'[l].pc = "after" => ~isBusy'

IntervalStep ==
  \/ Begins \/ Pauses \/ Resumes \/ Quiet
  \/ \E l \in Loops : (GoesOn(l) /\ StopsIdle(l)) \/ Ends(l)

\* A busy miner has a loop; one that has returned from #mineTxs is not busy any more.
BusyHasLoop ==
  /\ isBusy => \E l \in Loops : loops[l].pc # "free"
  /\ \A l \in Loops : loops[l].pc = "after" => ~isBusy

IntervalInv == Requests /\ StoppingLoops /\ BusyHasLoop

\* If loops stop idle, the miner is not busy without one.
LEMMA IntervalStepKeepsBusy ==
  ASSUME LoopsInv, BusyHasLoop, IntervalStep, Typed'
  PROVE  BusyHasLoop'
<1>1. \A l \in Loops : loops[l].pc = Pcs[l] /\ loops'[l].pc = Pcs'[l]
  BY DEF Pcs
<1>2. DOMAIN Pcs = Loops
  BY DEF Pcs
<1> USE DEF LoopsInv, OneAtATime, PcIsKnown, BusyWhileMining, BusyHasLoop, Busily
<1>3. CASE Begins
  BY <1>1, <1>2, <1>3 DEF Begins
<1>4. CASE Pauses \/ Resumes \/ Quiet
  BY <1>1, <1>4 DEF Pauses, Resumes, Quiet
<1>5. ASSUME NEW l \in Loops, GoesOn(l), StopsIdle(l) PROVE BusyHasLoop'
  BY <1>1, <1>2, <1>5 DEF GoesOn, StopsIdle
<1>6. ASSUME NEW l \in Loops, Ends(l) PROVE BusyHasLoop'
  BY <1>1, <1>2, <1>6 DEF Ends
<1> QED BY <1>3, <1>4, <1>5, <1>6 DEF IntervalStep

\* The same of the interval miner, with what its loops are for.
LEMMA VBegin ==
  ASSUME NEW STATE loop, Fields \subseteq DOMAIN loop
  PROVE  /\ Fields \subseteq DOMAIN V!Begin(loop)
         /\ V!Begin(loop).pc \in Busily
         /\ V!Begin(loop).max = loop.max /\ V!Begin(loop).only = loop.only
  BY DEF V!Begin, Busily, Fields

\* A call of mine() that finds the miner busy leaves the loops alone.
LEMMA VEnter ==
  ASSUME Typed, NEW STATE max, NEW STATE only, NEW STATE parent, V!Enter(max, only, parent),
         V!NotAfterLoop, ~paused \/ released # <<>>,
         released = <<>> => released' = <<>>, UNCHANGED <<paused, pauser>>,
         StoppingLoops, StopsAfter(max, only)
  PROVE  Typed' /\ (Begins \/ Quiet) /\ StoppingLoops'
<1>1. CASE isBusy
  BY <1>1 DEF V!Enter, V!Busy, Quiet, Pcs, Typed, StoppingLoops
<1>2. CASE ~isBusy
  <2> DEFINE new == [V!FreeLoop EXCEPT !.max = max, !.only = only, !.parent = parent,
                                      !.behind = V!Behind(parent)]
  <2>1. PICK l \in Loops :
          /\ V!IsFree(l)
          /\ isBusy' = TRUE
          /\ loops' = [loops EXCEPT ![l] = V!Begin(new)]
    BY <1>2 DEF V!Enter, V!Busy
  <2>2. Fields \subseteq DOMAIN new /\ new.max = max /\ new.only = only
    BY DEF V!FreeLoop, Fields
  <2> HIDE DEF new
  <2>3. /\ OnlyLoop(l) /\ loops'[l].pc \in Busily
        /\ loops'[l].max = max /\ loops'[l].only = only
    BY <2>1, <2>2, VBegin DEF Typed, OnlyLoop
  <2>4. /\ Typed' /\ Pcs' = [Pcs EXCEPT ![l] = loops'[l].pc]
        /\ \A m \in Loops \ {l} : loops'[m] = loops[m]
    BY <2>3, Changed
  <2>5. Begins
    BY <1>2, <2>1, <2>3, <2>4 DEF Begins, V!IsFree, V!NotAfterLoop
  <2> QED BY <2>3, <2>4, <2>5 DEF StoppingLoops
<1> QED BY <1>1, <1>2

\* While the miner is paused, it waits.
LEMMA VCall ==
  ASSUME Typed, NEW STATE max, NEW STATE only, V!Call(max, only), V!NotAfterLoop,
         UNCHANGED <<paused, released, pauser>>,
         Requests, StoppingLoops, max \in Int, only \in BOOLEAN, StopsAfter(max, only)
  PROVE  Typed' /\ (Begins \/ Quiet) /\ StoppingLoops' /\ waiting' \in Seq(StopRequests)
<1>1. CASE paused
  <2>1. Typed' /\ Quiet /\ StoppingLoops'
    BY <1>1 DEF V!Call, V!mineVars, Quiet, Pcs, Typed, StoppingLoops
  <2>2. V!latest \in Nat
    BY DEF V!latest, Requests
  <2>3. <<max, only, V!latest>> \in StopRequests
    BY <2>2 DEF StopRequests
  <2>4. waiting' = Append(waiting, <<max, only, V!latest>>)
    BY <1>1 DEF V!Call
  <2> QED BY <2>1, <2>3, <2>4 DEF Requests
<1>2. CASE ~paused
  BY <1>2, VEnter DEF V!Call, Requests
<1> QED BY <1>1, <1>2

\* The loop over the transactions, until the block is to be finished.
LEMMA VMines ==
  ASSUME Typed, StoppingLoops, NEW l \in Loops,
         V!SelectBest(l) \/ V!RunCommits(l) \/ V!RunDoesNotFit(l) \/ V!RunFails(l)
  PROVE  Typed' /\ GoesOn(l) /\ StopsIdle(l) /\ StoppingLoops'
<1>1. /\ OnlyLoop(l) /\ loops[l].pc \in Busily /\ loops'[l].pc \in Busily
      /\ UNCHANGED <<isBusy, paused, released, pauser>>
      /\ loops'[l].max = loops[l].max /\ loops'[l].only = loops[l].only
  <2> USE DEF Busily, Typed, Fields, OnlyLoop, V!pauseVars
  <2>1. CASE V!SelectBest(l)
    BY <2>1 DEF V!SelectBest
  <2>2. CASE V!RunCommits(l)
    BY <2>2 DEF V!RunCommits
  <2>3. CASE V!RunDoesNotFit(l)
    BY <2>3 DEF V!RunDoesNotFit
  <2>4. CASE V!RunFails(l)
    BY <2>4 DEF V!RunFails
  <2> QED BY <2>1, <2>2, <2>3, <2>4
<1>2. GoesOn(l)
  BY <1>1, Changed DEF GoesOn, Busily
<1> QED BY <1>1, <1>2, Changed DEF StopsIdle, StoppingLoops, Busily

\* A block is emitted, the heap reset, and the miner no longer busy.
LEMMA VFinish ==
  ASSUME Typed, StoppingLoops, NEW l \in Loops, V!Finish(l)
  PROVE  Typed' /\ GoesOn(l) /\ StopsIdle(l) /\ StoppingLoops'
<1>1. loops[l].pc = "finish" /\ UNCHANGED <<paused, released, pauser>>
  BY DEF V!Finish, V!pauseVars
<1> DEFINE done == [loops[l] EXCEPT !.pc = "after", !.last = Len(emitted) + 1]
<1>2. loops[l].only \/ loops[l].max = V!Empty
  BY <1>1 DEF StoppingLoops, StopsAfter, V!Empty, M!Empty
<1>3. loops' = [loops EXCEPT ![l] = done] /\ isBusy' = FALSE
  BY <1>2 DEF V!Finish
<1>4. /\ Fields \subseteq DOMAIN done /\ done.pc = "after"
      /\ done.max = loops[l].max /\ done.only = loops[l].only
  BY DEF Typed, Fields
<1> HIDE DEF done
<1>5. /\ OnlyLoop(l) /\ loops'[l].pc = "after"
      /\ loops'[l].max = loops[l].max /\ loops'[l].only = loops[l].only
  BY <1>3, <1>4 DEF Typed, OnlyLoop
<1> QED BY <1>1, <1>3, <1>5, Changed DEF GoesOn, StopsIdle, StoppingLoops, Busily

\* #mine mines on as it was asked to, or returns.
LEMMA VAfter ==
  ASSUME Typed, StoppingLoops, NEW l \in Loops, V!After(l)
  PROVE  Typed' /\ Ends(l) /\ StoppingLoops'
<1>1. loops[l].pc = "after" /\ UNCHANGED <<paused, released>>
  BY DEF V!After
<1>2. CASE again /\ V!Continues(loops[l])
  <2> DEFINE next == [loops[l] EXCEPT !.parent = loops[l].last, !.behind = FALSE]
  <2>1. loops' = [loops EXCEPT ![l] = V!Begin(next)] /\ isBusy' = TRUE /\ UNCHANGED pauser
    BY <1>2 DEF V!After
  <2>2. /\ Fields \subseteq DOMAIN next
        /\ next.max = loops[l].max /\ next.only = loops[l].only
    BY DEF Typed, Fields
  <2> HIDE DEF next
  <2>3. /\ OnlyLoop(l) /\ loops'[l].pc \in Busily
        /\ loops'[l].max = loops[l].max /\ loops'[l].only = loops[l].only
    BY <2>1, <2>2, VBegin DEF Typed, OnlyLoop
  <2> QED BY <1>1, <2>1, <2>3, Changed DEF Ends, StoppingLoops
<1>3. CASE ~(again /\ V!Continues(loops[l]))
  <2>1. /\ loops' = [loops EXCEPT ![l] = V!FreeLoop]
        /\ pauser' = IF pauser = "waiting" THEN "holding" ELSE pauser
        /\ UNCHANGED isBusy
    BY <1>3 DEF V!After
  <2>2. OnlyLoop(l) /\ loops'[l].pc = "free"
    BY <2>1 DEF V!FreeLoop, Typed, Fields, OnlyLoop
  <2> QED BY <1>1, <2>1, <2>2, Changed DEF Ends, StoppingLoops
<1> QED BY <1>2, <1>3

\* What the loops do leaves the requests alone.
LEMMA VLoop ==
  ASSUME Typed, Requests, StoppingLoops, NEW l \in Loops, V!Loop(l)
  PROVE  Typed' /\ IntervalStep /\ Requests' /\ StoppingLoops'
<1>1. UNCHANGED <<waiting, released, saved, drains>>
  BY DEF V!Loop, V!After, V!SelectBest, V!RunCommits, V!RunDoesNotFit, V!RunFails, V!Finish,
     V!pauseVars, V!chainVars, V!callVars
<1>2. Requests'
  BY <1>1 DEF Requests
<1> QED BY <1>2, VAfter, VMines, VFinish DEF V!Loop, IntervalStep

\* Every step of the interval miner is a step of the loops, and asks for one block at most.
LEMMA VStep ==
  ASSUME Typed, Requests, StoppingLoops, V!Next
  PROVE  Typed' /\ IntervalStep /\ Requests' /\ StoppingLoops'
<1> DEFINE Goal == Typed' /\ IntervalStep /\ Requests' /\ StoppingLoops'
           Rest == released' = released /\ saved' = saved /\ drains' = drains
<1>1. ASSUME UNCHANGED <<loops, isBusy, paused, released, pauser, waiting, drains>>, saved' \in Nat
      PROVE  Goal
  BY <1>1 DEF IntervalStep, Quiet, Pcs, Typed, Requests, StoppingLoops
<1>2. ASSUME NEW STATE max, NEW STATE only, V!Call(max, only), V!NotAfterLoop,
             UNCHANGED <<paused, pauser>>, Rest,
             max \in Int, only \in BOOLEAN, StopsAfter(max, only)
      PROVE  Goal
  <2>1. Typed' /\ (Begins \/ Quiet) /\ StoppingLoops' /\ waiting' \in Seq(StopRequests)
    BY <1>2, VCall
  <2> QED BY <1>2, <2>1 DEF IntervalStep, Requests
<1>3. CASE V!Released
  <2> DEFINE c == released[1]
  <2>1. /\ V!NotAfterLoop /\ released # <<>> /\ released' = Tail(released)
        /\ V!Enter(c[1], c[2], c[3])
        /\ UNCHANGED <<paused, pauser, waiting, saved, drains>>
    BY <1>3 DEF V!Released, V!chainVars, V!callVars
  <2>2. released' \in Seq(StopRequests) /\ c \in StopRequests
    BY <2>1 DEF Requests
  <2>3. StopsAfter(c[1], c[2])
    BY <2>2 DEF StopRequests
  <2>4. Typed' /\ (Begins \/ Quiet) /\ StoppingLoops'
    BY <2>1, <2>3, VEnter
  <2> QED BY <2>1, <2>2, <2>4 DEF IntervalStep, Requests
<1>4. ~V!Drain
  BY DEF V!Drain, Requests
<1>5. CASE V!MinerStart
  BY <1>1, <1>5 DEF V!MinerStart, V!mineVars, V!chainVars, Requests
<1>6. CASE V!Pause
  <2>1. UNCHANGED <<waiting, released, saved, drains>>
    BY <1>6 DEF V!Pause, V!chainVars
  <2>2. Pauses /\ Typed' /\ StoppingLoops'
    BY <1>6 DEF V!Pause, V!PauseOutcome, V!BoundedCall, V!NoMicrotask, V!NotAfterLoop, V!mineVars,
       Pauses, Pcs, Typed, StoppingLoops
  <2> QED BY <2>1, <2>2 DEF IntervalStep, Requests
<1>7. CASE V!Resume
  <2>1. /\ released' = released \o waiting /\ waiting' = <<>>
        /\ UNCHANGED <<saved, drains>>
    BY <1>7 DEF V!Resume, V!chainVars, V!callVars
  <2>2. Resumes /\ Typed' /\ StoppingLoops'
    BY <1>7 DEF V!Resume, V!mineVars, Resumes, Pcs, Typed, StoppingLoops
  <2> QED BY <2>1, <2>2 DEF IntervalStep, Requests
<1>8. CASE V!BlockSaved
  BY <1>1, <1>8 DEF V!BlockSaved, V!mineVars, V!pauseVars, V!callVars, Requests
<1>9. ASSUME NEW t \in IntervalTxs, V!AddTx(t) \/ V!ReplaceTx(t) PROVE Goal
  BY <1>1, <1>9 DEF V!AddTx, V!ReplaceTx, V!mineVars, V!pauseVars, V!chainVars, Requests
<1>10. CASE V!Tick
  <2>1. V!NotAfterLoop /\ UNCHANGED <<paused, pauser>> /\ Rest /\ V!Call(V!FillBlock, TRUE)
    BY <1>10 DEF V!Tick, V!BoundedCall, V!NoMicrotask, V!chainVars
  <2>2. V!FillBlock \in Int /\ StopsAfter(V!FillBlock, TRUE)
    BY DEF V!FillBlock, StopsAfter
  <2> QED BY <1>2, <2>1, <2>2
<1>11. CASE V!ExplicitCall
  <2>1. V!NotAfterLoop /\ UNCHANGED <<paused, pauser>> /\ Rest
    BY <1>11 DEF V!ExplicitCall, V!BoundedCall, V!NoMicrotask, V!chainVars
  <2>2. PICK m \in IntervalModes : V!Call(m[1], m[2])
    BY <1>11 DEF V!ExplicitCall
  <2>3. m[1] \in Int /\ m[2] \in BOOLEAN /\ StopsAfter(m[1], m[2])
    BY IntervalAssumption
  <2> QED BY <1>2, <2>1, <2>2, <2>3
<1>12. CASE V!MinerStop
  BY <1>1, <1>12 DEF V!MinerStop, V!mineVars, V!pauseVars, V!chainVars, Requests
<1> QED BY <1>3, <1>4, <1>5, <1>6, <1>7, <1>8, <1>9, <1>10, <1>11, <1>12, VLoop
        DEF V!Next, V!Client

-----------------------------------------------------------------------------

(* All parts of the run together. *)

MinersInv == LoopsInv /\ (part = "interval" => IntervalInv)

\* Every loop is free at first.
LEMMA LoopsAreFreeAtFirst == MCInit => MinersInv
<1> SUFFICES ASSUME MCInit PROVE MinersInv
  OBVIOUS
<1>1. /\ loops = [l \in Loops |-> M!FreeLoop]
      /\ ~isBusy /\ pauser = "no"
      /\ waiting = <<>> /\ released = <<>> /\ saved = 0 /\ drains = 0
  BY DEF MCInit, M!Init, V!Init, M!FreeLoop, V!FreeLoop, M!Single, V!Single
<1>2. \A l \in Loops : loops[l].pc = "free" /\ Fields \subseteq DOMAIN loops[l]
  BY <1>1 DEF M!FreeLoop, Fields
<1>3. LoopsInv
  BY <1>1, <1>2 DEF LoopsInv, Typed, OneAtATime, PcIsKnown, BusyWhileMining, PauserKeepsCallsOut,
     HoldingIsQuiet, Busily
<1>4. IntervalInv
  BY <1>1, <1>2 DEF IntervalInv, Requests, StoppingLoops, BusyHasLoop
<1> QED BY <1>3, <1>4 DEF MinersInv

\* A behaviour is of one part, and each keeps the invariant.
LEMMA MinersInvIsInductive ==
  MinersInv /\ [MCNext]_<<part, vars, minerVars, priceVars>> => MinersInv'
<1> SUFFICES ASSUME MinersInv, [MCNext]_<<part, vars, minerVars, priceVars>> PROVE MinersInv'
  OBVIOUS
<1>1. Typed
  BY DEF MinersInv, LoopsInv
<1>2. CASE part = "instamine" /\ M!Next /\ UNCHANGED part
  BY <1>1, <1>2, MStep, LoopStepKeepsInv DEF MinersInv
<1>3. CASE part = "interval" /\ V!Next /\ UNCHANGED part
  <2>1. Typed' /\ IntervalStep /\ Requests' /\ StoppingLoops'
    BY <1>1, <1>3, VStep DEF MinersInv, IntervalInv
  <2>2. LoopStep
    BY <2>1 DEF IntervalStep, LoopStep
  <2> QED BY <1>3, <2>1, <2>2, LoopStepKeepsInv, IntervalStepKeepsBusy DEF MinersInv, IntervalInv
<1>4. CASE UNCHANGED <<part, minerVars>>
  BY <1>4 DEF MinersInv, LoopsInv, Typed, OneAtATime, PcIsKnown, BusyWhileMining,
     PauserKeepsCallsOut, HoldingIsQuiet, IntervalInv, Requests, StoppingLoops, BusyHasLoop, minerVars
<1> QED BY <1>2, <1>3, <1>4 DEF MCNext

\* The loops that mine are one at most.
LEMMA OneAtATimeIsOne ==
  ASSUME OneAtATime, NEW STATE S, S \subseteq {l \in Loops : loops[l].pc # "free"}
  PROVE  Cardinality(S) <= 1
<1>1. CASE S = {}
  BY <1>1, FS_EmptySet
<1>2. CASE S # {}
  <2>1. PICK l \in S : TRUE
    BY <1>2
  <2>2. S = {l}
    BY <2>1 DEF OneAtATime
  <2> QED BY <2>2, FS_Singleton
<1> QED BY <1>1, <1>2

\* The invariant says all that the run checks.
LEMMA MinersInvSuffices == MinersInv => OneLoopAtATime
<1> SUFFICES ASSUME MinersInv PROVE OneLoopAtATime
  OBVIOUS
<1> USE DEF MinersInv, LoopsInv, HoldingIsQuiet
<1>1. M!OneLoop
  <2>1. M!Mining \subseteq {l \in Loops : loops[l].pc # "free"}
    BY DEF M!Mining
  <2>2. Cardinality(M!Mining) <= 1
    BY <2>1, OneAtATimeIsOne
  <2>3. M!Cardinality(M!Mining) = Cardinality(M!Mining)
    BY Zenon DEF M!Cardinality, Cardinality
  <2> QED BY <2>2, <2>3 DEF M!OneLoop
<1>2. V!OneLoop
  <2>1. V!Mining \subseteq {l \in Loops : loops[l].pc # "free"}
    BY DEF V!Mining
  <2>2. Cardinality(V!Mining) <= 1
    BY <2>1, OneAtATimeIsOne
  <2>3. V!Cardinality(V!Mining) = Cardinality(V!Mining)
    BY Zenon DEF V!Cardinality, Cardinality
  <2> QED BY <2>2, <2>3 DEF V!OneLoop
<1>3. M!PausedIsQuiet /\ V!PausedIsQuiet
  BY DEF M!PausedIsQuiet, M!Active, M!IsFree, V!PausedIsQuiet, V!Active, V!IsFree
<1>4. part = "interval" => V!BusyIffActive
  BY DEF IntervalInv, BusyHasLoop, V!BusyIffActive, V!Active, V!IsFree
<1> QED BY <1>1, <1>2, <1>3, <1>4 DEF OneLoopAtATime, Either

\* However calls of mine(), pause(), resume(), miner_stop and miner_start, transactions and the
\* awaits of a loop interleave, one call mines at a time, and none while the miner is held: for
\* any transactions, prices and limits. At an interval the miner is not left busy with nobody mining.
THEOREM OneLoopMines == MCSpec => []OneLoopAtATime
<1>1. MCInit => MinersInv
  BY LoopsAreFreeAtFirst
<1>2. MinersInv /\ [MCNext]_<<part, vars, minerVars, priceVars>> => MinersInv'
  BY MinersInvIsInductive
<1>3. MinersInv => OneLoopAtATime
  BY MinersInvSuffices
<1> QED BY <1>1, <1>2, <1>3, PTL DEF MCSpec

-----------------------------------------------------------------------------

(***************************************************************************)
(* The base fee: what the run shows of small fees and limits, for all.     *)
(***************************************************************************)

\* Division rounds down.
LEMMA DivBounds ==
  ASSUME NEW n \in Nat, NEW d \in Nat, d > 0
  PROVE  /\ n \div d \in Nat
         /\ d * (n \div d) <= n
         /\ n < d * (n \div d) + d
  BY SMT

\* A product of natural numbers is one.
LEMMA ProductIsNat ==
  ASSUME NEW m \in Nat, NEW n \in Nat
  PROVE  m * n \in Nat
  BY SMT

\* A part of a number, of gas out of a target that is no less, is no more than the number.
LEMMA PartIsLess ==
  ASSUME NEW amount \in Nat, NEW gas \in Nat, NEW target \in Nat, target > 0, gas <= target
  PROVE  (amount * gas) \div target \in 0..amount
<1> DEFINE share == (amount * gas) \div target
<1>1. amount * gas \in Nat
  BY ProductIsNat
<1>2. share \in Nat /\ target * share <= amount * gas
  BY <1>1, DivBounds
<1>3. amount * gas <= amount * target
  BY SMT
<1>4. ASSUME share >= amount + 1 PROVE FALSE
  <2>1. target * share >= target * (amount + 1)
    BY <1>2, <1>4, SMT
  <2>2. target * (amount + 1) = amount * target + target
    BY SMT
  <2> QED BY <1>1, <1>2, <1>3, <2>1, <2>2, SMT
<1> QED BY <1>2, <1>4

\* An eighth of a part is no more than an eighth of the whole.
LEMMA EighthIsMonotonic ==
  ASSUME NEW m \in Nat, NEW n \in Nat, m <= n
  PROVE  /\ m \div 8 \in Nat
         /\ n \div 8 \in Nat
         /\ m \div 8 <= n \div 8
  BY SMT

-----------------------------------------------------------------------------

\* The part of TypeOK that the steps below rest on.
Header == gasLimit \in GasLimits /\ baseFee \in Nat /\ gasUsed \in 0..gasLimit

LEMMA TargetIsPositive ==
  ASSUME Header
  PROVE  gasLimit \in Nat /\ gasTarget \in Nat /\ gasTarget > 0 /\ gasLimit >= gasTarget
  BY BaseFeeAssumption DEF Header, gasTarget, ELASTICITY

\* A block below its target takes an eighth of the fee at most, and nothing of seven.
LEMMA FallIsSmall ==
  ASSUME Header, gasUsed < gasTarget
  PROVE  /\ FeeDelta(gasTarget - gasUsed) \in Nat
         /\ FeeDelta(gasTarget - gasUsed) <= baseFee \div 8
<1> DEFINE gas == gasTarget - gasUsed
<1>1. gas \in Nat /\ gas <= gasTarget
  BY TargetIsPositive DEF Header
<1>2. (baseFee * gas) \div gasTarget \in 0..baseFee
  BY <1>1, PartIsLess, TargetIsPositive DEF Header
<1> QED BY <1>2, EighthIsMonotonic DEF Header, FeeDelta, BASE_FEE_MAX_CHANGE_DENOMINATOR

\* A block above it raises the fee by an eighth at most, if the limit is twice the target.
LEMMA RiseIsSmall ==
  ASSUME Header, EvenLimit, gasUsed > gasTarget
  PROVE  /\ FeeDelta(gasUsed - gasTarget) \in Nat
         /\ FeeDelta(gasUsed - gasTarget) <= baseFee \div 8
<1> DEFINE gas == gasUsed - gasTarget
<1>1. gas \in Nat /\ gas <= gasTarget
  BY TargetIsPositive DEF Header, EvenLimit, gasTarget, ELASTICITY
<1>2. (baseFee * gas) \div gasTarget \in 0..baseFee
  BY <1>1, PartIsLess, TargetIsPositive DEF Header
<1> QED BY <1>2, EighthIsMonotonic DEF Header, FeeDelta, BASE_FEE_MAX_CHANGE_DENOMINATOR

\* Whatever the limit, what a rise adds is a number.
LEMMA RiseIsNat ==
  ASSUME Header, gasUsed > gasTarget
  PROVE  FeeDelta(gasUsed - gasTarget) \in Nat
<1>1. gasUsed - gasTarget \in Nat
  BY TargetIsPositive DEF Header
<1>2. baseFee * (gasUsed - gasTarget) \in Nat
  BY <1>1, ProductIsNat DEF Header
<1>3. (baseFee * (gasUsed - gasTarget)) \div gasTarget \in Nat
  BY <1>2, DivBounds, TargetIsPositive
<1> QED BY <1>3, DivBounds DEF FeeDelta, BASE_FEE_MAX_CHANGE_DENOMINATOR

\* The next fee is a number, and at least seven if this one is.
LEMMA NextBaseFeeIsNat ==
  ASSUME Header
  PROVE  /\ NextBaseFee \in Nat
         /\ baseFee >= Floor => NextBaseFee >= Floor
<1>1. CASE gasUsed = gasTarget
  BY <1>1 DEF NextBaseFee, Header
<1>2. CASE gasUsed > gasTarget
  BY <1>2, RiseIsNat, TargetIsPositive
     DEF NextBaseFee, Header, AtLeastOne, Floor, BASE_FEE_MAX_CHANGE_DENOMINATOR
<1>3. CASE gasUsed < gasTarget
  <2>1. NextBaseFee = baseFee - FeeDelta(gasTarget - gasUsed)
    BY <1>3, TargetIsPositive DEF NextBaseFee, Header
  <2>2. baseFee \in Nat /\ baseFee \div 8 \in Nat /\ baseFee \div 8 <= baseFee
    BY DEF Header
  <2>3. baseFee >= 7 => baseFee - baseFee \div 8 >= 7
    BY <2>2, SMT
  <2> QED BY <1>3, <2>1, <2>2, <2>3, FallIsSmall DEF Floor, BASE_FEE_MAX_CHANGE_DENOMINATOR
<1> QED BY <1>1, <1>2, <1>3, TargetIsPositive DEF Header

LEMMA RaisedIsNat ==
  ASSUME NEW amount \in Nat
  PROVE  Raised(amount) \in Nat /\ Raised(amount) >= amount
  BY DEF Raised, BASE_FEE_MAX_CHANGE_DENOMINATOR

LEMMA RaisedIsMonotonic ==
  ASSUME NEW m \in Nat, NEW n \in Nat, m <= n
  PROVE  Raised(m) <= Raised(n)
  BY EighthIsMonotonic DEF Raised, BASE_FEE_MAX_CHANGE_DENOMINATOR

\* No block raises the fee by more than an eighth, or by one if that is nothing.
LEMMA RiseIsBounded ==
  ASSUME Header, EvenLimit
  PROVE  /\ NextBaseFee <= baseFee + AtLeastOne(baseFee \div 8)
         /\ NextBaseFee >= baseFee - baseFee \div 8
<1>1. baseFee \in Nat /\ baseFee \div 8 \in Nat
  BY DEF Header
<1>2. CASE gasUsed = gasTarget
  BY <1>1, <1>2 DEF NextBaseFee, AtLeastOne
<1>3. CASE gasUsed > gasTarget
  BY <1>1, <1>3, RiseIsSmall, TargetIsPositive DEF NextBaseFee, AtLeastOne, Header
<1>4. CASE gasUsed < gasTarget
  BY <1>1, <1>4, FallIsSmall, TargetIsPositive DEF NextBaseFee, AtLeastOne, Header
<1> QED BY <1>2, <1>3, <1>4, TargetIsPositive DEF Header

\* Above seven, that one is an eighth too: whatever bound the fee has, the bound raised by
\* an eighth is a bound of the next one.
LEMMA BoundIsRaised ==
  ASSUME Header, EvenLimit, NEW bound \in Nat, bound > Floor, baseFee <= bound
  PROVE  NextBaseFee <= Raised(bound)
<1>1. baseFee \in Nat /\ baseFee \div 8 \in Nat /\ bound \div 8 \in Nat
        /\ baseFee \div 8 <= bound \div 8
  BY EighthIsMonotonic DEF Header
<1>2. bound \div 8 >= 1
  BY SMT DEF Floor, BASE_FEE_MAX_CHANGE_DENOMINATOR
<1>3. NextBaseFee \in Nat /\ NextBaseFee <= baseFee + AtLeastOne(baseFee \div 8)
  BY RiseIsBounded, NextBaseFeeIsNat
<1>4. baseFee + AtLeastOne(baseFee \div 8) <= bound + bound \div 8
  BY <1>1, <1>2 DEF AtLeastOne
<1> QED BY <1>1, <1>3, <1>4 DEF Raised, AtLeastOne, BASE_FEE_MAX_CHANGE_DENOMINATOR

-----------------------------------------------------------------------------

LEMMA TypeOKHasHeader == TypeOK => Header
  BY DEF TypeOK, Header

\* Every value has its type: division leaves the fees natural numbers.
THEOREM TypeCorrect == Spec => []TypeOK
<1>1. Init => TypeOK
  <2> SUFFICES ASSUME Init PROVE TypeOK
    OBVIOUS
  <2>1. Header
    BY BaseFeeAssumption DEF Init, Header
  <2>2. NextBaseFee \in Nat /\ ThreeBlocksMaxBaseFee \in Nat
    BY <2>1, NextBaseFeeIsNat, RaisedIsNat DEF ThreeBlocksMaxBaseFee
  <2> QED BY <2>1, <2>2 DEF Init, TypeOK, Header
<1>2. TypeOK /\ [Next]_vars => TypeOK'
  <2> SUFFICES ASSUME TypeOK, [Next]_vars PROVE TypeOK'
    OBVIOUS
  <2>1. NextBaseFee \in Nat /\ ThreeBlocksMaxBaseFee \in Nat
    BY TypeOKHasHeader, NextBaseFeeIsNat, RaisedIsNat DEF ThreeBlocksMaxBaseFee
  <2>2. CASE Autofill
    BY <2>1, <2>2 DEF TypeOK, Autofill
  <2>3. ASSUME NEW gas \in 0..gasLimit, Block(gas) PROVE TypeOK'
    BY <2>1, <2>3 DEF TypeOK, Block
  <2>4. CASE UNCHANGED vars
    BY <2>4 DEF TypeOK, vars
  <2> QED BY <2>2, <2>3, <2>4 DEF Next
<1> QED BY <1>1, <1>2, PTL DEF Spec

\* A chain that starts with a fee of at least seven never has one of less: empty blocks do
\* not bring it to zero (block.ts:161-169).
THEOREM FeeStaysAboveZero == Spec => []StaysAboveZero
<1>1. Init => StaysAboveZero
  BY DEF Init, StaysAboveZero
<1>2. TypeOK /\ StaysAboveZero /\ [Next]_vars => StaysAboveZero'
  <2> SUFFICES ASSUME TypeOK, StaysAboveZero, [Next]_vars PROVE StaysAboveZero'
    OBVIOUS
  <2>1. CASE Autofill
    BY <2>1 DEF StaysAboveZero, Autofill
  <2>2. ASSUME NEW gas \in 0..gasLimit, Block(gas) PROVE StaysAboveZero'
    BY <2>2, TypeOKHasHeader, NextBaseFeeIsNat DEF StaysAboveZero, Block
  <2>3. CASE UNCHANGED vars
    BY <2>3 DEF StaysAboveZero, vars
  <2> QED BY <2>1, <2>2, <2>3 DEF Next
<1> QED BY <1>1, <1>2, TypeCorrect, PTL DEF Spec

\* With an even limit no block changes the fee by more than an eighth.
THEOREM FeeChangesByAnEighth == Spec => []EighthAtMost
<1>1. TypeOK => EighthAtMost
  BY TypeOKHasHeader, RiseIsBounded DEF EighthAtMost, BASE_FEE_MAX_CHANGE_DENOMINATOR
<1> QED BY <1>1, TypeCorrect, PTL

\* However blocks are filled, the fee moves by an eighth at most and not towards zero, for
\* all limits and fees.
THEOREM FeeMoves == Spec => []FeeMovesByAnEighth
<1>1. StaysAboveZero /\ EighthAtMost => FeeMovesByAnEighth
  BY DEF FeeMovesByAnEighth
<1> QED BY <1>1, FeeStaysAboveZero, FeeChangesByAnEighth, PTL

(***************************************************************************)
(* What makes DefaultIsEnough inductive: the bounds of the blocks between.  *)
(***************************************************************************)
BlockByBlock ==
  /\ maxFeePerGas = Raised(Raised(nextFee))
  /\ blocks = 0 => NextBaseFee = nextFee
  /\ EvenLimit /\ nextFee > Floor =>
       /\ blocks = 1 => baseFee <= nextFee
       /\ blocks = 2 => baseFee <= Raised(nextFee)
       /\ blocks = 3 => baseFee <= Raised(Raised(nextFee))

LEMMA BlockByBlockIsInductive == TypeOK /\ BlockByBlock /\ [Next]_vars => BlockByBlock'
<1> SUFFICES ASSUME TypeOK, BlockByBlock, [Next]_vars PROVE BlockByBlock'
  OBVIOUS
<1> USE DEF BlockByBlock
<1>1. CASE Autofill
  <2>1. NextBaseFee' = NextBaseFee
    BY <1>1 DEF Autofill, NextBaseFee, FeeDelta, gasTarget
  <2> QED BY <1>1, <2>1 DEF Autofill, ThreeBlocksMaxBaseFee, Raised
<1>2. ASSUME NEW gas \in 0..gasLimit, Block(gas) PROVE BlockByBlock'
  <2>1. maxFeePerGas' = Raised(Raised(nextFee))' /\ blocks' # 0
    BY <1>2 DEF Block, TypeOK, Raised
  <2> SUFFICES ASSUME EvenLimit', (nextFee > Floor)'
               PROVE  /\ blocks' = 1 => baseFee' <= nextFee
                      /\ blocks' = 2 => baseFee' <= Raised(nextFee)
                      /\ blocks' = 3 => baseFee' <= Raised(Raised(nextFee))
    BY <1>2, <2>1 DEF Block, Raised
  <2>2. EvenLimit /\ nextFee > Floor /\ Header /\ nextFee \in Nat
    BY <1>2, TypeOKHasHeader DEF Block, EvenLimit, Floor, TypeOK
  <2>3. /\ Raised(nextFee) \in Nat /\ Raised(nextFee) > Floor
    BY <2>2, RaisedIsNat DEF Floor, BASE_FEE_MAX_CHANGE_DENOMINATOR
  <2>4. CASE blocks = 0
    BY <1>2, <2>2, <2>4 DEF Block, TypeOK
  <2>5. CASE blocks = 1
    BY <1>2, <2>2, <2>5, BoundIsRaised DEF Block, TypeOK
  <2>6. CASE blocks = 2
    BY <1>2, <2>2, <2>3, <2>6, BoundIsRaised DEF Block, TypeOK
  <2>7. CASE blocks \in 3..4
    BY <1>2, <2>7 DEF Block
  <2> QED BY <2>4, <2>5, <2>6, <2>7 DEF TypeOK
<1>3. CASE UNCHANGED vars
  BY <1>3 DEF vars, NextBaseFee, FeeDelta, gasTarget, Raised, EvenLimit
<1> QED BY <1>1, <1>2, <1>3 DEF Next

\* The default maxFeePerGas is enough for the next three blocks, however they are filled, if
\* the limit is even and the fee of the first of them above seven (api.ts:80-85).
THEOREM DefaultCoversThreeBlocks == Spec => []DefaultIsEnough
<1>1. Init => BlockByBlock
  BY DEF Init, BlockByBlock, ThreeBlocksMaxBaseFee
<1>2. TypeOK /\ BlockByBlock => DefaultIsEnough
  <2> SUFFICES ASSUME TypeOK, BlockByBlock, EvenLimit, nextFee > Floor, blocks \in 1..3
               PROVE  baseFee <= maxFeePerGas
    BY DEF DefaultIsEnough
  <2>1. /\ nextFee \in Nat /\ baseFee \in Nat
        /\ Raised(nextFee) \in Nat /\ Raised(nextFee) >= nextFee
        /\ Raised(Raised(nextFee)) \in Nat
        /\ Raised(Raised(nextFee)) >= Raised(nextFee)
    BY RaisedIsNat DEF TypeOK
  <2> QED BY <2>1 DEF BlockByBlock
<1> QED BY <1>1, <1>2, BlockByBlockIsInductive, TypeCorrect, PTL DEF Spec
=============================================================================
