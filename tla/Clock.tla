------------------------------- MODULE Clock -------------------------------
(***************************************************************************)
(* The time of blocks (blockchain.ts, #timeAdjustment): what evm_mine,      *)
(* evm_increaseTime, evm_setTime, evm_snapshot and evm_revert do to the     *)
(* timestamps of the chain.  With timestampIncrement = "clock" a block has  *)
(* the system's time, shifted by an adjustment that stays.  With a number   *)
(* it has its parent's time, plus the number, plus an adjustment that is to *)
(* apply once.                                                             *)
(*                                                                         *)
(* Block times are in seconds, the adjustment is in ticks, of which a       *)
(* Second has many (milliseconds).  Calls of mine() are one at a time here, *)
(* and none is in progress when a revert is asked for: Chain has the        *)
(* overlaps.                                                               *)
(***************************************************************************)
EXTENDS Integers, Sequences

CONSTANTS
  Second,      \* the ticks of a second
  Increments,  \* the numbers that miner.timestampIncrement may be
  SystemClock, \* the "clock" that it may be instead
  Starts,      \* the system's time at the start, in ticks
  ChainTimes,  \* what chain.time may be, in ticks; the system's time if it is not given
  Shifts,      \* the seconds that evm_increaseTime is asked for
  Settings,    \* the ticks that evm_setTime is asked for
  Stamps,      \* the seconds that evm_mine is asked for
  Undefined    \* no timestamp is given

ASSUME ClockAssumption ==
  /\ Second \in Nat \ {0}
  /\ Increments \subseteq Nat
  /\ Starts \subseteq Nat
  /\ ChainTimes \subseteq Nat
  /\ Shifts \subseteq Int
  /\ Settings \subseteq Nat
  /\ Stamps \subseteq Nat

VARIABLES
  increment,   \* miner.timestampIncrement
  now,         \* Date.now()
  adjustment,  \* #timeAdjustment
  times,       \* the timestamps of the blocks of the chain
  snaps,       \* the snapshots: their blocks' numbers and their adjustments
  phase,       \* of mine(): "idle", "mining", "mined" when all its blocks have been
  stamp,       \* the timestamp that mine() was given
  next,        \* the timestamp of the runtime block
  unsaved,     \* the timestamps of the blocks that have been mined and not saved
  wanted,      \* history: the seconds asked for since the genesis of this chain
  told,        \* history: whether a time has been set rather than shifted
  steady       \* history: no shift or snapshot came while mine() was in progress,
               \* and no mine() mined more than one block

vars == <<increment, now, adjustment, times, snaps, phase, stamp, next, unsaved,
          wanted, told, steady>>

history == <<wanted, told, steady>>

IsClock == increment = SystemClock

Last(s) == s[Len(s)]

Init ==
  /\ increment \in Increments \cup {SystemClock}
  /\ now \in Starts
  /\ \E time \in ChainTimes \cup {now} :
       /\ times = <<time \div Second>>
       /\ adjustment = IF IsClock THEN time - now ELSE 0
  /\ snaps = <<>>
  /\ phase = "idle"  /\ stamp = Undefined  /\ next = 0  /\ unsaved = <<>>
  /\ wanted = 0  /\ told = FALSE  /\ steady = TRUE

\* #adjustedTime, rounding down.
AdjustedTime(preceding) ==
  IF IsClock THEN (now + adjustment) \div Second
             ELSE preceding + adjustment \div Second + increment

\* setTimeDiff
TimeDiff(time) == time - (IF IsClock THEN now ELSE Last(times) * Second)

Tick ==
  /\ now' = now + 1
  /\ UNCHANGED <<increment, adjustment, times, snaps, phase, stamp, next, unsaved, history>>

\* evm_increaseTime; a negative number counts as 0.
IncreaseTime(seconds) ==
  LET shift == IF seconds < 0 THEN 0 ELSE seconds
  IN /\ adjustment' = adjustment + shift * Second
     /\ wanted' = wanted + shift
     /\ steady' = (steady /\ phase = "idle")
     /\ UNCHANGED <<increment, now, times, snaps, phase, stamp, next, unsaved, told>>

SetTime(time) ==
  /\ adjustment' = TimeDiff(time)
  /\ told' = TRUE
  /\ UNCHANGED <<increment, now, times, snaps, phase, stamp, next, unsaved, wanted, steady>>

\* mine() prepares the block, of the time it is given or the adjusted one.
Mine(given) ==
  /\ phase = "idle"
  /\ phase' = "mining"
  /\ stamp' = given
  /\ next' = IF given = Undefined THEN AdjustedTime(Last(times)) ELSE given
  /\ told' = (told \/ given # Undefined)
  /\ UNCHANGED <<increment, now, adjustment, times, snaps, unsaved, wanted, steady>>

\* The miner emits the block.  When more transactions wait it prepares another on it, unless
\* it is to mine only one, as for evm_mine.
Mined(more) ==
  /\ phase = "mining"
  /\ unsaved' = Append(unsaved, next)
  /\ \/ ~more /\ phase' = "mined" /\ UNCHANGED <<next, steady>>
     \/ more /\ stamp = Undefined /\ next' = AdjustedTime(next) /\ steady' = FALSE /\ UNCHANGED phase
  /\ UNCHANGED <<increment, now, adjustment, times, snaps, stamp, wanted, told>>

Save ==
  /\ unsaved # <<>>
  /\ times' = Append(times, Head(unsaved))
  /\ unsaved' = Tail(unsaved)
  /\ UNCHANGED <<increment, now, adjustment, snaps, phase, stamp, next, history>>

\* Mutants: the adjustment is kept when blocks have an increment; it is never reset but
\* always set to the time that was given.
KeptAdjustment == IF IsClock /\ stamp # Undefined THEN TimeDiff(stamp * Second) ELSE adjustment
ClearedAdjustment == 0

AdjustmentAfter ==
  IF ~IsClock THEN 0
  ELSE IF stamp # Undefined THEN TimeDiff(stamp * Second)
  ELSE adjustment

\* mine() goes on once the blocks have been saved.
Return ==
  /\ phase = "mined"
  /\ unsaved = <<>>
  /\ phase' = "idle"
  /\ adjustment' = AdjustmentAfter
  /\ stamp' = Undefined  /\ next' = 0
  /\ UNCHANGED <<increment, now, times, snaps, unsaved, history>>

Snapshot ==
  /\ snaps' = Append(snaps, [number |-> Len(times), adjustment |-> adjustment,
                             wanted |-> wanted])
  /\ steady' = (steady /\ phase = "idle")
  /\ UNCHANGED <<increment, now, adjustment, times, phase, stamp, next, unsaved, wanted, told>>

Revert(id) ==
  /\ phase = "idle"
  /\ times' = SubSeq(times, 1, snaps[id].number)
  /\ snaps' = SubSeq(snaps, 1, id - 1)
  /\ adjustment' = snaps[id].adjustment
  /\ wanted' = snaps[id].wanted
  /\ UNCHANGED <<increment, now, phase, stamp, next, unsaved, told, steady>>

Next ==
  \/ Tick
  \/ \E seconds \in Shifts : IncreaseTime(seconds)
  \/ \E time \in Settings : SetTime(time)
  \/ \E given \in Stamps \cup {Undefined} : Mine(given)
  \/ \E more \in BOOLEAN : Mined(more)
  \/ Save
  \/ Return
  \/ Snapshot
  \/ \E id \in 1..Len(snaps) : Revert(id)

Spec == Init /\ [][Next]_vars

(***************************************************************************)
(* Properties                                                              *)
(***************************************************************************)

NonDecreasing(s) == \A i \in 1..(Len(s) - 1) : s[i] <= s[i + 1]

\* The blocks of the chain, mined ones included, are in the order of their times, however
\* often time was moved forward, the chain reverted and the clock restored meanwhile.
\* Only a time that is set can break it (api.ts:643-645).
TimesInOrder == ~told => NonDecreasing(times \o unsaved)

\* With an increment, what was asked for is what the blocks got: the time since the
\* genesis block is the increments of its blocks and all that evm_increaseTime was asked
\* for on this chain, each once, whatever was undone by reverts (blockchain.ts:597-598).
AppliedOnce ==
  ~IsClock /\ ~told /\ steady /\ phase = "idle" =>
    Last(times) + adjustment \div Second
      = times[1] + (Len(times) - 1) * increment + wanted

\* "applies timestamp adjustment only once when `timestampIncrement` is used"
\* (tests/provider.test.ts:223): after the first block of a mine(), every block is
\* just the increment after its parent.
AppliedToOneBlock ==
  [][Len(unsaved') > Len(unsaved) /\ phase' = "mining" /\ ~IsClock
       => next' = next + increment]_vars
=============================================================================
