---------------------------- MODULE ClockProofs ----------------------------
(***************************************************************************)
(* The blocks of a chain are in the order of their times unless a time has  *)
(* been set: for every second, increment, shift and chain time.             *)
(***************************************************************************)
EXTENDS Clock, SequenceTheorems, TLAPS

(***************************************************************************)
(* Sequences of times                                                      *)
(***************************************************************************)

LEMMA AppendKeepsOrder ==
  ASSUME NEW s \in Seq(Int), s # <<>>, NonDecreasing(s), NEW x \in Int, Last(s) <= x
  PROVE  /\ Append(s, x) \in Seq(Int)
         /\ Append(s, x) # <<>>
         /\ NonDecreasing(Append(s, x))
         /\ Last(Append(s, x)) = x
  BY DEF NonDecreasing, Last

LEMMA PrefixKeepsOrder ==
  ASSUME NEW s \in Seq(Int), NonDecreasing(s), NEW n \in 1..Len(s)
  PROVE  /\ SubSeq(s, 1, n) \in Seq(Int)
         /\ SubSeq(s, 1, n) # <<>>
         /\ NonDecreasing(SubSeq(s, 1, n))
         /\ Last(SubSeq(s, 1, n)) = s[n]
         /\ Len(SubSeq(s, 1, n)) = n
         /\ \A i \in 1..n : SubSeq(s, 1, n)[i] = s[i]
<1> DEFINE p == SubSeq(s, 1, n)
<1>1. \A i \in 1..n : s[i] \in Int
  OBVIOUS
<1>2. /\ p \in Seq(Int)
      /\ Len(p) = IF 1 <= n THEN n - 1 + 1 ELSE 0
      /\ \A i \in 1..(n - 1 + 1) : p[i] = s[1 + i - 1]
  BY <1>1, SubSeqProperties
<1>3. Len(p) = n /\ \A i \in 1..n : p[i] = s[i]
  BY <1>2
<1> HIDE DEF p
<1>4. p # <<>>
  BY <1>3
<1>5. Last(p) = s[n]
  BY <1>3 DEF Last
<1>6. NonDecreasing(p)
  <2>1. SUFFICES ASSUME NEW i \in 1..(n - 1) PROVE p[i] <= p[i + 1]
    BY <1>3 DEF NonDecreasing
  <2>2. i \in 1..n /\ i + 1 \in 1..n /\ i \in 1..(Len(s) - 1)
    OBVIOUS
  <2>3. s[i] <= s[i + 1]
    BY <2>2 DEF NonDecreasing
  <2> QED BY <1>3, <2>2, <2>3
<1> QED BY <1>2, <1>3, <1>4, <1>5, <1>6 DEF p

\* Saving a block moves it from one sequence to the other.
LEMMA MoveKeepsAll ==
  ASSUME NEW s \in Seq(Int), NEW t \in Seq(Int), t # <<>>
  PROVE  /\ Append(s, Head(t)) \in Seq(Int)
         /\ Tail(t) \in Seq(Int)
         /\ Append(s, Head(t)) \o Tail(t) = s \o t
<1>1. Append(s, Head(t)) \in Seq(Int) /\ Tail(t) \in Seq(Int)
  OBVIOUS
<1>2. Len(Append(s, Head(t)) \o Tail(t)) = Len(s \o t)
  BY <1>1
<1>3. ASSUME NEW i \in 1..Len(s \o t)
      PROVE  (Append(s, Head(t)) \o Tail(t))[i] = (s \o t)[i]
  BY <1>1, <1>3
<1> QED BY <1>1, <1>2, <1>3

LEMMA AppendIsLast ==
  ASSUME NEW s \in Seq(Int), NEW t \in Seq(Int), NEW x \in Int
  PROVE  s \o Append(t, x) = Append(s \o t, x)
  OBVIOUS

\* Rounding down keeps the order.
LEMMA DivIsMonotonic ==
  ASSUME NEW m \in Int, NEW n \in Int, m <= n, NEW d \in Nat \ {0}
  PROVE  m \div d \in Int /\ n \div d \in Int /\ m \div d <= n \div d
<1>1. /\ m \div d \in Int /\ d * (m \div d) <= m /\ m < d * (m \div d) + d
      /\ n \div d \in Int /\ d * (n \div d) <= n /\ n < d * (n \div d) + d
  BY SMT
<1>2. ASSUME NEW a \in Int, NEW b \in Int, d * a <= m, n < d * b + d, a > b PROVE FALSE
  <2>1. d * a >= d * (b + 1)
    BY <1>2, SMT
  <2>2. d * (b + 1) = d * b + d
    BY SMT
  <2> QED BY <1>2, <2>1, <2>2, SMT
<1> QED BY <1>1, <1>2

LEMMA SumsInOrder ==
  ASSUME NEW m \in Int, NEW n \in Int, m <= n, NEW x \in Int, NEW y \in Int, x <= y
  PROVE  m + x \in Int /\ n + y \in Int /\ m + x <= n + y
  OBVIOUS

-----------------------------------------------------------------------------

All == times \o unsaved

Snap == [number : Nat, adjustment : Int, wanted : Int]

ValuesOK ==
  /\ increment \in Increments \cup {SystemClock}
  /\ now \in Nat
  /\ adjustment \in Int
  /\ times \in Seq(Int) /\ times # <<>>
  /\ unsaved \in Seq(Int)
  /\ next \in Int
  /\ phase \in {"idle", "mining", "mined"}
  /\ stamp \in Stamps \cup {Undefined}
  /\ phase = "idle" => unsaved = <<>>
  /\ wanted \in Int

\* The snapshots are of blocks of the chain, in the order they were taken in.
SnapsOK ==
  /\ snaps \in Seq(Snap)
  /\ \A k \in 1..Len(snaps) : snaps[k].number \in 1..Len(times)
  /\ \A j, k \in 1..Len(snaps) : j <= k => snaps[j].number <= snaps[k].number

TypeOK == ValuesOK /\ SnapsOK

\* With the system's clock no block is of the future, after the return to a snapshot
\* either.
ClockIsAhead ==
  /\ \A i \in 1..Len(All) : All[i] <= (now + adjustment) \div Second
  /\ phase = "mining" => next <= (now + adjustment) \div Second
  /\ \A k \in 1..Len(snaps) : \A i \in 1..snaps[k].number :
       times[i] <= (now + snaps[k].adjustment) \div Second

\* With an increment the adjustment only adds.
AdjustmentAdds ==
  /\ adjustment >= 0
  /\ \A k \in 1..Len(snaps) : snaps[k].adjustment >= 0

(***************************************************************************)
(* TimesInOrder is not inductive: the next block must not be older than the *)
(* last one, whichever of Mined, Return and Revert comes before it is made. *)
(***************************************************************************)
InOrder ==
  ~told =>
    /\ NonDecreasing(All)
    /\ phase # "idle" => stamp = Undefined
    /\ phase = "mining" => Last(All) <= next
    /\ IsClock => ClockIsAhead
    /\ ~IsClock => AdjustmentAdds

LEMMA SecondIsPositive == Second \in Nat \ {0}
  BY ClockAssumption

LEMMA TypeInit == Init => TypeOK
<1> SUFFICES ASSUME Init PROVE TypeOK
  OBVIOUS
<1>1. PICK time \in ChainTimes \cup {now} :
        /\ times = <<time \div Second>>
        /\ adjustment = IF IsClock THEN time - now ELSE 0
  BY DEF Init
<1>2. now \in Nat /\ time \in Int /\ time \div Second \in Int
  BY ClockAssumption, SecondIsPositive, DivIsMonotonic DEF Init
<1> QED BY <1>1, <1>2 DEF Init, TypeOK, ValuesOK, SnapsOK

\* The numbers that the actions compute.
LEMMA NumbersAreIntegers ==
  ASSUME ValuesOK
  PROVE  /\ Last(times) \in Int
         /\ \A x \in Int : AdjustedTime(x) \in Int
         /\ \A time \in Int : TimeDiff(time) \in Int
         /\ \A seconds \in Int : seconds * Second \in Int
<1>1. Second \in Nat \ {0} /\ now \in Int /\ adjustment \in Int
  BY SecondIsPositive DEF ValuesOK
<1>2. (now + adjustment) \div Second \in Int /\ adjustment \div Second \in Int
  BY <1>1, DivIsMonotonic
<1>3. ~IsClock => increment \in Int
  BY ClockAssumption DEF ValuesOK, IsClock
<1>4. Last(times) \in Int
  BY DEF Last, ValuesOK
<1>5. \A seconds \in Int : seconds * Second \in Int
  BY <1>1
<1>6. \A time \in Int : TimeDiff(time) \in Int
  BY <1>1, <1>4, <1>5 DEF TimeDiff
<1>7. \A x \in Int : AdjustedTime(x) \in Int
  BY <1>2, <1>3 DEF AdjustedTime
<1> QED BY <1>4, <1>5, <1>6, <1>7

LEMMA ValuesNext == TypeOK /\ [Next]_vars => ValuesOK'
<1> SUFFICES ASSUME ValuesOK, SnapsOK, [Next]_vars PROVE ValuesOK'
  BY DEF TypeOK
<1>0. /\ Last(times) \in Int
      /\ \A x \in Int : AdjustedTime(x) \in Int
      /\ \A time \in Int : TimeDiff(time) \in Int
      /\ \A seconds \in Int : seconds * Second \in Int
  BY NumbersAreIntegers
<1>1. CASE Tick
  BY <1>1 DEF Tick, history, ValuesOK
<1>2. ASSUME NEW seconds \in Shifts, IncreaseTime(seconds) PROVE ValuesOK'
  <2> DEFINE shift == IF seconds < 0 THEN 0 ELSE seconds
  <2>1. shift \in Int /\ shift * Second \in Int
    BY <1>0, ClockAssumption
  <2>2. adjustment' = adjustment + shift * Second /\ wanted' = wanted + shift
    BY <1>2 DEF IncreaseTime
  <2>3. adjustment' \in Int /\ wanted' \in Int
    BY <2>1, <2>2 DEF ValuesOK
  <2> QED BY <1>2, <2>3 DEF IncreaseTime, ValuesOK
<1>3. ASSUME NEW time \in Settings, SetTime(time) PROVE ValuesOK'
  <2>1. adjustment' \in Int
    BY <1>0, <1>3, ClockAssumption DEF SetTime
  <2> QED BY <1>3, <2>1 DEF SetTime, ValuesOK
<1>4. ASSUME NEW given \in Stamps \cup {Undefined}, Mine(given) PROVE ValuesOK'
  <2>1. next' \in Int
    BY <1>0, <1>4, ClockAssumption DEF Mine
  <2> QED BY <1>4, <2>1 DEF Mine, ValuesOK
<1>5. ASSUME NEW more \in BOOLEAN, Mined(more) PROVE ValuesOK'
  <2>1. unsaved' \in Seq(Int)
    BY <1>5 DEF Mined, ValuesOK
  <2>2. next' \in Int /\ phase' \in {"mining", "mined"}
    BY <1>0, <1>5 DEF Mined, ValuesOK
  <2> QED BY <1>5, <2>1, <2>2 DEF Mined, ValuesOK
<1>6. CASE Save
  <2>1. Head(unsaved) \in Int /\ Tail(unsaved) \in Seq(Int) /\ phase # "idle"
    BY <1>6, HeadTailProperties DEF Save, ValuesOK
  <2>2. times' \in Seq(Int) /\ times' # <<>>
    BY <1>6, <2>1 DEF Save, ValuesOK
  <2> QED BY <1>6, <2>1, <2>2 DEF Save, history, ValuesOK
<1>7. CASE Return
  <2>1. stamp # Undefined => stamp \in Int
    BY ClockAssumption DEF ValuesOK
  <2>2. stamp # Undefined => TimeDiff(stamp * Second) \in Int
    BY <1>0, <2>1
  <2>3. AdjustmentAfter \in Int
    BY <2>2 DEF AdjustmentAfter, ValuesOK
  <2> QED BY <1>7, <2>3 DEF Return, history, ValuesOK
<1>8. CASE Snapshot
  BY <1>8 DEF Snapshot, ValuesOK
<1>9. ASSUME NEW id \in 1..Len(snaps), Revert(id) PROVE ValuesOK'
  <2>1. /\ snaps[id].number \in 1..Len(times)
        /\ snaps[id].adjustment \in Int
        /\ snaps[id].wanted \in Int
    <3>1. snaps[id] \in Snap /\ snaps[id].number \in 1..Len(times)
      BY DEF SnapsOK
    <3> QED BY <3>1 DEF Snap
  <2>2. \A i \in 1..Len(times) : times[i] \in Int
    BY DEF ValuesOK
  <2>3. times' \in Seq(Int) /\ times' # <<>>
    BY <1>9, <2>1, <2>2, SubSeqProperties DEF Revert
  <2> QED BY <1>9, <2>1, <2>3 DEF Revert, ValuesOK
<1>10. CASE UNCHANGED vars
  BY <1>10 DEF vars, ValuesOK
<1> QED BY <1>1, <1>2, <1>3, <1>4, <1>5, <1>6, <1>7, <1>8, <1>9, <1>10 DEF Next

LEMMA SnapsNext == TypeOK /\ [Next]_vars => SnapsOK'
<1> SUFFICES ASSUME ValuesOK, SnapsOK, [Next]_vars PROVE SnapsOK'
  BY DEF TypeOK
<1>1. CASE UNCHANGED <<times, snaps>>
  BY <1>1 DEF SnapsOK
<1>2. CASE Save
  <2>1. Head(unsaved) \in Int
    BY <1>2, HeadTailProperties DEF Save, ValuesOK
  <2>2. Len(times) \in Nat /\ Len(times') = Len(times) + 1 /\ UNCHANGED snaps
    BY <1>2, <2>1, AppendProperties DEF Save, ValuesOK
  <2>3. \A k \in 1..Len(snaps) : snaps[k].number \in 1..Len(times')
    BY <2>2 DEF SnapsOK
  <2> QED BY <2>2, <2>3 DEF SnapsOK
<1>3. CASE Snapshot
  <2> DEFINE snap == [number |-> Len(times), adjustment |-> adjustment, wanted |-> wanted]
  <2>1. snap \in Snap /\ snap.number = Len(times) /\ Len(times) \in 1..Len(times)
    BY DEF Snap, ValuesOK
  <2>2. snaps' = Append(snaps, snap) /\ UNCHANGED times
    BY <1>3 DEF Snapshot
  <2> HIDE DEF snap
  <2>3. /\ snaps' \in Seq(Snap)
        /\ Len(snaps') = Len(snaps) + 1
        /\ \A k \in 1..Len(snaps) : snaps'[k] = snaps[k]
        /\ snaps'[Len(snaps) + 1] = snap
        /\ Len(snaps) \in Nat
    BY <2>1, <2>2, AppendProperties DEF SnapsOK
  <2>4. ASSUME NEW k \in 1..Len(snaps')
        PROVE  snaps'[k].number \in 1..Len(times)
    <3>1. CASE k \in 1..Len(snaps)
      BY <2>3, <3>1 DEF SnapsOK
    <3>2. CASE k = Len(snaps) + 1
      BY <2>1, <2>3, <3>2
    <3> QED BY <2>3, <3>1, <3>2
  <2>5. ASSUME NEW j \in 1..Len(snaps'), NEW k \in 1..Len(snaps'), j <= k
        PROVE  snaps'[j].number <= snaps'[k].number
    <3>1. CASE k \in 1..Len(snaps)
      <4>1. j \in 1..Len(snaps)
        BY <2>5, <3>1
      <4> QED BY <2>3, <2>5, <3>1, <4>1 DEF SnapsOK
    <3>2. CASE k = Len(snaps) + 1
      BY <2>1, <2>3, <2>4, <3>2
    <3> QED BY <2>3, <3>1, <3>2
  <2> QED BY <2>2, <2>3, <2>4, <2>5 DEF SnapsOK
<1>4. ASSUME NEW id \in 1..Len(snaps), Revert(id) PROVE SnapsOK'
  <2>1. snaps[id].number \in 1..Len(times)
    BY DEF SnapsOK
  <2>2. \A i \in 1..Len(times) : times[i] \in Int
    BY DEF ValuesOK
  <2>3. Len(times') = snaps[id].number
    BY <1>4, <2>1, <2>2, SubSeqProperties DEF Revert
  <2>4. \A k \in 1..(id - 1) : snaps[k] \in Snap
    BY DEF SnapsOK
  <2>5. /\ snaps' \in Seq(Snap)
        /\ Len(snaps') = id - 1
        /\ \A k \in 1..(id - 1) : snaps'[k] = snaps[k]
    BY <1>4, <2>4, SubSeqProperties DEF Revert
  <2>6. ASSUME NEW k \in 1..(id - 1)
        PROVE  snaps'[k].number \in 1..Len(times')
    <3>1. k \in 1..Len(snaps) /\ k <= id
      BY DEF SnapsOK
    <3>2. snaps[k].number \in 1..Len(times) /\ snaps[k].number <= snaps[id].number
      BY <3>1 DEF SnapsOK
    <3> QED BY <2>1, <2>3, <2>5, <3>2
  <2>7. ASSUME NEW j \in 1..(id - 1), NEW k \in 1..(id - 1), j <= k
        PROVE  snaps'[j].number <= snaps'[k].number
    <3>1. j \in 1..Len(snaps) /\ k \in 1..Len(snaps)
      BY DEF SnapsOK
    <3> QED BY <2>5, <2>7, <3>1 DEF SnapsOK
  <2> QED BY <2>5, <2>6, <2>7 DEF SnapsOK
<1> QED BY <1>1, <1>2, <1>3, <1>4
     DEF Next, Tick, IncreaseTime, SetTime, Mine, Mined, Return, history, vars

LEMMA TypeNext == TypeOK /\ [Next]_vars => TypeOK'
  BY ValuesNext, SnapsNext DEF TypeOK

-----------------------------------------------------------------------------

LEMMA AllIsASequence ==
  ASSUME ValuesOK
  PROVE  /\ All \in Seq(Int) /\ All # <<>>
         /\ Len(All) = Len(times) + Len(unsaved)
         /\ \A i \in 1..Len(times) : i \in 1..Len(All) /\ All[i] = times[i]
         /\ unsaved = <<>> => All = times
  BY DEF All, ValuesOK

LEMMA InOrderInit == Init => InOrder
<1> SUFFICES ASSUME Init PROVE InOrder
  OBVIOUS
<1>1. PICK time \in ChainTimes \cup {now} :
        /\ times = <<time \div Second>>
        /\ adjustment = IF IsClock THEN time - now ELSE 0
  BY DEF Init
<1>2. now \in Nat /\ time \in Int /\ time \div Second \in Int
  BY ClockAssumption, SecondIsPositive, DivIsMonotonic DEF Init
<1>3. Len(All) = 1 /\ All[1] = time \div Second
  BY <1>1, <1>2 DEF All, Init
<1>4. NonDecreasing(All)
  BY <1>3 DEF NonDecreasing
<1>5. IsClock => now + adjustment = time
  BY <1>1, <1>2
<1>6. IsClock => ClockIsAhead
  BY <1>2, <1>3, <1>5 DEF ClockIsAhead, Init
<1>7. ~IsClock => AdjustmentAdds
  BY <1>1 DEF AdjustmentAdds, Init
<1> QED BY <1>4, <1>6, <1>7 DEF InOrder, Init

\* Time that goes on, or is shifted forward, leaves every block behind.
LEMMA TimeGoesOn ==
  ASSUME ValuesOK, SnapsOK, InOrder, now' \in Int, adjustment' \in Int,
         now' >= now, adjustment' >= adjustment,
         UNCHANGED <<increment, times, snaps, phase, stamp, next, unsaved, told>>
  PROVE  InOrder'
<1> SUFFICES ASSUME ~told PROVE InOrder'
  BY DEF InOrder
<1>1. All' = All /\ IsClock' = IsClock
  BY DEF All, IsClock
<1>2. /\ Second \in Nat \ {0} /\ now \in Int /\ adjustment \in Int /\ next \in Int
      /\ now' \in Int /\ adjustment' \in Int /\ now <= now' /\ adjustment <= adjustment'
  BY SecondIsPositive DEF ValuesOK
<1>3. ASSUME IsClock PROVE ClockIsAhead'
  <2>1. \A m, n \in Int : m <= n =>
          m \div Second \in Int /\ n \div Second \in Int /\ m \div Second <= n \div Second
    BY <1>2, DivIsMonotonic
  <2>2. ClockIsAhead
    BY <1>3 DEF InOrder
  <2>3. \A i \in 1..Len(All) : All[i] \in Int
    BY AllIsASequence
  <2> DEFINE a == (now + adjustment) \div Second
             b == (now' + adjustment') \div Second
  <2>4. a \in Int /\ b \in Int /\ a <= b
    <3> HIDE DEF a, b
    <3>1. /\ now + adjustment \in Int /\ now' + adjustment' \in Int
          /\ now + adjustment <= now' + adjustment'
      BY <1>2, SumsInOrder
    <3> QED BY <1>2, <3>1, DivIsMonotonic DEF a, b
  <2>5. /\ \A i \in 1..Len(All) : All[i] <= a
        /\ phase = "mining" => next <= a
    BY <2>2 DEF ClockIsAhead
  <2> HIDE DEF a, b
  <2>6. /\ \A i \in 1..Len(All) : All[i] <= b
        /\ phase = "mining" => next <= b
    BY <1>2, <2>3, <2>4, <2>5
  <2>7. ASSUME NEW k \in 1..Len(snaps), NEW i \in 1..snaps[k].number
        PROVE  times[i] <= (now' + snaps[k].adjustment) \div Second
    <3> DEFINE c == (now + snaps[k].adjustment) \div Second
               d == (now' + snaps[k].adjustment) \div Second
    <3>1. snaps[k] \in Snap /\ snaps[k].number \in 1..Len(times)
      BY DEF SnapsOK
    <3>2. snaps[k].adjustment \in Int /\ i \in 1..Len(times)
      BY <3>1 DEF Snap, ValuesOK
    <3>3. c \in Int /\ d \in Int /\ c <= d
      <4>1. /\ now + snaps[k].adjustment \in Int /\ now' + snaps[k].adjustment \in Int
            /\ now + snaps[k].adjustment <= now' + snaps[k].adjustment
        BY <1>2, <3>2
      <4> QED BY <2>1, <4>1
    <3>4. times[i] \in Int /\ times[i] <= c
      BY <2>2, <3>2 DEF ClockIsAhead, ValuesOK
    <3> HIDE DEF c, d
    <3>5. times[i] <= d
      BY <3>3, <3>4
    <3> QED BY <3>5 DEF d
  <2> QED BY <1>1, <2>6, <2>7 DEF ClockIsAhead, b
<1>4. ASSUME ~IsClock PROVE AdjustmentAdds'
  BY <1>2, <1>4 DEF InOrder, AdjustmentAdds
<1> QED BY <1>1, <1>3, <1>4 DEF InOrder

\* The adjusted time is not before the block that it follows.
LEMMA AdjustedTimeIsLater ==
  ASSUME ValuesOK, InOrder, ~told, NEW x \in Int,
         IsClock => x <= (now + adjustment) \div Second
  PROVE  /\ x <= AdjustedTime(x)
         /\ IsClock => AdjustedTime(x) <= (now + adjustment) \div Second
<1>1. Second \in Nat \ {0} /\ now \in Int /\ adjustment \in Int
  BY SecondIsPositive DEF ValuesOK
<1>2. CASE IsClock
  BY <1>1, <1>2, DivIsMonotonic DEF AdjustedTime
<1>3. CASE ~IsClock
  <2>1. increment \in Nat
    BY <1>3, ClockAssumption DEF ValuesOK, IsClock
  <2>2. adjustment >= 0
    BY <1>3 DEF InOrder, AdjustmentAdds
  <2>3. 0 \div Second = 0
    BY <1>1, SMT
  <2>4. adjustment \div Second \in Int /\ 0 <= adjustment \div Second
    BY <1>1, <2>2, <2>3, DivIsMonotonic
  <2> QED BY <1>3, <2>1, <2>4 DEF AdjustedTime
<1> QED BY <1>2, <1>3

LEMMA InOrderNext == TypeOK /\ InOrder /\ [Next]_vars => InOrder'
<1> SUFFICES ASSUME ValuesOK, SnapsOK, InOrder, [Next]_vars, ~told' PROVE InOrder'
  BY DEF TypeOK, InOrder
<1>0. /\ All \in Seq(Int) /\ All # <<>>
      /\ Len(All) = Len(times) + Len(unsaved)
      /\ \A i \in 1..Len(times) : i \in 1..Len(All) /\ All[i] = times[i]
      /\ unsaved = <<>> => All = times
      /\ Last(All) \in Int
  BY AllIsASequence DEF Last
<1>1. CASE Tick
  <2>1. now' \in Int /\ now' >= now /\ adjustment' = adjustment /\ adjustment \in Int
    BY <1>1 DEF Tick, ValuesOK
  <2> QED BY <1>1, <2>1, TimeGoesOn DEF Tick, history
<1>2. ASSUME NEW seconds \in Shifts, IncreaseTime(seconds) PROVE InOrder'
  <2> DEFINE shift == IF seconds < 0 THEN 0 ELSE seconds
  <2>1. shift \in Nat /\ Second \in Nat /\ adjustment \in Int /\ now \in Int
    BY ClockAssumption DEF ValuesOK
  <2>2. adjustment' = adjustment + shift * Second
    BY <1>2 DEF IncreaseTime
  <2> HIDE DEF shift
  <2>3. shift * Second \in Nat
    BY <2>1
  <2>4. adjustment' \in Int /\ adjustment' >= adjustment
    BY <2>1, <2>2, <2>3
  <2> QED BY <1>2, <2>1, <2>4, TimeGoesOn DEF IncreaseTime
<1>3. ASSUME NEW time \in Settings, SetTime(time) PROVE InOrder'
  BY <1>3 DEF SetTime
<1>4. ASSUME NEW given \in Stamps \cup {Undefined}, Mine(given) PROVE InOrder'
  <2>1. ~told /\ given = Undefined /\ All = times /\ next' = AdjustedTime(Last(times))
    BY <1>0, <1>4 DEF Mine, ValuesOK
  <2>2. IsClock => Last(times) <= (now + adjustment) \div Second
    BY <1>0, <2>1 DEF InOrder, ClockIsAhead, Last
  <2>3. /\ Last(times) <= next'
        /\ IsClock => next' <= (now + adjustment) \div Second
    BY <1>0, <2>1, <2>2, AdjustedTimeIsLater
  <2>4. All' = All /\ IsClock' = IsClock
    BY <1>4 DEF Mine, All, IsClock
  <2>5. IsClock => ClockIsAhead'
    BY <1>4, <2>1, <2>3, <2>4 DEF InOrder, ClockIsAhead, Mine
  <2>6. ~IsClock => AdjustmentAdds'
    BY <1>4, <2>1 DEF InOrder, AdjustmentAdds, Mine
  <2> QED BY <1>4, <2>1, <2>3, <2>4, <2>5, <2>6 DEF InOrder, Mine
<1>5. ASSUME NEW more \in BOOLEAN, Mined(more) PROVE InOrder'
  <2>1. /\ ~told /\ phase = "mining" /\ stamp = Undefined /\ next \in Int
        /\ NonDecreasing(All) /\ Last(All) <= next
        /\ UNCHANGED <<increment, now, adjustment, times, snaps, stamp, told>>
    BY <1>5 DEF Mined, InOrder, ValuesOK
  <2>2. All' = Append(All, next) /\ IsClock' = IsClock
    BY <1>5, AppendIsLast DEF Mined, All, IsClock, ValuesOK
  <2>3. NonDecreasing(All') /\ Last(All') = next
    BY <1>0, <2>1, <2>2, AppendKeepsOrder
  <2>4. phase' = "mining" => next' = AdjustedTime(next)
    BY <1>5 DEF Mined
  <2>5. IsClock => ClockIsAhead /\ next <= (now + adjustment) \div Second
    BY <2>1 DEF InOrder, ClockIsAhead
  <2>6. phase' = "mining" =>
          next <= next' /\ (IsClock => next' <= (now + adjustment) \div Second)
    BY <2>1, <2>4, <2>5, AdjustedTimeIsLater
  <2>7. ASSUME IsClock PROVE ClockIsAhead'
    <3>1. /\ Len(All') = Len(All) + 1
          /\ \A i \in 1..Len(All) : All'[i] = All[i]
          /\ All'[Len(All) + 1] = next
      BY <1>0, <2>1, <2>2, AppendProperties
    <3>2. \A i \in 1..Len(All') : All'[i] <= (now + adjustment) \div Second
      BY <1>0, <2>5, <2>7, <3>1 DEF ClockIsAhead
    <3> QED BY <2>1, <2>5, <2>6, <2>7, <3>2 DEF ClockIsAhead
  <2>8. ~IsClock => AdjustmentAdds'
    BY <2>1 DEF InOrder, AdjustmentAdds
  <2> QED BY <2>1, <2>2, <2>3, <2>6, <2>7, <2>8 DEF InOrder
<1>6. CASE Save
  <2>1. /\ times' = Append(times, Head(unsaved)) /\ unsaved' = Tail(unsaved) /\ unsaved # <<>>
        /\ UNCHANGED <<increment, now, adjustment, snaps, phase, stamp, next, told>>
    BY <1>6 DEF Save, history
  <2>2. All' = All /\ IsClock' = IsClock
    BY <2>1, MoveKeepsAll DEF All, IsClock, ValuesOK
  <2>3. ~told /\ (IsClock => ClockIsAhead) /\ (~IsClock => AdjustmentAdds)
    BY <2>1 DEF InOrder
  <2>4. \A i \in 1..Len(times) : times'[i] = times[i]
    <3>1. Head(unsaved) \in Int
      BY <2>1, HeadTailProperties DEF ValuesOK
    <3> QED BY <2>1, <3>1, AppendProperties DEF ValuesOK
  <2>5. ASSUME IsClock PROVE ClockIsAhead'
    <3>1. \A k \in 1..Len(snaps) : \A i \in 1..snaps[k].number : i \in 1..Len(times)
      BY DEF SnapsOK, ValuesOK
    <3>2. \A k \in 1..Len(snaps) : \A i \in 1..snaps[k].number :
            times'[i] <= (now + snaps[k].adjustment) \div Second
      BY <2>3, <2>4, <2>5, <3>1 DEF ClockIsAhead
    <3> QED BY <2>1, <2>2, <2>3, <2>5, <3>2 DEF ClockIsAhead
  <2>6. ~IsClock => AdjustmentAdds'
    BY <2>1, <2>3 DEF AdjustmentAdds
  <2> QED BY <2>1, <2>2, <2>3, <2>5, <2>6 DEF InOrder
<1>7. CASE Return
  <2>1. /\ ~told /\ stamp = Undefined /\ stamp' = Undefined /\ phase' = "idle"
        /\ adjustment' = AdjustmentAfter
        /\ UNCHANGED <<increment, now, times, snaps, unsaved, told>>
    BY <1>7 DEF Return, history, InOrder
  <2>2. All' = All /\ IsClock' = IsClock
    BY <2>1 DEF All, IsClock
  <2>3. IsClock => ClockIsAhead'
    <3>1. IsClock => adjustment' = adjustment
      BY <2>1 DEF AdjustmentAfter
    <3> QED BY <2>1, <2>2, <3>1 DEF InOrder, ClockIsAhead
  <2>4. ~IsClock => AdjustmentAdds'
    BY <2>1 DEF InOrder, AdjustmentAdds, AdjustmentAfter
  <2> QED BY <2>1, <2>2, <2>3, <2>4 DEF InOrder
<1>8. CASE Snapshot
  <2> DEFINE snap == [number |-> Len(times), adjustment |-> adjustment, wanted |-> wanted]
  <2>1. /\ ~told /\ snaps' = Append(snaps, snap)
        /\ UNCHANGED <<increment, now, adjustment, times, phase, stamp, next, unsaved, told>>
    BY <1>8 DEF Snapshot
  <2>2. snap \in Snap /\ snap.number = Len(times) /\ snap.adjustment = adjustment
    BY DEF Snap, ValuesOK
  <2> HIDE DEF snap
  <2>3. /\ Len(snaps) \in Nat
        /\ Len(snaps') = Len(snaps) + 1
        /\ \A k \in 1..Len(snaps) : snaps'[k] = snaps[k]
        /\ snaps'[Len(snaps) + 1] = snap
    BY <2>1, <2>2, AppendProperties DEF SnapsOK
  <2>4. All' = All /\ IsClock' = IsClock
    BY <2>1 DEF All, IsClock
  <2>5. ASSUME IsClock PROVE ClockIsAhead'
    <3>1. ClockIsAhead
      BY <2>1, <2>5 DEF InOrder
    <3>2. ASSUME NEW k \in 1..Len(snaps'), NEW i \in 1..snaps'[k].number
          PROVE  times[i] <= (now + snaps'[k].adjustment) \div Second
      <4>1. CASE k \in 1..Len(snaps)
        BY <2>3, <3>1, <3>2, <4>1 DEF ClockIsAhead
      <4>2. CASE k = Len(snaps) + 1
        BY <1>0, <2>2, <2>3, <3>1, <3>2, <4>2 DEF ClockIsAhead
      <4> QED BY <2>3, <4>1, <4>2
    <3> QED BY <2>1, <2>4, <3>1, <3>2 DEF ClockIsAhead
  <2>6. ~IsClock => AdjustmentAdds'
    BY <2>1, <2>2, <2>3 DEF InOrder, AdjustmentAdds
  <2> QED BY <2>1, <2>4, <2>5, <2>6 DEF InOrder
<1>9. ASSUME NEW id \in 1..Len(snaps), Revert(id) PROVE InOrder'
  <2> DEFINE n == snaps[id].number
  <2>1. /\ ~told /\ phase = "idle" /\ unsaved = <<>> /\ times' = SubSeq(times, 1, n)
        /\ snaps' = SubSeq(snaps, 1, id - 1) /\ adjustment' = snaps[id].adjustment
        /\ UNCHANGED <<increment, now, phase, stamp, next, unsaved, told>>
    BY <1>9 DEF Revert, ValuesOK
  <2>2. n \in 1..Len(times) /\ NonDecreasing(times) /\ times \in Seq(Int)
    BY <1>0, <2>1 DEF SnapsOK, InOrder, ValuesOK
  <2>3. /\ times' \in Seq(Int) /\ NonDecreasing(times') /\ Len(times') = n
        /\ \A i \in 1..n : times'[i] = times[i]
    BY <2>1, <2>2, PrefixKeepsOrder
  <2>4. All' = times' /\ IsClock' = IsClock
    BY <2>1, <2>3 DEF All, IsClock
  <2>5. /\ Len(snaps') = id - 1
        /\ \A k \in 1..(id - 1) : k \in 1..Len(snaps) /\ snaps'[k] = snaps[k]
    <3>1. \A k \in 1..(id - 1) : snaps[k] \in Snap
      BY DEF SnapsOK
    <3>2. \A k \in 1..(id - 1) : k \in 1..Len(snaps)
      BY DEF SnapsOK
    <3> QED BY <2>1, <3>1, <3>2, SubSeqProperties
  <2>6. ASSUME IsClock PROVE ClockIsAhead'
    <3>1. ClockIsAhead
      BY <2>1, <2>6 DEF InOrder
    <3>2. \A i \in 1..n : times'[i] <= (now + adjustment') \div Second
      BY <2>1, <2>3, <3>1 DEF ClockIsAhead
    <3>3. ASSUME NEW k \in 1..(id - 1), NEW i \in 1..snaps[k].number
          PROVE  times'[i] <= (now + snaps[k].adjustment) \div Second
      <4>1. k \in 1..Len(snaps) /\ snaps[k].number <= n /\ snaps[k].number \in Nat
        BY <2>5 DEF SnapsOK
      <4>2. i \in 1..n
        BY <2>2, <4>1
      <4> QED BY <2>3, <3>1, <4>1, <4>2 DEF ClockIsAhead
    <3> QED BY <2>1, <2>3, <2>4, <2>5, <3>2, <3>3 DEF ClockIsAhead
  <2>7. ~IsClock => AdjustmentAdds'
    BY <2>1, <2>5 DEF InOrder, AdjustmentAdds
  <2> QED BY <2>1, <2>3, <2>4, <2>6, <2>7 DEF InOrder
<1>10. CASE UNCHANGED vars
  BY <1>10 DEF vars, InOrder, All, IsClock, ClockIsAhead, AdjustmentAdds
<1> QED BY <1>1, <1>2, <1>3, <1>4, <1>5, <1>6, <1>7, <1>8, <1>9, <1>10 DEF Next

-----------------------------------------------------------------------------

\* The time of the nth block if every increment and all that was asked for comes once.
Due(n, asked) == times[1] + (n - 1) * increment + asked

(***************************************************************************)
(* AppliedOnce speaks of an idle miner.  While it mines, the adjustment is   *)
(* in the block already and still there to be cleared; and the snapshots     *)
(* must be of chains of which it was true.                                 *)
(***************************************************************************)
Exact ==
  ~IsClock /\ ~told /\ steady =>
    /\ phase # "mined" =>
         /\ unsaved = <<>>
         /\ Last(times) + adjustment \div Second = Due(Len(times), wanted)
    /\ phase = "mining" => next = Due(Len(times) + 1, wanted)
    /\ phase = "mined" => Last(All) = Due(Len(All), wanted)
    /\ \A k \in 1..Len(snaps) :
         times[snaps[k].number] + snaps[k].adjustment \div Second
           = Due(snaps[k].number, snaps[k].wanted)

\* Whole seconds come out of the rounding as they are.
LEMMA DivOfWholeSeconds ==
  ASSUME NEW a \in Int, NEW k \in Int
  PROVE  (a + k * Second) \div Second = a \div Second + k
<1> DEFINE d == Second  n == a + k * d
<1>1. d \in Nat \ {0} /\ k * d \in Int /\ n \in Int
  BY SecondIsPositive
<1> HIDE DEF d
<1>2. /\ a \div d \in Int /\ d * (a \div d) <= a /\ a < d * (a \div d) + d
      /\ n \div d \in Int /\ d * (n \div d) <= n /\ n < d * (n \div d) + d
  <2> HIDE DEF n
  <2> QED BY <1>1, SMT
<1>3. ASSUME NEW x \in Int, NEW y \in Int,
             d * x <= a, a < d * x + d, d * y <= a + k * d, a + k * d < d * y + d
      PROVE  y = x + k
  <2>1. d * y < d * (x + k + 1) /\ d * (x + k) < d * (y + 1)
    BY <1>1, <1>3, SMT
  <2>2. y < x + k + 1 /\ x + k < y + 1
    BY <1>1, <2>1, SMT
  <2> QED BY <2>2
<1>4. n \div d = a \div d + k
  BY <1>2, <1>3
<1> QED BY <1>4 DEF d

\* The numbers that Exact compares.
LEMMA DueIsAnInteger ==
  ASSUME ValuesOK, ~IsClock
  PROVE  /\ increment \in Int /\ times[1] \in Int /\ Len(times) \in Nat \ {0}
         /\ adjustment \div Second \in Int
         /\ \A n \in Int, asked \in Int :
              /\ Due(n, asked) \in Int
              /\ Due(n + 1, asked) = Due(n, asked) + increment
              /\ \A more \in Int : Due(n, asked + more) = Due(n, asked) + more
<1>1. increment \in Int
  BY ClockAssumption DEF ValuesOK, IsClock
<1>2. times[1] \in Int /\ Len(times) \in Nat \ {0}
  BY DEF ValuesOK
<1>3. adjustment \div Second \in Int
  BY SecondIsPositive, DivIsMonotonic DEF ValuesOK
<1>4. ASSUME NEW n \in Int
      PROVE  (n - 1) * increment \in Int /\ ((n + 1) - 1) * increment = (n - 1) * increment + increment
  BY <1>1, SMT
<1>5. ASSUME NEW n \in Int, NEW asked \in Int
      PROVE  /\ Due(n, asked) \in Int
             /\ Due(n + 1, asked) = Due(n, asked) + increment
             /\ \A more \in Int : Due(n, asked + more) = Due(n, asked) + more
  <2>1. PICK p \in Int : p = (n - 1) * increment
    BY <1>4
  <2>2. ((n + 1) - 1) * increment = p + increment
    BY <1>4, <2>1
  <2>3. Due(n, asked) = times[1] + p + asked
    BY <2>1 DEF Due
  <2>4. Due(n + 1, asked) = times[1] + (p + increment) + asked
    BY <2>2, Zenon DEF Due
  <2>5. ASSUME NEW more \in Int PROVE Due(n, asked + more) = Due(n, asked) + more
    <3>1. Due(n, asked + more) = times[1] + p + (asked + more)
      BY <2>1, Zenon DEF Due
    <3> QED BY <1>2, <2>3, <3>1
  <2>6. Due(n, asked) \in Int /\ Due(n + 1, asked) = Due(n, asked) + increment
    BY <1>1, <1>2, <2>3, <2>4
  <2> QED BY <2>5, <2>6
<1> QED BY <1>1, <1>2, <1>3, <1>5

LEMMA ExactInit == Init => Exact
<1> SUFFICES ASSUME Init, ~IsClock PROVE Exact
  BY DEF Exact
<1>1. ValuesOK
  BY TypeInit DEF TypeOK
<1>2. adjustment = 0 /\ wanted = 0 /\ unsaved = <<>> /\ snaps = <<>> /\ phase = "idle" /\ Len(times) = 1
  BY DEF Init
<1>3. adjustment \div Second = 0
  BY <1>2, SecondIsPositive, SMT
<1>4. Last(times) = times[1] /\ Due(1, 0) = times[1]
  <2>1. (1 - 1) * increment = 0 /\ times[1] \in Int
    BY <1>1, DueIsAnInteger, SMT
  <2> QED BY <1>2, <2>1 DEF Last, Due
<1>5. Last(times) + adjustment \div Second = Due(Len(times), wanted)
  BY <1>1, <1>2, <1>3, <1>4, DueIsAnInteger
<1> QED BY <1>2, <1>5 DEF Exact

\* As long as the first block stays what it is, so does what is due.
LEMMA DueStays ==
  ASSUME times'[1] = times[1], increment' = increment, NEW n, NEW asked
  PROVE  Due(n, asked)' = Due(n, asked)
  BY DEF Due

LEMMA ExactNext == TypeOK /\ InOrder /\ Exact /\ [Next]_vars => Exact'
<1> SUFFICES ASSUME ValuesOK, SnapsOK, InOrder, Exact, [Next]_vars,
                    ~IsClock', ~told', steady'
             PROVE  Exact'
  BY DEF TypeOK, Exact
<1>0. /\ increment' = increment /\ ~IsClock /\ ~told /\ steady
      /\ All \in Seq(Int) /\ All # <<>>
  <2>1. increment' = increment
    BY DEF Next, Tick, IncreaseTime, SetTime, Mine, Mined, Save, Return, Snapshot, Revert, vars
  <2>2. told => told'
    BY Zenon DEF Next, Tick, IncreaseTime, SetTime, Mine, Mined, Save, Return, Snapshot, Revert,
                 history, vars
  <2>3. steady' => steady
    BY Zenon DEF Next, Tick, IncreaseTime, SetTime, Mine, Mined, Save, Return, Snapshot, Revert,
                 history, vars
  <2> QED BY <2>1, <2>2, <2>3, AllIsASequence DEF IsClock
<1>1. /\ increment \in Int /\ times[1] \in Int /\ Len(times) \in Nat \ {0}
      /\ adjustment \div Second \in Int
      /\ \A n \in Int, asked \in Int :
           /\ Due(n, asked) \in Int
           /\ Due(n + 1, asked) = Due(n, asked) + increment
           /\ \A more \in Int : Due(n, asked + more) = Due(n, asked) + more
  BY <1>0, DueIsAnInteger
<1>2. wanted \in Int /\ Last(times) \in Int /\ times[Len(times)] = Last(times)
  BY DEF ValuesOK, Last
<1>3. CASE Tick
  BY <1>0, <1>3 DEF Tick, history, Exact, Due, All
<1>4. ASSUME NEW seconds \in Shifts, IncreaseTime(seconds) PROVE Exact'
  <2> DEFINE shift == IF seconds < 0 THEN 0 ELSE seconds
  <2>1. shift \in Int /\ adjustment \in Int
    BY ClockAssumption DEF ValuesOK
  <2>2. /\ adjustment' = adjustment + shift * Second /\ wanted' = wanted + shift
        /\ phase = "idle"
        /\ UNCHANGED <<increment, times, snaps, phase, next, unsaved>>
    BY <1>4 DEF IncreaseTime
  <2> HIDE DEF shift
  <2>3. adjustment' \div Second = adjustment \div Second + shift
    BY <2>1, <2>2, DivOfWholeSeconds
  <2>4. Due(Len(times), wanted') = Due(Len(times), wanted) + shift
    BY <1>1, <1>2, <2>1, <2>2
  <2>5. Last(times) + adjustment \div Second = Due(Len(times), wanted)
    BY <1>0, <2>2 DEF Exact
  <2>6. Last(times) + adjustment' \div Second = Due(Len(times), wanted')
    BY <1>1, <1>2, <2>1, <2>3, <2>4, <2>5
  <2> QED BY <1>0, <2>2, <2>6, DueStays DEF Exact, Due
<1>5. ASSUME NEW time \in Settings, SetTime(time) PROVE Exact'
  BY <1>5 DEF SetTime
<1>6. ASSUME NEW given \in Stamps \cup {Undefined}, Mine(given) PROVE Exact'
  <2>1. /\ phase = "idle" /\ phase' = "mining" /\ given = Undefined
        /\ next' = Last(times) + adjustment \div Second + increment
        /\ UNCHANGED <<increment, adjustment, times, snaps, unsaved, wanted>>
    BY <1>0, <1>6 DEF Mine, AdjustedTime
  <2>2. unsaved = <<>> /\ Last(times) + adjustment \div Second = Due(Len(times), wanted)
    BY <1>0, <2>1 DEF Exact
  <2>3. next' = Due(Len(times) + 1, wanted)
    BY <1>1, <1>2, <2>1, <2>2
  <2> QED BY <1>0, <2>1, <2>2, <2>3 DEF Exact, Due
<1>7. ASSUME NEW more \in BOOLEAN, Mined(more) PROVE Exact'
  <2>1. /\ phase = "mining" /\ phase' = "mined" /\ unsaved' = Append(unsaved, next)
        /\ UNCHANGED <<increment, adjustment, times, snaps, wanted>>
    BY <1>7 DEF Mined
  <2>2. unsaved = <<>> /\ next = Due(Len(times) + 1, wanted) /\ next \in Int
    BY <1>0, <2>1 DEF Exact, ValuesOK
  <2>3. Len(All') = Len(times) + 1 /\ Last(All') = next
    <3>1. All' = Append(times, next)
      BY <2>1, <2>2 DEF All, ValuesOK
    <3> QED BY <2>2, <3>1 DEF Last, ValuesOK
  <2> QED BY <1>0, <2>1, <2>2, <2>3 DEF Exact, Due
<1>8. CASE Save
  <2>1. /\ times' = Append(times, Head(unsaved)) /\ unsaved' = Tail(unsaved) /\ unsaved # <<>>
        /\ UNCHANGED <<increment, adjustment, snaps, phase, next, wanted>>
    BY <1>8 DEF Save, history
  <2>2. phase = "mined"
    BY <1>0, <2>1 DEF Exact, ValuesOK
  <2>3. All' = All
    BY <2>1, MoveKeepsAll DEF All, ValuesOK
  <2>4. \A i \in 1..Len(times) : times'[i] = times[i]
    <3>1. Head(unsaved) \in Int
      BY <2>1, HeadTailProperties DEF ValuesOK
    <3> QED BY <2>1, <3>1, AppendProperties DEF ValuesOK
  <2>5. \A k \in 1..Len(snaps) : times'[snaps[k].number] = times[snaps[k].number]
    BY <2>4 DEF SnapsOK
  <2>6. times'[1] = times[1]
    BY <1>1, <2>4
  <2> QED BY <1>0, <2>1, <2>2, <2>3, <2>5, <2>6 DEF Exact, Due
<1>9. CASE Return
  <2>1. /\ phase = "mined" /\ unsaved = <<>> /\ phase' = "idle" /\ adjustment' = AdjustmentAfter
        /\ UNCHANGED <<increment, times, snaps, unsaved, wanted>>
    BY <1>9 DEF Return, history
  <2>2. adjustment' \div Second = 0
    <3>1. adjustment' = 0
      BY <1>0, <2>1 DEF AdjustmentAfter
    <3> QED BY <3>1, SecondIsPositive, SMT
  <2>3. All = times
    BY <2>1, AllIsASequence
  <2>4. Last(times) = Due(Len(times), wanted)
    BY <1>0, <2>1, <2>3 DEF Exact
  <2>5. Last(times) + adjustment' \div Second = Due(Len(times), wanted)
    BY <1>2, <2>2, <2>4
  <2> QED BY <1>0, <2>1, <2>5 DEF Exact, Due
<1>10. CASE Snapshot
  <2> DEFINE snap == [number |-> Len(times), adjustment |-> adjustment, wanted |-> wanted]
  <2>1. /\ snaps' = Append(snaps, snap) /\ phase = "idle"
        /\ UNCHANGED <<increment, adjustment, times, phase, next, unsaved, wanted>>
    BY <1>10 DEF Snapshot
  <2>2. snap \in Snap /\ snap.number = Len(times) /\ snap.adjustment = adjustment /\ snap.wanted = wanted
    BY DEF Snap, ValuesOK
  <2> HIDE DEF snap
  <2>3. /\ Len(snaps) \in Nat
        /\ Len(snaps') = Len(snaps) + 1
        /\ \A k \in 1..Len(snaps) : snaps'[k] = snaps[k]
        /\ snaps'[Len(snaps) + 1] = snap
    BY <2>1, <2>2, AppendProperties DEF SnapsOK
  <2>4. Last(times) + adjustment \div Second = Due(Len(times), wanted)
    BY <1>0, <2>1 DEF Exact
  <2>5. ASSUME NEW k \in 1..Len(snaps')
        PROVE  times[snaps'[k].number] + snaps'[k].adjustment \div Second
                 = Due(snaps'[k].number, snaps'[k].wanted)
    <3>1. CASE k \in 1..Len(snaps)
      BY <1>0, <2>3, <3>1 DEF Exact
    <3>2. CASE k = Len(snaps) + 1
      BY <1>2, <2>2, <2>3, <2>4, <3>2
    <3> QED BY <2>3, <3>1, <3>2
  <2> QED BY <1>0, <2>1, <2>4, <2>5 DEF Exact, Due
<1>11. ASSUME NEW id \in 1..Len(snaps), Revert(id) PROVE Exact'
  <2> DEFINE n == snaps[id].number
  <2>1. /\ phase = "idle" /\ unsaved = <<>> /\ times' = SubSeq(times, 1, n)
        /\ snaps' = SubSeq(snaps, 1, id - 1) /\ adjustment' = snaps[id].adjustment
        /\ wanted' = snaps[id].wanted
        /\ UNCHANGED <<increment, phase, next, unsaved>>
    BY <1>11 DEF Revert, ValuesOK
  <2>2. n \in 1..Len(times) /\ NonDecreasing(times) /\ times \in Seq(Int)
    <3>1. All = times
      BY <2>1, AllIsASequence
    <3> QED BY <1>0, <3>1 DEF SnapsOK, InOrder, ValuesOK
  <2>3. /\ Last(times') = times[n] /\ Len(times') = n
        /\ \A i \in 1..n : times'[i] = times[i]
    BY <2>1, <2>2, PrefixKeepsOrder
  <2>4. times'[1] = times[1]
    BY <2>2, <2>3
  <2>5. /\ Len(snaps') = id - 1
        /\ \A k \in 1..(id - 1) : k \in 1..Len(snaps) /\ snaps'[k] = snaps[k]
    <3>1. \A k \in 1..(id - 1) : snaps[k] \in Snap
      BY DEF SnapsOK
    <3>2. \A k \in 1..(id - 1) : k \in 1..Len(snaps)
      BY DEF SnapsOK
    <3> QED BY <2>1, <3>1, <3>2, SubSeqProperties
  <2>6. times[n] + snaps[id].adjustment \div Second = Due(n, snaps[id].wanted)
    BY <1>0 DEF Exact
  <2>7. Last(times') + adjustment' \div Second = Due(Len(times'), wanted')
    BY <2>1, <2>3, <2>6
  <2>8. ASSUME NEW k \in 1..(id - 1)
        PROVE  times'[snaps'[k].number] + snaps'[k].adjustment \div Second
                 = Due(snaps'[k].number, snaps'[k].wanted)
    <3>1. k \in 1..Len(snaps) /\ snaps'[k] = snaps[k] /\ k <= id
      BY <2>5
    <3>2. snaps[k].number \in 1..n
      BY <2>2, <3>1 DEF SnapsOK
    <3> QED BY <1>0, <2>3, <3>1, <3>2 DEF Exact
  <2> HIDE DEF n
  <2> QED BY <1>0, <2>1, <2>4, <2>5, <2>7, <2>8 DEF Exact, Due
<1>12. CASE UNCHANGED vars
  BY <1>0, <1>12 DEF vars, Exact, Due, All
<1> QED BY <1>3, <1>4, <1>5, <1>6, <1>7, <1>8, <1>9, <1>10, <1>11, <1>12 DEF Next

-----------------------------------------------------------------------------

\* Whatever is shifted, mined, saved and reverted, in whatever order, the timestamps and
\* the snapshots' block numbers are what the actions compute with.
THEOREM TypeCorrect == Spec => []TypeOK
<1> QED BY TypeInit, TypeNext, PTL DEF Spec

\* For every second, increment and chain time, and whatever the shifts, snapshots and
\* reverts: as long as no time has been set, no block is older than its parent
\* (api.ts:643-645, blockchain.ts:805-823).
THEOREM BlocksInOrder == Spec => []TimesInOrder
<1>1. InOrder => TimesInOrder
  BY DEF InOrder, TimesInOrder, All
<1> QED BY <1>1, TypeInit, TypeNext, InOrderInit, InOrderNext, PTL DEF Spec

\* For every second, number of miner.timestampIncrement and chain time: unless a time was
\* set, or something came while blocks were being mined, an idle chain has had all that was
\* asked for once, whatever was reverted (blockchain.ts:597-598, 820-823).
THEOREM AskedOnce == Spec => []AppliedOnce
<1>1. Exact => AppliedOnce
  BY DEF Exact, AppliedOnce, Due
<1> QED BY <1>1, TypeInit, TypeNext, InOrderInit, InOrderNext, ExactInit, ExactNext, PTL DEF Spec
=============================================================================
