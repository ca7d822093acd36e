----------------------------- MODULE ChainProofs -----------------------------
(***************************************************************************)
(* For any number of blocks, snapshots, calls of evm_revert and restarts:  *)
(* DatabaseIsSound and RevertIsExact of Chain, as long as no snapshot and   *)
(* no other revert is asked for during a revert.                           *)
(***************************************************************************)
EXTENDS Chain, SequenceTheorems, TLAPS

(***************************************************************************)
(* A call of mine() may come during a revert, and a snapshot before the     *)
(* "block" event of its own block; these are the values of the run.         *)
(***************************************************************************)
NoOverlappingReverts == \A o \in Overlap : o \subseteq {"mine", "event"}

Peace == overlap = {}

TypeInv ==
  /\ TypeOK
  /\ reverts \in [Reverts -> [pc : {"none", "pausing", "saving", "reading", "writing",
                                    "done", "failed"},
                              index : Nat, block : Blocks, awaits : Blocks \cup {None},
                              doomed : Seq(Blocks)]]
  /\ overlap \subseteq {"mine", "event"}
  /\ Planned <= MaxBlocks
  /\ \A b \in Blocks : number[b] <= b

(***************************************************************************)
(* The VM has the state of the last block mined, whether it is saved or     *)
(* not; the next block is no lower than that.  The miner is paused only     *)
(* while a revert goes on, so no call of mine() is held up for longer.      *)
(***************************************************************************)
Going(r) == reverts[r].pc \in {"reading", "writing"}

MinerInv ==
  /\ vm = IF queue = <<>> THEN latest ELSE queue[Len(queue)]
  /\ mining # None => number[mining] >= number[vm] /\ (Peace => mining = vm)
  /\ paused <=> \E r \in Reverts : Active(r)
  /\ ~paused => held = <<>>
  /\ Peace => held = <<>>
  /\ \A i \in DOMAIN held :
       /\ \A r \in Reverts : Active(r) => number[held[i]] >= number[reverts[r].block]

(***************************************************************************)
(* What is stored at a number has this number, there is a block at the      *)
(* index of the latest, and what is still to be saved comes above it, in    *)
(* order.                                                                   *)
(***************************************************************************)
Before(i) == IF i = 1 THEN saving ELSE queue[i - 1]

StoreInv ==
  /\ \A n \in Blocks : byNumber[n] # None => number[byNumber[n]] = n
  /\ byNumber[latestIndex] # None
  /\ NothingAboveLatest
  /\ StoredIsAChainInPeace

SavingInv ==
  /\ saving = None => queue = <<>> /\ byNumber[latestIndex] = latest
  /\ saving # None => /\ latest = saving
                      /\ number[saving] > latestIndex
                      /\ Peace => /\ number[saving] = latestIndex + 1
                                  /\ parent[saving] = byNumber[latestIndex]
  /\ \A i \in 1..Len(queue) :
       /\ number[queue[i]] > number[Before(i)]
       /\ Peace => /\ number[queue[i]] = number[Before(i)] + 1
                   /\ parent[queue[i]] = Before(i)
  /\ Len(unemitted) <= 1
  /\ unemitted # <<>> => byNumber[latestIndex] = unemitted[1]

(***************************************************************************)
(* The snapshots are of blocks that are stored, or of the one being saved,  *)
(* each no lower than the one before.                                       *)
(***************************************************************************)
Stored(b) == byNumber[number[b]] = b

SnapInv ==
  /\ listening <=> snaps # <<>>
  /\ \A i \in DOMAIN snaps :
       /\ snaps[i] # saving => Stored(snaps[i])
       /\ Peace => Stored(snaps[i])
  /\ \A i, j \in DOMAIN snaps : i <= j => number[snaps[i]] <= number[snaps[j]]

(***************************************************************************)
(* The list has stored blocks only, the newest first, and it has all those  *)
(* above the first snapshot, but for the one whose event is still to come   *)
(* and for those that the revert that goes on has taken from it.            *)
(***************************************************************************)
Accounted(b) ==
  \/ \E i \in DOMAIN list : list[i] = b
  \/ \E i \in DOMAIN unemitted : unemitted[i] = b
  \/ \E r \in Reverts : Going(r) /\ \E i \in DOMAIN reverts[r].doomed :
                                       reverts[r].doomed[i] = b

ListInv ==
  /\ \A i \in DOMAIN list : Stored(list[i])
  /\ \A i, j \in DOMAIN list : i < j => number[list[i]] > number[list[j]]
  /\ \A i \in DOMAIN list, j \in DOMAIN unemitted :
       number[list[i]] < number[unemitted[j]]
  /\ snaps # <<>> =>
       \A n \in Blocks : n > number[snaps[1]] /\ byNumber[n] # None => Accounted(byNumber[n])
  /\ Peace => /\ snaps = <<>> => list = <<>>
              /\ snaps # <<>> =>
                   /\ \A i \in DOMAIN list : number[list[i]] > number[snaps[1]]
                   /\ \A i \in DOMAIN unemitted : number[unemitted[i]] > number[snaps[1]]

(***************************************************************************)
(* One revert at a time.  Until it has cut the list its snapshot is there,  *)
(* and all that was mined is saved before it goes on; then its blocks are   *)
(* all the stored ones above the snapshot's, and neither that, nor one of   *)
(* the list, nor one of an earlier snapshot is among them.                  *)
(***************************************************************************)
RevertInv ==
  /\ \A r, s \in Reverts : Active(r) /\ Active(s) => r = s
  /\ \A r \in Reverts :
       /\ reverts[r].pc \in {"pausing", "saving"} =>
            reverts[r].index \in DOMAIN snaps /\ reverts[r].block = snaps[reverts[r].index]
       /\ reverts[r].pc = "saving" =>
            mining = None /\ (saving # None => reverts[r].awaits = vm)
       /\ Going(r) =>
            LET block == reverts[r].block
                doomed == reverts[r].doomed
            IN  /\ mining = None /\ saving = None /\ unemitted = <<>>
                /\ Len(snaps) < reverts[r].index
                /\ Stored(block)
                /\ \A i \in DOMAIN doomed :
                     /\ Stored(doomed[i])
                     /\ doomed[i] # block
                     /\ \A j \in DOMAIN list : doomed[i] # list[j]
                     /\ \A j \in DOMAIN snaps : doomed[i] # snaps[j]
                     /\ Peace => number[doomed[i]] > number[block]
                /\ \A j \in DOMAIN snaps : number[snaps[j]] <= number[block]
                /\ \A j \in DOMAIN list : number[list[j]] <= number[block]
                /\ \A n \in Blocks : n > number[block] /\ byNumber[n] # None =>
                     \E i \in DOMAIN doomed : doomed[i] = byNumber[n]

(***************************************************************************)
(* The inductive invariant.                                                *)
(***************************************************************************)
IInv ==
  TypeInv /\ MinerInv /\ StoreInv /\ SavingInv /\ SnapInv /\ ListInv /\ RevertInv

-----------------------------------------------------------------------------

(***************************************************************************)
(* The operators on sequences, by what they do to the elements.            *)
(***************************************************************************)
LEMMA LengthAndDomain ==
  ASSUME NEW S, NEW s \in Seq(S)
  PROVE  /\ Len(s) \in Nat /\ DOMAIN s = 1..Len(s)
         /\ s = <<>> <=> Len(s) = 0
         /\ \A i \in 1..Len(s) : s[i] \in S
  BY LenProperties, EmptySeq, ElementOfSeq

LEMMA AppendIs ==
  ASSUME NEW S, NEW s \in Seq(S), NEW e \in S
  PROVE  /\ Append(s, e) \in Seq(S)
         /\ DOMAIN Append(s, e) = 1..(Len(s) + 1) /\ Len(Append(s, e)) = Len(s) + 1
         /\ Append(s, e) # <<>>
         /\ \A i \in 1..(Len(s) + 1) :
              Append(s, e)[i] = IF i = Len(s) + 1 THEN e ELSE s[i]
<1>1. Len(s) \in Nat /\ Append(s, e) \in Seq(S)
  BY LengthAndDomain, AppendProperties
<1>2. QED
  BY <1>1, LenProperties, AppendProperties

LEMMA TailIs ==
  ASSUME NEW S, NEW s \in Seq(S), s # <<>>
  PROVE  /\ Head(s) = s[1] /\ Head(s) \in S /\ Len(s) >= 1
         /\ Tail(s) \in Seq(S)
         /\ Len(Tail(s)) = Len(s) - 1 /\ DOMAIN Tail(s) = 1..(Len(s) - 1)
         /\ \A i \in 1..(Len(s) - 1) : Tail(s)[i] = s[i + 1]
<1>1. Len(s) \in Nat /\ Len(s) >= 1
  BY LengthAndDomain
<1>2. Tail(s) \in Seq(S) /\ Len(Tail(s)) = Len(s) - 1 /\ Head(s) \in S
  BY HeadTailProperties
<1>3. \A i \in 1..(Len(s) - 1) : Tail(s)[i] = s[i + 1]
  BY <1>2, HeadTailProperties
<1>4. DOMAIN Tail(s) = 1..(Len(s) - 1)
  BY <1>2, LenProperties
<1>5. Head(s) = s[1]
  OBVIOUS
<1>6. QED
  BY <1>1, <1>2, <1>3, <1>4, <1>5

LEMMA InFrontIs ==
  ASSUME NEW S, NEW s \in Seq(S), NEW e \in S
  PROVE  /\ <<e>> \o s \in Seq(S)
         /\ Len(<<e>> \o s) = Len(s) + 1 /\ DOMAIN (<<e>> \o s) = 1..(Len(s) + 1)
         /\ <<e>> \o s # <<>>
         /\ \A i \in 1..(Len(s) + 1) : (<<e>> \o s)[i] = IF i = 1 THEN e ELSE s[i - 1]
<1>1. <<e>> \in Seq(S) /\ Len(<<e>>) = 1 /\ <<e>>[1] = e
  OBVIOUS
<1>2. Len(s) \in Nat
  BY LengthAndDomain
<1>3. /\ <<e>> \o s \in Seq(S)
      /\ Len(<<e>> \o s) = Len(s) + 1
      /\ \A i \in 1..(Len(s) + 1) : (<<e>> \o s)[i] = IF i = 1 THEN e ELSE s[i - 1]
  BY <1>1, <1>2, ConcatProperties
<1>4. QED
  BY <1>2, <1>3, LengthAndDomain

LEMMA PrefixIs ==
  ASSUME NEW S, NEW s \in Seq(S), NEW n \in Nat, n <= Len(s)
  PROVE  /\ SubSeq(s, 1, n) \in Seq(S)
         /\ Len(SubSeq(s, 1, n)) = n /\ DOMAIN SubSeq(s, 1, n) = 1..n
         /\ \A i \in 1..n : SubSeq(s, 1, n)[i] = s[i]
<1>1. Len(s) \in Nat /\ \A i \in 1..n : s[i] \in S
  BY LengthAndDomain
<1>2. /\ SubSeq(s, 1, n) \in Seq(S)
      /\ Len(SubSeq(s, 1, n)) = IF 1 <= n THEN (n - 1) + 1 ELSE 0
      /\ \A i \in 1..((n - 1) + 1) : SubSeq(s, 1, n)[i] = s[(1 + i) - 1]
  BY <1>1, SubSeqProperties
<1>3. Len(SubSeq(s, 1, n)) = n /\ (n - 1) + 1 = n /\ \A i \in 1..n : (1 + i) - 1 = i
  BY <1>2
<1>4. QED
  BY <1>2, <1>3, LenProperties

LEMMA SuffixIs ==
  ASSUME NEW S, NEW s \in Seq(S), NEW n \in Nat, n <= Len(s)
  PROVE  /\ SubSeq(s, n + 1, Len(s)) \in Seq(S)
         /\ Len(SubSeq(s, n + 1, Len(s))) = Len(s) - n
         /\ DOMAIN SubSeq(s, n + 1, Len(s)) = 1..(Len(s) - n)
         /\ \A i \in 1..(Len(s) - n) : SubSeq(s, n + 1, Len(s))[i] = s[n + i]
<1>1. Len(s) \in Nat /\ n + 1 \in Int /\ Len(s) \in Int /\ \A i \in (n + 1)..Len(s) : s[i] \in S
  BY LengthAndDomain
<1>2. /\ SubSeq(s, n + 1, Len(s)) \in Seq(S)
      /\ Len(SubSeq(s, n + 1, Len(s)))
           = IF n + 1 <= Len(s) THEN (Len(s) - (n + 1)) + 1 ELSE 0
      /\ \A i \in 1..((Len(s) - (n + 1)) + 1) :
           SubSeq(s, n + 1, Len(s))[i] = s[((n + 1) + i) - 1]
  BY <1>1, SubSeqProperties
<1>3. /\ Len(SubSeq(s, n + 1, Len(s))) = Len(s) - n
      /\ (Len(s) - (n + 1)) + 1 = Len(s) - n
      /\ \A i \in 1..(Len(s) - n) : ((n + 1) + i) - 1 = n + i
  BY <1>1, <1>2
<1>4. QED
  BY <1>2, <1>3, LenProperties

(***************************************************************************)
(* What the types say of the sequences and of the numbers.                 *)
(***************************************************************************)
LEMMA Shapes ==
  ASSUME TypeInv
  PROVE  /\ Blocks \subseteq Nat /\ created \in Nat /\ MaxBlocks \in Nat
         /\ created <= MaxBlocks
         /\ 0..created \subseteq Blocks /\ 1..created \subseteq 0..created
         /\ None \notin 0..created /\ None \notin Blocks
         /\ vm \in 0..created /\ latest \in 0..created
         /\ mining \in 0..created \cup {None} /\ saving \in 0..created \cup {None}
         /\ latestIndex \in Nat
         /\ \A b \in Blocks : number[b] \in Nat /\ number[b] \in Blocks /\ number[b] <= b
         /\ \A n \in Blocks : byNumber[n] \in 0..created \cup {None}
         /\ held \in Seq(0..created) /\ queue \in Seq(1..created)
         /\ unemitted \in Seq(1..created) /\ snaps \in Seq(0..created)
         /\ list \in Seq(1..created)
         /\ paused \in BOOLEAN /\ listening \in BOOLEAN /\ eager \in BOOLEAN
<1>1. MaxBlocks \in Nat /\ None \notin Blocks
  BY BoundsAssumption
<1>2. TypeOK /\ \A b \in Blocks : number[b] <= b
  BY DEF TypeInv
<1>3. Blocks \subseteq Nat /\ created \in Nat /\ created <= MaxBlocks
      /\ 0..created \subseteq Blocks /\ 1..created \subseteq 0..created
  <2>1. created \in Blocks
    BY <1>2 DEF TypeOK
  <2>2. QED
    BY <1>1, <2>1 DEF Blocks
<1>4. /\ vm \in 0..created /\ latest \in 0..created
      /\ mining \in 0..created \cup {None} /\ saving \in 0..created \cup {None}
      /\ \A n \in Blocks : byNumber[n] \in 0..created \cup {None}
      /\ paused \in BOOLEAN /\ listening \in BOOLEAN /\ eager \in BOOLEAN
  BY <1>2 DEF TypeOK
<1>5. latestIndex \in Nat /\ \A b \in Blocks : number[b] \in Blocks /\ number[b] \in Nat
  BY <1>2, <1>3 DEF TypeOK
<1>6. /\ held \in Seq(0..created) /\ queue \in Seq(1..created)
      /\ unemitted \in Seq(1..created) /\ snaps \in Seq(0..created)
      /\ list \in Seq(1..created)
  BY <1>2 DEF TypeOK
<1>7. QED
  BY <1>1, <1>2, <1>3, <1>4, <1>5, <1>6

LEMMA Sequences ==
  ASSUME TypeInv
  PROVE  /\ Len(held) \in Nat /\ DOMAIN held = 1..Len(held)
         /\ held = <<>> <=> Len(held) = 0
         /\ \A i \in 1..Len(held) : held[i] \in 0..created
         /\ Len(queue) \in Nat /\ DOMAIN queue = 1..Len(queue)
         /\ queue = <<>> <=> Len(queue) = 0
         /\ \A i \in 1..Len(queue) : queue[i] \in 1..created
         /\ Len(unemitted) \in Nat /\ DOMAIN unemitted = 1..Len(unemitted)
         /\ unemitted = <<>> <=> Len(unemitted) = 0
         /\ \A i \in 1..Len(unemitted) : unemitted[i] \in 1..created
         /\ Len(snaps) \in Nat /\ DOMAIN snaps = 1..Len(snaps)
         /\ snaps = <<>> <=> Len(snaps) = 0
         /\ \A i \in 1..Len(snaps) : snaps[i] \in 0..created
         /\ Len(list) \in Nat /\ DOMAIN list = 1..Len(list)
         /\ list = <<>> <=> Len(list) = 0
         /\ \A i \in 1..Len(list) : list[i] \in 1..created
<1>1. /\ held \in Seq(0..created) /\ queue \in Seq(1..created)
      /\ unemitted \in Seq(1..created) /\ snaps \in Seq(0..created)
      /\ list \in Seq(1..created)
  BY Shapes
<1>2. Len(held) \in Nat /\ DOMAIN held = 1..Len(held) /\ (held = <<>> <=> Len(held) = 0)
      /\ \A i \in 1..Len(held) : held[i] \in 0..created
  BY <1>1, LengthAndDomain
<1>3. Len(queue) \in Nat /\ DOMAIN queue = 1..Len(queue) /\ (queue = <<>> <=> Len(queue) = 0)
      /\ \A i \in 1..Len(queue) : queue[i] \in 1..created
  BY <1>1, LengthAndDomain
<1>4. /\ Len(unemitted) \in Nat /\ DOMAIN unemitted = 1..Len(unemitted)
      /\ unemitted = <<>> <=> Len(unemitted) = 0
      /\ \A i \in 1..Len(unemitted) : unemitted[i] \in 1..created
  BY <1>1, LengthAndDomain
<1>5. Len(snaps) \in Nat /\ DOMAIN snaps = 1..Len(snaps) /\ (snaps = <<>> <=> Len(snaps) = 0)
      /\ \A i \in 1..Len(snaps) : snaps[i] \in 0..created
  BY <1>1, LengthAndDomain
<1>6. Len(list) \in Nat /\ DOMAIN list = 1..Len(list) /\ (list = <<>> <=> Len(list) = 0)
      /\ \A i \in 1..Len(list) : list[i] \in 1..created
  BY <1>1, LengthAndDomain
<1>7. QED
  BY <1>2, <1>3, <1>4, <1>5, <1>6

LEMMA UpToLatest ==
  ASSUME TypeInv
  PROVE  latestIndex \in Blocks /\ \A n \in 1..latestIndex : n \in Blocks /\ n - 1 \in Blocks
<1>1. latestIndex \in Blocks /\ MaxBlocks \in Nat
  BY BoundsAssumption DEF TypeInv, TypeOK
<1>2. QED
  BY <1>1 DEF Blocks

LEMMA Calls ==
  ASSUME TypeInv, NEW r \in Reverts
  PROVE  /\ reverts[r].block \in 0..created /\ reverts[r].block \in Blocks
         /\ reverts[r].index \in Nat
         /\ reverts[r].doomed \in Seq(1..created)
         /\ Len(reverts[r].doomed) \in Nat
         /\ DOMAIN reverts[r].doomed = 1..Len(reverts[r].doomed)
         /\ \A i \in 1..Len(reverts[r].doomed) : reverts[r].doomed[i] \in 1..created
<1>1. reverts[r].block \in 0..created /\ reverts[r].doomed \in Seq(1..created)
  BY DEF TypeInv, TypeOK
<1>2. reverts[r].index \in Nat
  BY DEF TypeInv
<1>3. QED
  BY <1>1, <1>2, Shapes, LengthAndDomain

LEMMA InvariantInit ==
  ASSUME NoOverlappingReverts, Init
  PROVE  IInv
<1>1. 0 \in Blocks /\ None \notin Blocks /\ 0 \in 0..created /\ created \in Blocks
      /\ MaxBlocks \in Nat /\ MaxCrashes \in Nat
  BY BoundsAssumption DEF Init, Blocks
<1>2. /\ \A S : <<>> \in Seq(S)
      /\ Len(<<>>) = 0 /\ DOMAIN <<>> = {}
  OBVIOUS
<1>3. overlap \subseteq {"mine", "event"} /\ eager \in BOOLEAN
  BY BoundsAssumption DEF NoOverlappingReverts, Init
<1>4. TypeOK
  <2>1. \A r \in Reverts : reverts[r] = NoCall
    BY DEF Init
  <2>2. /\ parent \in [Blocks -> Blocks] /\ number \in [Blocks -> Blocks]
        /\ byNumber \in [Blocks -> 0..created \cup {None}]
    BY <1>1 DEF Init
  <2>3. \A r \in Reverts : /\ reverts[r].pc = "none"
                           /\ reverts[r].block = 0 /\ reverts[r].doomed = <<>>
    BY <2>1 DEF NoCall, Call
  <2>4. /\ created \in Blocks /\ {vm, latest} \subseteq 0..created
        /\ {mining, saving} \subseteq 0..created \cup {None}
        /\ byHash \subseteq 0..created /\ latestIndex \in Blocks
        /\ {paused, listening, eager} \subseteq BOOLEAN /\ crashes \in 0..MaxCrashes
    BY <1>1, <1>3 DEF Init
  <2>5. /\ held \in Seq(0..created) /\ queue \in Seq(1..created)
        /\ unemitted \in Seq(1..created) /\ snaps \in Seq(0..created)
        /\ list \in Seq(1..created)
    BY <1>2 DEF Init
  <2>6. QED
    BY <1>1, <1>2, <2>2, <2>3, <2>4, <2>5 DEF TypeOK
<1>5. TypeInv
  <2>1. Planned = 0
    BY <1>2 DEF Planned, Init
  <2>2. \A b \in Blocks : number[b] = 0 /\ 0 <= b
    BY <1>1 DEF Init, Blocks
  <2>3. reverts \in [Reverts -> [pc : {"none", "pausing", "saving", "reading", "writing",
                                      "done", "failed"},
                                index : Nat, block : Blocks, awaits : Blocks \cup {None},
                                doomed : Seq(Blocks)]]
    BY <1>1, <1>2 DEF Init, NoCall, Call
  <2>4. QED
    BY <1>1, <1>3, <1>4, <2>1, <2>2, <2>3 DEF TypeInv
<1>6. \A r \in Reverts : reverts[r].pc = "none" /\ ~Active(r) /\ ~Going(r)
  BY DEF Init, NoCall, Call, Active, Going
<1>7. MinerInv
  BY <1>2, <1>6 DEF MinerInv, Init
<1>8. StoreInv
  BY <1>1 DEF StoreInv, Init, NothingAboveLatest, StoredIsAChainInPeace, StoredIsAChain
<1>9. SavingInv
  BY <1>1, <1>2 DEF SavingInv, Init
<1>10. SnapInv /\ ListInv
  BY <1>1, <1>2 DEF SnapInv, ListInv, Init
<1>11. RevertInv
  BY <1>6 DEF RevertInv
<1>12. QED
  BY <1>5, <1>7, <1>8, <1>9, <1>10, <1>11 DEF IInv

(***************************************************************************)
(* mine(): the parent is blocks.latest, no lower than any snapshot.        *)
(***************************************************************************)
LEMMA LatestIsHighest ==
  ASSUME TypeInv, StoreInv, SavingInv, SnapInv
  PROVE  /\ saving = None => number[latest] = latestIndex
         /\ number[latest] >= latestIndex
         /\ \A i \in DOMAIN snaps : number[snaps[i]] <= number[latest]
         /\ \A b \in Blocks : Stored(b) => number[b] <= latestIndex
<1>1. latestIndex \in Blocks
  BY DEF TypeInv, TypeOK
<1>2. number[byNumber[latestIndex]] = latestIndex
  BY <1>1 DEF StoreInv
<1>3. /\ saving = None => number[latest] = latestIndex
      /\ number[latest] >= latestIndex
  BY <1>2, Shapes DEF SavingInv
<1>4. \A b \in Blocks : Stored(b) => number[b] <= latestIndex
  <2>1. SUFFICES ASSUME NEW b \in Blocks, Stored(b), ~(number[b] <= latestIndex)
                 PROVE  FALSE
    OBVIOUS
  <2>2. number[b] \in Blocks /\ number[b] > latestIndex /\ b # None
    BY <2>1, Shapes
  <2>3. QED
    BY <2>1, <2>2 DEF Stored, StoreInv, NothingAboveLatest
<1>5. ASSUME NEW i \in DOMAIN snaps
      PROVE  number[snaps[i]] <= number[latest]
  <2>1. snaps[i] \in Blocks
    BY Shapes, Sequences
  <2>2. CASE snaps[i] = saving
    BY <2>1, <2>2, Shapes DEF SavingInv
  <2>3. CASE snaps[i] # saving
    BY <1>3, <1>4, <2>1, <2>3, Shapes DEF SnapInv
  <2>4. QED
    BY <2>2, <2>3
<1>6. QED
  BY <1>3, <1>4, <1>5

LEMMA CallMineStep ==
  ASSUME IInv, CallMine
  PROVE  IInv'
<1>1. TypeInv /\ MinerInv /\ StoreInv /\ SavingInv /\ SnapInv /\ ListInv /\ RevertInv
  BY DEF IInv
<1>2. UNCHANGED <<createdVars, vm, paused, saveVars, dbVars, snapVars, reverts, crashes,
                  optionVars>>
  BY DEF CallMine
<1>3. queue = <<>>
  BY <1>1 DEF CallMine, UpToDate, TypeInv
<1>4. vm = latest
  BY <1>1, <1>3 DEF MinerInv
<1>5. TypeInv'
  <2>1. held' \in Seq(0..created) /\ mining' \in 0..created \cup {None} /\ Planned' <= MaxBlocks
    <3>1. CASE paused
      <4>1. held' = Append(held, latest) /\ mining' = mining
        BY <3>1 DEF CallMine
      <4>2. held' \in Seq(0..created) /\ Len(held') = Len(held) + 1 /\ Len(held) \in Nat
        BY <1>1, <4>1, Shapes, Sequences, AppendIs
      <4>3. QED
        BY <1>1, <1>2, <4>1, <4>2, Shapes DEF CallMine, Planned, createdVars
    <3>2. CASE ~paused
      BY <1>1, <1>2, <3>2, Shapes, Sequences DEF CallMine, Planned, createdVars
    <3>3. QED
      BY <3>1, <3>2
  <2>2. TypeOK'
    BY <1>1, <1>2, <2>1 DEF TypeInv, TypeOK, createdVars, saveVars, dbVars, snapVars, optionVars
  <2>3. QED
    BY <1>1, <1>2, <2>1, <2>2 DEF TypeInv, createdVars, optionVars
<1>6. MinerInv'
  <2>1. ASSUME paused
        PROVE  /\ ~Peace
               /\ mining' = mining
               /\ \A i \in DOMAIN held', r \in Reverts :
                    Active(r) => number[held'[i]] >= number[reverts[r].block]
    <3>1. ~Peace
      BY <1>1, <2>1 DEF CallMine, Alone, MinerInv, Peace
    <3>2. mining' = mining /\ held' = Append(held, latest)
      BY <2>1 DEF CallMine
    <3>3. ASSUME NEW i \in DOMAIN held', NEW r \in Reverts, Active(r)
          PROVE  number[held'[i]] >= number[reverts[r].block]
      <4>1. Len(held) \in Nat /\ DOMAIN held = 1..Len(held)
            /\ i \in 1..(Len(held) + 1) /\ held'[i] = IF i = Len(held) + 1 THEN latest ELSE held[i]
        BY <1>1, <3>2, Shapes, Sequences, AppendIs
      <4>2. number[latest] >= number[reverts[r].block]
        <5>1. CASE Going(r)
          <6>1. saving = None /\ Stored(reverts[r].block)
            BY <1>1, <5>1 DEF RevertInv
          <6>2. QED
            BY <1>1, <6>1, LatestIsHighest, Calls
        <5>2. CASE ~Going(r)
          <6>1. reverts[r].pc \in {"pausing", "saving"}
            BY <1>1, <3>3, <5>2 DEF Active, Going, TypeInv, TypeOK
          <6>2. reverts[r].index \in DOMAIN snaps /\ reverts[r].block = snaps[reverts[r].index]
            BY <1>1, <6>1 DEF RevertInv
          <6>3. number[snaps[reverts[r].index]] <= number[latest]
            BY <1>1, <6>2, LatestIsHighest
          <6>4. number[reverts[r].block] \in Nat /\ number[latest] \in Nat
            BY <1>1, Calls, Shapes
          <6>5. QED
            BY <6>2, <6>3, <6>4
        <5>3. QED
          BY <5>1, <5>2
      <4>3. QED
        BY <1>1, <3>3, <4>1, <4>2 DEF MinerInv
    <3>4. QED
      BY <3>1, <3>2, <3>3
  <2>2. ASSUME ~paused
        PROVE  mining' = latest /\ held' = held
    BY <2>2 DEF CallMine
  <2>3. number[vm] \in Nat
    BY <1>1, Shapes
  <2>4. Peace' = Peace /\ \A r \in Reverts : Active(r)' = Active(r)
    BY <1>2 DEF Peace, Active, optionVars
  <2>5. CASE paused
    BY <1>1, <1>2, <2>1, <2>4, <2>5 DEF MinerInv, createdVars, saveVars
  <2>6. CASE ~paused
    BY <1>1, <1>2, <1>4, <2>2, <2>3, <2>4, <2>6 DEF MinerInv, createdVars, saveVars
  <2>7. QED
    BY <2>5, <2>6
<1>7. StoreInv'
  BY <1>1, <1>2 DEF StoreInv, NothingAboveLatest, StoredIsAChainInPeace, StoredIsAChain,
                    createdVars, dbVars, optionVars
<1>8. SavingInv'
  BY <1>1, <1>2 DEF SavingInv, Before, Peace, createdVars, saveVars, dbVars, optionVars
<1>9. SnapInv'
  BY <1>1, <1>2 DEF SnapInv, Stored, Peace, createdVars, saveVars, dbVars, snapVars, optionVars
<1>10. ListInv'
  BY <1>1, <1>2 DEF ListInv, Stored, Accounted, Going, Peace, createdVars, saveVars, dbVars,
                    snapVars, optionVars
<1>11. RevertInv'
  <2>1. ASSUME NEW r \in Reverts, reverts[r].pc \notin {"none", "pausing", "done", "failed"}
        PROVE  mining' = mining
    <3>1. paused
      BY <1>1, <2>1 DEF MinerInv, Active
    <3>2. QED
      BY <3>1 DEF CallMine
  <2>2. QED
    BY <1>1, <1>2, <2>1 DEF RevertInv, Stored, Active, Going, Peace, createdVars, saveVars,
                            dbVars, snapVars, optionVars
<1>12. QED
  BY <1>5, <1>6, <1>7, <1>8, <1>9, <1>10, <1>11 DEF IInv

(***************************************************************************)
(* #handleNewBlockData: the new block is above all there are.              *)
(***************************************************************************)
LEMMA NewBlockStep ==
  ASSUME IInv, NewBlock
  PROVE  IInv'
<1> DEFINE b == created + 1
<1>1. TypeInv /\ MinerInv /\ StoreInv /\ SavingInv /\ SnapInv /\ ListInv /\ RevertInv
  BY DEF IInv
<1>2. UNCHANGED <<held, paused, unemitted, dbVars, snapVars, reverts, crashes, optionVars>>
  BY DEF NewBlock
<1>3. /\ mining # None /\ created' = b /\ vm' = b
      /\ parent' = [parent EXCEPT ![b] = mining]
      /\ number' = [number EXCEPT ![b] = number[mining] + 1]
      /\ mining' \in {None} \cup (IF Planned < MaxBlocks THEN {b} ELSE {})
      /\ IF saving = None THEN saving' = b /\ latest' = b /\ queue' = queue
         ELSE queue' = Append(queue, b) /\ saving' = saving /\ latest' = latest
  BY DEF NewBlock, LatestWhenSaving
<1>4. /\ b \in Blocks /\ b \in 0..b /\ b \in 1..b /\ b \notin 0..created /\ b # None
      /\ 0..created \subseteq 0..b /\ 1..created \subseteq 1..b
      /\ mining \in 0..created /\ mining \in Blocks
      /\ number[mining] \in Nat /\ number[mining] + 1 <= b
  <2>1. created + 1 <= MaxBlocks /\ created \in Nat /\ MaxBlocks \in Nat
    BY <1>1, <1>3, Shapes, Sequences DEF TypeInv, Planned
  <2>2. b \in Blocks
    BY <2>1 DEF Blocks
  <2>3. /\ mining \in 0..created /\ mining \in Blocks
        /\ number[mining] \in Nat /\ number[mining] <= mining
    BY <1>1, <1>3, Shapes
  <2>4. QED
    BY <1>1, <2>1, <2>2, <2>3, Shapes
<1>5. /\ number'[b] = number[mining] + 1 /\ parent'[b] = mining
      /\ \A x \in 0..created : number'[x] = number[x] /\ parent'[x] = parent[x]
  <2>1. number \in [Blocks -> Blocks] /\ parent \in [Blocks -> Blocks]
    BY <1>1 DEF TypeInv, TypeOK
  <2>2. QED
    BY <1>1, <1>3, <1>4, <2>1, Shapes
<1> HIDE DEF b
<1>6. \A x \in 0..created : Stored(x)' <=> Stored(x)
  BY <1>2, <1>5 DEF Stored, dbVars
<1>7. Peace' = Peace /\ \A r \in Reverts : Active(r)' = Active(r) /\ Going(r)' = Going(r)
  BY <1>2 DEF Peace, Active, Going, optionVars
<1>8. /\ saving # None => /\ queue' \in Seq(1..b) /\ Len(queue') = Len(queue) + 1
                          /\ \A i \in 1..(Len(queue) + 1) :
                               queue'[i] = IF i = Len(queue) + 1 THEN b ELSE queue[i]
      /\ saving = None => queue' = <<>> /\ queue = <<>>
  <2>1. queue \in Seq(1..b)
    BY <1>1, <1>4, Shapes, SeqMonotonic
  <2>2. CASE saving = None
    BY <1>1, <1>3, <2>2 DEF SavingInv
  <2>3. CASE saving # None
    <3>1. queue' = Append(queue, b)
      BY <1>3, <2>3
    <3>2. QED
      BY <1>4, <2>1, <2>3, <3>1, AppendIs
  <2>4. QED
    BY <2>2, <2>3
<1>9. TypeInv'
  <2>1. number' \in [Blocks -> Blocks] /\ parent' \in [Blocks -> Blocks]
    <3>1. number \in [Blocks -> Blocks] /\ parent \in [Blocks -> Blocks]
      BY <1>1 DEF TypeInv, TypeOK
    <3>2. number[mining] + 1 \in Blocks
      BY <1>1, <1>4, Shapes DEF Blocks
    <3>3. QED
      BY <1>3, <1>4, <3>1, <3>2
  <2>2. /\ held' \in Seq(0..b) /\ queue' \in Seq(1..b)
        /\ unemitted' \in Seq(1..b) /\ snaps' \in Seq(0..b)
        /\ list' \in Seq(1..b)
    <3>1. held \in Seq(0..b) /\ unemitted \in Seq(1..b) /\ snaps \in Seq(0..b) /\ list \in Seq(1..b)
      BY <1>1, <1>4, Shapes, SeqMonotonic
    <3>2. queue' \in Seq(1..b)
      <4>1. <<>> \in Seq(1..b)
        OBVIOUS
      <4>2. QED
        BY <1>8, <4>1
    <3>3. QED
      BY <1>2, <3>1, <3>2 DEF snapVars
  <2>3. /\ {vm', latest'} \subseteq 0..b /\ {mining', saving'} \subseteq 0..b \cup {None}
    BY <1>1, <1>3, <1>4, Shapes
  <2>4. ASSUME NEW r \in Reverts
        PROVE  reverts[r].block \in 0..b /\ reverts[r].doomed \in Seq(1..b)
    BY <1>1, <1>4, Calls, SeqMonotonic
  <2>5. TypeOK'
    <3>1. byNumber' \in [Blocks -> 0..created' \cup {None}] /\ byHash' \subseteq 0..created'
      BY <1>1, <1>2, <1>3, <1>4 DEF TypeInv, TypeOK, dbVars
    <3>2. /\ latestIndex' \in Blocks /\ {paused', listening', eager'} \subseteq BOOLEAN
          /\ crashes' \in 0..MaxCrashes
      BY <1>1, <1>2 DEF TypeInv, TypeOK, dbVars, snapVars, optionVars
    <3>3. \A r \in Reverts : reverts'[r].pc \in {"none", "pausing", "saving", "reading",
                                                 "writing", "done", "failed"}
      BY <1>1, <1>2 DEF TypeInv, TypeOK
    <3>4. QED
      BY <1>2, <1>3, <1>4, <2>1, <2>2, <2>3, <2>4, <3>1, <3>2, <3>3 DEF TypeOK
  <2>6. Planned' <= MaxBlocks
    <3>1. Len(held) \in Nat /\ held' = held /\ created' = created + 1 /\ created \in Nat
          /\ MaxBlocks \in Nat /\ created + Len(held) + 1 <= MaxBlocks
      BY <1>1, <1>2, <1>3, Shapes, Sequences DEF Planned, TypeInv, b
    <3>2. CASE mining' = None
      BY <3>1, <3>2 DEF Planned
    <3>3. CASE mining' # None
      <4>1. created + Len(held) + 1 < MaxBlocks
        BY <1>3, <3>1, <3>3 DEF Planned
      <4>2. QED
        BY <3>1, <3>3, <4>1 DEF Planned
    <3>4. QED
      BY <3>2, <3>3
  <2>7. \A x \in Blocks : number'[x] <= x
    <3>1. ASSUME NEW x \in Blocks
          PROVE  number'[x] <= x
      <4>1. number'[x] = IF x = b THEN number[mining] + 1 ELSE number[x]
        BY <1>1, <1>3, <1>4 DEF TypeInv, TypeOK
      <4>2. QED
        BY <1>1, <1>4, <4>1, Shapes
    <3>2. QED
      BY <3>1
  <2>8. QED
    BY <1>1, <1>2, <2>5, <2>6, <2>7 DEF TypeInv, optionVars
<1>10. vm' = IF queue' = <<>> THEN latest' ELSE queue'[Len(queue')]
  <2>1. CASE saving = None
    BY <1>3, <1>8, <2>1
  <2>2. CASE saving # None
    <3>1. queue' # <<>> /\ queue'[Len(queue')] = b
      BY <1>1, <1>8, <2>2, Sequences, LengthAndDomain
    <3>2. QED
      BY <1>3, <3>1
  <2>3. QED
    BY <2>1, <2>2
<1>11. MinerInv'
  <2>1. \A i \in DOMAIN held : held[i] \in 0..created
    BY <1>1, Sequences
  <2>2. mining' # None => mining' = b
    BY <1>3
  <2>3. \A r \in Reverts : reverts[r].block \in 0..created
    BY <1>1, Calls
  <2>4. number'[b] >= number'[b]
    BY <1>4, <1>5
  <2>5. QED
    BY <1>1, <1>2, <1>3, <1>5, <1>7, <1>10, <2>1, <2>2, <2>3, <2>4 DEF MinerInv
<1>12. StoreInv'
  <2>1. \A n \in Blocks : byNumber[n] # None => byNumber[n] \in 0..created
    BY <1>1, Shapes
  <2>2. StoredIsAChainInPeace'
    <3>1. ASSUME Peace, NEW n \in 1..latestIndex
          PROVE  byNumber[n] # None /\ parent'[byNumber[n]] = byNumber[n - 1]
      <4>1. byNumber[n] # None /\ parent[byNumber[n]] = byNumber[n - 1]
        BY <1>1, <3>1 DEF StoreInv, StoredIsAChainInPeace, StoredIsAChain, Peace
      <4>2. n \in Blocks
        BY <1>1, UpToLatest
      <4>3. QED
        BY <1>5, <2>1, <4>1, <4>2
    <3>2. QED
      BY <1>2, <3>1 DEF StoredIsAChainInPeace, StoredIsAChain, Peace, dbVars, optionVars
  <2>3. QED
    BY <1>1, <1>2, <1>5, <2>1, <2>2 DEF StoreInv, NothingAboveLatest, dbVars
<1>13. /\ number'[b] > number[vm]
       /\ Peace => number'[b] = number[vm] + 1 /\ parent'[b] = vm
       /\ vm \in 0..created /\ number'[vm] = number[vm] /\ number[vm] \in Nat
  <2>1. vm \in 0..created /\ number[vm] \in Nat
    BY <1>1, Shapes
  <2>2. number[mining] >= number[vm] /\ (Peace => mining = vm)
    BY <1>1, <1>3 DEF MinerInv
  <2>3. QED
    BY <1>4, <1>5, <2>1, <2>2
<1>14. SavingInv'
  <2>1. CASE saving = None
    <3>1. vm = latest /\ number[latest] = latestIndex /\ byNumber[latestIndex] = latest
      BY <1>1, <1>8, <2>1, LatestIsHighest DEF MinerInv, SavingInv
    <3>2. saving' = b /\ latest' = b /\ queue' = <<>> /\ Len(<<>>) = 0
      BY <1>3, <1>8, <2>1
    <3>3. QED
      BY <1>1, <1>2, <1>4, <1>7, <1>13, <3>1, <3>2 DEF SavingInv, dbVars
  <2>2. CASE saving # None
    <3>1. saving' = saving /\ latest' = latest /\ saving \in 0..created /\ latest = saving
      BY <1>1, <1>3, <2>2, Shapes DEF SavingInv
    <3>2. ASSUME NEW i \in 1..Len(queue')
          PROVE  /\ number'[queue'[i]] > number'[Before(i)']
                 /\ Peace => /\ number'[queue'[i]] = number'[Before(i)'] + 1
                             /\ parent'[queue'[i]] = Before(i)'
      <4>1. i \in 1..(Len(queue) + 1) /\ Len(queue) \in Nat
        BY <1>1, <1>8, <2>2, Sequences
      <4>2. CASE i = Len(queue) + 1
        <5>1. queue'[i] = b
          BY <1>8, <2>2, <4>1, <4>2
        <5>2. Before(i)' = vm
          <6>1. CASE i = 1
            BY <1>1, <3>1, <4>1, <4>2, <6>1, Sequences DEF Before, MinerInv
          <6>2. CASE i # 1
            BY <1>1, <1>8, <2>2, <4>1, <4>2, <6>2, Sequences DEF Before, MinerInv
          <6>3. QED
            BY <6>1, <6>2
        <5>3. QED
          BY <1>13, <5>1, <5>2
      <4>3. CASE i # Len(queue) + 1
        <5>1. i \in 1..Len(queue) /\ queue'[i] = queue[i] /\ queue[i] \in 0..created
          BY <1>1, <1>8, <2>2, <4>1, <4>3, Sequences, Shapes
        <5>2. Before(i)' = Before(i) /\ Before(i) \in 0..created
          <6>1. CASE i = 1
            BY <3>1, <6>1 DEF Before
          <6>2. CASE i # 1
            <7>1. i - 1 \in 1..Len(queue) /\ i - 1 # Len(queue) + 1
                  /\ i - 1 \in 1..(Len(queue) + 1)
              BY <4>1, <5>1, <6>2
            <7>2. queue'[i - 1] = queue[i - 1] /\ queue[i - 1] \in 0..created
              BY <1>1, <1>8, <2>2, <7>1, Sequences, Shapes
            <7>3. QED
              BY <6>2, <7>2 DEF Before
          <6>3. QED
            BY <6>1, <6>2
        <5>3. QED
          BY <1>1, <1>5, <5>1, <5>2 DEF SavingInv
      <4>4. QED
        BY <4>2, <4>3
    <3>3. byNumber' = byNumber /\ latestIndex' = latestIndex /\ unemitted' = unemitted
      BY <1>2 DEF dbVars
    <3>4. number'[saving] = number[saving] /\ parent'[saving] = parent[saving]
      BY <1>5, <3>1
    <3>5. QED
      BY <1>1, <1>7, <2>2, <3>1, <3>2, <3>3, <3>4 DEF SavingInv
  <2>3. QED
    BY <2>1, <2>2
<1>15. SnapInv'
  <2>1. \A i \in DOMAIN snaps : snaps[i] \in 0..created /\ snaps[i] # b /\ snaps[i] # None
    BY <1>1, <1>4, Sequences, Shapes
  <2>2. \A i \in DOMAIN snaps : snaps[i] # saving' => Stored(snaps[i])
    BY <1>1, <1>3, <2>1 DEF SnapInv
  <2>3. QED
    BY <1>1, <1>2, <1>5, <1>6, <1>7, <2>1, <2>2 DEF SnapInv, snapVars
<1>16. ListInv'
  <2>1. /\ \A i \in DOMAIN snaps : snaps[i] \in 0..created
        /\ \A i \in DOMAIN list : list[i] \in 0..created
        /\ \A i \in DOMAIN unemitted : unemitted[i] \in 0..created
        /\ snaps # <<>> => 1 \in DOMAIN snaps
    BY <1>1, Sequences, Shapes
  <2>2. \A x : Accounted(x)' <=> Accounted(x)
    BY <1>2 DEF Accounted, Going, snapVars
  <2>3. QED
    BY <1>1, <1>2, <1>5, <1>6, <1>7, <2>1, <2>2 DEF ListInv, snapVars, dbVars
<1>17. RevertInv'
  <2>1. \A r \in Reverts : reverts[r].pc # "saving" /\ ~Going(r)
    BY <1>1, <1>3 DEF RevertInv
  <2>2. QED
    BY <1>1, <1>2, <1>7, <2>1 DEF RevertInv, Active, snapVars
<1>18. QED
  BY <1>9, <1>11, <1>12, <1>14, <1>15, <1>16, <1>17 DEF IInv

(***************************************************************************)
(* The listener puts a block in front of the list.                         *)
(***************************************************************************)
LEMMA ListedIs ==
  ASSUME TypeInv, NEW b \in 1..created
  PROVE  /\ Listed(b) \in Seq(1..created)
         /\ DOMAIN Listed(b) = 1..Len(Listed(b))
         /\ ~listening => Listed(b) = list
         /\ listening => /\ Len(Listed(b)) = Len(list) + 1
                         /\ \A i \in 1..(Len(list) + 1) :
                              Listed(b)[i] = IF i = 1 THEN b ELSE list[i - 1]
<1>1. list \in Seq(1..created)
  BY Shapes
<1>2. CASE listening
  BY <1>1, <1>2, InFrontIs DEF Listed
<1>3. CASE ~listening
  BY <1>1, <1>3, LengthAndDomain DEF Listed
<1>4. QED
  BY <1>2, <1>3

(***************************************************************************)
(* Once it has its event, or will have it, a block is accounted for; so    *)
(* the list is as it should be after a block that is above all has been    *)
(* put in front of it.                                                     *)
(***************************************************************************)
LEMMA ListedInOrder ==
  ASSUME TypeInv, ListInv, NEW b \in 1..created,
         \A i \in DOMAIN list : number[list[i]] < number[b]
  PROVE  /\ \A i, j \in DOMAIN Listed(b) :
              i < j => number[Listed(b)[i]] > number[Listed(b)[j]]
         /\ \A i \in DOMAIN Listed(b) :
              Listed(b)[i] = b \/ \E j \in DOMAIN list : Listed(b)[i] = list[j]
         /\ \A j \in DOMAIN list : \E i \in DOMAIN Listed(b) : Listed(b)[i] = list[j]
         /\ listening => \E i \in DOMAIN Listed(b) : Listed(b)[i] = b
<1>1. Len(list) \in Nat /\ DOMAIN list = 1..Len(list)
  BY Sequences
<1>2. CASE ~listening
  BY <1>2, ListedIs DEF ListInv
<1>3. CASE listening
  <2>1. /\ DOMAIN Listed(b) = 1..(Len(list) + 1)
        /\ \A i \in 1..(Len(list) + 1) : Listed(b)[i] = IF i = 1 THEN b ELSE list[i - 1]
    BY <1>3, ListedIs
  <2>2. ASSUME NEW i \in DOMAIN Listed(b), i # 1
        PROVE  i - 1 \in DOMAIN list /\ Listed(b)[i] = list[i - 1]
    BY <1>1, <2>1, <2>2
  <2>3. 1 \in DOMAIN Listed(b) /\ Listed(b)[1] = b
    BY <1>1, <2>1
  <2>4. ASSUME NEW i \in DOMAIN Listed(b), NEW j \in DOMAIN Listed(b), i < j
        PROVE  number[Listed(b)[i]] > number[Listed(b)[j]]
    <3>1. i \in Nat /\ j \in Nat /\ j # 1
      BY <1>1, <2>1, <2>4
    <3>2. j - 1 \in DOMAIN list /\ Listed(b)[j] = list[j - 1]
      BY <2>2, <3>1
    <3>3. CASE i = 1
      BY <2>3, <3>2, <3>3
    <3>4. CASE i # 1
      BY <2>2, <2>4, <3>1, <3>2, <3>4 DEF ListInv
    <3>5. QED
      BY <3>3, <3>4
  <2>5. ASSUME NEW j \in DOMAIN list
        PROVE  j + 1 \in DOMAIN Listed(b) /\ Listed(b)[j + 1] = list[j]
    BY <1>1, <2>1
  <2>6. QED
    BY <2>2, <2>3, <2>4, <2>5
<1>4. QED
  BY <1>2, <1>3

(***************************************************************************)
(* The batch of the block being saved: it is stored above all the others.  *)
(***************************************************************************)
LEMMA SavedStep ==
  ASSUME IInv, Saved
  PROVE  IInv'
<1> DEFINE n0 == number[saving]
<1>1. TypeInv /\ MinerInv /\ StoreInv /\ SavingInv /\ SnapInv /\ ListInv /\ RevertInv
  BY DEF IInv
<1>2. UNCHANGED <<createdVars, minerVars, snaps, listening, reverts, crashes, optionVars>>
  BY DEF Saved
<1>3. /\ saving # None /\ unemitted = <<>>
      /\ byNumber' = [byNumber EXCEPT ![n0] = saving]
      /\ byHash' = byHash \cup {saving}
      /\ latestIndex' = n0
      /\ IF eager THEN unemitted' = Append(unemitted, saving) /\ list' = list
         ELSE list' = Listed(saving) /\ unemitted' = unemitted
      /\ IF queue = <<>> THEN saving' = None /\ queue' = queue /\ latest' = latest
         ELSE saving' = Head(queue) /\ queue' = Tail(queue) /\ latest' = Head(queue)
  BY DEF Saved, LatestWhenSaving
<1>4. /\ saving \in 0..created /\ n0 \in Nat /\ n0 \in Blocks /\ n0 > latestIndex
      /\ latest = saving /\ latestIndex \in Nat /\ saving \in 1..created
  <2>1. saving \in 0..created /\ n0 \in Nat /\ n0 \in Blocks /\ n0 <= saving
        /\ n0 > latestIndex /\ latest = saving /\ latestIndex \in Nat
    BY <1>1, <1>3, Shapes DEF SavingInv
  <2>2. QED
    BY <1>1, <2>1, Shapes
<1>5. /\ \A n \in Blocks : byNumber'[n] = IF n = n0 THEN saving ELSE byNumber[n]
      /\ byNumber'[latestIndex'] = saving
  BY <1>1, <1>3, <1>4 DEF TypeInv, TypeOK
<1> HIDE DEF n0
<1>6. /\ number' = number /\ byNumber'[number[saving]] = saving
      /\ \A x \in 0..created : Stored(x) => byNumber'[number[x]] = x /\ number[x] < n0
  <2>1. number[saving] = n0 /\ number' = number /\ saving \in Blocks
    BY <1>1, <1>2, <1>4, Shapes DEF n0, createdVars
  <2>2. byNumber'[number[saving]] = saving
    BY <1>4, <1>5, <2>1
  <2>3. ASSUME NEW x \in 0..created, Stored(x)
        PROVE  byNumber'[number[x]] = x /\ number[x] < n0
    <3>1. number[x] <= latestIndex /\ number[x] \in Blocks /\ number[x] \in Nat
      BY <1>1, <2>3, LatestIsHighest, Shapes
    <3>2. QED
      BY <1>4, <1>5, <2>3, <3>1 DEF Stored
  <2>4. QED
    BY <2>1, <2>2, <2>3
<1>7. Peace' = Peace /\ \A r \in Reverts : Active(r)' = Active(r) /\ ~Going(r) /\ ~Going(r)'
  BY <1>1, <1>2, <1>3 DEF Peace, Active, Going, RevertInv, optionVars
<1>8. /\ queue # <<>> => /\ saving' = queue[1] /\ latest' = queue[1] /\ queue[1] \in 1..created
                         /\ queue' \in Seq(1..created) /\ Len(queue') = Len(queue) - 1
                         /\ \A i \in 1..(Len(queue) - 1) : queue'[i] = queue[i + 1]
                         /\ Len(queue) >= 1
      /\ queue = <<>> => saving' = None /\ queue' = <<>> /\ latest' = saving
  <2>1. queue \in Seq(1..created)
    BY <1>1, Shapes
  <2>2. CASE queue = <<>>
    BY <1>3, <1>4, <2>2
  <2>3. CASE queue # <<>>
    <3>1. saving' = Head(queue) /\ queue' = Tail(queue) /\ latest' = Head(queue)
      BY <1>3, <2>3
    <3>2. QED
      BY <2>1, <2>3, <3>1, TailIs
  <2>4. QED
    BY <2>2, <2>3
<1>9. /\ unemitted' \in Seq(1..created)
      /\ Len(unemitted') <= 1 /\ DOMAIN unemitted' = 1..Len(unemitted')
      /\ unemitted' # <<>> => unemitted'[1] = saving /\ DOMAIN unemitted' = {1}
      /\ eager => unemitted' # <<>>
      /\ ~eager => unemitted' = <<>>
  <2>1. unemitted \in Seq(1..created) /\ Len(unemitted) = 0
    BY <1>1, <1>3, Shapes
  <2>2. CASE eager
    <3>1. unemitted' = Append(unemitted, saving)
      BY <1>3, <2>2
    <3>2. QED
      BY <1>4, <2>1, <2>2, <3>1, AppendIs
  <2>3. CASE ~eager
    BY <1>3, <2>1, <2>3
  <2>4. QED
    BY <2>2, <2>3
<1>10. \A i \in DOMAIN list : number[list[i]] < number[saving] /\ list[i] \in 0..created
  BY <1>1, <1>6, Sequences, Shapes DEF ListInv, n0
<1>11. TypeInv'
  <2>1. byNumber' \in [Blocks -> 0..created \cup {None}]
    BY <1>1, <1>3, <1>4 DEF TypeInv, TypeOK
  <2>2. queue' \in Seq(1..created) /\ {saving'} \subseteq 0..created \cup {None}
        /\ latest' \in 0..created
    <3>1. CASE queue = <<>>
      BY <1>1, <1>3, <1>4, <1>8, <3>1, Shapes
    <3>2. CASE queue # <<>>
      BY <1>1, <1>8, <3>2, Shapes
    <3>3. QED
      BY <3>1, <3>2
  <2>3. list' \in Seq(1..created)
    BY <1>1, <1>3, <1>4, ListedIs, Shapes
  <2>4. TypeOK'
    BY <1>1, <1>2, <1>3, <1>4, <1>9, <2>1, <2>2, <2>3
       DEF TypeInv, TypeOK, createdVars, minerVars, optionVars
  <2>5. QED
    BY <1>1, <1>2, <2>4 DEF TypeInv, Planned, createdVars, minerVars, optionVars
<1>12. MinerInv'
  <2>1. vm = IF queue' = <<>> THEN latest' ELSE queue'[Len(queue')]
    <3>1. CASE queue = <<>>
      BY <1>1, <1>4, <1>8, <3>1 DEF MinerInv
    <3>2. CASE queue # <<>>
      <4>1. Len(queue) \in Nat /\ vm = queue[Len(queue)] /\ (queue' = <<>> <=> Len(queue') = 0)
        BY <1>1, <1>8, <3>2, Sequences, LengthAndDomain DEF MinerInv
      <4>2. CASE Len(queue) = 1
        BY <1>8, <3>2, <4>1, <4>2
      <4>3. CASE Len(queue) # 1
        BY <1>8, <3>2, <4>1, <4>3
      <4>4. QED
        BY <4>2, <4>3
    <3>3. QED
      BY <3>1, <3>2
  <2>2. QED
    BY <1>1, <1>2, <1>7, <2>1 DEF MinerInv, createdVars, minerVars
<1>13. StoreInv'
  <2>1. number' = number /\ parent' = parent /\ latestIndex' = n0
    BY <1>2, <1>3 DEF createdVars
  <2>2. \A n \in Blocks : byNumber'[n] # None => number'[byNumber'[n]] = n
    BY <1>1, <1>5, <2>1 DEF StoreInv, n0
  <2>3. byNumber'[latestIndex'] # None
    BY <1>3, <1>5
  <2>4. NothingAboveLatest'
    <3>1. ASSUME NEW n \in Blocks, n > n0
          PROVE  byNumber'[n] = None
      <4>1. n > latestIndex /\ n # n0
        BY <1>1, <1>4, <3>1, Shapes
      <4>2. QED
        BY <1>1, <1>5, <4>1 DEF StoreInv, NothingAboveLatest
    <3>2. QED
      BY <2>1, <3>1 DEF NothingAboveLatest
  <2>5. ASSUME Peace, NEW n \in 1..n0
        PROVE  byNumber'[n] # None /\ parent[byNumber'[n]] = byNumber'[n - 1]
    <3>1. n0 = latestIndex + 1 /\ parent[saving] = byNumber[latestIndex]
      BY <1>1, <1>3, <2>5 DEF SavingInv, n0
    <3>2. CASE n = n0
      <4>1. n - 1 = latestIndex /\ latestIndex \in Blocks /\ latestIndex # n0
        BY <1>1, <1>4, <3>1, <3>2, UpToLatest
      <4>2. QED
        BY <1>3, <1>4, <1>5, <3>1, <3>2, <4>1
    <3>3. CASE n # n0
      <4>1. n \in 1..latestIndex /\ n - 1 # n0
        BY <1>4, <2>5, <3>1, <3>3
      <4>2. byNumber[n] # None /\ parent[byNumber[n]] = byNumber[n - 1]
        BY <1>1, <2>5, <4>1 DEF StoreInv, StoredIsAChainInPeace, StoredIsAChain, Peace
      <4>3. QED
        BY <1>1, <1>5, <3>3, <4>1, <4>2, UpToLatest
    <3>4. QED
      BY <3>2, <3>3
  <2>6. StoredIsAChainInPeace'
    BY <1>7, <2>1, <2>5 DEF StoredIsAChainInPeace, StoredIsAChain, Peace
  <2>7. QED
    BY <2>2, <2>3, <2>4, <2>6 DEF StoreInv
<1>14. SavingInv'
  <2>1. number' = number /\ parent' = parent /\ latestIndex' = n0 /\ n0 = number[saving]
    BY <1>2, <1>3 DEF createdVars, n0
  <2>2. /\ Len(unemitted') <= 1
        /\ unemitted' # <<>> => byNumber'[latestIndex'] = unemitted'[1]
    BY <1>5, <1>9
  <2>3. CASE queue = <<>>
    <3>1. saving' = None /\ queue' = <<>> /\ latest' = saving /\ Len(<<>>) = 0
      BY <1>8, <2>3
    <3>2. QED
      BY <1>5, <2>2, <3>1 DEF SavingInv
  <2>4. CASE queue # <<>>
    <3>1. /\ saving' = queue[1] /\ latest' = queue[1] /\ queue[1] \in 1..created
          /\ Len(queue') = Len(queue) - 1 /\ Len(queue) >= 1 /\ Len(queue) \in Nat
          /\ \A i \in 1..(Len(queue) - 1) : queue'[i] = queue[i + 1]
      BY <1>1, <1>8, <2>4, Sequences
    <3>2. /\ number[queue[1]] > n0
          /\ Peace => number[queue[1]] = n0 + 1 /\ parent[queue[1]] = saving
      BY <1>1, <2>1, <3>1 DEF SavingInv, Before
    <3>3. ASSUME NEW i \in 1..Len(queue')
          PROVE  /\ number[queue'[i]] > number[Before(i)']
                 /\ Peace => /\ number[queue'[i]] = number[Before(i)'] + 1
                             /\ parent[queue'[i]] = Before(i)'
      <4>1. i \in 1..(Len(queue) - 1) /\ i + 1 \in 1..Len(queue) /\ i + 1 # 1 /\ (i + 1) - 1 = i
        BY <3>1
      <4>2. queue'[i] = queue[i + 1] /\ Before(i + 1) = queue[i]
        BY <3>1, <4>1 DEF Before
      <4>3. Before(i)' = queue[i]
        <5>1. CASE i = 1
          BY <3>1, <5>1 DEF Before
        <5>2. CASE i # 1
          <6>1. i - 1 \in 1..(Len(queue) - 1) /\ (i - 1) + 1 = i
            BY <3>1, <4>1, <5>2
          <6>2. QED
            BY <3>1, <5>2, <6>1 DEF Before
        <5>3. QED
          BY <5>1, <5>2
      <4>4. QED
        BY <1>1, <4>1, <4>2, <4>3 DEF SavingInv
    <3>4. saving' # None
      BY <1>1, <3>1, Shapes
    <3>5. QED
      BY <1>5, <1>7, <2>1, <2>2, <3>1, <3>2, <3>3, <3>4 DEF SavingInv
  <2>5. QED
    BY <2>3, <2>4
<1>15. SnapInv'
  <2>1. \A i \in DOMAIN snaps : snaps[i] \in 0..created
    BY <1>1, Sequences
  <2>2. ASSUME NEW i \in DOMAIN snaps
        PROVE  byNumber'[number[snaps[i]]] = snaps[i]
    <3>1. CASE snaps[i] = saving
      BY <1>6, <3>1
    <3>2. CASE snaps[i] # saving
      BY <1>1, <1>6, <2>1, <3>2 DEF SnapInv
    <3>3. QED
      BY <3>1, <3>2
  <2>3. snaps' = snaps /\ listening' = listening
    BY <1>2
  <2>4. QED
    BY <1>1, <1>6, <2>2, <2>3 DEF SnapInv, Stored
<1>16. ListInv'
  <2>1. snaps' = snaps /\ listening' = listening /\ number' = number /\ reverts' = reverts
    BY <1>2 DEF createdVars
  <2>2. ASSUME NEW i \in DOMAIN list'
        PROVE  list'[i] \in 0..created /\ byNumber'[number[list'[i]]] = list'[i]
               /\ (list'[i] = saving \/ \E j \in DOMAIN list : list'[i] = list[j])
    <3>1. \A j \in DOMAIN list : list[j] \in 0..created /\ Stored(list[j])
      BY <1>1, <1>10 DEF ListInv
    <3>2. list'[i] = saving \/ \E j \in DOMAIN list : list'[i] = list[j]
      <4>1. CASE eager
        BY <1>3, <4>1
      <4>2. CASE ~eager
        BY <1>1, <1>3, <1>4, <1>10, <4>2, ListedInOrder
      <4>3. QED
        BY <4>1, <4>2
    <3>3. CASE list'[i] = saving
      BY <1>4, <1>6, <3>3
    <3>4. CASE \E j \in DOMAIN list : list'[i] = list[j]
      BY <1>6, <3>1, <3>4
    <3>5. QED
      BY <3>2, <3>3, <3>4
  <2>3. \A i, j \in DOMAIN list' : i < j => number[list'[i]] > number[list'[j]]
    <3>1. CASE eager
      BY <1>1, <1>3, <3>1 DEF ListInv
    <3>2. CASE ~eager
      BY <1>1, <1>3, <1>4, <1>10, <3>2, ListedInOrder
    <3>3. QED
      BY <3>1, <3>2
  <2>4. \A i \in DOMAIN list', j \in DOMAIN unemitted' :
          number[list'[i]] < number[unemitted'[j]]
    <3>1. CASE eager
      BY <1>3, <1>9, <1>10, <3>1
    <3>2. CASE ~eager
      BY <1>9, <3>2
    <3>3. QED
      BY <3>1, <3>2
  <2>5. ASSUME snaps # <<>>, NEW n \in Blocks, n > number[snaps[1]], byNumber'[n] # None,
               NEW x, x = byNumber'[n]
        PROVE  Accounted(x)'
    <3>1. listening
      BY <1>1, <2>5 DEF SnapInv
    <3>2. CASE n = n0
      <4>1. x = saving
        BY <1>5, <2>5, <3>2
      <4>2. CASE eager
        BY <1>9, <4>1, <4>2 DEF Accounted
      <4>3. CASE ~eager
        BY <1>1, <1>3, <1>4, <1>10, <3>1, <4>1, <4>3, ListedInOrder DEF Accounted
      <4>4. QED
        BY <4>2, <4>3
    <3>3. CASE n # n0
      <4>1. x = byNumber[n] /\ byNumber[n] # None
        BY <1>5, <2>5, <3>3
      <4>2. Accounted(byNumber[n])
        BY <1>1, <2>5, <4>1 DEF ListInv
      <4>3. PICK j \in DOMAIN list : list[j] = byNumber[n]
        BY <1>3, <1>7, <4>2 DEF Accounted
      <4>4. \E i \in DOMAIN list' : list'[i] = list[j]
        <5>1. CASE eager
          BY <1>3, <5>1
        <5>2. CASE ~eager
          BY <1>1, <1>3, <1>4, <1>10, <5>2, ListedInOrder
        <5>3. QED
          BY <5>1, <5>2
      <4>5. QED
        BY <4>1, <4>3, <4>4 DEF Accounted
    <3>4. QED
      BY <3>2, <3>3
  <2>6. ASSUME Peace
        PROVE  /\ snaps = <<>> => list' = <<>>
               /\ snaps # <<>> =>
                    /\ \A i \in DOMAIN list' : number[list'[i]] > number[snaps[1]]
                    /\ \A i \in DOMAIN unemitted' : number[unemitted'[i]] > number[snaps[1]]
    <3>1. CASE snaps = <<>>
      <4>1. ~listening /\ list = <<>>
        BY <1>1, <2>6, <3>1 DEF SnapInv, ListInv
      <4>2. QED
        BY <1>3, <3>1, <4>1 DEF Listed
    <3>2. CASE snaps # <<>>
      <4>1. 1 \in DOMAIN snaps /\ snaps[1] \in 0..created
        BY <1>1, <3>2, Sequences
      <4>2. number[saving] > number[snaps[1]]
        <5>1. Stored(snaps[1])
          BY <1>1, <2>6, <4>1 DEF SnapInv
        <5>2. number[snaps[1]] < n0 /\ number[snaps[1]] \in Nat
          BY <1>1, <1>6, <4>1, <5>1, Shapes
        <5>3. QED
          BY <1>4, <5>2 DEF n0
      <4>3. \A j \in DOMAIN list : number[list[j]] > number[snaps[1]]
        BY <1>1, <2>6, <3>2 DEF ListInv
      <4>4. QED
        BY <1>9, <2>2, <3>2, <4>2, <4>3
    <3>3. QED
      BY <3>1, <3>2
  <2>7. \A i \in DOMAIN list' : byNumber'[number[list'[i]]] = list'[i]
    BY <2>2
  <2>8. \A n \in Blocks : snaps # <<>> /\ n > number[snaps[1]] /\ byNumber'[n] # None
          => Accounted(byNumber[n])'
    BY <2>5
  <2>9. QED
    BY <1>7, <2>1, <2>3, <2>4, <2>6, <2>7, <2>8 DEF ListInv, Stored
<1>17. RevertInv'
  <2>1. ASSUME NEW r \in Reverts, reverts[r].pc = "saving"
        PROVE  mining = None /\ reverts[r].awaits = vm
    BY <1>1, <1>3, <2>1 DEF RevertInv
  <2>2. QED
    BY <1>1, <1>2, <1>7, <2>1 DEF RevertInv, Active, minerVars
<1>18. QED
  BY <1>11, <1>12, <1>13, <1>14, <1>15, <1>16, <1>17 DEF IInv

(***************************************************************************)
(* The delayed event of the block that was saved last.                     *)
(***************************************************************************)
LEMMA EmitStep ==
  ASSUME IInv, Emit
  PROVE  IInv'
<1> DEFINE u == unemitted[1]
<1>1. TypeInv /\ MinerInv /\ StoreInv /\ SavingInv /\ SnapInv /\ ListInv /\ RevertInv
  BY DEF IInv
<1>2. UNCHANGED <<createdVars, minerVars, latest, saving, queue, dbVars, snaps, listening,
                  reverts, crashes, optionVars>>
  BY DEF Emit
<1>3. /\ unemitted # <<>> /\ unemitted' = Tail(unemitted) /\ Head(unemitted) = u
      /\ u \in 1..created /\ u \in 0..created /\ Len(unemitted) = 1 /\ 1 \in DOMAIN unemitted
      /\ \A i \in DOMAIN unemitted : unemitted[i] = u
  <2>1. unemitted \in Seq(1..created) /\ unemitted # <<>>
    BY <1>1, Shapes DEF Emit
  <2>2. Len(unemitted) = 1 /\ DOMAIN unemitted = 1..1
    BY <1>1, <2>1, Sequences DEF SavingInv
  <2>3. QED
    BY <1>1, <2>1, <2>2, TailIs, Shapes DEF Emit
<1>4. unemitted' = <<>>
  <2>1. unemitted \in Seq(1..created)
    BY <1>1, Shapes
  <2>2. Tail(unemitted) \in Seq(1..created) /\ Len(Tail(unemitted)) = 0
    BY <1>3, <2>1, TailIs
  <2>3. QED
    BY <1>3, <2>2, LengthAndDomain
<1>5. list' = Listed(u)
  BY <1>3 DEF Emit
<1>6. Stored(u)
  <2>1. byNumber[latestIndex] = u /\ latestIndex \in Blocks /\ u # None
    BY <1>1, <1>3, UpToLatest, Shapes DEF SavingInv
  <2>2. QED
    BY <1>1, <2>1 DEF StoreInv, Stored
<1>7. \A i \in DOMAIN list : number[list[i]] < number[u]
  BY <1>1, <1>3 DEF ListInv
<1> HIDE DEF u
<1>8. Peace' = Peace /\ \A r \in Reverts : Active(r)' = Active(r) /\ ~Going(r) /\ ~Going(r)'
  BY <1>1, <1>2, <1>3 DEF Peace, Active, Going, RevertInv, optionVars
<1>9. TypeInv'
  <2>1. list' \in Seq(1..created) /\ unemitted' \in Seq(1..created)
    <3>1. list' \in Seq(1..created)
      BY <1>1, <1>3, <1>5, ListedIs
    <3>2. <<>> \in Seq(1..created)
      OBVIOUS
    <3>3. QED
      BY <1>4, <3>1, <3>2
  <2>2. TypeOK'
    BY <1>1, <1>2, <2>1 DEF TypeInv, TypeOK, createdVars, minerVars, dbVars, optionVars
  <2>3. QED
    BY <1>1, <1>2, <2>2 DEF TypeInv, Planned, createdVars, minerVars, optionVars
<1>10. MinerInv' /\ StoreInv'
  BY <1>1, <1>2, <1>8 DEF MinerInv, StoreInv, NothingAboveLatest, StoredIsAChainInPeace,
                          StoredIsAChain, createdVars, minerVars, dbVars, optionVars
<1>11. SavingInv'
  <2>1. Len(unemitted') = 0
    BY <1>4
  <2>2. QED
    BY <1>1, <1>2, <1>4, <1>8, <2>1 DEF SavingInv, Before, createdVars, dbVars
<1>12. SnapInv'
  BY <1>1, <1>2, <1>8 DEF SnapInv, Stored, createdVars, dbVars
<1>13. ListInv'
  <2>1. snaps' = snaps /\ listening' = listening /\ number' = number /\ byNumber' = byNumber
    BY <1>2 DEF createdVars, dbVars
  <2>2. /\ \A i, j \in DOMAIN list' : i < j => number[list'[i]] > number[list'[j]]
        /\ \A i \in DOMAIN list' : list'[i] = u \/ \E j \in DOMAIN list : list'[i] = list[j]
        /\ \A j \in DOMAIN list : \E i \in DOMAIN list' : list'[i] = list[j]
        /\ listening => \E i \in DOMAIN list' : list'[i] = u
    BY <1>1, <1>3, <1>5, <1>7, ListedInOrder
  <2>3. \A i \in DOMAIN list' : byNumber[number[list'[i]]] = list'[i]
    BY <1>1, <1>6, <2>2 DEF ListInv, Stored
  <2>4. DOMAIN unemitted' = {}
    BY <1>4
  <2>5. ASSUME snaps # <<>>, NEW n \in Blocks, n > number[snaps[1]], byNumber[n] # None
        PROVE  \E i \in DOMAIN list' : list'[i] = byNumber[n]
    <3>1. listening
      BY <1>1, <2>5 DEF SnapInv
    <3>2. Accounted(byNumber[n])
      BY <1>1, <2>5 DEF ListInv
    <3>3. byNumber[n] = u \/ \E j \in DOMAIN list : list[j] = byNumber[n]
      BY <1>3, <1>8, <3>2 DEF Accounted
    <3>4. QED
      BY <2>2, <3>1, <3>3
  <2>6. ASSUME Peace
        PROVE  /\ snaps = <<>> => list' = <<>>
               /\ snaps # <<>> => \A i \in DOMAIN list' : number[list'[i]] > number[snaps[1]]
    <3>1. CASE snaps = <<>>
      BY <1>1, <1>5, <2>6, <3>1 DEF SnapInv, ListInv, Listed
    <3>2. CASE snaps # <<>>
      BY <1>1, <1>3, <2>2, <2>6, <3>2 DEF ListInv
    <3>3. QED
      BY <3>1, <3>2
  <2>7. \A n \in Blocks : snaps # <<>> /\ n > number[snaps[1]] /\ byNumber[n] # None
          => Accounted(byNumber[n])'
    BY <2>1, <2>5 DEF Accounted
  <2>8. QED
    BY <1>8, <2>1, <2>2, <2>3, <2>4, <2>6, <2>7 DEF ListInv, Stored
<1>14. RevertInv'
  BY <1>1, <1>2, <1>8 DEF RevertInv, Active, minerVars
<1>15. QED
  BY <1>9, <1>10, <1>11, <1>12, <1>13, <1>14 DEF IInv

(***************************************************************************)
(* evm_snapshot: blocks.latest, saved or not, is the highest snapshot.      *)
(***************************************************************************)
LEMMA SnapshotStep ==
  ASSUME IInv, Snapshot
  PROVE  IInv'
<1>1. TypeInv /\ MinerInv /\ StoreInv /\ SavingInv /\ SnapInv /\ ListInv /\ RevertInv
  BY DEF IInv
<1>2. UNCHANGED <<createdVars, minerVars, saveVars, dbVars, list, reverts, crashes, optionVars>>
  BY DEF Snapshot
<1>3. snaps' = Append(snaps, latest) /\ listening' = TRUE
  BY DEF Snapshot
<1>4. /\ snaps' \in Seq(0..created) /\ Len(snaps) \in Nat /\ DOMAIN snaps = 1..Len(snaps)
      /\ DOMAIN snaps' = 1..(Len(snaps) + 1) /\ snaps' # <<>>
      /\ \A i \in 1..(Len(snaps) + 1) :
           snaps'[i] = IF i = Len(snaps) + 1 THEN latest ELSE snaps[i]
  <2>1. snaps \in Seq(0..created) /\ latest \in 0..created
    BY <1>1, Shapes
  <2>2. QED
    BY <1>3, <2>1, AppendIs, LengthAndDomain
<1>5. \A r \in Reverts : ~Active(r)
  BY <1>1 DEF Snapshot, Alone, TypeInv
<1>6. Peace' = Peace /\ \A r \in Reverts : ~Active(r)' /\ ~Going(r) /\ ~Going(r)'
  BY <1>2, <1>5 DEF Peace, Active, Going, optionVars
<1>7. /\ Peace => saving = None /\ unemitted = <<>>
      /\ saving = None => number[latest] = latestIndex /\ Stored(latest)
      /\ saving # None => latest = saving
      /\ number[latest] >= latestIndex /\ number[latest] \in Nat /\ latestIndex \in Nat
      /\ \A i \in DOMAIN snaps : number[snaps[i]] <= number[latest]
  <2>1. Peace => saving = None /\ unemitted = <<>>
    BY DEF Snapshot, Announced, Peace
  <2>2. saving = None => number[latest] = latestIndex /\ byNumber[latestIndex] = latest
    BY <1>1, LatestIsHighest DEF SavingInv
  <2>3. QED
    BY <1>1, <2>1, <2>2, Shapes, LatestIsHighest DEF Stored, SavingInv
<1>8. TypeInv'
  <2>1. TypeOK'
    BY <1>1, <1>2, <1>3, <1>4
       DEF TypeInv, TypeOK, createdVars, minerVars, saveVars, dbVars, optionVars
  <2>2. QED
    BY <1>1, <1>2, <2>1 DEF TypeInv, Planned, createdVars, minerVars, optionVars
<1>9. MinerInv' /\ StoreInv'
  BY <1>1, <1>2, <1>5, <1>6
     DEF MinerInv, StoreInv, NothingAboveLatest, StoredIsAChainInPeace, StoredIsAChain,
         createdVars, minerVars, saveVars, dbVars, optionVars
<1>10. SavingInv'
  BY <1>1, <1>2, <1>6 DEF SavingInv, Before, createdVars, saveVars, dbVars
<1>11. SnapInv'
  <2>1. number' = number /\ byNumber' = byNumber /\ saving' = saving
    BY <1>2 DEF createdVars, dbVars, saveVars
  <2>2. ASSUME NEW i \in DOMAIN snaps'
        PROVE  /\ snaps'[i] # saving => byNumber[number[snaps'[i]]] = snaps'[i]
               /\ Peace => byNumber[number[snaps'[i]]] = snaps'[i]
               /\ number[snaps'[i]] <= number[latest]
    <3>1. CASE i = Len(snaps) + 1
      BY <1>4, <1>7, <3>1 DEF Stored
    <3>2. CASE i # Len(snaps) + 1
      BY <1>1, <1>4, <1>7, <3>2 DEF SnapInv, Stored
    <3>3. QED
      BY <3>1, <3>2
  <2>3. ASSUME NEW i \in DOMAIN snaps', NEW j \in DOMAIN snaps', i <= j
        PROVE  number[snaps'[i]] <= number[snaps'[j]]
    <3>1. CASE j = Len(snaps) + 1
      BY <1>4, <2>2, <3>1
    <3>2. CASE j # Len(snaps) + 1
      BY <1>1, <1>4, <2>3, <3>2 DEF SnapInv
    <3>3. QED
      BY <3>1, <3>2
  <2>4. QED
    BY <1>3, <1>4, <1>6, <2>1, <2>2, <2>3 DEF SnapInv, Stored
<1>12. ListInv'
  <2>1. /\ number' = number /\ byNumber' = byNumber /\ list' = list /\ unemitted' = unemitted
        /\ reverts' = reverts
    BY <1>2 DEF createdVars, dbVars, saveVars
  <2>2. \A x : Accounted(x)' <=> Accounted(x)
    BY <2>1 DEF Accounted, Going
  <2>3. CASE snaps = <<>>
    <3>1. snaps'[1] = latest
      BY <1>1, <1>4, <2>3, Sequences
    <3>2. \A n \in Blocks : n > number[latest] => byNumber[n] = None
      <4>1. ASSUME NEW n \in Blocks, n > number[latest]
            PROVE  n > latestIndex
        BY <1>1, <1>7, <4>1, Shapes
      <4>2. QED
        BY <1>1, <4>1 DEF StoreInv, NothingAboveLatest
    <3>3. Peace => list = <<>> /\ unemitted = <<>>
      BY <1>1, <1>7, <2>3 DEF ListInv
    <3>4. DOMAIN <<>> = {}
      OBVIOUS
    <3>5. QED
      BY <1>1, <1>4, <1>6, <2>1, <2>2, <3>1, <3>2, <3>3, <3>4 DEF ListInv, Stored
  <2>4. CASE snaps # <<>>
    <3>1. snaps'[1] = snaps[1]
      BY <1>1, <1>4, <2>4, Sequences
    <3>2. QED
      BY <1>1, <1>4, <1>6, <2>1, <2>2, <2>4, <3>1 DEF ListInv, Stored
  <2>5. QED
    BY <2>3, <2>4
<1>13. RevertInv'
  BY <1>1, <1>2, <1>5, <1>6 DEF RevertInv, Active
<1>14. QED
  BY <1>8, <1>9, <1>10, <1>11, <1>12, <1>13 DEF IInv

(***************************************************************************)
(* evm_revert: no other goes on.                                           *)
(***************************************************************************)
LEMMA RevertStarts ==
  ASSUME IInv, NEW r \in Reverts, NEW i \in DOMAIN snaps, Revert(r, i)
  PROVE  IInv'
<1>1. TypeInv /\ MinerInv /\ StoreInv /\ SavingInv /\ SnapInv /\ ListInv /\ RevertInv
  BY DEF IInv
<1>2. UNCHANGED <<createdVars, vm, mining, held, saveVars, dbVars, snapVars, crashes, optionVars>>
  BY DEF Revert
<1>3. /\ reverts[r].pc = "none" /\ paused' = TRUE
      /\ reverts' = [reverts EXCEPT ![r] = Call("pausing", i, snaps[i], None, <<>>)]
  BY DEF Revert
<1>4. \A s \in Reverts : ~Active(s)
  BY <1>1 DEF Revert, Alone, TypeInv
<1>5. i \in Nat /\ snaps[i] \in 0..created /\ snaps[i] \in Blocks
  BY <1>1, Sequences, Shapes
<1>6. /\ reverts'[r].pc = "pausing" /\ reverts'[r].index = i /\ reverts'[r].block = snaps[i]
      /\ reverts'[r].doomed = <<>>
      /\ \A s \in Reverts : s # r => reverts'[s] = reverts[s]
  BY <1>1, <1>3 DEF TypeInv, Call
<1>7. /\ Peace' = Peace /\ Active(r)' /\ \A s \in Reverts : s # r => ~Active(s)'
      /\ \A s \in Reverts : ~Going(s) /\ ~Going(s)'
  BY <1>2, <1>4, <1>6 DEF Peace, Active, Going, optionVars
<1>8. held = <<>> /\ held' = <<>>
  BY <1>1, <1>2, <1>4 DEF MinerInv
<1>9. TypeInv'
  <2>1. reverts' \in [Reverts -> [pc : {"none", "pausing", "saving", "reading", "writing",
                                        "done", "failed"},
                                  index : Nat, block : Blocks, awaits : Blocks \cup {None},
                                  doomed : Seq(Blocks)]]
    <3>1. Call("pausing", i, snaps[i], None, <<>>)
            \in [pc : {"none", "pausing", "saving", "reading", "writing", "done", "failed"},
                 index : Nat, block : Blocks, awaits : Blocks \cup {None}, doomed : Seq(Blocks)]
      BY <1>5 DEF Call
    <3>2. QED
      BY <1>1, <1>3, <3>1 DEF TypeInv
  <2>2. \A s \in Reverts :
          /\ reverts'[s].pc \in {"none", "pausing", "saving", "reading", "writing", "done",
                                 "failed"}
          /\ reverts'[s].block \in 0..created
          /\ reverts'[s].doomed \in Seq(1..created)
    <3>1. <<>> \in Seq(1..created)
      OBVIOUS
    <3>2. QED
      BY <1>1, <1>5, <1>6, <3>1 DEF TypeInv, TypeOK
  <2>3. TypeOK'
    BY <1>1, <1>2, <1>3, <2>2
       DEF TypeInv, TypeOK, createdVars, saveVars, dbVars, snapVars, optionVars
  <2>4. QED
    BY <1>1, <1>2, <2>1, <2>3 DEF TypeInv, Planned, createdVars, optionVars
<1>10. MinerInv'
  <2>1. DOMAIN held' = {}
    BY <1>8
  <2>2. QED
    BY <1>1, <1>2, <1>3, <1>7, <1>8, <2>1 DEF MinerInv, createdVars, saveVars
<1>11. StoreInv' /\ SavingInv' /\ SnapInv'
  <2>1. StoreInv'
    BY <1>1, <1>2 DEF StoreInv, NothingAboveLatest, StoredIsAChainInPeace, StoredIsAChain,
                      createdVars, dbVars, optionVars
  <2>2. SavingInv'
    BY <1>1, <1>2, <1>7 DEF SavingInv, Before, createdVars, saveVars, dbVars
  <2>3. SnapInv'
    BY <1>1, <1>2, <1>7 DEF SnapInv, Stored, createdVars, saveVars, snapVars, dbVars
  <2>4. QED
    BY <2>1, <2>2, <2>3
<1>12. ListInv'
  <2>1. /\ number' = number /\ byNumber' = byNumber /\ list' = list /\ unemitted' = unemitted
        /\ snaps' = snaps
    BY <1>2 DEF createdVars, dbVars, saveVars, snapVars
  <2>2. \A x : Accounted(x)' <=> Accounted(x)
    BY <1>7, <2>1 DEF Accounted
  <2>3. QED
    BY <1>1, <1>7, <2>1, <2>2 DEF ListInv, Stored
<1>13. RevertInv'
  <2>1. snaps' = snaps
    BY <1>2 DEF snapVars
  <2>2. ASSUME NEW s \in Reverts
        PROVE  /\ reverts'[s].pc \in {"pausing", "saving"} => s = r
               /\ reverts'[s].pc # "saving"
    <3>1. CASE s = r
      BY <1>6, <3>1
    <3>2. CASE s # r
      BY <1>4, <1>6, <3>2 DEF Active
    <3>3. QED
      BY <3>1, <3>2
  <2>3. QED
    BY <1>6, <1>7, <2>1, <2>2 DEF RevertInv
<1>14. QED
  BY <1>9, <1>10, <1>11, <1>12, <1>13 DEF IInv

(***************************************************************************)
(* The miner is idle: what has been mined ends at the VM's block.           *)
(***************************************************************************)
LEMMA PausedStep ==
  ASSUME IInv, NEW r \in Reverts, Paused(r)
  PROVE  IInv'
<1>1. TypeInv /\ MinerInv /\ StoreInv /\ SavingInv /\ SnapInv /\ ListInv /\ RevertInv
  BY DEF IInv
<1>2. UNCHANGED <<createdVars, minerVars, saveVars, dbVars, snapVars, crashes, optionVars>>
  BY DEF Paused
<1>3. reverts[r].pc = "pausing" /\ mining = None
  BY DEF Paused
<1> DEFINE a == IF queue = <<>> THEN saving ELSE queue[Len(queue)]
<1>4. a \in Blocks \cup {None}
  <2>1. CASE queue = <<>>
    BY <1>1, <2>1, Shapes
  <2>2. CASE queue # <<>>
    <3>1. Len(queue) \in 1..Len(queue)
      BY <1>1, <2>2, Sequences
    <3>2. queue[Len(queue)] \in Blocks
      BY <1>1, <3>1, Shapes, Sequences
    <3>3. QED
      BY <2>2, <3>2
  <2>3. QED
    BY <2>1, <2>2
<1>5. saving # None => a = vm
  BY <1>1 DEF MinerInv, SavingInv
<1>6. reverts' = [reverts EXCEPT ![r].pc = "saving", ![r].awaits = a]
  BY DEF Paused
<1> HIDE DEF a
<1>7. /\ reverts'[r].pc = "saving" /\ reverts'[r].awaits = a
      /\ reverts'[r].index = reverts[r].index /\ reverts'[r].block = reverts[r].block
      /\ reverts'[r].doomed = reverts[r].doomed
      /\ \A s \in Reverts : s # r => reverts'[s] = reverts[s]
  BY <1>1, <1>6 DEF TypeInv
<1>8. /\ Peace' = Peace
      /\ Active(r) /\ \A s \in Reverts : /\ Active(s)' <=> Active(s)
                                         /\ ~Going(s) /\ ~Going(s)'
                                         /\ reverts'[s].block = reverts[s].block
  <2>1. Active(r)
    BY <1>3 DEF Active
  <2>2. \A s \in Reverts : s # r => ~Active(s)
    BY <1>1, <2>1 DEF RevertInv
  <2>3. QED
    BY <1>2, <1>3, <1>7, <2>1, <2>2 DEF Peace, Active, Going, optionVars
<1>9. TypeInv'
  <2>1. reverts' \in [Reverts -> [pc : {"none", "pausing", "saving", "reading", "writing",
                                        "done", "failed"},
                                  index : Nat, block : Blocks, awaits : Blocks \cup {None},
                                  doomed : Seq(Blocks)]]
    BY <1>1, <1>4, <1>6 DEF TypeInv
  <2>2. \A s \in Reverts :
          /\ reverts'[s].pc \in {"none", "pausing", "saving", "reading", "writing", "done",
                                 "failed"}
          /\ reverts'[s].block \in 0..created
          /\ reverts'[s].doomed \in Seq(1..created)
    BY <1>1, <1>7 DEF TypeInv, TypeOK
  <2>3. TypeOK'
    BY <1>1, <1>2, <2>2
       DEF TypeInv, TypeOK, createdVars, minerVars, saveVars, dbVars, snapVars, optionVars
  <2>4. QED
    BY <1>1, <1>2, <2>1, <2>3 DEF TypeInv, Planned, createdVars, minerVars, optionVars
<1>10. MinerInv'
  BY <1>1, <1>2, <1>8 DEF MinerInv, createdVars, minerVars, saveVars
<1>11. StoreInv' /\ SavingInv' /\ SnapInv'
  <2>1. StoreInv'
    BY <1>1, <1>2 DEF StoreInv, NothingAboveLatest, StoredIsAChainInPeace, StoredIsAChain,
                      createdVars, dbVars, optionVars
  <2>2. SavingInv'
    BY <1>1, <1>2, <1>8 DEF SavingInv, Before, createdVars, saveVars, dbVars
  <2>3. SnapInv'
    BY <1>1, <1>2, <1>8 DEF SnapInv, Stored, createdVars, saveVars, snapVars, dbVars
  <2>4. QED
    BY <2>1, <2>2, <2>3
<1>12. ListInv'
  <2>1. /\ number' = number /\ byNumber' = byNumber /\ list' = list /\ unemitted' = unemitted
        /\ snaps' = snaps
    BY <1>2 DEF createdVars, dbVars, saveVars, snapVars
  <2>2. \A x : Accounted(x)' <=> Accounted(x)
    BY <1>8, <2>1 DEF Accounted
  <2>3. QED
    BY <1>1, <1>8, <2>1, <2>2 DEF ListInv, Stored
<1>13. RevertInv'
  <2>1. snaps' = snaps /\ mining' = mining /\ vm' = vm /\ saving' = saving
    BY <1>2 DEF snapVars, minerVars, saveVars
  <2>2. ASSUME NEW s \in Reverts, reverts'[s].pc \in {"pausing", "saving"}
        PROVE  s = r
    BY <1>1, <1>3, <1>7, <2>2 DEF RevertInv, Active
  <2>3. reverts[r].index \in DOMAIN snaps /\ reverts[r].block = snaps[reverts[r].index]
    BY <1>1, <1>3 DEF RevertInv
  <2>4. \A s, t \in Reverts : Active(s)' /\ Active(t)' => s = t
    BY <1>1, <1>8 DEF RevertInv
  <2>5. QED
    BY <1>3, <1>5, <1>7, <1>8, <2>1, <2>2, <2>3, <2>4 DEF RevertInv
<1>14. QED
  BY <1>9, <1>10, <1>11, <1>12, <1>13 DEF IInv

(***************************************************************************)
(* What revert() takes from the list: all that is above the snapshot's     *)
(* block; none is its block or one of an earlier snapshot.                  *)
(***************************************************************************)
LEMMA NewerIs ==
  ASSUME TypeInv, StoreInv, SnapInv, ListInv, saving = None, unemitted = <<>>,
         \A r \in Reverts : ~Going(r), NEW s \in DOMAIN snaps
  PROVE  LET b == snaps[s]
             n == NewerThan(b)
         IN  /\ n \in 0..Len(list)
             /\ \A k \in 1..n : /\ \A j \in DOMAIN snaps : j <= s => list[k] # snaps[j]
                                /\ Peace => number[list[k]] > number[b]
             /\ \A k \in (n + 1)..Len(list) : number[list[k]] <= number[b]
             /\ \A m \in Blocks : m > number[b] /\ byNumber[m] # None =>
                  \E k \in 1..n : list[k] = byNumber[m]
<1> DEFINE b == snaps[s]
           n == NewerThan(b)
<1>1. /\ Len(list) \in Nat /\ DOMAIN list = 1..Len(list)
      /\ \A k \in DOMAIN list : list[k] \in 1..created /\ list[k] \in Blocks
                                /\ number[list[k]] \in Nat /\ Stored(list[k])
      /\ \A k, j \in DOMAIN list : k < j => number[list[k]] > number[list[j]]
  BY Shapes, Sequences DEF ListInv
<1>2. /\ DOMAIN snaps = 1..Len(snaps) /\ Len(snaps) \in Nat /\ 1 \in DOMAIN snaps /\ snaps # <<>>
      /\ \A j \in DOMAIN snaps : snaps[j] \in 0..created /\ snaps[j] \in Blocks
                                 /\ number[snaps[j]] \in Nat /\ number[snaps[j]] \in Blocks
                                 /\ Stored(snaps[j])
      /\ \A j \in DOMAIN snaps : 1 <= j /\ number[snaps[1]] <= number[snaps[j]]
      /\ \A j \in DOMAIN snaps : j <= s => number[snaps[j]] <= number[b]
  <2>1. DOMAIN snaps = 1..Len(snaps) /\ Len(snaps) \in Nat /\ 1 \in DOMAIN snaps /\ snaps # <<>>
    BY Sequences
  <2>2. \A j \in DOMAIN snaps : snaps[j] \in 0..created /\ snaps[j] \in Blocks
    BY Shapes, Sequences
  <2>3. \A j \in DOMAIN snaps : snaps[j] # saving
    BY <2>2, Shapes
  <2>4. \A j \in DOMAIN snaps : number[snaps[j]] \in Nat /\ number[snaps[j]] \in Blocks
    BY <2>2, Shapes
  <2>5. \A j \in DOMAIN snaps : Stored(snaps[j])
    BY <2>3 DEF SnapInv
  <2>6. \A j \in DOMAIN snaps : 1 <= j /\ number[snaps[1]] <= number[snaps[j]]
    BY <2>1 DEF SnapInv
  <2>7. \A j \in DOMAIN snaps : j <= s => number[snaps[j]] <= number[b]
    BY DEF SnapInv
  <2>8. QED
    BY <2>1, <2>2, <2>4, <2>5, <2>6, <2>7
<1>3. ASSUME NEW m \in Blocks, m > number[snaps[1]], byNumber[m] # None
      PROVE  \E k \in DOMAIN list : list[k] = byNumber[m]
  <2>1. Accounted(byNumber[m])
    BY <1>2, <1>3 DEF ListInv
  <2>2. DOMAIN unemitted = {}
    OBVIOUS
  <2>3. QED
    BY <2>1, <2>2 DEF Accounted
<1>4. ASSUME NEW m \in Blocks, m > number[b], byNumber[m] # None
      PROVE  \E k \in DOMAIN list : list[k] = byNumber[m] /\ number[list[k]] = m
  <2>1. m > number[snaps[1]]
    <3>1. m \in Nat /\ number[b] \in Nat /\ number[snaps[1]] \in Nat
          /\ number[snaps[1]] <= number[b]
      BY <1>2, Shapes
    <3>2. QED
      BY <1>4, <3>1
  <2>2. PICK k \in DOMAIN list : list[k] = byNumber[m]
    BY <1>3, <1>4, <2>1
  <2>3. QED
    BY <1>4, <2>2 DEF StoreInv
<1>5. CASE \E i \in DOMAIN list : list[i] = b
  <2>1. PICK k0 \in DOMAIN list : list[k0] = b
    BY <1>5
  <2>2. \A i \in DOMAIN list : i # k0 => list[i] # b
    <3>1. SUFFICES ASSUME NEW i \in DOMAIN list, i # k0, list[i] = b
                   PROVE  FALSE
      OBVIOUS
    <3>2. i < k0 \/ k0 < i
      BY <1>1, <3>1
    <3>3. number[b] > number[b] /\ number[b] \in Nat
      BY <1>1, <2>1, <3>1, <3>2
    <3>4. QED
      BY <3>3
  <2>3. n = k0 - 1
    <3>1. \A j \in 1..(k0 - 1) : list[j] # b
      BY <1>1, <2>2
    <3>2. \A i \in DOMAIN list : list[i] = b /\ (\A j \in 1..(i - 1) : list[j] # b) <=> i = k0
      BY <1>1, <2>1, <2>2, <3>1
    <3>3. QED
      BY <1>5, <3>2 DEF NewerThan
  <2> HIDE DEF n
  <2>4. n \in 0..Len(list) /\ n + 1 = k0
    BY <1>1, <2>1, <2>3
  <2>5. ASSUME NEW k \in 1..n
        PROVE  number[list[k]] > number[b] /\ k \in DOMAIN list
    BY <1>1, <2>1, <2>4
  <2>6. ASSUME NEW k \in 1..n, NEW j \in DOMAIN snaps, j <= s
        PROVE  list[k] # snaps[j]
    BY <1>1, <1>2, <2>5, <2>6
  <2>7. ASSUME NEW k \in (n + 1)..Len(list)
        PROVE  number[list[k]] <= number[b]
    <3>1. k \in DOMAIN list /\ (k = k0 \/ k0 < k)
      BY <1>1, <2>4
    <3>2. QED
      BY <1>1, <1>2, <2>1, <3>1
  <2>8. ASSUME NEW m \in Blocks, m > number[b], byNumber[m] # None
        PROVE  \E k \in 1..n : list[k] = byNumber[m]
    <3>1. PICK k \in DOMAIN list : list[k] = byNumber[m] /\ number[list[k]] = m
      BY <1>4, <2>8
    <3>2. k < k0
      BY <1>1, <1>2, <2>1, <2>8, <3>1
    <3>3. QED
      BY <1>1, <2>4, <3>1, <3>2
  <2>9. QED
    BY <2>4, <2>5, <2>6, <2>7, <2>8 DEF n
<1>6. CASE ~\E i \in DOMAIN list : list[i] = b
  <2>1. n = Len(list)
    BY <1>6 DEF NewerThan
  <2> HIDE DEF n
  <2>2. number[b] = number[snaps[1]]
    <3>1. SUFFICES ASSUME number[b] > number[snaps[1]]
                   PROVE  FALSE
      BY <1>2
    <3>2. byNumber[number[b]] = b /\ b # None /\ number[b] \in Blocks
      BY <1>2, Shapes DEF Stored
    <3>3. QED
      BY <1>3, <1>6, <3>1, <3>2
  <2>3. ASSUME NEW k \in 1..n, NEW j \in DOMAIN snaps, j <= s
        PROVE  list[k] # snaps[j]
    <3>1. number[snaps[j]] = number[b]
      BY <1>2, <2>2, <2>3
    <3>2. snaps[j] = b
      BY <1>2, <3>1 DEF Stored
    <3>3. QED
      BY <1>1, <1>6, <2>1, <3>2
  <2>4. ASSUME Peace, NEW k \in 1..n
        PROVE  number[list[k]] > number[b]
    BY <1>1, <1>2, <2>1, <2>2, <2>4 DEF ListInv
  <2>5. \A k \in (n + 1)..Len(list) : number[list[k]] <= number[b]
    BY <1>1, <2>1
  <2>6. ASSUME NEW m \in Blocks, m > number[b], byNumber[m] # None
        PROVE  \E k \in 1..n : list[k] = byNumber[m]
    BY <1>1, <1>4, <2>1, <2>6
  <2>7. n \in 0..Len(list)
    BY <1>1, <2>1
  <2>8. QED
    BY <2>3, <2>4, <2>5, <2>6, <2>7 DEF n
<1>7. QED
  BY <1>5, <1>6

(***************************************************************************)
(* miner.resume(): at most one of the calls that were held up goes on.     *)
(***************************************************************************)
LEMMA Resumed ==
  ASSUME TypeInv, paused, mining = None, ResumeMiner
  PROVE  /\ paused' = FALSE /\ held' = <<>> /\ held' \in Seq(0..created)
         /\ held = <<>> => mining' = None
         /\ held # <<>> => mining' = held[1] /\ 1 \in DOMAIN held
         /\ mining' \in 0..created \cup {None}
         /\ createdVars' = createdVars => Planned' <= MaxBlocks
<1>1. /\ paused' = FALSE /\ held' = <<>>
      /\ mining' = IF held # <<>> THEN Head(held) ELSE None
  BY DEF ResumeMiner, NoLongerPaused
<1>2. held \in Seq(0..created) /\ <<>> \in Seq(0..created) /\ Len(<<>>) = 0
  BY Shapes
<1>3. ASSUME held # <<>>
      PROVE  /\ Head(held) = held[1] /\ held[1] \in 0..created /\ Len(held) >= 1
             /\ 1 \in DOMAIN held
  <2>1. Head(held) = held[1] /\ Head(held) \in 0..created /\ Len(held) >= 1
    BY <1>2, <1>3, TailIs
  <2>2. Len(held) \in Nat /\ DOMAIN held = 1..Len(held)
    BY Sequences
  <2>3. QED
    BY <2>1, <2>2
<1>4. ASSUME createdVars' = createdVars
      PROVE  Planned' <= MaxBlocks
  <2>1. created + Len(held) <= MaxBlocks /\ created \in Nat /\ Len(held) \in Nat
        /\ MaxBlocks \in Nat /\ created' = created
    BY <1>4, Shapes, Sequences DEF TypeInv, Planned, createdVars
  <2>2. CASE held = <<>>
    BY <1>1, <1>2, <2>1, <2>2 DEF Planned
  <2>3. CASE held # <<>>
    BY <1>1, <1>2, <1>3, <2>1, <2>3 DEF Planned
  <2>4. QED
    BY <2>2, <2>3
<1>5. QED
  BY <1>1, <1>2, <1>3, <1>4

(***************************************************************************)
(* What is known when a revert may go on: nothing is mined or saved any     *)
(* more, and its snapshot is there.                                        *)
(***************************************************************************)
LEMMA AllIsSaved ==
  ASSUME IInv, NEW r \in Reverts, Cut(r)
  PROVE  /\ mining = None /\ saving = None /\ queue = <<>> /\ unemitted = <<>> /\ paused
         /\ reverts[r].index \in DOMAIN snaps /\ reverts[r].block = snaps[reverts[r].index]
         /\ Active(r) /\ \A s \in Reverts : ~Going(s) /\ (s # r => ~Active(s))
         /\ vm = latest /\ number[latest] = latestIndex
<1>1. TypeInv /\ MinerInv /\ StoreInv /\ SavingInv /\ SnapInv /\ ListInv /\ RevertInv
  BY DEF IInv
<1>2. reverts[r].pc = "saving" /\ ~Unsaved(reverts[r].awaits) /\ unemitted = <<>>
  BY <1>1 DEF Cut, TypeInv
<1>3. mining = None /\ (saving # None => reverts[r].awaits = vm)
  BY <1>1, <1>2 DEF RevertInv
<1>4. saving = None
  <2>1. SUFFICES ASSUME saving # None
                 PROVE  FALSE
    OBVIOUS
  <2>2. reverts[r].awaits = vm /\ vm # None
    BY <1>1, <1>3, <2>1, Shapes
  <2>3. CASE queue = <<>>
    BY <1>1, <1>2, <2>1, <2>2, <2>3 DEF MinerInv, SavingInv, Unsaved
  <2>4. CASE queue # <<>>
    <3>1. Len(queue) \in DOMAIN queue
      BY <1>1, <2>4, Sequences
    <3>2. QED
      BY <1>1, <1>2, <2>2, <2>4, <3>1 DEF MinerInv, Unsaved
  <2>5. QED
    BY <2>3, <2>4
<1>5. queue = <<>> /\ vm = latest /\ number[latest] = latestIndex
  BY <1>1, <1>4, LatestIsHighest DEF SavingInv, MinerInv
<1>6. Active(r) /\ \A s \in Reverts : s # r => ~Active(s)
  BY <1>1, <1>2 DEF RevertInv, Active
<1>7. \A s \in Reverts : ~Going(s)
  BY <1>2, <1>6 DEF Active, Going
<1>8. QED
  BY <1>1, <1>2, <1>3, <1>4, <1>5, <1>6, <1>7 DEF MinerInv, RevertInv

LEMMA SnapsBeforeIs ==
  ASSUME TypeInv, NEW s \in DOMAIN snaps
  PROVE  /\ SnapsBefore(s) \in Seq(0..created)
         /\ DOMAIN SnapsBefore(s) = 1..(s - 1) /\ Len(SnapsBefore(s)) = s - 1
         /\ s \in Nat /\ s >= 1 /\ s <= Len(snaps)
         /\ SnapsBefore(s) = <<>> <=> s = 1
         /\ \A j \in 1..(s - 1) : SnapsBefore(s)[j] = snaps[j] /\ j \in DOMAIN snaps
<1>1. snaps \in Seq(0..created) /\ Len(snaps) \in Nat /\ DOMAIN snaps = 1..Len(snaps)
  BY Shapes, Sequences
<1>2. s \in Nat /\ s >= 1 /\ s <= Len(snaps)
  BY <1>1
<1>3. SnapsBefore(s) = SubSeq(snaps, 1, s - 1)
  BY <1>2 DEF SnapsBefore
<1>4. /\ SubSeq(snaps, 1, s - 1) \in Seq(0..created)
      /\ Len(SubSeq(snaps, 1, s - 1)) = s - 1 /\ DOMAIN SubSeq(snaps, 1, s - 1) = 1..(s - 1)
      /\ \A j \in 1..(s - 1) : SubSeq(snaps, 1, s - 1)[j] = snaps[j]
  <2>1. s - 1 \in Nat /\ s - 1 <= Len(snaps)
    BY <1>1, <1>2
  <2>2. QED
    BY <1>1, <2>1, PrefixIs
<1>5. SubSeq(snaps, 1, s - 1) = <<>> <=> s = 1
  BY <1>2, <1>4, LengthAndDomain
<1>6. \A j \in 1..(s - 1) : j \in DOMAIN snaps
  BY <1>1, <1>2
<1>7. QED
  BY <1>2, <1>3, <1>4, <1>5, <1>6

(***************************************************************************)
(* The snapshots that stay, whatever the revert has still to do.           *)
(***************************************************************************)
LEMMA CutSnapshots ==
  ASSUME IInv, NEW r \in Reverts, Cut(r)
  PROVE  /\ snaps' = SnapsBefore(reverts[r].index)
         /\ snaps' \in Seq(0..created) /\ listening' \in BOOLEAN
         /\ listening' <=> snaps' # <<>>
         /\ \A j \in DOMAIN snaps' :
              /\ snaps'[j] = snaps[j] /\ j \in DOMAIN snaps /\ Stored(snaps[j])
              /\ j < reverts[r].index
              /\ number[snaps[j]] <= number[reverts[r].block]
         /\ snaps' # <<>> => 1 \in DOMAIN snaps'
         /\ snaps' = <<>> => reverts[r].index = 1
         /\ snaps # <<>> /\ Stored(reverts[r].block)
<1>1. TypeInv /\ SnapInv /\ saving = None
      /\ reverts[r].index \in DOMAIN snaps /\ reverts[r].block = snaps[reverts[r].index]
  BY AllIsSaved DEF IInv
<1>2. snaps' = SnapsBefore(reverts[r].index) /\ listening' = (listening /\ snaps' # <<>>)
  BY DEF Cut
<1>3. snaps # <<>> /\ listening
  BY <1>1, Sequences DEF SnapInv
<1>4. \A j \in DOMAIN snaps : Stored(snaps[j])
  <2>1. \A j \in DOMAIN snaps : snaps[j] # None
    BY <1>1, Shapes, Sequences
  <2>2. QED
    BY <1>1, <2>1 DEF SnapInv
<1>5. ASSUME NEW j \in DOMAIN snaps'
      PROVE  /\ snaps'[j] = snaps[j] /\ j \in DOMAIN snaps
             /\ j < reverts[r].index
             /\ number[snaps[j]] <= number[reverts[r].block]
  <2>1. /\ snaps'[j] = snaps[j] /\ j \in DOMAIN snaps /\ j < reverts[r].index
    BY <1>1, <1>2, SnapsBeforeIs
  <2>2. j <= reverts[r].index
    BY <1>1, <2>1, Sequences
  <2>3. QED
    BY <1>1, <2>1, <2>2 DEF SnapInv
<1>6. /\ snaps' \in Seq(0..created)
      /\ snaps' # <<>> => 1 \in DOMAIN snaps'
      /\ snaps' = <<>> => reverts[r].index = 1
  BY <1>1, <1>2, SnapsBeforeIs
<1>7. QED
  BY <1>1, <1>2, <1>3, <1>4, <1>5, <1>6

(***************************************************************************)
(* The snapshot is of the latest block: the revert is over.                *)
(***************************************************************************)
LEMMA CutAtLatest ==
  ASSUME IInv, NEW r \in Reverts, Cut(r), latest = reverts[r].block
  PROVE  IInv'
<1>1. TypeInv /\ MinerInv /\ StoreInv /\ SavingInv /\ SnapInv /\ ListInv /\ RevertInv
  BY DEF IInv
<1>2. UNCHANGED <<createdVars, vm, saveVars, dbVars, crashes, optionVars>>
  BY DEF Cut
<1>3. reverts' = [reverts EXCEPT ![r].pc = "done"] /\ ResumeMiner /\ list' = list
  BY DEF Cut
<1>4. /\ mining = None /\ saving = None /\ queue = <<>> /\ unemitted = <<>> /\ paused
      /\ vm = latest /\ number[latest] = latestIndex /\ Active(r)
      /\ \A s \in Reverts : ~Going(s) /\ (s # r => ~Active(s))
      /\ reverts[r].block = snaps[reverts[r].index]
  BY AllIsSaved
<1>5. /\ paused' = FALSE /\ held' = <<>> /\ held' \in Seq(0..created)
      /\ held = <<>> => mining' = None
      /\ held # <<>> => mining' = held[1] /\ 1 \in DOMAIN held
      /\ mining' \in 0..created \cup {None}
      /\ Planned' <= MaxBlocks
  BY <1>1, <1>2, <1>3, <1>4, Resumed
<1>6. /\ reverts'[r].pc = "done" /\ \A s \in Reverts : s # r => reverts'[s] = reverts[s]
      /\ \A s \in Reverts : reverts'[s].block = reverts[s].block
                            /\ reverts'[s].doomed = reverts[s].doomed
  BY <1>1, <1>3 DEF TypeInv
<1>7. Peace' = Peace /\ \A s \in Reverts : ~Active(s)' /\ ~Going(s)'
  BY <1>2, <1>4, <1>6 DEF Peace, Active, Going, optionVars
<1>8. TypeInv'
  <2>1. reverts' \in [Reverts -> [pc : {"none", "pausing", "saving", "reading", "writing",
                                        "done", "failed"},
                                  index : Nat, block : Blocks, awaits : Blocks \cup {None},
                                  doomed : Seq(Blocks)]]
    BY <1>1, <1>3 DEF TypeInv
  <2>2. \A s \in Reverts :
          /\ reverts'[s].pc \in {"none", "pausing", "saving", "reading", "writing", "done",
                                 "failed"}
          /\ reverts'[s].block \in 0..created
          /\ reverts'[s].doomed \in Seq(1..created)
    BY <1>1, <1>6 DEF TypeInv, TypeOK
  <2>3. TypeOK'
    BY <1>1, <1>2, <1>3, <1>5, <2>2, CutSnapshots
       DEF TypeInv, TypeOK, createdVars, saveVars, dbVars, optionVars
  <2>4. QED
    BY <1>1, <1>2, <1>5, <2>1, <2>3 DEF TypeInv, createdVars, optionVars
<1>9. MinerInv'
  <2>1. mining' # None => number[mining'] >= number[vm] /\ (Peace => mining' = vm)
    BY <1>1, <1>4, <1>5 DEF MinerInv
  <2>2. DOMAIN held' = {}
    BY <1>5
  <2>3. QED
    BY <1>2, <1>4, <1>5, <1>7, <2>1, <2>2 DEF MinerInv, createdVars, saveVars
<1>10. StoreInv' /\ SavingInv'
  <2>1. StoreInv'
    BY <1>1, <1>2 DEF StoreInv, NothingAboveLatest, StoredIsAChainInPeace, StoredIsAChain,
                      createdVars, dbVars, optionVars
  <2>2. SavingInv'
    BY <1>1, <1>2, <1>7 DEF SavingInv, Before, createdVars, saveVars, dbVars
  <2>3. QED
    BY <2>1, <2>2
<1>11. SnapInv'
  <2>1. \A j \in DOMAIN snaps' : snaps'[j] = snaps[j] /\ j \in DOMAIN snaps /\ Stored(snaps[j])
    BY CutSnapshots
  <2>2. number' = number /\ byNumber' = byNumber
    BY <1>2 DEF createdVars, dbVars
  <2>3. listening' <=> snaps' # <<>>
    BY CutSnapshots
  <2>4. QED
    BY <1>1, <2>1, <2>2, <2>3 DEF SnapInv, Stored
<1>12. ListInv'
  <2>1. number' = number /\ byNumber' = byNumber /\ list' = list /\ unemitted' = unemitted
    BY <1>2, <1>3 DEF createdVars, dbVars, saveVars
  <2>2. \A x : Accounted(x)' <=> Accounted(x)
    BY <1>4, <1>7, <2>1 DEF Accounted
  <2>3. CASE snaps' = <<>>
    <3>1. Peace => list = <<>>
      <4>1. SUFFICES ASSUME Peace, list # <<>>
                     PROVE  FALSE
        OBVIOUS
      <4>2. 1 \in DOMAIN list /\ list[1] \in Blocks
        BY <1>1, <4>1, Shapes, Sequences
      <4>3. number[list[1]] > number[latest]
        BY <1>1, <1>4, <2>3, <4>1, <4>2, CutSnapshots DEF ListInv
      <4>4. number[list[1]] <= latestIndex
        BY <1>1, <4>2, LatestIsHighest DEF ListInv
      <4>5. QED
        BY <1>1, <1>4, <4>2, <4>3, <4>4, Shapes
    <3>2. QED
      BY <1>1, <1>7, <2>1, <2>3, <3>1 DEF ListInv, Stored
  <2>4. CASE snaps' # <<>>
    <3>1. snaps'[1] = snaps[1] /\ snaps # <<>>
      BY <2>4, CutSnapshots
    <3>2. QED
      BY <1>1, <1>7, <2>1, <2>2, <2>4, <3>1 DEF ListInv, Stored
  <2>5. QED
    BY <2>3, <2>4
<1>13. RevertInv'
  BY <1>7 DEF RevertInv, Active
<1>14. QED
  BY <1>8, <1>9, <1>10, <1>11, <1>12, <1>13 DEF IInv

LEMMA TakenIs ==
  ASSUME TypeInv, NEW n \in Nat, n <= Len(list)
  PROVE  /\ SubSeq(list, 1, n) \in Seq(1..created)
         /\ DOMAIN SubSeq(list, 1, n) = 1..n
         /\ \A i \in 1..n : SubSeq(list, 1, n)[i] = list[i]
<1>1. list \in Seq(1..created)
  BY Shapes
<1>2. QED
  BY <1>1, PrefixIs

(***************************************************************************)
(* There are blocks after the snapshot: they are taken from the list.       *)
(***************************************************************************)
LEMMA CutBelow ==
  ASSUME IInv, NEW r \in Reverts, Cut(r), latest # reverts[r].block
  PROVE  IInv'
<1> DEFINE b == reverts[r].block
           n == NewerThan(b)
<1>1. TypeInv /\ MinerInv /\ StoreInv /\ SavingInv /\ SnapInv /\ ListInv /\ RevertInv
  BY DEF IInv
<1>2. UNCHANGED <<createdVars, vm, mining, held, paused, saveVars, dbVars, crashes, optionVars>>
  BY DEF Cut
<1>3. /\ list' = SubSeq(list, n + 1, Len(list))
      /\ reverts' = [reverts EXCEPT ![r].pc = "reading", ![r].doomed = SubSeq(list, 1, n)]
  BY DEF Cut
<1>4. /\ mining = None /\ saving = None /\ queue = <<>> /\ unemitted = <<>> /\ paused
      /\ Active(r) /\ \A s \in Reverts : ~Going(s) /\ (s # r => ~Active(s))
      /\ reverts[r].index \in DOMAIN snaps /\ b = snaps[reverts[r].index]
  BY AllIsSaved
<1>5. /\ n \in 0..Len(list)
      /\ \A k \in 1..n :
           /\ \A j \in DOMAIN snaps : j <= reverts[r].index => list[k] # snaps[j]
           /\ Peace => number[list[k]] > number[b]
      /\ \A k \in (n + 1)..Len(list) : number[list[k]] <= number[b]
      /\ \A m \in Blocks : m > number[b] /\ byNumber[m] # None =>
           \E k \in 1..n : list[k] = byNumber[m]
  BY <1>1, <1>4, NewerIs
<1> HIDE DEF n
<1>6. list \in Seq(1..created) /\ Len(list) \in Nat /\ DOMAIN list = 1..Len(list)
      /\ n \in Nat /\ n <= Len(list)
  BY <1>1, <1>5, Shapes, Sequences
<1>7. /\ list' \in Seq(1..created) /\ DOMAIN list' = 1..(Len(list) - n)
      /\ Len(list') = Len(list) - n
      /\ \A i \in DOMAIN list' : list'[i] = list[n + i] /\ n + i \in DOMAIN list
                                 /\ n + i \in (n + 1)..Len(list) /\ i \in Nat /\ i >= 1
  <2>1. /\ list' \in Seq(1..created) /\ DOMAIN list' = 1..(Len(list) - n)
        /\ Len(list') = Len(list) - n
        /\ \A i \in 1..(Len(list) - n) : list'[i] = list[n + i]
    BY <1>3, <1>6, SuffixIs
  <2>2. \A i \in 1..(Len(list) - n) : n + i \in 1..Len(list) /\ n + i \in (n + 1)..Len(list)
                                      /\ i \in Nat /\ i >= 1
    BY <1>6
  <2>3. QED
    BY <1>6, <2>1, <2>2
<1> DEFINE d == SubSeq(list, 1, n)
<1>8. /\ d \in Seq(1..created) /\ DOMAIN d = 1..n
      /\ \A i \in 1..n : d[i] = list[i] /\ i \in DOMAIN list
  <2>1. /\ d \in Seq(1..created) /\ DOMAIN d = 1..n
        /\ \A i \in 1..n : d[i] = list[i]
    BY <1>1, <1>6, TakenIs
  <2>2. \A i \in 1..n : i \in 1..Len(list)
    BY <1>6
  <2>3. QED
    BY <1>6, <2>1, <2>2
<1>9. d \in Seq(Blocks)
  <2>1. 1..created \subseteq Blocks
    BY <1>1, Shapes
  <2>2. QED
    BY <1>8, <2>1, SeqMonotonic
<1>10. reverts' = [reverts EXCEPT ![r].pc = "reading", ![r].doomed = d]
  BY <1>3
<1> HIDE DEF d
<1>11. /\ reverts'[r].pc = "reading" /\ reverts'[r].doomed = d /\ reverts'[r].block = b
       /\ \A s \in Reverts : s # r => reverts'[s] = reverts[s]
       /\ \A s \in Reverts : reverts'[s].block = reverts[s].block
  BY <1>1, <1>10 DEF TypeInv
<1>12. /\ Peace' = Peace
       /\ \A s \in Reverts : /\ Active(s)' <=> s = r
                             /\ Active(s) <=> s = r
                             /\ Going(s)' <=> s = r
  BY <1>2, <1>4, <1>11 DEF Peace, Active, Going, optionVars
<1>13. /\ number' = number /\ byNumber' = byNumber /\ unemitted' = <<>> /\ DOMAIN unemitted' = {}
       /\ parent' = parent /\ latestIndex' = latestIndex /\ saving' = None
  BY <1>2, <1>4 DEF createdVars, dbVars, saveVars
<1>14. TypeInv'
  <2>1. reverts' \in [Reverts -> [pc : {"none", "pausing", "saving", "reading", "writing",
                                        "done", "failed"},
                                  index : Nat, block : Blocks, awaits : Blocks \cup {None},
                                  doomed : Seq(Blocks)]]
    BY <1>1, <1>9, <1>10 DEF TypeInv
  <2>2. \A s \in Reverts :
          /\ reverts'[s].pc \in {"none", "pausing", "saving", "reading", "writing", "done",
                                 "failed"}
          /\ reverts'[s].block \in 0..created
          /\ reverts'[s].doomed \in Seq(1..created)
    BY <1>1, <1>8, <1>11 DEF TypeInv, TypeOK
  <2>3. TypeOK'
    BY <1>1, <1>2, <1>7, <2>2, CutSnapshots
       DEF TypeInv, TypeOK, createdVars, saveVars, dbVars, optionVars
  <2>4. QED
    BY <1>1, <1>2, <2>1, <2>3 DEF TypeInv, Planned, createdVars, optionVars
<1>15. MinerInv'
  BY <1>1, <1>2, <1>4, <1>11, <1>12 DEF MinerInv, createdVars, saveVars
<1>16. StoreInv' /\ SavingInv'
  <2>1. StoreInv'
    BY <1>1, <1>2 DEF StoreInv, NothingAboveLatest, StoredIsAChainInPeace, StoredIsAChain,
                      createdVars, dbVars, optionVars
  <2>2. SavingInv'
    BY <1>1, <1>2, <1>12 DEF SavingInv, Before, createdVars, saveVars, dbVars
  <2>3. QED
    BY <2>1, <2>2
<1>17. \A j \in DOMAIN snaps' :
         /\ snaps'[j] = snaps[j] /\ j \in DOMAIN snaps /\ Stored(snaps[j])
         /\ j < reverts[r].index
         /\ number[snaps[j]] <= number[b]
  BY CutSnapshots
<1>18. SnapInv'
  <2>1. listening' <=> snaps' # <<>>
    BY CutSnapshots
  <2>2. QED
    BY <1>1, <1>13, <1>17, <2>1 DEF SnapInv, Stored
<1>19. ListInv'
  <2>1. \A i \in DOMAIN list' : byNumber[number[list'[i]]] = list'[i]
    BY <1>1, <1>7 DEF ListInv, Stored
  <2>2. ASSUME NEW i \in DOMAIN list', NEW j \in DOMAIN list', i < j
        PROVE  number[list'[i]] > number[list'[j]]
    <3>1. n + i < n + j
      BY <1>6, <1>7, <2>2
    <3>2. QED
      BY <1>1, <1>7, <3>1 DEF ListInv
  <2>3. ASSUME snaps' # <<>>, NEW m \in Blocks, m > number[snaps'[1]], byNumber[m] # None
        PROVE  \/ \E i \in DOMAIN list' : list'[i] = byNumber[m]
               \/ \E i \in DOMAIN d : d[i] = byNumber[m]
    <3>1. snaps # <<>> /\ snaps'[1] = snaps[1]
      BY <2>3, CutSnapshots
    <3>2. Accounted(byNumber[m])
      BY <1>1, <2>3, <3>1 DEF ListInv
    <3>3. DOMAIN unemitted = {}
      BY <1>4
    <3>4. PICK k \in DOMAIN list : list[k] = byNumber[m]
      BY <1>4, <3>2, <3>3 DEF Accounted
    <3>5. CASE k <= n
      BY <1>6, <1>8, <3>4, <3>5
    <3>6. CASE ~(k <= n)
      <4>1. k - n \in DOMAIN list' /\ n + (k - n) = k
        BY <1>6, <1>7, <3>6
      <4>2. QED
        BY <1>7, <3>4, <4>1
    <3>7. QED
      BY <3>5, <3>6
  <2>4. \A m \in Blocks : snaps' # <<>> /\ m > number[snaps'[1]] /\ byNumber[m] # None
          => Accounted(byNumber[m])'
    <3>1. ASSUME NEW m \in Blocks, snaps' # <<>>, m > number[snaps'[1]], byNumber[m] # None
          PROVE  \/ \E i \in DOMAIN list' : list'[i] = byNumber'[m]
                 \/ \E s \in Reverts : Going(s)' /\ \E i \in DOMAIN reverts'[s].doomed :
                                                       reverts'[s].doomed[i] = byNumber'[m]
      BY <1>11, <1>12, <1>13, <2>3, <3>1
    <3>2. QED
      BY <3>1 DEF Accounted
  <2>5. ASSUME Peace
        PROVE  /\ snaps' = <<>> => list' = <<>>
               /\ snaps' # <<>> => \A i \in DOMAIN list' : number[list'[i]] > number[snaps'[1]]
    <3>1. \A k \in DOMAIN list : number[list[k]] > number[snaps[1]]
      BY <1>1, <2>5, CutSnapshots DEF ListInv
    <3>2. CASE snaps' = <<>>
      <4>1. b = snaps[1] /\ b \in Blocks /\ number[b] \in Nat
        <5>1. b = snaps[1]
          BY <1>4, <3>2, CutSnapshots
        <5>2. QED
          BY <1>1, <5>1, Calls, Shapes
      <4>2. DOMAIN list' = {}
        <5>1. SUFFICES ASSUME NEW i \in DOMAIN list'
                       PROVE  FALSE
          OBVIOUS
        <5>2. number[list[n + i]] <= number[b] /\ number[list[n + i]] > number[b]
              /\ number[list[n + i]] \in Nat
          BY <1>1, <1>5, <1>7, <3>1, <4>1, Shapes, Sequences
        <5>3. QED
          BY <4>1, <5>2
      <4>3. Len(list') = 0
        <5>1. Len(list') \in Nat /\ DOMAIN list' = 1..Len(list')
          BY <1>7, LengthAndDomain
        <5>2. ~(1 \in 1..Len(list'))
          BY <4>2, <5>1
        <5>3. QED
          BY <5>1, <5>2
      <4>4. QED
        BY <1>7, <3>2, <4>3, LengthAndDomain
    <3>3. CASE snaps' # <<>>
      BY <1>7, <3>1, <3>3, CutSnapshots
    <3>4. QED
      BY <3>2, <3>3
  <2>6. QED
    BY <1>12, <1>13, <2>1, <2>2, <2>4, <2>5 DEF ListInv, Stored
<1>20. RevertInv'
  <2>1. ASSUME NEW i \in DOMAIN d
        PROVE  /\ byNumber[number[d[i]]] = d[i]
               /\ d[i] # b
               /\ \A j \in DOMAIN list' : d[i] # list'[j]
               /\ \A j \in DOMAIN snaps' : d[i] # snaps'[j]
               /\ Peace => number[d[i]] > number[b]
    <3>1. i \in 1..n /\ d[i] = list[i] /\ i \in DOMAIN list
      BY <1>8
    <3>2. byNumber[number[d[i]]] = d[i]
      BY <1>1, <3>1 DEF ListInv, Stored
    <3>3. d[i] # b
      BY <1>1, <1>4, <1>5, <3>1, Sequences
    <3>4. ASSUME NEW j \in DOMAIN list'
          PROVE  d[i] # list'[j]
      <4>1. i < n + j /\ list'[j] = list[n + j] /\ n + j \in DOMAIN list
        BY <1>6, <1>7, <3>1
      <4>2. number[list[i]] > number[list[n + j]] /\ number[list[i]] \in Nat
        BY <1>1, <3>1, <4>1, Shapes, Sequences DEF ListInv
      <4>3. QED
        BY <3>1, <4>1, <4>2
    <3>5. ASSUME NEW j \in DOMAIN snaps'
          PROVE  d[i] # snaps'[j]
      <4>1. snaps'[j] = snaps[j] /\ j \in DOMAIN snaps /\ j < reverts[r].index
        BY <1>17
      <4>2. j <= reverts[r].index
        BY <1>1, <1>4, <4>1, Sequences
      <4>3. QED
        BY <1>5, <3>1, <4>1, <4>2
    <3>6. QED
      BY <1>5, <3>1, <3>2, <3>3, <3>4, <3>5
  <2>2. \A j \in DOMAIN snaps' : number[snaps'[j]] <= number[b]
    BY <1>17
  <2>3. \A j \in DOMAIN list' : number[list'[j]] <= number[b]
    BY <1>5, <1>7
  <2>4. \A m \in Blocks : m > number[b] /\ byNumber[m] # None =>
          \E i \in DOMAIN d : d[i] = byNumber[m]
    BY <1>5, <1>8
  <2>5. byNumber[number[b]] = b
    BY CutSnapshots DEF Stored
  <2>6. mining' = None
    BY <1>2, <1>4
  <2>7. \A s \in Reverts : s = r \/ reverts'[s].pc \notin {"pausing", "saving"}
    BY <1>12 DEF Active
  <2>8. \A s, t \in Reverts : Active(s)' /\ Active(t)' => s = t
    BY <1>12
  <2>9. \A s \in Reverts : Going(s)' => s = r
    BY <1>12
  <2>10. Stored(b)' /\ Peace' = Peace
    BY <1>11, <1>12, <1>13, <2>5 DEF Stored
  <2>11. Len(snaps') < reverts'[r].index
    <3>1. reverts'[r].index = reverts[r].index
      BY <1>1, <1>10 DEF TypeInv
    <3>2. Len(snaps') = reverts[r].index - 1 /\ reverts[r].index \in Nat
      BY <1>1, <1>4, CutSnapshots, SnapsBeforeIs
    <3>3. QED
      BY <3>1, <3>2
  <2>12. QED
    BY <1>11, <1>13, <2>1, <2>2, <2>3, <2>4, <2>5, <2>6, <2>7, <2>8, <2>9, <2>10, <2>11
       DEF RevertInv, Stored
<1>21. QED
  BY <1>14, <1>15, <1>16, <1>18, <1>19, <1>20 DEF IInv

(***************************************************************************)
(* What is stored at the numbers of the list is what was taken from it, so  *)
(* blocks.getByHash throws at none of them.                                *)
(***************************************************************************)
LEMMA ReadStep ==
  ASSUME IInv, NEW r \in Reverts, Read(r)
  PROVE  IInv'
<1> DEFINE d == reverts[r].doomed
           found == [i \in DOMAIN d |-> byNumber[number[d[i]]]]
<1>1. TypeInv /\ MinerInv /\ StoreInv /\ SavingInv /\ SnapInv /\ ListInv /\ RevertInv
  BY DEF IInv
<1>2. UNCHANGED <<createdVars, minerVars, saveVars, dbVars, snapVars, crashes, optionVars>>
  BY DEF Read
<1>3. reverts[r].pc = "reading" /\ Going(r) /\ Active(r)
  BY DEF Read, Going, Active
<1>4. \A i \in DOMAIN d : byNumber[number[d[i]]] = d[i] /\ d[i] # None
  <2>1. \A i \in DOMAIN d : Stored(d[i])
    BY <1>1, <1>3 DEF RevertInv
  <2>2. \A i \in DOMAIN d : d[i] # None
    BY <1>1, Calls, Shapes
  <2>3. QED
    BY <2>1, <2>2 DEF Stored
<1>5. found = d
  <2>1. d \in Seq(1..created)
    BY <1>1, Calls
  <2>2. d = [i \in DOMAIN d |-> d[i]]
    BY <2>1
  <2>3. QED
    BY <1>4, <2>2
<1>6. reverts' = [reverts EXCEPT ![r].pc = "writing", ![r].doomed = d]
  <2>1. ~\E i \in DOMAIN found : found[i] = None
    BY <1>4, <1>5
  <2>2. QED
    BY <1>5, <2>1 DEF Read
<1>7. /\ reverts'[r].pc = "writing" /\ \A s \in Reverts : s # r => reverts'[s] = reverts[s]
      /\ \A s \in Reverts : /\ reverts'[s].block = reverts[s].block
                            /\ reverts'[s].index = reverts[s].index
                            /\ reverts'[s].doomed = reverts[s].doomed
                            /\ reverts'[s].awaits = reverts[s].awaits
  BY <1>1, <1>6 DEF TypeInv
<1> HIDE DEF d, found
<1>8. /\ Peace' = Peace
      /\ \A s \in Reverts : (Active(s)' <=> Active(s)) /\ (Going(s)' <=> Going(s))
  BY <1>2, <1>3, <1>7 DEF Peace, Active, Going, optionVars
<1>9. TypeInv'
  <2>1. \A s \in Reverts :
          /\ reverts'[s].pc \in {"none", "pausing", "saving", "reading", "writing", "done",
                                 "failed"}
          /\ reverts'[s].block \in 0..created
          /\ reverts'[s].doomed \in Seq(1..created)
    BY <1>1, <1>7 DEF TypeInv, TypeOK
  <2>2. reverts' \in [Reverts -> [pc : {"none", "pausing", "saving", "reading", "writing",
                                        "done", "failed"},
                                  index : Nat, block : Blocks, awaits : Blocks \cup {None},
                                  doomed : Seq(Blocks)]]
    BY <1>1, <1>6 DEF TypeInv, d
  <2>3. TypeOK'
    BY <1>1, <1>2, <2>1
       DEF TypeInv, TypeOK, createdVars, minerVars, saveVars, dbVars, snapVars, optionVars
  <2>4. QED
    BY <1>1, <1>2, <2>2, <2>3 DEF TypeInv, Planned, createdVars, minerVars, optionVars
<1>10. MinerInv'
  BY <1>1, <1>2, <1>7, <1>8 DEF MinerInv, createdVars, minerVars, saveVars
<1>11. StoreInv' /\ SavingInv' /\ SnapInv'
  <2>1. StoreInv'
    BY <1>1, <1>2 DEF StoreInv, NothingAboveLatest, StoredIsAChainInPeace, StoredIsAChain,
                      createdVars, dbVars, optionVars
  <2>2. SavingInv'
    BY <1>1, <1>2, <1>8 DEF SavingInv, Before, createdVars, saveVars, dbVars
  <2>3. SnapInv'
    BY <1>1, <1>2, <1>8 DEF SnapInv, Stored, createdVars, saveVars, snapVars, dbVars
  <2>4. QED
    BY <2>1, <2>2, <2>3
<1>12. ListInv'
  <2>1. /\ number' = number /\ byNumber' = byNumber /\ list' = list /\ unemitted' = unemitted
        /\ snaps' = snaps
    BY <1>2 DEF createdVars, dbVars, saveVars, snapVars
  <2>2. \A x : Accounted(x)' <=> Accounted(x)
    BY <1>7, <1>8, <2>1 DEF Accounted
  <2>3. QED
    BY <1>1, <1>8, <2>1, <2>2 DEF ListInv, Stored
<1>13. RevertInv'
  <2>1. \A s \in Reverts : s # r => ~Active(s)' /\ ~Going(s)'
    BY <1>1, <1>3, <1>8 DEF RevertInv, Active, Going
  <2>2. \A s \in Reverts : reverts'[s].pc \notin {"pausing", "saving"}
    BY <1>7, <2>1 DEF Active
  <2>3. /\ number' = number /\ byNumber' = byNumber /\ list' = list /\ unemitted' = unemitted
        /\ snaps' = snaps /\ mining' = mining /\ saving' = saving
    BY <1>2 DEF createdVars, dbVars, saveVars, snapVars, minerVars
  <2>4. QED
    BY <1>1, <1>3, <1>7, <1>8, <2>1, <2>2, <2>3 DEF RevertInv, Stored
<1>14. QED
  BY <1>9, <1>10, <1>11, <1>12, <1>13 DEF IInv

(***************************************************************************)
(* #deleteBlockData: what goes is what is above the snapshot's block.       *)
(***************************************************************************)
LEMMA DeleteStep ==
  ASSUME IInv, NEW r \in Reverts, Delete(r)
  PROVE  IInv'
<1> DEFINE b == reverts[r].block
           d == reverts[r].doomed
           gone == {number[d[i]] : i \in DOMAIN d}
<1>1. TypeInv /\ MinerInv /\ StoreInv /\ SavingInv /\ SnapInv /\ ListInv /\ RevertInv
  BY DEF IInv
<1>2. UNCHANGED <<createdVars, saving, queue, unemitted, byHash, snapVars, crashes, optionVars>>
  BY DEF Delete
<1>3. /\ reverts[r].pc = "writing" /\ Going(r) /\ Active(r)
      /\ byNumber' = [n \in Blocks |-> IF n \in gone THEN None ELSE byNumber[n]]
      /\ latestIndex' = number[b] /\ vm' = b /\ latest' = b
      /\ reverts' = [reverts EXCEPT ![r].pc = "done"]
      /\ ResumeMiner
  BY DEF Delete, IndexOfLatest, Going, Active
<1>4. /\ mining = None /\ saving = None /\ queue = <<>> /\ unemitted = <<>> /\ paused
      /\ Stored(b)
      /\ \A i \in DOMAIN d :
           /\ Stored(d[i]) /\ d[i] # b
           /\ \A j \in DOMAIN list : d[i] # list[j]
           /\ \A j \in DOMAIN snaps : d[i] # snaps[j]
           /\ Peace => number[d[i]] > number[b]
      /\ \A j \in DOMAIN snaps : number[snaps[j]] <= number[b]
      /\ \A j \in DOMAIN list : number[list[j]] <= number[b]
      /\ \A n \in Blocks : n > number[b] /\ byNumber[n] # None =>
           \E i \in DOMAIN d : d[i] = byNumber[n]
  <2>1. mining = None /\ saving = None /\ unemitted = <<>> /\ queue = <<>> /\ paused
    BY <1>1, <1>3 DEF RevertInv, MinerInv, SavingInv
  <2>2. QED
    BY <1>1, <1>3, <2>1 DEF RevertInv
<1>5. b \in 0..created /\ b \in Blocks /\ number[b] \in Nat /\ number[b] \in Blocks
      /\ number[b] <= latestIndex /\ latestIndex \in Nat /\ b # None
  <2>1. b \in 0..created /\ b \in Blocks
    BY <1>1, Calls
  <2>2. QED
    BY <1>1, <1>4, <2>1, LatestIsHighest, Shapes
<1>6. /\ paused' = FALSE /\ held' = <<>> /\ held' \in Seq(0..created)
      /\ held = <<>> => mining' = None
      /\ held # <<>> => mining' = held[1] /\ 1 \in DOMAIN held
      /\ mining' \in 0..created \cup {None}
      /\ Planned' <= MaxBlocks
  BY <1>1, <1>2, <1>3, <1>4, Resumed
<1>7. /\ reverts'[r].pc = "done" /\ \A s \in Reverts : s # r => reverts'[s] = reverts[s]
      /\ \A s \in Reverts : reverts'[s].block = reverts[s].block
                            /\ reverts'[s].doomed = reverts[s].doomed
  BY <1>1, <1>3 DEF TypeInv
<1>8. /\ Peace' = Peace
      /\ \A s \in Reverts : ~Active(s)' /\ ~Going(s)' /\ (Going(s) => s = r)
  <2>1. \A s \in Reverts : Active(s) => s = r
    BY <1>1, <1>3 DEF RevertInv
  <2>2. QED
    BY <1>2, <1>7, <2>1 DEF Peace, Active, Going, optionVars
<1>9. number' = number /\ parent' = parent /\ list' = list /\ snaps' = snaps
      /\ listening' = listening /\ unemitted' = <<>> /\ saving' = None /\ queue' = <<>>
      /\ DOMAIN unemitted' = {}
  BY <1>2, <1>4 DEF createdVars, snapVars
<1>10. ASSUME NEW x \in Blocks, Stored(x), \A i \in DOMAIN d : d[i] # x
       PROVE  byNumber'[number[x]] = x
  <2>1. number[x] \in Blocks
    BY <1>1, Shapes
  <2>2. number[x] \notin gone
    <3>1. SUFFICES ASSUME NEW i \in DOMAIN d, number[d[i]] = number[x]
                   PROVE  FALSE
      OBVIOUS
    <3>2. d[i] = x
      BY <1>4, <1>10, <3>1 DEF Stored
    <3>3. QED
      BY <1>10, <3>2
  <2>3. QED
    BY <1>3, <1>10, <2>1, <2>2 DEF Stored
<1>11. /\ byNumber'[number[b]] = b
       /\ \A i \in DOMAIN list : byNumber'[number[list[i]]] = list[i]
       /\ \A i \in DOMAIN snaps : byNumber'[number[snaps[i]]] = snaps[i]
  <2>1. \A i \in DOMAIN list : list[i] \in Blocks /\ Stored(list[i])
    BY <1>1, Shapes, Sequences DEF ListInv
  <2>2. \A i \in DOMAIN snaps : snaps[i] \in Blocks /\ snaps[i] # saving
    BY <1>1, <1>4, Shapes, Sequences
  <2>3. \A i \in DOMAIN snaps : Stored(snaps[i])
    BY <1>1, <2>2 DEF SnapInv
  <2>4. QED
    BY <1>4, <1>5, <1>10, <2>1, <2>2, <2>3
<1>12. ASSUME NEW n \in Blocks, byNumber'[n] # None
       PROVE  byNumber'[n] = byNumber[n] /\ n \notin gone
  BY <1>3, <1>12
<1>13. ASSUME NEW n \in Blocks, n > number[b]
       PROVE  byNumber'[n] = None
  <2>1. CASE byNumber[n] = None
    BY <1>3, <2>1
  <2>2. CASE byNumber[n] # None
    <3>1. PICK i \in DOMAIN d : d[i] = byNumber[n]
      BY <1>4, <1>13, <2>2
    <3>2. number[d[i]] = n
      BY <1>1, <2>2, <3>1 DEF StoreInv
    <3>3. n \in gone
      BY <3>2
    <3>4. QED
      BY <1>3, <3>3
  <2>3. QED
    BY <2>1, <2>2
<1>14. TypeInv'
  <2>1. reverts' \in [Reverts -> [pc : {"none", "pausing", "saving", "reading", "writing",
                                        "done", "failed"},
                                  index : Nat, block : Blocks, awaits : Blocks \cup {None},
                                  doomed : Seq(Blocks)]]
    BY <1>1, <1>3 DEF TypeInv
  <2>2. \A s \in Reverts :
          /\ reverts'[s].pc \in {"none", "pausing", "saving", "reading", "writing", "done",
                                 "failed"}
          /\ reverts'[s].block \in 0..created
          /\ reverts'[s].doomed \in Seq(1..created)
    BY <1>1, <1>7 DEF TypeInv, TypeOK
  <2>3. byNumber' \in [Blocks -> 0..created \cup {None}]
    BY <1>1, <1>3 DEF TypeInv, TypeOK
  <2>4. TypeOK'
    BY <1>1, <1>2, <1>3, <1>5, <1>6, <2>2, <2>3
       DEF TypeInv, TypeOK, createdVars, snapVars, optionVars
  <2>5. QED
    BY <1>1, <1>2, <1>6, <2>1, <2>4 DEF TypeInv, createdVars, optionVars
<1>15. MinerInv'
  <2>1. mining' # None => number[mining'] >= number[b] /\ (Peace => mining' = b)
    BY <1>1, <1>3, <1>6 DEF MinerInv
  <2>2. DOMAIN held' = {}
    BY <1>6
  <2>3. QED
    BY <1>3, <1>6, <1>8, <1>9, <2>1, <2>2 DEF MinerInv
<1>16. StoreInv'
  <2>1. \A n \in Blocks : byNumber'[n] # None => number[byNumber'[n]] = n
    BY <1>1, <1>12 DEF StoreInv
  <2>2. NothingAboveLatest'
    BY <1>3, <1>9, <1>13 DEF NothingAboveLatest
  <2>3. ASSUME Peace, NEW n \in 1..number[b]
        PROVE  byNumber'[n] # None /\ parent[byNumber'[n]] = byNumber'[n - 1]
    <3>1. n \in 1..latestIndex /\ n \in Blocks /\ n - 1 \in Blocks /\ n <= number[b]
          /\ n - 1 <= number[b] /\ n \in Nat /\ n - 1 \in Nat
      BY <1>1, <1>5, UpToLatest
    <3>2. byNumber[n] # None /\ parent[byNumber[n]] = byNumber[n - 1]
      BY <1>1, <2>3, <3>1 DEF StoreInv, StoredIsAChainInPeace, StoredIsAChain, Peace
    <3>3. \A m \in gone : m > number[b] /\ m \in Nat
      <4>1. \A i \in DOMAIN d : number[d[i]] > number[b] /\ number[d[i]] \in Nat
        BY <1>1, <1>4, <2>3, Calls, Shapes
      <4>2. QED
        BY <4>1
    <3>4. n \notin gone /\ n - 1 \notin gone
      BY <1>5, <3>1, <3>3
    <3>5. QED
      BY <1>3, <3>1, <3>2, <3>4
  <2>4. StoredIsAChainInPeace'
    BY <1>3, <1>8, <1>9, <2>3 DEF StoredIsAChainInPeace, StoredIsAChain, Peace
  <2>5. QED
    BY <1>3, <1>5, <1>9, <1>11, <2>1, <2>2, <2>4 DEF StoreInv
<1>17. SavingInv'
  <2>1. Len(<<>>) = 0
    OBVIOUS
  <2>2. QED
    BY <1>3, <1>9, <1>11, <2>1 DEF SavingInv
<1>18. SnapInv'
  BY <1>1, <1>8, <1>9, <1>11 DEF SnapInv, Stored
<1>19. ListInv'
  <2>1. ASSUME snaps # <<>>, NEW n \in Blocks, n > number[snaps[1]], byNumber'[n] # None
        PROVE  \E i \in DOMAIN list : list[i] = byNumber'[n]
    <3>1. byNumber'[n] = byNumber[n] /\ n \notin gone
      BY <1>12, <2>1
    <3>2. Accounted(byNumber[n])
      BY <1>1, <2>1, <3>1 DEF ListInv
    <3>3. ~\E i \in DOMAIN d : d[i] = byNumber[n]
      <4>1. SUFFICES ASSUME NEW i \in DOMAIN d, d[i] = byNumber[n]
                     PROVE  FALSE
        OBVIOUS
      <4>2. number[d[i]] = n
        BY <1>1, <2>1, <3>1, <4>1 DEF StoreInv
      <4>3. QED
        BY <3>1, <4>2
    <3>4. DOMAIN unemitted = {}
      BY <1>4
    <3>5. QED
      BY <1>8, <3>1, <3>2, <3>3, <3>4 DEF Accounted
  <2>2. \A n \in Blocks : snaps # <<>> /\ n > number[snaps[1]] /\ byNumber'[n] # None
          => Accounted(byNumber[n])'
    BY <1>9, <2>1 DEF Accounted
  <2>3. QED
    BY <1>1, <1>8, <1>9, <1>11, <2>2 DEF ListInv, Stored
<1>20. RevertInv'
  BY <1>8 DEF RevertInv, Active
<1>21. QED
  BY <1>14, <1>15, <1>16, <1>17, <1>18, <1>19, <1>20 DEF IInv

(***************************************************************************)
(* A start finds a block at the index of the latest.                       *)
(***************************************************************************)
LEMMA RestartStep ==
  ASSUME IInv, Restart
  PROVE  IInv'
<1>1. TypeInv /\ MinerInv /\ StoreInv /\ SavingInv /\ SnapInv /\ ListInv /\ RevertInv
  BY DEF IInv
<1>2. UNCHANGED <<createdVars, dbVars, optionVars>>
  BY DEF Restart
<1>3. /\ crashes < MaxCrashes /\ crashes' = crashes + 1
      /\ latest' = byNumber[latestIndex] /\ vm' = byNumber[latestIndex]
      /\ mining' = None /\ held' = <<>> /\ paused' = FALSE /\ saving' = None /\ queue' = <<>>
      /\ unemitted' = <<>> /\ snaps' = <<>> /\ listening' = FALSE /\ list' = <<>>
      /\ reverts' = [r \in Reverts |->
                       IF Active(r) THEN [reverts[r] EXCEPT !.pc = "failed"] ELSE reverts[r]]
  BY DEF Restart
<1>4. Len(<<>>) = 0 /\ DOMAIN <<>> = {} /\ \A S : <<>> \in Seq(S)
  OBVIOUS
<1>5. byNumber[latestIndex] \in 0..created
  BY <1>1, UpToLatest, Shapes DEF StoreInv
<1>6. \A r \in Reverts :
        /\ reverts'[r].pc = (IF Active(r) THEN "failed" ELSE reverts[r].pc)
        /\ reverts'[r].block = reverts[r].block /\ reverts'[r].doomed = reverts[r].doomed
  BY <1>1, <1>3 DEF TypeInv
<1>7. Peace' = Peace /\ \A r \in Reverts : ~Active(r)' /\ ~Going(r)'
  BY <1>2, <1>6 DEF Peace, Active, Going, optionVars
<1>8. TypeInv'
  <2>1. reverts' \in [Reverts -> [pc : {"none", "pausing", "saving", "reading", "writing",
                                        "done", "failed"},
                                  index : Nat, block : Blocks, awaits : Blocks \cup {None},
                                  doomed : Seq(Blocks)]]
    BY <1>1, <1>3 DEF TypeInv
  <2>2. \A r \in Reverts :
          /\ reverts'[r].pc \in {"none", "pausing", "saving", "reading", "writing", "done",
                                 "failed"}
          /\ reverts'[r].block \in 0..created
          /\ reverts'[r].doomed \in Seq(1..created)
    BY <1>1, <1>6 DEF TypeInv, TypeOK
  <2>3. crashes' \in 0..MaxCrashes
    BY <1>1, <1>3, BoundsAssumption DEF TypeInv, TypeOK
  <2>4. eager' \in BOOLEAN /\ byNumber' \in [Blocks -> 0..created' \cup {None}]
        /\ byHash' \subseteq 0..created' /\ latestIndex' \in Blocks
        /\ parent' \in [Blocks -> Blocks] /\ number' \in [Blocks -> Blocks]
        /\ created' \in Blocks /\ created' = created
    BY <1>1, <1>2 DEF TypeInv, TypeOK, createdVars, dbVars, optionVars
  <2>5. TypeOK'
    BY <1>3, <1>4, <1>5, <2>2, <2>3, <2>4 DEF TypeOK
  <2>6. Planned' <= MaxBlocks
    BY <1>1, <1>3, <1>4, <2>4, Shapes DEF Planned
  <2>7. QED
    BY <1>1, <1>2, <2>1, <2>5, <2>6 DEF TypeInv, createdVars, optionVars
<1>9. MinerInv'
  BY <1>3, <1>4, <1>7 DEF MinerInv
<1>10. StoreInv'
  BY <1>1, <1>2 DEF StoreInv, NothingAboveLatest, StoredIsAChainInPeace, StoredIsAChain,
                    createdVars, dbVars, optionVars
<1>11. SavingInv'
  BY <1>2, <1>3, <1>4 DEF SavingInv, dbVars
<1>12. SnapInv' /\ ListInv'
  BY <1>3, <1>4, <1>7 DEF SnapInv, ListInv
<1>13. RevertInv'
  BY <1>7 DEF RevertInv, Active
<1>14. QED
  BY <1>8, <1>9, <1>10, <1>11, <1>12, <1>13 DEF IInv

LEMMA StutterStep ==
  ASSUME IInv, UNCHANGED vars
  PROVE  IInv'
<1>1. TypeInv /\ MinerInv /\ StoreInv /\ SavingInv /\ SnapInv /\ ListInv /\ RevertInv
  BY DEF IInv
<1>2. /\ UNCHANGED <<parent, number, created, vm, mining, held, paused, latest, saving, queue>>
      /\ UNCHANGED <<unemitted, byNumber, byHash, latestIndex, snaps, listening, list, reverts>>
      /\ UNCHANGED <<crashes, eager, overlap>>
  BY DEF vars, createdVars, minerVars, saveVars, dbVars, snapVars, optionVars
<1>3. TypeInv'
  BY <1>1, <1>2 DEF TypeInv, TypeOK, Planned
<1>4. MinerInv'
  BY <1>1, <1>2 DEF MinerInv, Active, Peace
<1>5. StoreInv'
  BY <1>1, <1>2 DEF StoreInv, NothingAboveLatest, StoredIsAChainInPeace, StoredIsAChain
<1>6. SavingInv'
  BY <1>1, <1>2 DEF SavingInv, Before, Peace
<1>7. SnapInv'
  BY <1>1, <1>2 DEF SnapInv, Stored, Peace
<1>8. ListInv'
  BY <1>1, <1>2 DEF ListInv, Stored, Accounted, Going, Peace
<1>9. RevertInv'
  BY <1>1, <1>2 DEF RevertInv, Stored, Active, Going, Peace
<1>10. QED
  BY <1>3, <1>4, <1>5, <1>6, <1>7, <1>8, <1>9 DEF IInv

LEMMA InvariantStep == IInv /\ [Next]_vars => IInv'
<1> SUFFICES ASSUME IInv, [Next]_vars
             PROVE  IInv'
  OBVIOUS
<1>1. CASE CallMine
  BY <1>1, CallMineStep
<1>2. CASE NewBlock
  BY <1>2, NewBlockStep
<1>3. CASE Saved
  BY <1>3, SavedStep
<1>4. CASE Emit
  BY <1>4, EmitStep
<1>5. CASE Snapshot
  BY <1>5, SnapshotStep
<1>6. ASSUME NEW r \in Reverts, RevertStep(r)
      PROVE  IInv'
  <2>1. CASE Paused(r)
    BY <2>1, PausedStep
  <2>2. CASE Cut(r)
    BY <2>2, CutAtLatest, CutBelow
  <2>3. CASE Read(r)
    BY <2>3, ReadStep
  <2>4. CASE Delete(r)
    BY <2>4, DeleteStep
  <2>5. QED
    BY <1>6, <2>1, <2>2, <2>3, <2>4 DEF RevertStep
<1>7. ASSUME NEW r \in Reverts, NEW i \in DOMAIN snaps, Revert(r, i)
      PROVE  IInv'
  BY <1>7, RevertStarts
<1>8. CASE Restart
  BY <1>8, RestartStep
<1>9. CASE UNCHANGED vars
  BY <1>9, StutterStep
<1>10. QED
  BY <1>1, <1>2, <1>3, <1>4, <1>5, <1>6, <1>7, <1>8, <1>9 DEF Next

(***************************************************************************)
(* The inductive invariant holds in every reachable state                  *)
(* (blockchain.ts:890-998).                                                *)
(***************************************************************************)
THEOREM Invariance ==
  ASSUME NoOverlappingReverts
  PROVE  Spec => []IInv
<1>1. Init => IInv
  BY InvariantInit
<1>2. QED
  BY <1>1, InvariantStep, PTL DEF Spec

(***************************************************************************)
(* What is stored is one chain if nothing comes during a revert; the        *)
(* snapshots' blocks are stored, and the VM is at the latest block,         *)
(* whatever was mined, reverted and lost (blockchain.ts:867-880, 954-989).  *)
(***************************************************************************)
THEOREM DatabaseSound ==
  ASSUME NoOverlappingReverts
  PROVE  Spec => []DatabaseIsSound
<1>1. ASSUME IInv
      PROVE  DatabaseIsSound
  <2>1. TypeInv /\ MinerInv /\ StoreInv /\ SavingInv /\ SnapInv
    BY <1>1 DEF IInv
  <2>2. SnapshotsAreStored
    <3>1. \A i \in DOMAIN snaps : snaps[i] # None
      BY <2>1, Shapes, Sequences
    <3>2. QED
      BY <2>1, <3>1 DEF SnapInv, SnapshotsAreStored, Unsaved, Stored
  <2>3. SettledAtLatest
    BY <2>1 DEF SettledAtLatest, MinerInv, SavingInv
  <2>4. TypeOK /\ StoredIsAChainInPeace
    BY <2>1 DEF TypeInv, StoreInv
  <2>5. QED
    BY <2>2, <2>3, <2>4 DEF DatabaseIsSound
<1>2. QED
  BY <1>1, Invariance, PTL

\* Only the two last steps of a revert end it.
LEMMA RevertEnds ==
  ASSUME IInv, [Next]_vars, NEW r \in Reverts,
         reverts'[r].pc = "done", reverts[r].pc # "done"
  PROVE  Cut(r) \/ Delete(r)
<1>1. TypeInv
  BY DEF IInv
<1>2. ASSUME NEW s \in Reverts, Paused(s) \/ Read(s)
      PROVE  FALSE
  <2>1. CASE Paused(s)
    BY <1>1, <2>1 DEF Paused, TypeInv
  <2>2. CASE Read(s)
    <3>1. \/ reverts' = [reverts EXCEPT ![s].pc = "failed"]
          \/ \E f : reverts' = [reverts EXCEPT ![s].pc = "writing", ![s].doomed = f]
      BY <2>2 DEF Read
    <3>2. QED
      BY <1>1, <3>1 DEF TypeInv
  <2>3. QED
    BY <1>2, <2>1, <2>2
<1>3. ASSUME NEW s \in Reverts, Cut(s) \/ Delete(s), s # r
      PROVE  FALSE
  BY <1>1, <1>3 DEF Cut, Delete, TypeInv
<1>4. ASSUME NEW s \in Reverts, NEW i \in DOMAIN snaps, Revert(s, i)
      PROVE  FALSE
  BY <1>1, <1>4 DEF Revert, Call, TypeInv
<1>5. CASE CallMine \/ NewBlock \/ Saved \/ Emit \/ Snapshot \/ UNCHANGED vars
  BY <1>5 DEF CallMine, NewBlock, Saved, Emit, Snapshot, vars
<1>6. CASE Restart
  BY <1>1, <1>6 DEF Restart, TypeInv
<1>7. QED
  BY <1>2, <1>3, <1>4, <1>5, <1>6 DEF Next, RevertStep

(***************************************************************************)
(* A revert ends with the chain and the VM at the snapshot's block, without *)
(* its snapshot or a later one, and no block is left above the latest       *)
(* (blockchain.ts:953-989).                                                *)
(***************************************************************************)
THEOREM RevertExact ==
  ASSUME NoOverlappingReverts
  PROVE  Spec => RevertIsExact
<1>1. ASSUME IInv, [Next]_vars, NEW r \in Reverts,
             reverts'[r].pc = "done", reverts[r].pc # "done"
      PROVE  /\ latest' = reverts[r].block
             /\ vm' = reverts[r].block
             /\ Len(snaps') < reverts[r].index
  <2>1. TypeInv /\ SnapInv /\ RevertInv
    BY <1>1 DEF IInv
  <2>2. CASE Cut(r)
    <3>1. latest = reverts[r].block
      BY <1>1, <2>1, <2>2 DEF Cut, TypeInv
    <3>2. vm = latest /\ reverts[r].index \in DOMAIN snaps
      BY <1>1, <2>2, AllIsSaved
    <3>3. latest' = latest /\ vm' = vm /\ snaps' = SnapsBefore(reverts[r].index)
      BY <2>2 DEF Cut, saveVars
    <3>4. Len(snaps') = reverts[r].index - 1 /\ reverts[r].index \in Nat
      BY <2>1, <3>2, <3>3, SnapsBeforeIs
    <3>5. QED
      BY <3>1, <3>2, <3>3, <3>4
  <2>3. CASE Delete(r)
    <3>1. Len(snaps) < reverts[r].index
      BY <2>1, <2>3 DEF Delete, RevertInv, Going
    <3>2. QED
      BY <2>3, <3>1 DEF Delete, snapVars
  <2>4. QED
    BY <1>1, <2>2, <2>3, RevertEnds
<1>2. IInv /\ [Next]_vars => [\A r \in Reverts :
        reverts'[r].pc = "done" /\ reverts[r].pc # "done"
          => /\ latest' = reverts[r].block
             /\ vm' = reverts[r].block
             /\ Len(snaps') < reverts[r].index]_vars
  BY <1>1
<1>3. IInv => RevertRemovesNewer
  BY DEF IInv, StoreInv, RevertRemovesNewer
<1>4. Spec => RevertRestores
  BY <1>2, Invariance, PTL DEF Spec, RevertRestores
<1>5. Spec => []RevertRemovesNewer
  BY <1>3, Invariance, PTL
<1>6. QED
  BY <1>4, <1>5, PTL DEF RevertIsExact
=============================================================================
