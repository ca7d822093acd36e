----------------------------- MODULE ForkProofs -----------------------------
(***************************************************************************)
(* ForkTrie implements StateHistory, for any keys, values, forked state,   *)
(* depth and number of blocks, as long as nothing is set to zero between   *)
(* two blocks.  The invariant says in which blocks markers are: those of   *)
(* the db in blocks there are, those of checkpoints in the block that is   *)
(* being mined, and never beyond the trie's block number.                  *)
(*                                                                         *)
(* ForkRequests has RequestsAreSound, for any requests, keys, transports   *)
(* and number of refusals.                                                 *)
(*                                                                         *)
(* PersistentCache has CacheIsSound, for any tree of remote blocks, any    *)
(* fork blocks, sessions and concurrent calls.                             *)
(***************************************************************************)
EXTENDS MCFork, SequenceTheorems, FiniteSetTheorems, WellFoundedInduction, TLAPS

MarksAreOfOpenBlock ==
  /\ \A i \in 2..Depth : \A m \in marks[i] : m[1] = Latest + 1 /\ m[1] = blockNumber
  /\ Depth > 2 => blockNumber = Latest + 1

IInv == TypeOK /\ MarkersAreInBlocks /\ MarksAreOfOpenBlock

Seen == Values \cup {Remote[k] : k \in Keys}
Maps == [Keys -> Seen]

LEMMA NoneIsNoValue == None \notin Locals /\ None # Zero /\ Zero \notin Locals
  BY ForkTrieAssumption

-----------------------------------------------------------------------------
(***************************************************************************)
(* The shapes of Push, PopInto and PopAway.                                *)
(***************************************************************************)

LEMMA PushFacts ==
  ASSUME TypeOK, Push
  PROVE  /\ roots' \in Seq(Tries) /\ Len(roots') = Len(roots) + 1
         /\ marks' \in Seq(SUBSET Markers) /\ Len(marks') = Len(roots) + 1
         /\ \A i \in 1..Len(roots) : roots'[i] = roots[i] /\ marks'[i] = marks[i]
         /\ roots'[Len(roots) + 1] = roots[Len(roots)]
         /\ marks'[Len(roots) + 1] = {}
  <1>1. Top \in Tries BY DEF TypeOK, Top, Depth
  <1>. QED BY <1>1 DEF TypeOK, Push, Top, Depth

LEMMA PopAwayFacts ==
  ASSUME TypeOK, Depth > 1, PopAway
  PROVE  /\ roots' \in Seq(Tries) /\ Len(roots') = Len(roots) - 1
         /\ marks' \in Seq(SUBSET Markers) /\ Len(marks') = Len(roots) - 1
         /\ \A i \in 1..(Len(roots) - 1) : roots'[i] = roots[i] /\ marks'[i] = marks[i]
  BY DEF TypeOK, PopAway, Depth

LEMMA PopIntoFacts ==
  ASSUME TypeOK, Depth > 1, PopInto
  PROVE  /\ roots' \in Seq(Tries) /\ Len(roots') = Len(roots) - 1
         /\ marks' \in Seq(SUBSET Markers) /\ Len(marks') = Len(roots) - 1
         /\ \A i \in 1..(Len(roots) - 2) : roots'[i] = roots[i] /\ marks'[i] = marks[i]
         /\ roots'[Len(roots) - 1] = roots[Len(roots)]
         /\ marks'[Len(roots) - 1] = marks[Len(roots) - 1] \cup marks[Len(roots)]
  <1>. DEFINE r == SubSeq(roots, 1, Depth - 2)
              q == SubSeq(marks, 1, Depth - 2)
              u == marks[Depth - 1] \cup marks[Depth]
  <1>1. r \in Seq(Tries) /\ Len(r) = Depth - 2 /\ \A i \in 1..(Depth - 2) : r[i] = roots[i]
    BY DEF TypeOK, Depth
  <1>2. /\ q \in Seq(SUBSET Markers) /\ Len(q) = Depth - 2
        /\ \A i \in 1..(Depth - 2) : q[i] = marks[i]
    BY DEF TypeOK, Depth
  <1>3. Top \in Tries BY DEF TypeOK, Top, Depth
  <1>4. u \in SUBSET Markers BY DEF TypeOK, Depth
  <1>5. roots' = Append(r, Top) /\ marks' = Append(q, u) BY DEF PopInto
  <1>6. Depth \in Nat BY DEF TypeOK, Depth
  <1>. HIDE DEF r, q, u
  <1>7. /\ roots' \in Seq(Tries) /\ Len(roots') = Depth - 1
        /\ \A i \in 1..(Depth - 2) : roots'[i] = roots[i]
        /\ roots'[Depth - 1] = Top
    BY <1>1, <1>3, <1>5, <1>6
  <1>8. /\ marks' \in Seq(SUBSET Markers) /\ Len(marks') = Depth - 1
        /\ \A i \in 1..(Depth - 2) : marks'[i] = marks[i]
        /\ marks'[Depth - 1] = u
    BY <1>2, <1>4, <1>5, <1>6
  <1>. QED BY <1>7, <1>8 DEF u, Depth, Top

LEMMA WritesFacts ==
  ASSUME TypeOK, NEW k \in Keys, NEW v \in Values, Writes(k, v)
  PROVE  /\ roots' \in Seq(Tries) /\ Len(roots') = Len(roots)
         /\ marks' \in Seq(SUBSET Markers) /\ Len(marks') = Len(roots)
         /\ \A i \in 1..(Len(roots) - 1) : roots'[i] = roots[i] /\ marks'[i] = marks[i]
         /\ roots'[Len(roots)] = [roots[Len(roots)] EXCEPT
                                    ![k] = IF v = Zero THEN None ELSE v]
         /\ marks'[Len(roots)] = IF v = Zero
                                 THEN marks[Len(roots)] \cup {<<blockNumber, k>>}
                                 ELSE marks[Len(roots)]
  <1>1. Depth \in 1..Len(roots) /\ Depth = Len(marks) BY DEF TypeOK, Depth
  <1>. DEFINE r == [roots[Depth] EXCEPT ![k] = IF v = Zero THEN None ELSE v]
              u == marks[Depth] \cup {<<blockNumber, k>>}
  <1>2. r \in Tries
    BY <1>1 DEF TypeOK, Tries, Stored, Values
  <1>3. u \in SUBSET Markers
    BY <1>1 DEF TypeOK, Markers
  <1>4. roots' = [roots EXCEPT ![Depth] = r]
    BY DEF Writes
  <1>5. /\ roots' \in Seq(Tries) /\ Len(roots') = Len(roots)
        /\ \A i \in 1..(Len(roots) - 1) : roots'[i] = roots[i]
        /\ roots'[Len(roots)] = r
    <2>. HIDE DEF r
    <2>. QED BY <1>1, <1>2, <1>4, ExceptSeq DEF TypeOK, Depth
  <1>6. CASE v = Zero
    <2>1. marks' = [marks EXCEPT ![Depth] = u]
      BY <1>6 DEF Writes
    <2>2. /\ marks' \in Seq(SUBSET Markers) /\ Len(marks') = Len(roots)
          /\ \A i \in 1..(Len(roots) - 1) : marks'[i] = marks[i]
          /\ marks'[Len(roots)] = u
      <3>. HIDE DEF u
      <3>. QED BY <1>1, <1>3, <2>1, ExceptSeq DEF TypeOK, Depth
    <2>. QED BY <1>5, <1>6, <2>2 DEF Depth
  <1>7. CASE v # Zero
    <2>1. marks' = marks
      BY <1>7 DEF Writes
    <2>. QED BY <1>1, <1>5, <1>7, <2>1 DEF TypeOK, Depth
  <1>. QED BY <1>6, <1>7

-----------------------------------------------------------------------------
(***************************************************************************)
(* The invariant, one lemma for each kind of step.                         *)
(***************************************************************************)

LEMMA InitIInv == Init => IInv
  <1>. SUFFICES ASSUME Init PROVE IInv OBVIOUS
  <1>1. Empty \in Tries BY DEF Empty, Tries, Stored
  <1>2. TypeOK BY <1>1 DEF Init, TypeOK, Markers
  <1>. QED BY <1>2 DEF Init, IInv, MarkersAreInBlocks, MarksAreOfOpenBlock, Depth, Latest

\* A checkpoint is opened, with the number of the block if it is the second.
LEMMA PushIInv ==
  ASSUME IInv, Push, blocks' = blocks, Depth > 2 => blockNumber' = blockNumber,
         Depth = 1 => blockNumber' = blockNumber,
         Depth = 2 => blockNumber' = Latest + 1
  PROVE  IInv'
  <1>1. TypeOK BY DEF IInv
  <1>2. Latest \in Nat \ {0} /\ blockNumber \in Nat \ {0} /\ Depth \in Nat \ {0}
    BY DEF IInv, TypeOK, Latest, Depth
  <1>3. blockNumber' \in Nat \ {0} BY <1>2
  <1>4. TypeOK' BY <1>1, <1>3, PushFacts DEF TypeOK
  <1>5. Depth' = Depth + 1 /\ Latest' = Latest BY <1>1, PushFacts DEF Depth, Latest
  <1>6. marks[1] \in SUBSET Markers /\ marks'[1] = marks[1]
    BY <1>1, <1>2, PushFacts DEF TypeOK, Depth
  <1>7. MarkersAreInBlocks'
    <2>. SUFFICES ASSUME NEW m \in marks'[1]
                  PROVE  m[1] <= Latest' /\ m[1] <= blockNumber'
      BY DEF MarkersAreInBlocks
    <2>1. m[1] \in Nat /\ m[1] <= Latest /\ m[1] <= blockNumber
      BY <1>6 DEF IInv, MarkersAreInBlocks, Markers
    <2>. QED BY <1>2, <1>5, <2>1
  <1>8. MarksAreOfOpenBlock'
    <2>1. ASSUME NEW i \in 2..Depth', NEW m \in marks'[i]
          PROVE  m[1] = Latest' + 1 /\ m[1] = blockNumber'
      <3>1. i # Depth + 1 BY <1>1, <2>1, PushFacts DEF Depth
      <3>2. i \in 2..Depth BY <1>2, <1>5, <3>1
      <3>3. m \in marks[i] BY <1>1, <1>2, <2>1, <3>2, PushFacts DEF Depth
      <3>4. m[1] = Latest + 1 /\ m[1] = blockNumber
        BY <3>2, <3>3 DEF IInv, MarksAreOfOpenBlock
      <3>. QED BY <1>2, <1>5, <3>2, <3>4
    <2>2. Depth' > 2 => blockNumber' = Latest' + 1
      BY <1>2, <1>5 DEF IInv, MarksAreOfOpenBlock
    <2>. QED BY <2>1, <2>2 DEF MarksAreOfOpenBlock
  <1>. QED BY <1>4, <1>7, <1>8 DEF IInv

LEMMA WritesIInv ==
  ASSUME IInv, NEW k \in Keys, NEW v \in Values, Depth > 2, Writes(k, v),
         UNCHANGED <<blocks, blockNumber>>
  PROVE  IInv'
  <1>1. TypeOK BY DEF IInv
  <1>2. Latest \in Nat \ {0} /\ blockNumber \in Nat \ {0} /\ Depth \in Nat \ {0}
    BY DEF IInv, TypeOK, Latest, Depth
  <1>w. /\ roots' \in Seq(Tries) /\ Len(roots') = Len(roots)
            /\ marks' \in Seq(SUBSET Markers) /\ Len(marks') = Len(roots)
            /\ \A i \in 1..(Len(roots) - 1) : roots'[i] = roots[i] /\ marks'[i] = marks[i]
            /\ marks'[Len(roots)] = IF v = Zero
                                    THEN marks[Len(roots)] \cup {<<blockNumber, k>>}
                                    ELSE marks[Len(roots)]
    BY <1>1, WritesFacts
  <1>3. TypeOK' BY <1>1, <1>w DEF TypeOK
  <1>4. Depth' = Depth /\ Latest' = Latest BY <1>1, <1>w DEF Depth, Latest
  <1>5. marks'[1] = marks[1]
    <2>1. 1 \in 1..(Len(roots) - 1) BY <1>2 DEF Depth
    <2>. QED BY <1>w, <2>1
  <1>6. MarkersAreInBlocks' BY <1>4, <1>5 DEF IInv, MarkersAreInBlocks
  <1>7. ASSUME NEW i \in 2..Depth', NEW m \in marks'[i]
        PROVE  m[1] = Latest' + 1 /\ m[1] = blockNumber'
    <2>1. i \in 2..Depth BY <1>4
    <2>2. m \in marks[i] \/ m = <<blockNumber, k>>
      <3>1. CASE i = Len(roots) BY <1>w, <1>7, <3>1
      <3>2. CASE i # Len(roots)
        <4>1. i \in 1..(Len(roots) - 1) BY <1>2, <2>1, <3>2 DEF Depth
        <4>. QED BY <1>w, <1>7, <4>1
      <3>. QED BY <3>1, <3>2
    <2>. QED BY <1>4, <2>1, <2>2 DEF IInv, MarksAreOfOpenBlock
  <1>8. MarksAreOfOpenBlock' BY <1>4, <1>7 DEF IInv, MarksAreOfOpenBlock
  <1>. QED BY <1>3, <1>6, <1>8 DEF IInv

LEMMA CommitIInv ==
  ASSUME IInv, Depth > 2, PopInto, UNCHANGED <<blocks, blockNumber>>
  PROVE  IInv'
  <1>1. TypeOK BY DEF IInv
  <1>2. Latest \in Nat \ {0} /\ blockNumber \in Nat \ {0} /\ Depth \in Nat \ {0}
    BY DEF IInv, TypeOK, Latest, Depth
  <1>3. TypeOK' BY <1>1, <1>2, PopIntoFacts DEF TypeOK, Depth
  <1>4. Depth' = Depth - 1 /\ Latest' = Latest
    BY <1>1, <1>2, PopIntoFacts DEF Depth, Latest
  <1>5. marks'[1] = marks[1] BY <1>1, <1>2, PopIntoFacts DEF Depth
  <1>6. MarkersAreInBlocks' BY <1>4, <1>5 DEF IInv, MarkersAreInBlocks
  <1>7. ASSUME NEW i \in 2..Depth', NEW m \in marks'[i]
        PROVE  m[1] = Latest' + 1 /\ m[1] = blockNumber'
    <2>1. i \in 2..Depth /\ i <= Depth - 1 BY <1>2, <1>4
    <2>2. m \in marks[i] \/ m \in marks[Depth]
      <3>1. CASE i = Depth - 1 BY <1>1, <1>2, <1>7, <3>1, PopIntoFacts DEF Depth
      <3>2. CASE i # Depth - 1
        <4>1. i \in 1..(Len(roots) - 2) BY <1>2, <2>1, <3>2 DEF Depth
        <4>. QED BY <1>1, <1>2, <1>7, <4>1, PopIntoFacts DEF Depth
      <3>. QED BY <3>1, <3>2
    <2>3. Depth \in 2..Depth BY <1>2
    <2>. QED BY <1>4, <2>1, <2>2, <2>3 DEF IInv, MarksAreOfOpenBlock
  <1>8. MarksAreOfOpenBlock' BY <1>2, <1>4, <1>7 DEF IInv, MarksAreOfOpenBlock
  <1>. QED BY <1>3, <1>6, <1>8 DEF IInv

LEMMA RevertIInv ==
  ASSUME IInv, Depth > 2, PopAway, UNCHANGED <<blocks, blockNumber>>
  PROVE  IInv'
  <1>1. TypeOK BY DEF IInv
  <1>2. Latest \in Nat \ {0} /\ blockNumber \in Nat \ {0} /\ Depth \in Nat \ {0}
    BY DEF IInv, TypeOK, Latest, Depth
  <1>3. TypeOK' BY <1>1, <1>2, PopAwayFacts DEF TypeOK, Depth
  <1>4. Depth' = Depth - 1 /\ Latest' = Latest
    BY <1>1, <1>2, PopAwayFacts DEF Depth, Latest
  <1>5. \A i \in 1..Depth' : marks'[i] = marks[i] /\ i \in 1..Depth
    BY <1>1, <1>2, <1>4, PopAwayFacts DEF Depth
  <1>6. 1 \in 1..Depth' BY <1>2, <1>4
  <1>7. MarkersAreInBlocks' BY <1>4, <1>5, <1>6 DEF IInv, MarkersAreInBlocks
  <1>8. MarksAreOfOpenBlock' BY <1>2, <1>4, <1>5 DEF IInv, MarksAreOfOpenBlock
  <1>. QED BY <1>3, <1>7, <1>8 DEF IInv

LEMMA EndBlockIInv ==
  ASSUME IInv, EndBlock
  PROVE  IInv'
  <1>1. TypeOK /\ Depth = 2 BY DEF IInv, EndBlock
  <1>2. Latest \in Nat \ {0} /\ blockNumber \in Nat \ {0} BY DEF IInv, TypeOK, Latest
  <1>3. Top \in Tries
    <2>1. Len(roots) \in 1..Len(roots) /\ roots \in Seq(Tries) BY <1>1 DEF TypeOK, Depth
    <2>. QED BY <2>1 DEF Top, Depth
  <1>4. blocks' \in Seq(Tries) /\ Len(blocks') = Len(blocks) + 1
    <2>1. blocks' = Append(blocks, Top) /\ blocks \in Seq(Tries)
      BY <1>1 DEF EndBlock, TypeOK
    <2>. QED BY <1>3, <2>1
  <1>5. /\ Len(roots') = 1 /\ roots' \in Seq(Tries) /\ roots'[1] = roots[2]
        /\ Len(marks') = 1 /\ marks' \in Seq(SUBSET Markers)
        /\ marks'[1] = marks[1] \cup marks[2]
    <2>1. Depth > 1 /\ Len(roots) = 2 /\ PopInto BY <1>1 DEF Depth, EndBlock
    <2>. QED BY <1>1, <2>1, PopIntoFacts
  <1>6. TypeOK'
    <2>1. blockNumber' = blockNumber BY DEF EndBlock
    <2>. QED BY <1>2, <1>4, <1>5, <2>1 DEF TypeOK
  <1>7. Depth' = 1 /\ Latest' = Latest + 1 /\ blockNumber' = blockNumber
    BY <1>4, <1>5 DEF Depth, Latest, EndBlock
  <1>9. ASSUME NEW m \in marks'[1]
        PROVE  m[1] <= Latest' /\ m[1] <= blockNumber'
    <2>1. CASE m \in marks[1]
      <3>1. m[1] \in Nat
        <4>1. 1 \in 1..Len(marks) /\ marks \in Seq(SUBSET Markers)
          BY <1>1 DEF TypeOK, Depth
        <4>2. marks[1] \in SUBSET Markers BY <4>1
        <4>. QED BY <2>1, <4>2 DEF Markers
      <3>2. m[1] <= Latest /\ m[1] <= blockNumber BY <2>1 DEF IInv, MarkersAreInBlocks
      <3>. QED BY <1>2, <1>7, <3>1, <3>2
    <2>2. CASE m \in marks[2]
      <3>1. m[1] = Latest + 1 /\ m[1] = blockNumber
        BY <1>1, <2>2 DEF IInv, MarksAreOfOpenBlock
      <3>. QED BY <1>2, <1>7, <3>1
    <2>. QED BY <1>5, <1>9, <2>1, <2>2
  <1>10. MarksAreOfOpenBlock' BY <1>7 DEF MarksAreOfOpenBlock
  <1>11. MarkersAreInBlocks' BY <1>9 DEF MarkersAreInBlocks
  <1>. QED BY <1>6, <1>10, <1>11 DEF IInv

LEMMA SetAccountIInv ==
  ASSUME IInv, NEW k \in Keys, NEW v \in Locals, Depth = 1, Writes(k, v),
         blocks' = Append(blocks, roots'[1]), blockNumber' = blockNumber
  PROVE  IInv' /\ Len(roots') = 1 /\ Len(blocks') = Latest + 1
  <1>1. TypeOK /\ v \in Values /\ v # Zero BY NoneIsNoValue DEF IInv, Values
  <1>2. Latest \in Nat \ {0} /\ blockNumber \in Nat \ {0} BY DEF IInv, TypeOK, Latest
  <1>3. /\ roots' \in Seq(Tries) /\ Len(roots') = 1
        /\ marks' = marks
    BY <1>1, WritesFacts DEF Depth, Writes
  <1>4. roots'[1] \in Tries BY <1>3
  <1>5. blocks' \in Seq(Tries) /\ Len(blocks') = Len(blocks) + 1
    <2>1. blocks \in Seq(Tries) BY <1>1 DEF TypeOK
    <2>. QED BY <1>4, <2>1
  <1>6. TypeOK' BY <1>1, <1>2, <1>3, <1>5 DEF TypeOK, Depth
  <1>7. Depth' = 1 /\ Latest' = Latest + 1 BY <1>3, <1>5 DEF Depth, Latest
  <1>8. ASSUME NEW m \in marks'[1]
        PROVE  m[1] <= Latest' /\ m[1] <= blockNumber'
    <2>1. m[1] \in Nat
      <3>1. 1 \in 1..Len(marks) /\ marks \in Seq(SUBSET Markers)
        BY <1>1 DEF TypeOK, Depth
      <3>2. marks[1] \in SUBSET Markers BY <3>1
      <3>. QED BY <1>3, <1>8, <3>2 DEF Markers
    <2>2. m[1] <= Latest /\ m[1] <= blockNumber
      BY <1>3, <1>8 DEF IInv, MarkersAreInBlocks
    <2>. QED BY <1>2, <1>7, <2>1, <2>2
  <1>9. MarksAreOfOpenBlock' BY <1>7 DEF MarksAreOfOpenBlock
  <1>10. MarkersAreInBlocks' BY <1>8 DEF MarkersAreInBlocks
  <1>. QED BY <1>3, <1>5, <1>6, <1>9, <1>10 DEF IInv, Latest

LEMMA RevertToIInv ==
  ASSUME IInv, NEW n \in 1..(Latest - 1), Depth = 1, blocks' = SubSeq(blocks, 1, n),
         roots' = <<blocks[n]>>, marks' = <<WithoutBlocks(n + 1, Latest)>>,
         blockNumber' = blockNumber
  PROVE  /\ IInv'
         /\ Len(blocks') = n /\ \A i \in 1..n : blocks'[i] = blocks[i]
         /\ marks'[1] = {m \in marks[1] : m[1] <= n}
  <1>1. TypeOK BY DEF IInv
  <1>2. Latest \in Nat \ {0} /\ blockNumber \in Nat \ {0} BY DEF IInv, TypeOK, Latest
  <1>3. n \in Nat \ {0} /\ n <= Latest BY <1>2
  <1>4. blocks \in Seq(Tries) /\ n \in 1..Len(blocks) BY <1>1, <1>3 DEF TypeOK, Latest
  <1>5. blocks[n] \in Tries BY <1>4
  <1>6. /\ blocks' \in Seq(Tries) /\ Len(blocks') = n
        /\ \A i \in 1..n : blocks'[i] = blocks[i]
    BY <1>3, <1>4
  <1>7. marks[1] \in SUBSET Markers
    <2>1. 1 \in 1..Len(marks) /\ marks \in Seq(SUBSET Markers)
      BY <1>1 DEF TypeOK, Depth
    <2>. QED BY <2>1
  <1>8. ASSUME NEW m \in marks[1]
        PROVE  m[1] \in Nat /\ m[1] <= Latest /\ m[1] <= blockNumber
    BY <1>7 DEF IInv, MarkersAreInBlocks, Markers
  <1>9. WithoutBlocks(n + 1, Latest) = {m \in marks[1] : m[1] <= n}
    BY <1>2, <1>3, <1>8 DEF WithoutBlocks
  <1>10. marks'[1] = {m \in marks[1] : m[1] <= n} BY <1>9
  <1>11. TypeOK'
    <2>1. {m \in marks[1] : m[1] <= n} \in SUBSET Markers BY <1>7
    <2>. QED BY <1>2, <1>3, <1>5, <1>6, <1>9, <2>1 DEF TypeOK
  <1>12. Depth' = 1 /\ Latest' = n BY <1>6 DEF Depth, Latest
  <1>13. MarkersAreInBlocks' BY <1>8, <1>10, <1>12 DEF MarkersAreInBlocks
  <1>14. MarksAreOfOpenBlock' BY <1>12 DEF MarksAreOfOpenBlock
  <1>. QED BY <1>6, <1>10, <1>11, <1>13, <1>14 DEF IInv

LEMMA StepIInv ==
  ASSUME ~Zeroing, IInv, [Next]_vars
  PROVE  IInv'
  <1>1. CASE StartBlock BY <1>1, PushIInv DEF StartBlock
  <1>2. CASE StartTx BY <1>2, PushIInv DEF StartTx, NumberOfBlock
  <1>3. CASE StartCall BY <1>3, PushIInv DEF StartCall
  <1>4. CASE Write BY <1>4, WritesIInv DEF Write
  <1>5. CASE Commit BY <1>5, CommitIInv DEF Commit
  <1>6. CASE Revert BY <1>6, RevertIInv DEF Revert
  <1>7. CASE EndBlock BY <1>7, EndBlockIInv
  <1>8. CASE SetAccount
    <2>1. PICK k \in Keys, v \in Locals : Writes(k, v) /\ blocks' = Append(blocks, roots'[1])
      BY <1>8 DEF SetAccount
    <2>. QED BY <1>8, <2>1, SetAccountIInv DEF SetAccount
  <1>9. CASE RevertTo BY <1>9, RevertToIInv DEF RevertTo
  <1>10. CASE UNCHANGED vars
    BY <1>10 DEF vars, IInv, TypeOK, MarkersAreInBlocks, MarksAreOfOpenBlock, Depth, Latest
  <1>. QED BY <1>1, <1>2, <1>3, <1>4, <1>5, <1>6, <1>7, <1>8, <1>9, <1>10 DEF Next

(***************************************************************************)
(* The inductive invariant holds: see IInv.                                *)
(***************************************************************************)
THEOREM Invariance == ASSUME ~Zeroing PROVE Spec => []IInv
  BY InitIInv, StepIInv, PTL DEF Spec

(***************************************************************************)
(* The markers of the db are of blocks there are, and the trie's block     *)
(* number is beyond none of them, whatever blocks were mined, filled or    *)
(* removed before.                                                         *)
(***************************************************************************)
THEOREM MarkersStayInBlocks == ASSUME ~Zeroing PROVE Spec => []MarkersAreInBlocks
  <1>1. IInv => MarkersAreInBlocks BY DEF IInv
  <1>. QED BY <1>1, Invariance, PTL

-----------------------------------------------------------------------------
(***************************************************************************)
(* What is seen, without the block number: the invariant makes it the same *)
(* for all markers that the trie may look at.                              *)
(***************************************************************************)

See(root, k, hidden) ==
  IF root[k] # None THEN root[k] ELSE IF hidden THEN Zero ELSE Remote[k]

HiddenAtDepth(k, d) == \E i \in 1..d : \E m \in marks[i] : m[2] = k
HiddenAtBlock(k, n) == \E m \in marks[1] : m[1] <= n /\ m[2] = k

LEMMA CurrentIs ==
  ASSUME IInv, NEW d \in 1..Depth
  PROVE  Current(d) = [k \in Keys |-> See(roots[d], k, HiddenAtDepth(k, d))]
  <1>1. Depth \in Nat /\ Depth > 0 BY DEF IInv, TypeOK, Depth
  <1>2. ASSUME NEW k \in Keys
        PROVE  KeyWasDeleted(k, d, blockNumber) <=> HiddenAtDepth(k, d)
    <2>1. \A m \in marks[1] : m[1] <= blockNumber BY DEF IInv, MarkersAreInBlocks
    <2>2. KeyWasDeleted(k, d, blockNumber) => HiddenAtDepth(k, d)
      BY <1>1 DEF KeyWasDeleted, HiddenAtDepth
    <2>3. ASSUME NEW i \in 1..d, NEW m \in marks[i], m[2] = k
          PROVE  KeyWasDeleted(k, d, blockNumber)
      <3>1. CASE i = 1 BY <2>1, <2>3, <3>1 DEF KeyWasDeleted
      <3>2. CASE i # 1
        <4>1. i \in 2..d BY <1>1, <3>2
        <4>. QED BY <2>3, <4>1 DEF KeyWasDeleted
      <3>. QED BY <3>1, <3>2
    <2>. QED BY <2>2, <2>3 DEF HiddenAtDepth
  <1>. QED BY <1>2 DEF Current, Get, See

LEMMA AtIs ==
  ASSUME NEW n
  PROVE  At(n) = [k \in Keys |-> See(blocks[n], k, HiddenAtBlock(k, n))]
  <1>1. 2..1 = {} OBVIOUS
  <1>. QED BY <1>1 DEF At, Get, KeyWasDeleted, See, HiddenAtBlock

LEMMA SeenTypes ==
  ASSUME IInv
  PROVE  /\ SeenAtDepth \in Seq(Maps) /\ Len(SeenAtDepth) = Depth
         /\ SeenAtBlock \in Seq(Maps) /\ Len(SeenAtBlock) = Latest
         /\ \A d \in 1..Depth : SeenAtDepth[d] = Current(d)
         /\ \A n \in 1..Latest : SeenAtBlock[n] = At(n)
         /\ Depth \in Nat \ {0} /\ Latest \in Nat \ {0}
  <1>1. Depth \in Nat \ {0} /\ Latest \in Nat \ {0} BY DEF IInv, TypeOK, Depth, Latest
  <1>2. ASSUME NEW d \in 1..Depth PROVE Current(d) \in Maps
    <2>1. roots[d] \in Tries BY DEF IInv, TypeOK, Depth
    <2>. QED BY <2>1, CurrentIs DEF See, Tries, Stored, Maps, Seen, Values
  <1>3. ASSUME NEW n \in 1..Latest PROVE At(n) \in Maps
    <2>1. blocks[n] \in Tries BY DEF IInv, TypeOK, Latest
    <2>. QED BY <2>1, AtIs DEF See, Tries, Stored, Maps, Seen, Values
  <1>. QED BY <1>1, <1>2, <1>3 DEF SeenAtDepth, SeenAtBlock

-----------------------------------------------------------------------------
(***************************************************************************)
(* Sequences that are equal to an Append or a SubSeq, by their elements.   *)
(***************************************************************************)

LEMMA IsAppend ==
  ASSUME NEW X, NEW s \in Seq(X), NEW t \in Seq(X), Len(t) = Len(s) + 1,
         \A i \in 1..Len(s) : t[i] = s[i]
  PROVE  t = Append(s, t[Len(s) + 1])
  <1>1. t[Len(s) + 1] \in X OBVIOUS
  <1>. QED BY <1>1

LEMMA IsSubSeq ==
  ASSUME NEW X, NEW s \in Seq(X), NEW t \in Seq(X), Len(t) <= Len(s),
         \A i \in 1..Len(t) : t[i] = s[i]
  PROVE  t = SubSeq(s, 1, Len(t))
  OBVIOUS

-----------------------------------------------------------------------------
(***************************************************************************)
(* The same facts of the next state, and what a step leaves as it was.     *)
(***************************************************************************)

CurrentIsSeen ==
  \A d \in 1..Depth :
    Current(d) = [k \in Keys |-> See(roots[d], k, HiddenAtDepth(k, d))]

AtIsSeen ==
  \A n \in 1..Latest :
    At(n) = [k \in Keys |-> See(blocks[n], k, HiddenAtBlock(k, n))]

SeenTypesAll ==
  /\ SeenAtDepth \in Seq(Maps) /\ Len(SeenAtDepth) = Depth
  /\ SeenAtBlock \in Seq(Maps) /\ Len(SeenAtBlock) = Latest
  /\ \A d \in 1..Depth : SeenAtDepth[d] = Current(d)
  /\ \A n \in 1..Latest : SeenAtBlock[n] = At(n)
  /\ Depth \in Nat \ {0} /\ Latest \in Nat \ {0}

LEMMA SeenFacts == IInv => CurrentIsSeen /\ AtIsSeen /\ SeenTypesAll
  BY CurrentIs, AtIs, SeenTypes DEF CurrentIsSeen, AtIsSeen, SeenTypesAll

LEMMA SeenFactsNext == IInv' => CurrentIsSeen' /\ AtIsSeen' /\ SeenTypesAll'
  BY SeenFacts, PTL

LEMMA SameCurrent ==
  ASSUME IInv, IInv', NEW d \in 1..Depth, d \in 1..Depth', roots'[d] = roots[d],
         \A i \in 1..d : marks'[i] = marks[i]
  PROVE  Current(d)' = Current(d)
  <1>1. Current(d) = [k \in Keys |-> See(roots[d], k, HiddenAtDepth(k, d))]
    BY SeenFacts DEF CurrentIsSeen
  <1>2. Current(d)' = [k \in Keys |-> See(roots'[d], k, HiddenAtDepth(k, d)')]
    BY SeenFactsNext DEF CurrentIsSeen
  <1>3. \A k \in Keys : HiddenAtDepth(k, d)' <=> HiddenAtDepth(k, d)
    BY DEF HiddenAtDepth
  <1>. QED BY <1>1, <1>2, <1>3 DEF See

LEMMA SameAt ==
  ASSUME IInv, IInv', NEW n \in 1..Latest, n \in 1..Latest', blocks'[n] = blocks[n],
         \A m : m \in marks'[1] /\ m[1] <= n <=> m \in marks[1] /\ m[1] <= n
  PROVE  At(n)' = At(n)
  <1>1. At(n) = [k \in Keys |-> See(blocks[n], k, HiddenAtBlock(k, n))]
    BY SeenFacts DEF AtIsSeen
  <1>2. At(n)' = [k \in Keys |-> See(blocks'[n], k, HiddenAtBlock(k, n)')]
    BY SeenFactsNext DEF AtIsSeen
  <1>3. \A k \in Keys : HiddenAtBlock(k, n)' <=> HiddenAtBlock(k, n)
    BY DEF HiddenAtBlock
  <1>. QED BY <1>1, <1>2, <1>3 DEF See

\* No step of a block that is being mined changes what is seen at a block.
LEMMA SameHistory ==
  ASSUME IInv, IInv', blocks' = blocks, marks'[1] = marks[1]
  PROVE  SeenAtBlock' = SeenAtBlock
  <1>1. Latest' = Latest BY DEF Latest
  <1>2. ASSUME NEW n \in 1..Latest PROVE At(n)' = At(n)
    BY <1>1, SameAt
  <1>. QED BY <1>1, <1>2 DEF SeenAtBlock

-----------------------------------------------------------------------------
(***************************************************************************)
(* Every step is one of StateHistory.                                      *)
(***************************************************************************)

LEMMA PushSimulates ==
  ASSUME IInv, IInv', Push, blocks' = blocks
  PROVE  History!Checkpoint
  <1>1. SeenTypesAll /\ SeenTypesAll' BY SeenFacts, SeenFactsNext
  <1>2. PICK D \in Nat \ {0} : D = Depth BY <1>1 DEF SeenTypesAll
  <1>3. /\ Len(roots') = D + 1
        /\ \A i \in 1..D : roots'[i] = roots[i] /\ marks'[i] = marks[i]
        /\ roots'[D + 1] = roots[D]
        /\ marks'[D + 1] = {}
    BY <1>2, PushFacts DEF IInv, Depth
  <1>4. Depth' = D + 1 BY <1>3 DEF Depth
  <1>5. ASSUME NEW d \in 1..D PROVE Current(d)' = Current(d)
    <2>1. d \in 1..Depth /\ d \in 1..Depth' BY <1>2, <1>4
    <2>2. roots'[d] = roots[d] /\ \A i \in 1..d : marks'[i] = marks[i] BY <1>3
    <2>. QED BY <2>1, <2>2, SameCurrent
  <1>6. Current(D + 1)' = Current(D)
    <2>1. Current(D) = [k \in Keys |-> See(roots[D], k, HiddenAtDepth(k, D))]
      BY <1>2, SeenFacts DEF CurrentIsSeen
    <2>2. Current(D + 1)' = [k \in Keys |-> See(roots'[D + 1], k, HiddenAtDepth(k, D + 1)')]
      BY <1>4, SeenFactsNext DEF CurrentIsSeen
    <2>3. ASSUME NEW k \in Keys
          PROVE  HiddenAtDepth(k, D + 1)' <=> HiddenAtDepth(k, D)
      <3>1. \A i : i \in 1..(D + 1) <=> i \in 1..D \/ i = D + 1 OBVIOUS
      <3>. QED BY <1>3, <3>1 DEF HiddenAtDepth
    <2>. QED BY <1>3, <2>1, <2>2, <2>3 DEF See
  <1>7. SeenAtDepth' = Append(SeenAtDepth, SeenAtDepth[Len(SeenAtDepth)])
    <2>1. SeenAtDepth \in Seq(Maps) /\ Len(SeenAtDepth) = D
          /\ SeenAtDepth' \in Seq(Maps) /\ Len(SeenAtDepth') = D + 1
      BY <1>1, <1>2, <1>4 DEF SeenTypesAll
    <2>2. \A d \in 1..D : SeenAtDepth'[d] = SeenAtDepth[d]
      BY <1>1, <1>2, <1>4, <1>5 DEF SeenTypesAll
    <2>3. SeenAtDepth'[D + 1] = SeenAtDepth[D]
      BY <1>1, <1>2, <1>4, <1>6 DEF SeenTypesAll
    <2>. QED BY <2>1, <2>2, <2>3, IsAppend
  <1>8. marks'[1] = marks[1] BY <1>3
  <1>9. SeenAtBlock' = SeenAtBlock BY <1>8, SameHistory
  <1>. QED BY <1>7, <1>9 DEF History!Checkpoint, History!Top

\* A step that leaves e levels, of which it may have changed the last.
LEMMA LastLevelChanges ==
  ASSUME IInv, IInv', NEW e \in 1..Depth, Depth' = e,
         \A i \in 1..(e - 1) : roots'[i] = roots[i] /\ marks'[i] = marks[i]
  PROVE  SeenAtDepth' = Append(SubSeq(SeenAtDepth, 1, e - 1), Current(e)')
  <1>1. SeenTypesAll /\ SeenTypesAll' BY SeenFacts, SeenFactsNext
  <1>2. e \in Nat \ {0} /\ e <= Depth /\ Depth \in Nat BY <1>1 DEF SeenTypesAll
  <1>3. ASSUME NEW d \in 1..(e - 1) PROVE Current(d)' = Current(d)
    <2>1. d \in 1..Depth /\ d \in 1..Depth' BY <1>2
    <2>2. roots'[d] = roots[d] /\ \A i \in 1..d : marks'[i] = marks[i] BY <1>2
    <2>. QED BY <2>1, <2>2, SameCurrent
  <1>. DEFINE s == SubSeq(SeenAtDepth, 1, e - 1)
  <1>4. /\ s \in Seq(Maps) /\ Len(s) = e - 1
        /\ \A d \in 1..(e - 1) : s[d] = SeenAtDepth[d]
    BY <1>1, <1>2 DEF SeenTypesAll
  <1>5. SeenAtDepth' \in Seq(Maps) /\ Len(SeenAtDepth') = e BY <1>1 DEF SeenTypesAll
  <1>6. \A d \in 1..(e - 1) : SeenAtDepth'[d] = SeenAtDepth[d]
    <2>1. \A d \in 1..(e - 1) : d \in 1..Depth /\ d \in 1..Depth' BY <1>2
    <2>. QED BY <1>1, <1>3, <2>1 DEF SeenTypesAll
  <1>7. SeenAtDepth'[e] = Current(e)'
    <2>1. e \in 1..Depth' BY <1>2
    <2>. QED BY <1>1, <2>1 DEF SeenTypesAll
  <1>. HIDE DEF s
  <1>8. Len(SeenAtDepth') = Len(s) + 1 /\ \A d \in 1..Len(s) : SeenAtDepth'[d] = s[d]
    BY <1>2, <1>4, <1>5, <1>6
  <1>9. SeenAtDepth' = Append(s, SeenAtDepth'[Len(s) + 1])
    BY <1>4, <1>5, <1>8, IsAppend
  <1>. QED BY <1>2, <1>4, <1>7, <1>9 DEF s

\* A write is seen at the top level, and only at its key.
LEMMA WritesAreSeen ==
  ASSUME IInv, IInv', NEW k \in Keys, NEW v \in Values, Writes(k, v),
         NEW D \in Nat \ {0}, D = Depth
  PROVE  Current(D)' = [Current(D) EXCEPT ![k] = v]
  <1>1. /\ Depth' = D
        /\ \A i \in 1..(D - 1) : marks'[i] = marks[i]
        /\ roots'[D] = [roots[D] EXCEPT ![k] = IF v = Zero THEN None ELSE v]
        /\ marks'[D] = IF v = Zero THEN marks[D] \cup {<<blockNumber, k>>} ELSE marks[D]
    BY WritesFacts DEF IInv, Depth
  <1>2. Current(D) = [q \in Keys |-> See(roots[D], q, HiddenAtDepth(q, D))]
    BY SeenFacts DEF CurrentIsSeen
  <1>3. Current(D)' = [q \in Keys |-> See(roots'[D], q, HiddenAtDepth(q, D)')]
    BY <1>1, SeenFactsNext DEF CurrentIsSeen
  <1>4. roots[D] \in Tries BY DEF IInv, TypeOK, Depth
  <1>5. ASSUME NEW q \in Keys, q # k
        PROVE  See(roots'[D], q, HiddenAtDepth(q, D)') = See(roots[D], q, HiddenAtDepth(q, D))
    <2>1. roots'[D][q] = roots[D][q] BY <1>1, <1>4, <1>5 DEF Tries
    <2>2. ASSUME NEW i \in 1..D
          PROVE  (\E m \in marks'[i] : m[2] = q) <=> (\E m \in marks[i] : m[2] = q)
      <3>1. CASE i = D BY <1>1, <1>5, <3>1
      <3>2. CASE i # D BY <1>1, <3>2
      <3>. QED BY <3>1, <3>2
    <2>3. HiddenAtDepth(q, D)' <=> HiddenAtDepth(q, D) BY <2>2 DEF HiddenAtDepth
    <2>. QED BY <2>1, <2>3 DEF See
  <1>6. See(roots'[D], k, HiddenAtDepth(k, D)') = v
    <2>1. CASE v = Zero
      <3>1. roots'[D][k] = None BY <1>1, <1>4, <2>1 DEF Tries
      <3>2. <<blockNumber, k>> \in marks'[D] BY <1>1, <2>1
      <3>3. HiddenAtDepth(k, D)' BY <3>2 DEF HiddenAtDepth
      <3>. QED BY <2>1, <3>1, <3>3 DEF See
    <2>2. CASE v # Zero
      <3>1. roots'[D][k] = v /\ v # None
        BY <1>1, <1>4, <2>2, NoneIsNoValue DEF Tries, Values
      <3>. QED BY <3>1 DEF See
    <2>. QED BY <2>1, <2>2
  <1>. QED BY <1>2, <1>3, <1>5, <1>6

LEMMA WriteSimulates ==
  ASSUME IInv, IInv', Write
  PROVE  History!Write
  <1>1. SeenTypesAll BY SeenFacts
  <1>2. PICK D \in Nat \ {0} : D = Depth BY <1>1 DEF SeenTypesAll
  <1>3. PICK k \in Keys, v \in Values : Writes(k, v) BY DEF Write
  <1>4. D > 2 /\ UNCHANGED <<blocks, blockNumber>> BY <1>2 DEF Write
  <1>5. Depth' = D /\ \A i \in 1..(D - 1) : roots'[i] = roots[i] /\ marks'[i] = marks[i]
    BY <1>2, <1>3, WritesFacts DEF IInv, Depth
  <1>6. SeenAtDepth' = Append(SubSeq(SeenAtDepth, 1, D - 1), Current(D)')
    BY <1>2, <1>5, LastLevelChanges
  <1>7. Current(D)' = [Current(D) EXCEPT ![k] = v] BY <1>2, <1>3, WritesAreSeen
  <1>8. SeenAtDepth[D] = Current(D) /\ Len(SeenAtDepth) = D
    BY <1>1, <1>2 DEF SeenTypesAll
  <1>9. marks'[1] = marks[1] BY <1>4, <1>5
  <1>10. SeenAtBlock' = SeenAtBlock BY <1>4, <1>9, SameHistory
  <1>. QED BY <1>6, <1>7, <1>8, <1>10 DEF History!Write, History!Top, History!Below

\* The level below takes over the trie and the markers: it sees the same.
LEMMA PopIntoIsSeen ==
  ASSUME IInv, IInv', PopInto, NEW D \in Nat \ {0}, D = Depth, D > 1
  PROVE  /\ Depth' = D - 1
         /\ \A i \in 1..(D - 2) : roots'[i] = roots[i] /\ marks'[i] = marks[i]
         /\ Current(D - 1)' = Current(D)
  <1>1. /\ Depth' = D - 1
        /\ \A i \in 1..(D - 2) : roots'[i] = roots[i] /\ marks'[i] = marks[i]
        /\ roots'[D - 1] = roots[D]
        /\ marks'[D - 1] = marks[D - 1] \cup marks[D]
    BY PopIntoFacts DEF IInv, Depth
  <1>2. Current(D) = [k \in Keys |-> See(roots[D], k, HiddenAtDepth(k, D))]
    BY SeenFacts DEF CurrentIsSeen
  <1>3. Current(D - 1)' = [k \in Keys |-> See(roots'[D - 1], k, HiddenAtDepth(k, D - 1)')]
    <2>1. D - 1 \in 1..Depth' BY <1>1
    <2>. QED BY <2>1, SeenFactsNext DEF CurrentIsSeen
  <1>4. ASSUME NEW k \in Keys
        PROVE  HiddenAtDepth(k, D - 1)' <=> HiddenAtDepth(k, D)
    <2>1. \A i : i \in 1..(D - 1) <=> i \in 1..(D - 2) \/ i = D - 1 OBVIOUS
    <2>2. \A i : i \in 1..D <=> i \in 1..(D - 2) \/ i = D - 1 \/ i = D OBVIOUS
    <2>3. HiddenAtDepth(k, D - 1)' <=>
            \/ \E i \in 1..(D - 2) : \E m \in marks'[i] : m[2] = k
            \/ \E m \in marks'[D - 1] : m[2] = k
      BY <2>1 DEF HiddenAtDepth
    <2>4. HiddenAtDepth(k, D) <=>
            \/ \E i \in 1..(D - 2) : \E m \in marks[i] : m[2] = k
            \/ \E m \in marks[D - 1] : m[2] = k
            \/ \E m \in marks[D] : m[2] = k
      BY <2>2 DEF HiddenAtDepth
    <2>. QED BY <1>1, <2>3, <2>4
  <1>5. Current(D - 1)' = Current(D) BY <1>1, <1>2, <1>3, <1>4 DEF See
  <1>. QED BY <1>1, <1>5

LEMMA CommitSimulates ==
  ASSUME IInv, IInv', Commit
  PROVE  History!Commit
  <1>1. SeenTypesAll BY SeenFacts
  <1>2. PICK D \in Nat \ {0} : D = Depth BY <1>1 DEF SeenTypesAll
  <1>3. D > 2 /\ PopInto /\ UNCHANGED <<blocks, blockNumber>> BY <1>2 DEF Commit
  <1>4. /\ Depth' = D - 1
        /\ \A i \in 1..(D - 2) : roots'[i] = roots[i] /\ marks'[i] = marks[i]
        /\ Current(D - 1)' = Current(D)
    BY <1>2, <1>3, PopIntoIsSeen
  <1>5. SeenAtDepth' = Append(SubSeq(SeenAtDepth, 1, D - 2), Current(D))
    <2>1. D - 1 \in 1..Depth /\ (D - 1) - 1 = D - 2 BY <1>2, <1>3
    <2>. QED BY <1>4, <2>1, LastLevelChanges
  <1>6. SeenAtDepth[D] = Current(D) /\ Len(SeenAtDepth) = D
    BY <1>1, <1>2 DEF SeenTypesAll
  <1>7. marks'[1] = marks[1] BY <1>3, <1>4
  <1>8. SeenAtBlock' = SeenAtBlock BY <1>3, <1>7, SameHistory
  <1>. QED BY <1>3, <1>5, <1>6, <1>8 DEF History!Commit, History!Top

LEMMA RevertSimulates ==
  ASSUME IInv, IInv', Revert
  PROVE  History!Revert
  <1>1. SeenTypesAll /\ SeenTypesAll' BY SeenFacts, SeenFactsNext
  <1>2. PICK D \in Nat \ {0} : D = Depth BY <1>1 DEF SeenTypesAll
  <1>3. D > 2 /\ PopAway /\ UNCHANGED <<blocks, blockNumber>> BY <1>2 DEF Revert
  <1>4. /\ Depth' = D - 1
        /\ \A i \in 1..(D - 1) : roots'[i] = roots[i] /\ marks'[i] = marks[i]
    BY <1>2, <1>3, PopAwayFacts DEF IInv, Depth
  <1>5. ASSUME NEW d \in 1..(D - 1) PROVE Current(d)' = Current(d)
    <2>1. d \in 1..Depth /\ d \in 1..Depth' BY <1>2, <1>4
    <2>2. roots'[d] = roots[d] /\ \A i \in 1..d : marks'[i] = marks[i] BY <1>4
    <2>. QED BY <2>1, <2>2, SameCurrent
  <1>6. SeenAtDepth' = SubSeq(SeenAtDepth, 1, D - 1)
    <2>1. /\ SeenAtDepth \in Seq(Maps) /\ Len(SeenAtDepth) = D
          /\ SeenAtDepth' \in Seq(Maps) /\ Len(SeenAtDepth') = D - 1
      BY <1>1, <1>2, <1>4 DEF SeenTypesAll
    <2>2. \A d \in 1..(D - 1) : SeenAtDepth'[d] = SeenAtDepth[d]
      <3>1. \A d \in 1..(D - 1) : d \in 1..Depth /\ d \in 1..Depth' BY <1>2, <1>4
      <3>. QED BY <1>1, <1>5, <3>1 DEF SeenTypesAll
    <2>. QED BY <2>1, <2>2, IsSubSeq
  <1>7. marks'[1] = marks[1] BY <1>3, <1>4
  <1>8. SeenAtBlock' = SeenAtBlock BY <1>3, <1>7, SameHistory
  <1>9. Len(SeenAtDepth) = D BY <1>1, <1>2 DEF SeenTypesAll
  <1>. QED BY <1>3, <1>6, <1>8, <1>9 DEF History!Revert, History!Below

\* A block is added, and the older ones are seen as before.
LEMMA HistoryGrows ==
  ASSUME IInv, IInv', Len(blocks') = Latest + 1,
         \A n \in 1..Latest : blocks'[n] = blocks[n],
         \A m : \A n \in 1..Latest :
           m \in marks'[1] /\ m[1] <= n <=> m \in marks[1] /\ m[1] <= n,
         NEW N \in Nat \ {0}, N = Latest
  PROVE  SeenAtBlock' = Append(SeenAtBlock, At(N + 1)')
  <1>1. SeenTypesAll /\ SeenTypesAll' BY SeenFacts, SeenFactsNext
  <1>2. Latest' = N + 1 BY DEF Latest
  <1>3. ASSUME NEW n \in 1..N PROVE At(n)' = At(n)
    <2>1. n \in 1..Latest /\ n \in 1..Latest' BY <1>2
    <2>2. blocks'[n] = blocks[n] BY <2>1
    <2>3. \A m : m \in marks'[1] /\ m[1] <= n <=> m \in marks[1] /\ m[1] <= n BY <2>1
    <2>. QED BY <2>1, <2>2, <2>3, SameAt
  <1>4. /\ SeenAtBlock \in Seq(Maps) /\ Len(SeenAtBlock) = N
        /\ SeenAtBlock' \in Seq(Maps) /\ Len(SeenAtBlock') = N + 1
    BY <1>1, <1>2 DEF SeenTypesAll
  <1>5. \A n \in 1..N : SeenAtBlock'[n] = SeenAtBlock[n]
    <2>1. \A n \in 1..N : n \in 1..Latest /\ n \in 1..Latest' BY <1>2
    <2>. QED BY <1>1, <1>3, <2>1 DEF SeenTypesAll
  <1>6. SeenAtBlock'[N + 1] = At(N + 1)'
    <2>1. N + 1 \in 1..Latest' BY <1>2
    <2>. QED BY <1>1, <2>1 DEF SeenTypesAll
  <1>. QED BY <1>4, <1>5, <1>6, IsAppend

\* Without checkpoints the state is what is seen at the block of its root.
LEMMA StateIsSeenAtBlock ==
  ASSUME IInv', Depth' = 1, NEW N \in 1..Latest', roots'[1] = blocks'[N],
         \A m \in marks'[1] : m[1] <= N
  PROVE  At(N)' = Current(1)'
  <1>1. Current(1)' = [k \in Keys |-> See(roots'[1], k, HiddenAtDepth(k, 1)')]
    BY SeenFactsNext DEF CurrentIsSeen
  <1>2. At(N)' = [k \in Keys |-> See(blocks'[N], k, HiddenAtBlock(k, N)')]
    BY SeenFactsNext DEF AtIsSeen
  <1>3. ASSUME NEW k \in Keys
        PROVE  HiddenAtDepth(k, 1)' <=> HiddenAtBlock(k, N)'
    BY DEF HiddenAtDepth, HiddenAtBlock
  <1>. QED BY <1>1, <1>2, <1>3 DEF See

\* The number of a marker is a number, so that it can be compared.
LEMMA MarkerNumbers ==
  ASSUME IInv, NEW i \in 1..Depth, NEW m \in marks[i]
  PROVE  m[1] \in Nat
  <1>1. marks[i] \in SUBSET Markers BY DEF IInv, TypeOK, Depth
  <1>. QED BY <1>1 DEF Markers

LEMMA NothingBelowFirst ==
  ASSUME NEW s \in Seq(Maps), NEW e
  PROVE  Append(SubSeq(s, 1, 1 - 1), e) = <<e>>
  <1>1. SubSeq(s, 1, 1 - 1) = << >> BY EmptySeq
  <1>2. Append(<< >>, e) = <<e>> OBVIOUS
  <1>. QED BY <1>1, <1>2

LEMMA EndBlockSimulates ==
  ASSUME IInv, IInv', EndBlock
  PROVE  History!EndBlock
  <1>1. SeenTypesAll /\ SeenTypesAll' BY SeenFacts, SeenFactsNext
  <1>2. PICK N \in Nat \ {0} : N = Latest BY <1>1 DEF SeenTypesAll
  <1>3. Depth = 2 /\ PopInto /\ blocks' = Append(blocks, Top) BY DEF EndBlock
  <1>4. Depth' = 1 /\ Current(1)' = Current(2)
    <2>1. 2 \in Nat \ {0} /\ 2 - 1 = 1 OBVIOUS
    <2>2. Depth' = 2 - 1 /\ Current(2 - 1)' = Current(2)
      BY <1>3, <2>1, PopIntoIsSeen
    <2>. QED BY <2>1, <2>2
  <1>5. marks'[1] = marks[1] \cup marks[2] /\ roots'[1] = roots[2]
    BY <1>3, PopIntoFacts DEF IInv, Depth
  <1>6. /\ Len(blocks') = N + 1 /\ blocks'[N + 1] = roots'[1]
        /\ \A n \in 1..N : blocks'[n] = blocks[n]
    <2>1. blocks \in Seq(Tries) BY DEF IInv, TypeOK
    <2>2. Top \in Tries
      <3>1. roots \in Seq(Tries) /\ 2 \in 1..Len(roots) BY <1>3 DEF IInv, TypeOK, Depth
      <3>. QED BY <1>3, <3>1 DEF Top
    <2>. QED BY <1>2, <1>3, <1>5, <2>1, <2>2 DEF Latest, Top
  <1>7. ASSUME NEW m \in marks[2] PROVE m[1] = N + 1
    <2>1. 2 \in 2..Depth BY <1>3
    <2>. QED BY <1>2, <1>7, <2>1 DEF IInv, MarksAreOfOpenBlock
  <1>8. SeenAtDepth' = <<Current(2)>>
    <2>1. 1 \in 1..Depth BY <1>3
    <2>2. \A i \in 1..(1 - 1) : roots'[i] = roots[i] /\ marks'[i] = marks[i] OBVIOUS
    <2>3. SeenAtDepth' = Append(SubSeq(SeenAtDepth, 1, 1 - 1), Current(1)')
      BY <1>4, <2>1, <2>2, LastLevelChanges
    <2>. QED BY <1>1, <1>4, <2>3, NothingBelowFirst DEF SeenTypesAll
  <1>9. SeenAtBlock' = Append(SeenAtBlock, At(N + 1)')
    <2>1. \A m : \A n \in 1..Latest :
            m \in marks'[1] /\ m[1] <= n <=> m \in marks[1] /\ m[1] <= n
      <3>1. \A n \in 1..N : ~(N + 1 <= n) BY <1>2
      <3>. QED BY <1>2, <1>5, <1>7, <3>1
    <2>. QED BY <1>2, <1>6, <2>1, HistoryGrows
  <1>10. At(N + 1)' = Current(1)'
    <2>1. N + 1 \in 1..Latest' BY <1>6 DEF Latest
    <2>2. \A m \in marks'[1] : m[1] <= N + 1
      <3>1. Latest' = N + 1 BY <1>6 DEF Latest
      <3>. QED BY <3>1 DEF IInv, MarkersAreInBlocks
    <2>. QED BY <1>4, <1>6, <2>1, <2>2, StateIsSeenAtBlock
  <1>11. Len(SeenAtDepth) = 2 /\ SeenAtDepth[2] = Current(2)
    BY <1>1, <1>3 DEF SeenTypesAll
  <1>. QED BY <1>4, <1>8, <1>9, <1>10, <1>11 DEF History!EndBlock, History!Top

LEMMA SetAccountSimulates ==
  ASSUME IInv, IInv', SetAccount, ~Zeroing
  PROVE  History!SetValue
  <1>1. SeenTypesAll /\ SeenTypesAll' BY SeenFacts, SeenFactsNext
  <1>2. PICK N \in Nat \ {0} : N = Latest BY <1>1 DEF SeenTypesAll
  <1>3. PICK k \in Keys, v \in Locals : Writes(k, v) /\ blocks' = Append(blocks, roots'[1])
    BY DEF SetAccount
  <1>4. Depth = 1 /\ blockNumber' = blockNumber /\ v \in Values /\ v # Zero
    BY NoneIsNoValue DEF SetAccount, Values
  <1>5. Depth' = 1 /\ Len(blocks') = N + 1
    BY <1>2, <1>3, <1>4, SetAccountIInv DEF Depth
  <1>6. marks' = marks BY <1>3, <1>4 DEF Writes
  <1>7. blocks'[N + 1] = roots'[1] /\ \A n \in 1..N : blocks'[n] = blocks[n]
    <2>1. blocks \in Seq(Tries) BY DEF IInv, TypeOK
    <2>2. roots'[1] \in Tries
      <3>1. roots' \in Seq(Tries) /\ 1 \in 1..Len(roots') BY <1>5 DEF IInv, TypeOK, Depth
      <3>. QED BY <3>1
    <2>. QED BY <1>2, <1>3, <2>1, <2>2 DEF Latest
  <1>8. SeenAtDepth' = <<Current(1)'>>
    <2>1. 1 \in 1..Depth BY <1>4
    <2>2. \A i \in 1..(1 - 1) : roots'[i] = roots[i] /\ marks'[i] = marks[i] OBVIOUS
    <2>3. SeenAtDepth' = Append(SubSeq(SeenAtDepth, 1, 1 - 1), Current(1)')
      BY <1>5, <2>1, <2>2, LastLevelChanges
    <2>. QED BY <1>1, <2>3, NothingBelowFirst DEF SeenTypesAll
  <1>9. SeenAtBlock' = Append(SeenAtBlock, At(N + 1)')
    BY <1>2, <1>5, <1>6, <1>7, HistoryGrows
  <1>10. At(N + 1)' = Current(1)'
    <2>1. N + 1 \in 1..Latest' /\ Latest' = N + 1 BY <1>5 DEF Latest
    <2>2. \A m \in marks'[1] : m[1] <= N + 1
      BY <2>1 DEF IInv, MarkersAreInBlocks
    <2>. QED BY <1>5, <1>7, <2>1, <2>2, StateIsSeenAtBlock
  <1>11. Current(1)' = [Current(1) EXCEPT ![k] = v]
    BY <1>3, <1>4, WritesAreSeen
  <1>12. Len(SeenAtDepth) = 1 /\ SeenAtDepth[1] = Current(1)
    BY <1>1, <1>4 DEF SeenTypesAll
  <1>. QED BY <1>4, <1>8, <1>9, <1>10, <1>11, <1>12 DEF History!SetValue, History!Top

LEMMA RevertToSimulates ==
  ASSUME IInv, IInv', RevertTo
  PROVE  History!RevertTo
  <1>1. SeenTypesAll /\ SeenTypesAll' BY SeenFacts, SeenFactsNext
  <1>2. PICK n \in 1..(Latest - 1) :
          /\ blocks' = SubSeq(blocks, 1, n)
          /\ roots' = <<blocks[n]>>
          /\ marks' = <<WithoutBlocks(n + 1, Latest)>>
    BY DEF RevertTo
  <1>3. Depth = 1 /\ blockNumber' = blockNumber BY DEF RevertTo
  <1>4. /\ Len(blocks') = n /\ \A i \in 1..n : blocks'[i] = blocks[i]
        /\ marks'[1] = {m \in marks[1] : m[1] <= n}
    BY <1>2, <1>3, RevertToIInv
  <1>5. n \in Nat \ {0} /\ n \in 1..Latest /\ Latest' = n /\ Depth' = 1
    BY <1>1, <1>2, <1>4 DEF SeenTypesAll, Latest, Depth
  <1>6. ASSUME NEW i \in 1..n PROVE At(i)' = At(i)
    <2>1. i \in 1..Latest /\ i \in 1..Latest' BY <1>1, <1>5 DEF SeenTypesAll
    <2>2. ASSUME NEW m
          PROVE  m \in marks'[1] /\ m[1] <= i <=> m \in marks[1] /\ m[1] <= i
      <3>1. m \in marks[1] => m[1] \in Nat BY <1>3, MarkerNumbers
      <3>. QED BY <1>4, <1>5, <3>1
    <2>. QED BY <1>4, <2>1, <2>2, SameAt
  <1>7. At(n)' = Current(1)'
    <2>1. n \in 1..Latest' /\ roots'[1] = blocks'[n] BY <1>2, <1>4, <1>5
    <2>. QED BY <1>4, <1>5, <2>1, StateIsSeenAtBlock
  <1>8. At(n)' = At(n)
    <2>1. n \in 1..n BY <1>5
    <2>. QED BY <1>6, <2>1
  <1>9. SeenAtDepth' = <<SeenAtBlock[n]>>
    <2>1. 1 \in 1..Depth BY <1>3
    <2>2. \A i \in 1..(1 - 1) : roots'[i] = roots[i] /\ marks'[i] = marks[i] OBVIOUS
    <2>3. SeenAtDepth' = Append(SubSeq(SeenAtDepth, 1, 1 - 1), Current(1)')
      BY <1>5, <2>1, <2>2, LastLevelChanges
    <2>4. SeenAtBlock[n] = At(n) BY <1>1, <1>5 DEF SeenTypesAll
    <2>. QED BY <1>1, <1>7, <1>8, <2>3, <2>4, NothingBelowFirst DEF SeenTypesAll
  <1>10. SeenAtBlock' = SubSeq(SeenAtBlock, 1, n)
    <2>1. /\ SeenAtBlock \in Seq(Maps) /\ n <= Len(SeenAtBlock)
          /\ SeenAtBlock' \in Seq(Maps) /\ Len(SeenAtBlock') = n
      BY <1>1, <1>5 DEF SeenTypesAll
    <2>2. \A i \in 1..n : SeenAtBlock'[i] = SeenAtBlock[i]
      <3>1. \A i \in 1..n : i \in 1..Latest /\ i \in 1..Latest'
        BY <1>1, <1>5 DEF SeenTypesAll
      <3>. QED BY <1>1, <1>6, <3>1 DEF SeenTypesAll
    <2>. QED BY <2>1, <2>2, IsSubSeq
  <1>11. Len(SeenAtDepth) = 1 /\ n \in 1..Len(SeenAtBlock)
    BY <1>1, <1>3, <1>5 DEF SeenTypesAll
  <1>. QED BY <1>9, <1>10, <1>11 DEF History!RevertTo

LEMMA InitSimulates ==
  ASSUME Init
  PROVE  History!Init
  <1>1. Depth = 1 /\ Latest = 1 /\ marks[1] = {} /\ roots[1] = Empty /\ blocks[1] = Empty
    BY DEF Init, Depth, Latest
  <1>2. \A k \in Keys, b \in {1, blockNumber} : ~KeyWasDeleted(k, 1, b)
    BY <1>1 DEF KeyWasDeleted
  <1>3. Remote = [k \in Keys |-> Remote[k]] BY ForkTrieAssumption
  <1>4. Current(1) = Remote /\ At(1) = Remote
    BY <1>1, <1>2, <1>3 DEF Current, At, Get, Empty
  <1>5. SeenAtDepth = <<Remote>> BY <1>1, <1>4 DEF SeenAtDepth
  <1>6. SeenAtBlock = <<Remote>> BY <1>1, <1>4 DEF SeenAtBlock
  <1>. QED BY <1>5, <1>6 DEF History!Init

LEMMA StepSimulates ==
  ASSUME ~Zeroing, IInv, IInv', [Next]_vars
  PROVE  [History!Next]_(History!vars)
  <1>1. CASE StartBlock BY <1>1, PushSimulates DEF StartBlock, History!Next
  <1>2. CASE StartTx BY <1>2, PushSimulates DEF StartTx, History!Next
  <1>3. CASE StartCall BY <1>3, PushSimulates DEF StartCall, History!Next
  <1>4. CASE Write BY <1>4, WriteSimulates DEF History!Next
  <1>5. CASE Commit BY <1>5, CommitSimulates DEF History!Next
  <1>6. CASE Revert BY <1>6, RevertSimulates DEF History!Next
  <1>7. CASE EndBlock BY <1>7, EndBlockSimulates DEF History!Next
  <1>8. CASE SetAccount BY <1>8, SetAccountSimulates DEF History!Next
  <1>9. CASE RevertTo BY <1>9, RevertToSimulates DEF History!Next
  <1>10. CASE UNCHANGED vars
    <2>1. SeenAtDepth' = SeenAtDepth /\ SeenAtBlock' = SeenAtBlock
      BY <1>10 DEF vars, SeenAtDepth, SeenAtBlock, Depth, Latest, Current, At, Get,
                   KeyWasDeleted
    <2>. QED BY <2>1 DEF History!vars
  <1>. QED BY <1>1, <1>2, <1>3, <1>4, <1>5, <1>6, <1>7, <1>8, <1>9, <1>10 DEF Next

(***************************************************************************)
(* The forked chain's trie, with its markers, is a map with checkpoints    *)
(* and a history: what was deleted here is seen as deleted from its block  *)
(* on, everything else is seen as the fork has it, and a revert of a call, *)
(* a transaction or blocks undoes exactly what it should.                  *)
(***************************************************************************)
THEOREM Implements == ASSUME ~Zeroing PROVE Spec => ImplementsHistory
  <1>1. Init => History!Init BY InitSimulates
  <1>2. IInv /\ IInv' /\ [Next]_vars => [History!Next]_(History!vars)
    BY StepSimulates
  <1>. QED BY <1>1, <1>2, Invariance, PTL DEF Spec, ImplementsHistory, History!Spec

-----------------------------------------------------------------------------
(***************************************************************************)
(* The requests to the remote node (module ForkRequests, as MCFork has it): *)
(* for any requests, keys and numbers of refusals, RequestsAreSound.        *)
(***************************************************************************)

Reply == [kind : {"none", "result", "error"}, by : R!Requests \cup {None}]
Result == [kind : {"result"}, by : R!Requests \cup {None}]

RequestTypes ==
  /\ R!TypeOK
  /\ outcome \in [R!Requests -> Reply]
  /\ valueCache \in [R!RequestKeys -> Result \cup {None}]
  /\ disk \in [R!RequestKeys -> Result \cup {None}]
  /\ sem \in Seq(R!Requests)
  /\ before \in [R!Requests -> SUBSET R!Requests]

\* A request whose promise is pending is in flight, or its answer is lost.
Pending == {"queued", "sent", "backoff", "lost"}

Pends(r) == phase[r] \in Pending

(***************************************************************************)
(* Who is in flight holds the semaphore or waits for it, once.              *)
(***************************************************************************)
SemInv ==
  /\ \A i, j \in DOMAIN sem : sem[i] = sem[j] => i = j
  /\ \A r \in R!Requests : R!InFlight(r) => \E i \in DOMAIN sem : sem[i] = r

(***************************************************************************)
(* Under a key that was neither looked up by two together nor refused, the  *)
(* promise cached is that of the one in flight; and while one looks in the  *)
(* persistent cache, no other does so, nor is another in flight.            *)
(***************************************************************************)
Excused(k) == k \in raced \cup refused

CacheInv ==
  \A r \in R!Requests \ Uncached : ~Excused(Key[r]) =>
    /\ R!InFlight(r) => requestCache[Key[r]] = r
    /\ phase[r] = "lookup" =>
         \A q \in R!Requests \ Uncached :
           Key[q] = Key[r] /\ q # r => phase[q] # "lookup" /\ ~R!InFlight(q)

(***************************************************************************)
(* A promise cached is of a request of its key that still pends, unless it  *)
(* is a provider's; who awaits another's promise came before that failed.   *)
(***************************************************************************)
PromiseInv ==
  /\ \A k \in R!RequestKeys : requestCache[k] # None =>
       /\ Key[requestCache[k]] = k
       /\ Pends(requestCache[k]) \/ phase[requestCache[k]] = "done"
       /\ transport # "provider" => phase[requestCache[k]] # "done"
  /\ \A r \in R!Requests : phase[r] = "joined" =>
       on[r] \in R!Requests /\ Pends(on[r]) /\ on[r] \notin before[r]
  /\ \A r \in R!Requests : r \notin before[r]

RequestInv ==
  RequestTypes /\ SemInv /\ CacheInv /\ PromiseInv /\ R!ErrorsAreNotCachedByUrl

-----------------------------------------------------------------------------

\* What the types say of one request and of one key.
LEMMA RequestShapes ==
  ASSUME RequestTypes
  PROVE  /\ \A r \in R!Requests :
              /\ Key[r] \in R!RequestKeys
              /\ phase[r] \in R!Phases
              /\ on[r] \in R!Requests \cup {None}
              /\ outcome[r] \in Reply
              /\ before[r] \subseteq R!Requests
         /\ \A k \in R!RequestKeys : requestCache[k] \in R!Requests \cup {None}
         /\ DOMAIN sem = 1..Len(sem) /\ Len(sem) \in Nat
         /\ \A i \in DOMAIN sem : sem[i] \in R!Requests
BY DEF RequestTypes, R!TypeOK, R!RequestKeys

\* Tail shifts the elements by one.
LEMMA TailShifts ==
  ASSUME NEW S, NEW s \in Seq(S), s # <<>>
  PROVE  /\ Tail(s) \in Seq(S) /\ Len(Tail(s)) \in Nat
         /\ DOMAIN Tail(s) = 1..Len(Tail(s))
         /\ Len(Tail(s)) = Len(s) - 1
         /\ s[1] = Head(s) /\ 1 \in DOMAIN s
         /\ \A i \in DOMAIN Tail(s) : Tail(s)[i] = s[i + 1]
         /\ DOMAIN s = 1..Len(s) /\ Len(s) \in Nat
OBVIOUS

\* Who is sent is the holder of the semaphore.
LEMMA SentHolds ==
  ASSUME RequestTypes, SemInv, NEW r \in R!Requests, phase[r] \in {"sent", "backoff"}
  PROVE  sem # <<>> /\ Head(sem) = r
<1>1. R!InFlight(r)
  BY DEF R!InFlight
<1>2. PICK i \in DOMAIN sem : sem[i] = r
  BY <1>1 DEF SemInv
<1>3. i \in 1..Len(sem) /\ Len(sem) \in Nat
  BY <1>2, RequestShapes
<1>4. ~(i \in 2..Len(sem))
  BY <1>2 DEF RequestTypes, R!TypeOK
<1>5. i = 1
  BY <1>3, <1>4
<1>6. QED
  BY <1>2, <1>3, <1>5 DEF RequestTypes

\* With the promise of r those of the requests that joined it settle.
Settled(r) == {r} \cup {q \in R!Requests : phase[q] = "joined" /\ on[q] = r}

LEMMA SettledArePending ==
  ASSUME RequestInv, NEW r \in R!Requests, NEW q \in R!Requests, Pends(q), q # r
  PROVE  q \notin Settled(r)
BY DEF Pends, Pending, Settled

(***************************************************************************)
(* A request goes into the queue of the semaphore: one that must not be     *)
(* cached, or one that has found nothing in the persistent cache.           *)
(***************************************************************************)
LEMMA QueueStep ==
  ASSUME RequestInv, NEW r \in R!Requests,
         \/ r \in Uncached /\ phase[r] \in {"idle", "opening"}
         \/ phase[r] = "lookup",
         UNCHANGED <<transport, fork, open, on, outcome, valueCache, disk, raced, refused>>,
         phase' = [phase EXCEPT ![r] = "queued"],
         sem' = Append(sem, r),
         requestCache' = [requestCache EXCEPT ![Key[r]] = r],
         before' \in [R!Requests -> SUBSET R!Requests],
         \A q \in R!Requests : q # r => before'[q] = before[q],
         r \notin before'[r]
  PROVE  RequestInv'
<1>0. /\ RequestTypes /\ SemInv /\ CacheInv /\ PromiseInv /\ R!ErrorsAreNotCachedByUrl
      /\ None \notin R!Requests
  BY RequestsAssumption DEF RequestInv
<1>1. /\ phase[r] \in {"idle", "opening", "lookup"} /\ outcome[r].kind = "none"
      /\ ~Pends(r)
  BY <1>0 DEF RequestTypes, R!TypeOK, Pends, Pending
<1>2. /\ phase' \in [R!Requests -> R!Phases]
      /\ phase'[r] = "queued"
      /\ \A q \in R!Requests : q # r => phase'[q] = phase[q]
      /\ requestCache' \in [R!RequestKeys -> R!Requests \cup {None}]
      /\ requestCache'[Key[r]] = r
      /\ \A k \in R!RequestKeys : k # Key[r] => requestCache'[k] = requestCache[k]
  BY <1>0, RequestShapes DEF RequestTypes, R!TypeOK, R!Phases
<1>3. \A i \in DOMAIN sem : sem[i] # r
  BY <1>0, <1>1, RequestShapes DEF RequestTypes, R!TypeOK
<1>4. /\ sem' \in Seq(R!Requests) /\ DOMAIN sem' = 1..(Len(sem) + 1)
      /\ Len(sem') = Len(sem) + 1 /\ Len(sem) \in Nat
      /\ DOMAIN sem = 1..Len(sem)
      /\ sem'[Len(sem) + 1] = r
      /\ \A i \in DOMAIN sem : sem'[i] = sem[i]
  BY <1>0 DEF RequestTypes
<1>5. RequestTypes'
  <2>1. \A i \in 1..Len(sem') : phase'[sem'[i]] \in {"queued", "sent", "backoff", "lost"}
    <3>1. ASSUME NEW i \in 1..Len(sem)
          PROVE  phase'[sem'[i]] = phase[sem[i]] /\ sem[i] \in R!Requests
      BY <1>0, <1>2, <1>3, <1>4, RequestShapes
    <3>2. \A i \in 1..Len(sem) : phase[sem[i]] \in {"queued", "sent", "backoff", "lost"}
      BY <1>0 DEF RequestTypes, R!TypeOK
    <3>3. QED
      BY <1>2, <1>4, <3>1, <3>2
  <2>2. \A i \in 2..Len(sem') : phase'[sem'[i]] = "queued"
    <3>1. ASSUME NEW i \in 2..Len(sem)
          PROVE  phase'[sem'[i]] = phase[sem[i]]
      BY <1>0, <1>2, <1>3, <1>4, RequestShapes
    <3>2. \A i \in 2..Len(sem) : phase[sem[i]] = "queued"
      BY <1>0 DEF RequestTypes, R!TypeOK
    <3>3. QED
      BY <1>2, <1>4, <3>1, <3>2
  <2>3. \A q \in R!Requests : phase'[q] = "done" <=> outcome'[q].kind # "none"
    BY <1>0, <1>1, <1>2 DEF RequestTypes, R!TypeOK
  <2>4. QED
    BY <1>0, <1>2, <1>4, <2>1, <2>2, <2>3 DEF RequestTypes, R!TypeOK
<1>6. SemInv'
  <2>1. \A i, j \in DOMAIN sem' : sem'[i] = sem'[j] => i = j
    BY <1>0, <1>3, <1>4 DEF SemInv
  <2>2. ASSUME NEW q \in R!Requests, R!InFlight(q)'
        PROVE  \E i \in DOMAIN sem' : sem'[i] = q
    <3>1. CASE q = r
      <4>1. Len(sem) + 1 \in DOMAIN sem'
        BY <1>4
      <4>2. QED
        BY <1>4, <3>1, <4>1
    <3>2. CASE q # r
      <4>1. R!InFlight(q)
        BY <1>2, <2>2, <3>2 DEF R!InFlight
      <4>2. PICK i \in DOMAIN sem : sem[i] = q
        BY <1>0, <4>1 DEF SemInv
      <4>3. QED
        BY <1>4, <4>2
    <3>3. QED
      BY <3>1, <3>2
  <2>3. QED
    BY <2>1, <2>2 DEF SemInv
<1>7. CacheInv'
  <2>1. SUFFICES ASSUME NEW p \in R!Requests \ Uncached, ~Excused(Key[p])
                 PROVE  /\ R!InFlight(p)' => requestCache'[Key[p]] = p
                        /\ phase'[p] = "lookup" =>
                             \A q \in R!Requests \ Uncached :
                               Key[q] = Key[p] /\ q # p =>
                                 phase'[q] # "lookup" /\ ~R!InFlight(q)'
    BY <1>0 DEF CacheInv, Excused
  <2>2. /\ R!InFlight(p) => requestCache[Key[p]] = p
        /\ phase[p] = "lookup" =>
             \A q \in R!Requests \ Uncached :
               Key[q] = Key[p] /\ q # p => phase[q] # "lookup" /\ ~R!InFlight(q)
    BY <1>0, <2>1 DEF CacheInv
  <2>3. CASE Key[p] # Key[r]
    <3>1. p # r /\ Key[p] \in R!RequestKeys
      BY <1>0, <2>3, RequestShapes
    <3>2. QED
      BY <1>2, <2>2, <2>3, <3>1 DEF R!InFlight
  <2>4. CASE Key[p] = Key[r]
    <3>1. r \notin Uncached
      BY <2>4, RequestsAssumption
    <3>2. phase[r] = "lookup"
      BY <3>1
    <3>3. \A q \in R!Requests \ Uncached :
            Key[q] = Key[r] /\ q # r => phase[q] # "lookup" /\ ~R!InFlight(q)
      BY <1>0, <2>1, <2>4, <3>1, <3>2 DEF CacheInv
    <3>4. \A q \in R!Requests \ Uncached :
            Key[q] = Key[r] /\ q # r => phase'[q] # "lookup" /\ ~R!InFlight(q)'
      BY <1>2, <3>3 DEF R!InFlight
    <3>5. QED
      BY <1>2, <2>4, <3>4 DEF R!InFlight
  <2>5. QED
    BY <2>3, <2>4
<1>8. PromiseInv'
  <2>1. \A q \in R!Requests : Pends(q) => Pends(q)'
    BY <1>2 DEF Pends, Pending
  <2>2. Pends(r)' /\ phase'[r] # "done"
    BY <1>2 DEF Pends, Pending
  <2>3. ASSUME NEW k \in R!RequestKeys, requestCache'[k] # None
        PROVE  /\ Key[requestCache'[k]] = k
               /\ phase'[requestCache'[k]] \in Pending \/ phase'[requestCache'[k]] = "done"
               /\ transport' # "provider" => phase'[requestCache'[k]] # "done"
    <3>1. CASE k = Key[r]
      BY <1>2, <2>2, <3>1 DEF Pends
    <3>2. CASE k # Key[r]
      <4>1. requestCache'[k] = requestCache[k] /\ requestCache[k] \in R!Requests
        BY <1>0, <1>2, <2>3, <3>2, RequestShapes
      <4>2. /\ Key[requestCache[k]] = k
            /\ Pends(requestCache[k]) \/ phase[requestCache[k]] = "done"
            /\ transport # "provider" => phase[requestCache[k]] # "done"
        BY <1>0, <2>3, <4>1 DEF PromiseInv
      <4>3. requestCache[k] # r
        BY <3>2, <4>2
      <4>4. phase'[requestCache[k]] = phase[requestCache[k]]
        BY <1>2, <4>1, <4>3
      <4>5. QED
        BY <2>1, <4>1, <4>2, <4>4 DEF Pends
    <3>3. QED
      BY <3>1, <3>2
  <2>4. ASSUME NEW q \in R!Requests, phase'[q] = "joined"
        PROVE  on'[q] \in R!Requests /\ phase'[on'[q]] \in Pending /\ on'[q] \notin before'[q]
    <3>1. q # r /\ phase[q] = "joined"
      BY <1>2, <2>4
    <3>2. on[q] \in R!Requests /\ Pends(on[q]) /\ on[q] \notin before[q]
      BY <1>0, <3>1 DEF PromiseInv
    <3>3. QED
      BY <2>1, <3>1, <3>2 DEF Pends
  <2>5. \A q \in R!Requests : q \notin before'[q]
    BY <1>0 DEF PromiseInv
  <2>6. QED
    BY <2>3, <2>4, <2>5 DEF PromiseInv, Pends
<1>9. R!ErrorsAreNotCachedByUrl'
  BY <1>0, <1>1 DEF R!ErrorsAreNotCachedByUrl, R!ErrorsAreNotCached
<1>10. QED
  BY <1>5, <1>6, <1>7, <1>8, <1>9 DEF RequestInv

(***************************************************************************)
(* A promise settles: of a request that has found an answer or was sent,    *)
(* with those who joined it.                                               *)
(***************************************************************************)
LEMMA SettleStep ==
  ASSUME RequestInv, NEW r \in R!Requests,
         phase[r] \in {"idle", "opening", "lookup", "sent"},
         NEW answer \in Reply, answer.kind # "none",
         transport # "provider" /\ answer.kind = "error" => answer.by = r,
         R!Settle(r, answer),
         UNCHANGED <<transport, fork, open, on, raced, refused>>,
         valueCache' \in [R!RequestKeys -> Result \cup {None}],
         disk' \in [R!RequestKeys -> Result \cup {None}],
         phase[r] = "sent" => sem' = Tail(sem) /\ R!Forget(Key[r]),
         phase[r] # "sent" => UNCHANGED <<sem, requestCache>>,
         before' \in [R!Requests -> SUBSET R!Requests],
         \A q \in R!Requests : q # r => before'[q] = before[q],
         r \notin before'[r]
  PROVE  RequestInv'
<1>0. /\ RequestTypes /\ SemInv /\ CacheInv /\ PromiseInv /\ R!ErrorsAreNotCachedByUrl
      /\ None \notin R!Requests
  BY RequestsAssumption DEF RequestInv
<1>1. /\ \A q \in Settled(r) : phase'[q] = "done" /\ outcome'[q] = answer
      /\ \A q \in R!Requests \ Settled(r) : phase'[q] = phase[q] /\ outcome'[q] = outcome[q]
      /\ phase' \in [R!Requests -> R!Phases]
      /\ outcome' \in [R!Requests -> Reply]
      /\ r \in Settled(r) /\ Settled(r) \subseteq R!Requests
  <2>1. /\ phase' = [q \in R!Requests |-> IF q \in Settled(r) THEN "done" ELSE phase[q]]
        /\ outcome' = [q \in R!Requests |-> IF q \in Settled(r) THEN answer ELSE outcome[q]]
    BY DEF R!Settle, Settled
  <2>2. r \in Settled(r) /\ Settled(r) \subseteq R!Requests
    BY DEF Settled
  <2>3. \A q \in R!Requests : phase[q] \in R!Phases /\ outcome[q] \in Reply
    BY <1>0, RequestShapes
  <2>4. "done" \in R!Phases
    BY DEF R!Phases
  <2>5. QED
    BY <2>1, <2>2, <2>3, <2>4
<1>2. \A q \in R!Requests : Pends(q) /\ q # r => phase'[q] = phase[q]
  BY <1>1, SettledArePending
\* Who is settled was not in the queue, but for the one that was sent.
<1>3. /\ requestCache' \in [R!RequestKeys -> R!Requests \cup {None}]
      /\ \A k \in R!RequestKeys : requestCache'[k] \in {requestCache[k], None}
      /\ \A k \in R!RequestKeys : k # Key[r] => requestCache'[k] = requestCache[k]
      /\ phase[r] = "sent" /\ transport # "provider" => requestCache'[Key[r]] = None
  <2>1. requestCache' = requestCache \/ requestCache' = [requestCache EXCEPT ![Key[r]] = None]
    BY DEF R!Forget
  <2>2. phase[r] = "sent" /\ transport # "provider" =>
          requestCache' = [requestCache EXCEPT ![Key[r]] = None]
    BY DEF R!Forget
  <2>3. requestCache \in [R!RequestKeys -> R!Requests \cup {None}] /\ Key[r] \in R!RequestKeys
    BY <1>0, RequestShapes DEF RequestTypes, R!TypeOK
  <2>4. QED
    BY <2>1, <2>2, <2>3
<1>4. /\ sem' \in Seq(R!Requests) /\ Len(sem') \in Nat /\ DOMAIN sem' = 1..Len(sem')
      /\ phase[r] = "sent" => /\ Len(sem') = Len(sem) - 1
                              /\ sem[1] = r /\ 1 \in DOMAIN sem
                              /\ \A i \in DOMAIN sem' : sem'[i] = sem[i + 1]
      /\ phase[r] # "sent" => sem' = sem
      /\ DOMAIN sem = 1..Len(sem) /\ Len(sem) \in Nat
  <2>1. CASE phase[r] = "sent"
    <3>1. sem # <<>> /\ Head(sem) = r
      BY <1>0, <2>1, SentHolds
    <3>2. sem \in Seq(R!Requests) /\ sem' = Tail(sem)
      BY <1>0, <2>1 DEF RequestTypes
    <3>3. QED
      BY <2>1, <3>1, <3>2, TailShifts
  <2>2. CASE phase[r] # "sent"
    BY <1>0, <2>2 DEF RequestTypes
  <2>3. QED
    BY <2>1, <2>2
<1>5. \A i \in DOMAIN sem : phase[sem[i]] \in Pending /\ sem[i] \in R!Requests
  BY <1>0, <1>4, RequestShapes DEF RequestTypes, R!TypeOK, Pending
<1>6. \A i \in DOMAIN sem' : sem'[i] # r /\ Pends(sem'[i]) /\ sem'[i] \in R!Requests
  <2>1. CASE phase[r] = "sent"
    <3>1. SUFFICES ASSUME NEW i \in DOMAIN sem'
                   PROVE  sem'[i] # r /\ Pends(sem'[i]) /\ sem'[i] \in R!Requests
      OBVIOUS
    <3>2. sem'[i] = sem[i + 1] /\ i + 1 \in DOMAIN sem /\ i + 1 # 1
      BY <1>4, <2>1
    <3>3. sem[i + 1] # r
      BY <1>0, <1>4, <2>1, <3>2 DEF SemInv
    <3>4. QED
      BY <1>5, <3>2, <3>3 DEF Pends
  <2>2. CASE phase[r] # "sent"
    <3>1. phase[r] \notin Pending
      BY <2>2 DEF Pending
    <3>2. QED
      BY <1>4, <1>5, <2>2, <3>1 DEF Pends
  <2>3. QED
    BY <2>1, <2>2
<1>7. RequestTypes'
  <2>1. \A i \in 1..Len(sem') : phase'[sem'[i]] \in {"queued", "sent", "backoff", "lost"}
    BY <1>2, <1>4, <1>6 DEF Pends, Pending
  <2>2. \A i \in 2..Len(sem') : phase'[sem'[i]] = "queued"
    <3>1. SUFFICES ASSUME NEW i \in 2..Len(sem')
                   PROVE  phase'[sem'[i]] = "queued"
      OBVIOUS
    <3>2. i \in DOMAIN sem' /\ i \in Nat
      <4>1. DOMAIN sem' = 1..Len(sem') /\ Len(sem') \in Nat
        BY <1>4
      <4>2. QED
        BY <4>1
    <3>3. phase'[sem'[i]] = phase[sem'[i]]
      BY <1>2, <1>6, <3>2
    <3>4. \E j \in 2..Len(sem) : sem'[i] = sem[j]
      <4>1. CASE phase[r] = "sent"
        <5>1. sem'[i] = sem[i + 1] /\ i + 1 \in 2..Len(sem)
          BY <1>4, <3>2, <4>1
        <5>2. QED
          BY <5>1
      <4>2. CASE phase[r] # "sent"
        BY <1>4, <4>2
      <4>3. QED
        BY <4>1, <4>2
    <3>5. \A j \in 2..Len(sem) : phase[sem[j]] = "queued"
      BY <1>0 DEF RequestTypes, R!TypeOK
    <3>6. QED
      BY <3>3, <3>4, <3>5
  <2>3. ASSUME NEW q \in R!Requests
        PROVE  phase'[q] = "done" <=> outcome'[q].kind # "none"
    <3>1. phase[q] = "done" <=> outcome[q].kind # "none"
      BY <1>0 DEF RequestTypes, R!TypeOK
    <3>2. CASE q \in Settled(r)
      BY <1>1, <3>2
    <3>3. CASE q \notin Settled(r)
      BY <1>1, <3>1, <3>3
    <3>4. QED
      BY <3>2, <3>3
  <2>4. QED
    BY <1>0, <1>1, <1>3, <1>4, <2>1, <2>2, <2>3 DEF RequestTypes, R!TypeOK
<1>8. SemInv'
  <2>1. \A i, j \in DOMAIN sem' : sem'[i] = sem'[j] => i = j
    <3>1. CASE phase[r] = "sent"
      <4>1. SUFFICES ASSUME NEW i \in DOMAIN sem', NEW j \in DOMAIN sem', sem'[i] = sem'[j]
                     PROVE  i = j
        OBVIOUS
      <4>2. /\ i + 1 \in DOMAIN sem /\ j + 1 \in DOMAIN sem
            /\ sem'[i] = sem[i + 1] /\ sem'[j] = sem[j + 1] /\ i \in Nat /\ j \in Nat
        BY <1>4, <3>1
      <4>3. \A m, n \in DOMAIN sem : sem[m] = sem[n] => m = n
        BY <1>0 DEF SemInv
      <4>4. sem[i + 1] = sem[j + 1]
        BY <4>1, <4>2
      <4>5. i + 1 = j + 1
        BY <4>2, <4>3, <4>4
      <4>6. QED
        BY <4>2, <4>5
    <3>2. CASE phase[r] # "sent"
      BY <1>0, <1>4, <3>2 DEF SemInv
    <3>3. QED
      BY <3>1, <3>2
  <2>2. ASSUME NEW q \in R!Requests, R!InFlight(q)'
        PROVE  \E i \in DOMAIN sem' : sem'[i] = q
    <3>1. q \notin Settled(r)
      BY <1>1, <2>2 DEF R!InFlight
    <3>2. R!InFlight(q) /\ q # r
      BY <1>1, <2>2, <3>1 DEF R!InFlight
    <3>3. PICK i \in DOMAIN sem : sem[i] = q
      BY <1>0, <3>2 DEF SemInv
    <3>4. CASE phase[r] = "sent"
      <4>1. i # 1
        BY <1>4, <3>2, <3>3, <3>4
      <4>2. i - 1 \in DOMAIN sem' /\ (i - 1) + 1 = i
        BY <1>4, <3>3, <3>4, <4>1
      <4>3. sem'[i - 1] = sem[i]
        BY <1>4, <3>4, <4>2
      <4>4. QED
        BY <3>3, <4>2, <4>3
    <3>5. CASE phase[r] # "sent"
      BY <1>4, <3>3, <3>5
    <3>6. QED
      BY <3>4, <3>5
  <2>3. QED
    BY <2>1, <2>2 DEF SemInv
<1>9. CacheInv'
  <2>1. SUFFICES ASSUME NEW p \in R!Requests \ Uncached, ~Excused(Key[p])
                 PROVE  /\ R!InFlight(p)' => requestCache'[Key[p]] = p
                        /\ phase'[p] = "lookup" =>
                             \A q \in R!Requests \ Uncached :
                               Key[q] = Key[p] /\ q # p =>
                                 phase'[q] # "lookup" /\ ~R!InFlight(q)'
    BY <1>0 DEF CacheInv, Excused
  <2>2. /\ R!InFlight(p) => requestCache[Key[p]] = p
        /\ phase[p] = "lookup" =>
             \A q \in R!Requests \ Uncached :
               Key[q] = Key[p] /\ q # p => phase[q] # "lookup" /\ ~R!InFlight(q)
    BY <1>0, <2>1 DEF CacheInv
  <2>3. \A q \in R!Requests : /\ R!InFlight(q)' => R!InFlight(q) /\ q # r
                              /\ phase'[q] = "lookup" => phase[q] = "lookup"
    BY <1>1 DEF R!InFlight
  <2>4. ASSUME R!InFlight(p)'
        PROVE  requestCache'[Key[p]] = p
    <3>1. R!InFlight(p) /\ p # r /\ requestCache[Key[p]] = p
      BY <2>2, <2>3, <2>4
    <3>2. Key[p] \in R!RequestKeys
      BY <1>0, RequestShapes
    <3>3. CASE phase[r] # "sent"
      BY <3>1, <3>3
    <3>4. CASE phase[r] = "sent"
      <4>1. Key[p] # Key[r]
        <5>1. SUFFICES ASSUME Key[p] = Key[r]
                       PROVE  FALSE
          OBVIOUS
        <5>2. r \notin Uncached
          BY <5>1, RequestsAssumption
        <5>3. requestCache[Key[r]] = r
          BY <1>0, <2>1, <3>4, <5>1, <5>2 DEF CacheInv, R!InFlight
        <5>4. QED
          BY <3>1, <5>1, <5>3
      <4>2. QED
        BY <1>3, <3>1, <3>2, <4>1
    <3>5. QED
      BY <3>3, <3>4
  <2>5. QED
    BY <2>2, <2>3, <2>4
<1>10. PromiseInv'
  <2>1. ASSUME NEW k \in R!RequestKeys, requestCache'[k] # None
        PROVE  /\ Key[requestCache'[k]] = k
               /\ phase'[requestCache'[k]] \in Pending \/ phase'[requestCache'[k]] = "done"
               /\ transport' # "provider" => phase'[requestCache'[k]] # "done"
    <3>1. requestCache'[k] = requestCache[k] /\ requestCache[k] \in R!Requests
      BY <1>0, <1>3, <2>1, RequestShapes
    <3>2. /\ Key[requestCache[k]] = k
          /\ Pends(requestCache[k]) \/ phase[requestCache[k]] = "done"
          /\ transport # "provider" => phase[requestCache[k]] # "done"
      BY <1>0, <2>1, <3>1 DEF PromiseInv
    <3>3. CASE requestCache[k] = r
      <4>1. phase[r] = "sent" /\ k = Key[r]
        BY <3>2, <3>3 DEF Pends, Pending
      <4>2. transport = "provider"
        BY <1>3, <2>1, <4>1
      <4>3. phase'[r] = "done"
        BY <1>1
      <4>4. QED
        BY <3>1, <3>2, <3>3, <4>2, <4>3
    <3>4. CASE requestCache[k] # r
      <4>1. phase'[requestCache[k]] = phase[requestCache[k]]
        <5>1. CASE Pends(requestCache[k])
          BY <1>2, <3>1, <3>4, <5>1
        <5>2. CASE phase[requestCache[k]] = "done"
          <6>1. requestCache[k] \notin Settled(r)
            BY <3>4, <5>2 DEF Settled
          <6>2. QED
            BY <1>1, <3>1, <6>1
        <5>3. QED
          BY <3>2, <5>1, <5>2
      <4>2. QED
        BY <3>1, <3>2, <4>1 DEF Pends
    <3>5. QED
      BY <3>3, <3>4
  <2>2. ASSUME NEW q \in R!Requests, phase'[q] = "joined"
        PROVE  on'[q] \in R!Requests /\ phase'[on'[q]] \in Pending /\ on'[q] \notin before'[q]
    <3>1. q \notin Settled(r) /\ phase[q] = "joined" /\ q # r
      BY <1>1, <2>2
    <3>2. on[q] \in R!Requests /\ Pends(on[q]) /\ on[q] \notin before[q]
      BY <1>0, <3>1 DEF PromiseInv
    <3>3. on[q] # r
      BY <3>1 DEF Settled
    <3>4. phase'[on[q]] = phase[on[q]]
      BY <1>2, <3>2, <3>3
    <3>5. QED
      BY <3>1, <3>2, <3>4 DEF Pends
  <2>3. \A q \in R!Requests : q \notin before'[q]
    BY <1>0 DEF PromiseInv
  <2>4. QED
    BY <2>1, <2>2, <2>3 DEF PromiseInv, Pends
<1>11. R!ErrorsAreNotCachedByUrl'
  <2>1. SUFFICES ASSUME transport # "provider",
                        NEW q \in R!Requests, outcome'[q].kind = "error"
                 PROVE  outcome'[q].by \notin before'[q]
    BY DEF R!ErrorsAreNotCachedByUrl, R!ErrorsAreNotCached
  <2>2. CASE q \in Settled(r)
    <3>1. outcome'[q] = answer /\ answer.by = r
      BY <1>1, <2>1, <2>2
    <3>2. CASE q = r
      BY <3>1, <3>2
    <3>3. CASE q # r
      <4>1. phase[q] = "joined" /\ on[q] = r
        BY <2>2, <3>3 DEF Settled
      <4>2. r \notin before[q]
        BY <1>0, <4>1 DEF PromiseInv
      <4>3. QED
        BY <3>1, <3>3, <4>2
    <3>4. QED
      BY <3>2, <3>3
  <2>3. CASE q \notin Settled(r)
    <3>1. q # r /\ outcome'[q] = outcome[q]
      BY <1>1, <2>3
    <3>2. QED
      BY <1>0, <2>1, <3>1 DEF R!ErrorsAreNotCachedByUrl, R!ErrorsAreNotCached
  <2>4. QED
    BY <2>2, <2>3
<1>12. QED
  BY <1>7, <1>8, <1>9, <1>10, <1>11 DEF RequestInv

(***************************************************************************)
(* A request moves on without being answered: it is made, sent, refused, or *)
(* its answer is lost.  A refused request is not in the cache any more.     *)
(***************************************************************************)
GoesOn(p, q) ==
  \/ q = p
  \/ p = "idle" /\ q = "opening"
  \/ p \in {"queued", "backoff"} /\ q = "sent"
  \/ p = "sent" /\ q \in {"backoff", "lost"}

LEMMA MoveStep ==
  ASSUME RequestInv,
         phase' \in [R!Requests -> R!Phases],
         \A q \in R!Requests : GoesOn(phase[q], phase'[q]),
         \A q \in R!Requests : phase'[q] = "sent" /\ phase[q] # "sent" => Head(sem) = q,
         UNCHANGED <<transport, on, outcome, valueCache, sem, before, raced>>,
         fork' \in {"starting", "ready", "failed"},
         open' \in {"connecting", "open", "gone"},
         disk' \in [R!RequestKeys -> Result \cup {None}],
         refused \subseteq refused',
         requestCache' \in [R!RequestKeys -> R!Requests \cup {None}],
         \A k \in R!RequestKeys :
           requestCache'[k] = requestCache[k] \/ (requestCache'[k] = None /\ k \in refused')
  PROVE  RequestInv'
<1>0. /\ RequestTypes /\ SemInv /\ CacheInv /\ PromiseInv /\ R!ErrorsAreNotCachedByUrl
      /\ None \notin R!Requests
  BY RequestsAssumption DEF RequestInv
<1>1. \A q \in R!Requests :
        /\ Pends(q) <=> phase'[q] \in Pending
        /\ R!InFlight(q)' => R!InFlight(q)
        /\ phase'[q] = "done" <=> phase[q] = "done"
        /\ phase'[q] = "joined" <=> phase[q] = "joined"
        /\ phase'[q] = "lookup" <=> phase[q] = "lookup"
  BY DEF GoesOn, Pends, Pending, R!InFlight
<1>2. DOMAIN sem = 1..Len(sem) /\ Len(sem) \in Nat /\ \A i \in DOMAIN sem : sem[i] \in R!Requests
  BY <1>0, RequestShapes
<1>3. RequestTypes'
  <2>1. \A i \in 1..Len(sem) : phase'[sem[i]] \in {"queued", "sent", "backoff", "lost"}
    <3>1. \A i \in 1..Len(sem) : phase[sem[i]] \in Pending
      BY <1>0 DEF RequestTypes, R!TypeOK, Pending
    <3>2. QED
      BY <1>1, <1>2, <3>1 DEF Pending, Pends
  <2>2. ASSUME NEW i \in 2..Len(sem)
        PROVE  phase'[sem[i]] = "queued"
    <3>1. phase[sem[i]] = "queued"
      BY <1>0 DEF RequestTypes, R!TypeOK
    <3>2. i \in DOMAIN sem /\ 1 \in DOMAIN sem /\ i # 1
      BY <1>2
    <3>3. sem[i] # sem[1] /\ sem[i] \in R!Requests
      BY <1>0, <1>2, <3>2 DEF SemInv
    <3>4. Head(sem) = sem[1]
      BY <1>0 DEF RequestTypes
    <3>5. phase'[sem[i]] # "sent"
      BY <3>1, <3>3, <3>4
    <3>6. QED
      BY <3>1, <3>3, <3>5 DEF GoesOn
  <2>3. \A q \in R!Requests : phase'[q] = "done" <=> outcome[q].kind # "none"
    BY <1>0, <1>1 DEF RequestTypes, R!TypeOK
  <2>4. QED
    BY <1>0, <2>1, <2>2, <2>3 DEF RequestTypes, R!TypeOK
<1>4. SemInv'
  BY <1>0, <1>1 DEF SemInv
<1>5. CacheInv'
  <2>1. SUFFICES ASSUME NEW p \in R!Requests \ Uncached, ~Excused(Key[p])'
                 PROVE  /\ R!InFlight(p)' => requestCache'[Key[p]] = p
                        /\ phase'[p] = "lookup" =>
                             \A q \in R!Requests \ Uncached :
                               Key[q] = Key[p] /\ q # p =>
                                 phase'[q] # "lookup" /\ ~R!InFlight(q)'
    BY DEF CacheInv
  <2>2. ~Excused(Key[p]) /\ Key[p] \notin refused' /\ Key[p] \in R!RequestKeys
    BY <1>0, <2>1, RequestShapes DEF Excused
  <2>3. /\ R!InFlight(p) => requestCache[Key[p]] = p
        /\ phase[p] = "lookup" =>
             \A q \in R!Requests \ Uncached :
               Key[q] = Key[p] /\ q # p => phase[q] # "lookup" /\ ~R!InFlight(q)
    BY <1>0, <2>2 DEF CacheInv
  <2>4. QED
    BY <1>1, <2>2, <2>3
<1>6. PromiseInv'
  <2>1. ASSUME NEW k \in R!RequestKeys, requestCache'[k] # None
        PROVE  /\ Key[requestCache'[k]] = k
               /\ phase'[requestCache'[k]] \in Pending \/ phase'[requestCache'[k]] = "done"
               /\ transport' # "provider" => phase'[requestCache'[k]] # "done"
    <3>1. requestCache'[k] = requestCache[k] /\ requestCache[k] \in R!Requests
      BY <1>0, <2>1, RequestShapes
    <3>2. QED
      BY <1>0, <1>1, <2>1, <3>1 DEF PromiseInv
  <2>2. ASSUME NEW q \in R!Requests, phase'[q] = "joined"
        PROVE  on'[q] \in R!Requests /\ phase'[on'[q]] \in Pending /\ on'[q] \notin before'[q]
    BY <1>0, <1>1, <2>2 DEF PromiseInv
  <2>3. \A q \in R!Requests : q \notin before'[q]
    BY <1>0 DEF PromiseInv
  <2>4. QED
    BY <2>1, <2>2, <2>3 DEF PromiseInv, Pends
<1>7. R!ErrorsAreNotCachedByUrl'
  BY <1>0 DEF R!ErrorsAreNotCachedByUrl, R!ErrorsAreNotCached
<1>8. QED
  BY <1>3, <1>4, <1>5, <1>6, <1>7 DEF RequestInv

(***************************************************************************)
(* Nothing is cached, so the request looks in the persistent cache.  If     *)
(* another does so the key is excused from now on.                          *)
(***************************************************************************)
LEMMA LookStep ==
  ASSUME RequestInv, NEW r \in R!Requests,
         phase[r] \in {"idle", "opening"}, r \notin Uncached,
         requestCache[Key[r]] = None,
         UNCHANGED <<transport, fork, open, on, outcome, requestCache, valueCache, disk, sem,
                     refused>>,
         phase' = [phase EXCEPT ![r] = "lookup"],
         raced' = IF \E p \in R!Requests : phase[p] = "lookup" /\ Key[p] = Key[r]
                  THEN raced \cup {Key[r]} ELSE raced,
         before' \in [R!Requests -> SUBSET R!Requests],
         \A q \in R!Requests : q # r => before'[q] = before[q],
         r \notin before'[r]
  PROVE  RequestInv'
<1>0. /\ RequestTypes /\ SemInv /\ CacheInv /\ PromiseInv /\ R!ErrorsAreNotCachedByUrl
      /\ None \notin R!Requests
  BY RequestsAssumption DEF RequestInv
<1>1. /\ phase' \in [R!Requests -> R!Phases]
      /\ phase'[r] = "lookup"
      /\ \A q \in R!Requests : q # r => phase'[q] = phase[q]
      /\ outcome[r].kind = "none" /\ ~Pends(r)
  BY <1>0 DEF RequestTypes, R!TypeOK, R!Phases, Pends, Pending
<1>2. \A i \in DOMAIN sem : sem[i] # r /\ sem[i] \in R!Requests
  BY <1>0, <1>1, RequestShapes DEF RequestTypes, R!TypeOK, Pends, Pending
<1>3. RequestTypes'
  <2>1. DOMAIN sem = 1..Len(sem) /\ Len(sem) \in Nat
    BY <1>0, RequestShapes
  <2>2. \A i \in DOMAIN sem : phase'[sem[i]] = phase[sem[i]]
    BY <1>1, <1>2
  <2>3. \A q \in R!Requests : phase'[q] = "done" <=> outcome[q].kind # "none"
    BY <1>0, <1>1 DEF RequestTypes, R!TypeOK
  <2>4. \A i \in 2..Len(sem) : i \in DOMAIN sem
    BY <2>1
  <2>5. QED
    BY <1>0, <1>1, <2>1, <2>2, <2>3, <2>4 DEF RequestTypes, R!TypeOK
<1>4. SemInv'
  BY <1>0, <1>1 DEF SemInv, R!InFlight
<1>5. CacheInv'
  <2>1. SUFFICES ASSUME NEW p \in R!Requests \ Uncached, ~Excused(Key[p])'
                 PROVE  /\ R!InFlight(p)' => requestCache[Key[p]] = p
                        /\ phase'[p] = "lookup" =>
                             \A q \in R!Requests \ Uncached :
                               Key[q] = Key[p] /\ q # p =>
                                 phase'[q] # "lookup" /\ ~R!InFlight(q)'
    BY DEF CacheInv
  <2>2. ~Excused(Key[p])
    BY <2>1 DEF Excused
  <2>3. /\ R!InFlight(p) => requestCache[Key[p]] = p
        /\ phase[p] = "lookup" =>
             \A q \in R!Requests \ Uncached :
               Key[q] = Key[p] /\ q # p => phase[q] # "lookup" /\ ~R!InFlight(q)
    BY <1>0, <2>2 DEF CacheInv
  <2>4. \A q \in R!Requests : R!InFlight(q)' => R!InFlight(q) /\ q # r
    BY <1>1 DEF R!InFlight
  <2>5. CASE Key[p] # Key[r]
    BY <1>1, <2>3, <2>4, <2>5
  <2>6. CASE Key[p] = Key[r]
    <3>1. \A q \in R!Requests : Key[q] = Key[r] => phase[q] # "lookup"
      BY <2>1, <2>6 DEF Excused
    <3>2. ASSUME NEW q \in R!Requests \ Uncached, Key[q] = Key[r]
          PROVE  ~R!InFlight(q)
      <4>1. R!InFlight(q) => requestCache[Key[q]] = q
        BY <1>0, <2>2, <2>6, <3>2 DEF CacheInv
      <4>2. QED
        BY <1>0, <3>2, <4>1
    <3>3. QED
      BY <1>1, <2>4, <2>6, <3>1, <3>2
  <2>7. QED
    BY <2>5, <2>6
<1>6. PromiseInv'
  <2>1. ASSUME NEW k \in R!RequestKeys, requestCache[k] # None
        PROVE  /\ Key[requestCache[k]] = k
               /\ phase'[requestCache[k]] \in Pending \/ phase'[requestCache[k]] = "done"
               /\ transport # "provider" => phase'[requestCache[k]] # "done"
    <3>1. requestCache[k] \in R!Requests
      BY <1>0, <2>1, RequestShapes
    <3>2. /\ Key[requestCache[k]] = k
          /\ Pends(requestCache[k]) \/ phase[requestCache[k]] = "done"
          /\ transport # "provider" => phase[requestCache[k]] # "done"
      BY <1>0, <2>1 DEF PromiseInv
    <3>3. requestCache[k] # r
      BY <1>1, <3>2
    <3>4. QED
      BY <1>1, <3>1, <3>2, <3>3 DEF Pends
  <2>2. ASSUME NEW q \in R!Requests, phase'[q] = "joined"
        PROVE  on[q] \in R!Requests /\ phase'[on[q]] \in Pending /\ on[q] \notin before'[q]
    <3>1. q # r /\ phase[q] = "joined"
      BY <1>1, <2>2
    <3>2. on[q] \in R!Requests /\ Pends(on[q]) /\ on[q] \notin before[q]
      BY <1>0, <3>1 DEF PromiseInv
    <3>3. QED
      BY <1>1, <3>1, <3>2 DEF Pends
  <2>3. \A q \in R!Requests : q \notin before'[q]
    BY <1>0 DEF PromiseInv
  <2>4. QED
    BY <2>1, <2>2, <2>3 DEF PromiseInv, Pends
<1>7. R!ErrorsAreNotCachedByUrl'
  BY <1>0, <1>1 DEF R!ErrorsAreNotCachedByUrl, R!ErrorsAreNotCached
<1>8. QED
  BY <1>3, <1>4, <1>5, <1>6, <1>7 DEF RequestInv

(***************************************************************************)
(* The request awaits the promise of one that is under way.                 *)
(***************************************************************************)
LEMMA JoinStep ==
  ASSUME RequestInv, NEW r \in R!Requests, NEW p \in R!Requests,
         phase[r] \in {"idle", "opening"},
         requestCache[Key[r]] = p, outcome[p].kind = "none",
         UNCHANGED <<transport, fork, open, outcome, requestCache, valueCache, disk, sem, raced,
                     refused>>,
         phase' = [phase EXCEPT ![r] = "joined"],
         on' = [on EXCEPT ![r] = p],
         before' \in [R!Requests -> SUBSET R!Requests],
         \A q \in R!Requests : q # r => before'[q] = before[q],
         r \notin before'[r], p \notin before'[r]
  PROVE  RequestInv'
<1>0. /\ RequestTypes /\ SemInv /\ CacheInv /\ PromiseInv /\ R!ErrorsAreNotCachedByUrl
      /\ None \notin R!Requests
  BY RequestsAssumption DEF RequestInv
<1>1. /\ phase' \in [R!Requests -> R!Phases]
      /\ phase'[r] = "joined"
      /\ \A q \in R!Requests : q # r => phase'[q] = phase[q]
      /\ on' \in [R!Requests -> R!Requests \cup {None}]
      /\ on'[r] = p
      /\ \A q \in R!Requests : q # r => on'[q] = on[q]
      /\ outcome[r].kind = "none" /\ ~Pends(r)
  BY <1>0 DEF RequestTypes, R!TypeOK, R!Phases, Pends, Pending
<1>2. \A i \in DOMAIN sem : sem[i] # r /\ sem[i] \in R!Requests
  BY <1>0, <1>1, RequestShapes DEF RequestTypes, R!TypeOK, Pends, Pending
<1>3. RequestTypes'
  <2>1. DOMAIN sem = 1..Len(sem) /\ Len(sem) \in Nat
    BY <1>0, RequestShapes
  <2>2. \A i \in DOMAIN sem : phase'[sem[i]] = phase[sem[i]]
    BY <1>1, <1>2
  <2>3. \A q \in R!Requests : phase'[q] = "done" <=> outcome[q].kind # "none"
    BY <1>0, <1>1 DEF RequestTypes, R!TypeOK
  <2>4. \A i \in 2..Len(sem) : i \in DOMAIN sem
    BY <2>1
  <2>5. QED
    BY <1>0, <1>1, <2>1, <2>2, <2>3, <2>4 DEF RequestTypes, R!TypeOK
<1>4. SemInv'
  BY <1>0, <1>1 DEF SemInv, R!InFlight
<1>5. CacheInv'
  <2>1. \A q \in R!Requests : /\ R!InFlight(q)' => R!InFlight(q)
                              /\ phase'[q] = "lookup" => phase[q] = "lookup"
    BY <1>1 DEF R!InFlight
  <2>2. QED
    BY <1>0, <2>1 DEF CacheInv, Excused
<1>6. Pends(p)
  <2>1. Key[r] \in R!RequestKeys /\ requestCache[Key[r]] # None
    BY <1>0, RequestShapes
  <2>2. phase[p] # "done"
    BY <1>0 DEF RequestTypes, R!TypeOK
  <2>3. QED
    BY <1>0, <2>1, <2>2 DEF PromiseInv
<1>7. PromiseInv'
  <2>1. \A q \in R!Requests : Pends(q) => phase'[q] \in Pending
    BY <1>1 DEF Pends
  <2>2. ASSUME NEW k \in R!RequestKeys, requestCache[k] # None
        PROVE  /\ Key[requestCache[k]] = k
               /\ phase'[requestCache[k]] \in Pending \/ phase'[requestCache[k]] = "done"
               /\ transport # "provider" => phase'[requestCache[k]] # "done"
    <3>1. requestCache[k] \in R!Requests
      BY <1>0, <2>2, RequestShapes
    <3>2. /\ Key[requestCache[k]] = k
          /\ Pends(requestCache[k]) \/ phase[requestCache[k]] = "done"
          /\ transport # "provider" => phase[requestCache[k]] # "done"
      BY <1>0, <2>2 DEF PromiseInv
    <3>3. requestCache[k] # r
      BY <1>1, <3>2
    <3>4. QED
      BY <1>1, <3>1, <3>2, <3>3 DEF Pends
  <2>3. ASSUME NEW q \in R!Requests, phase'[q] = "joined"
        PROVE  on'[q] \in R!Requests /\ phase'[on'[q]] \in Pending /\ on'[q] \notin before'[q]
    <3>1. CASE q = r
      BY <1>1, <1>6, <2>1, <3>1
    <3>2. CASE q # r
      <4>1. phase[q] = "joined" /\ on'[q] = on[q]
        BY <1>1, <2>3, <3>2
      <4>2. on[q] \in R!Requests /\ Pends(on[q]) /\ on[q] \notin before[q]
        BY <1>0, <4>1 DEF PromiseInv
      <4>3. QED
        BY <2>1, <3>2, <4>1, <4>2
    <3>3. QED
      BY <3>1, <3>2
  <2>4. \A q \in R!Requests : q \notin before'[q]
    BY <1>0 DEF PromiseInv
  <2>5. QED
    BY <2>2, <2>3, <2>4 DEF PromiseInv, Pends
<1>8. R!ErrorsAreNotCachedByUrl'
  BY <1>0, <1>1 DEF R!ErrorsAreNotCachedByUrl, R!ErrorsAreNotCached
<1>9. QED
  BY <1>3, <1>4, <1>5, <1>7, <1>8 DEF RequestInv


(***************************************************************************)
(* The connection fails: who awaited it is answered with its error.         *)
(***************************************************************************)
LEMMA ConnectFailsStep ==
  ASSUME RequestInv, R!ConnectFails
  PROVE  RequestInv'
<1>0. /\ RequestTypes /\ SemInv /\ CacheInv /\ PromiseInv /\ R!ErrorsAreNotCachedByUrl
      /\ None \notin R!Requests
  BY RequestsAssumption DEF RequestInv
<1>1. UNCHANGED <<transport, fork, on, requestCache, valueCache, disk, sem, before, raced,
                  refused>> /\ open' = "gone"
  BY DEF R!ConnectFails, R!caches, R!history
<1>2. /\ \A q \in R!Requests : phase[q] = "opening" =>
           phase'[q] = "done" /\ outcome'[q] = [kind |-> "error", by |-> q]
      /\ \A q \in R!Requests : phase[q] # "opening" =>
           phase'[q] = phase[q] /\ outcome'[q] = outcome[q]
      /\ phase' \in [R!Requests -> R!Phases]
      /\ outcome' \in [R!Requests -> Reply]
  <2>1. /\ phase' = [q \in R!Requests |->
                      IF q \in {p \in R!Requests : phase[p] = "opening"}
                      THEN "done" ELSE phase[q]]
        /\ outcome' = [q \in R!Requests |->
                        IF q \in {p \in R!Requests : phase[p] = "opening"}
                        THEN [kind |-> "error", by |-> q] ELSE outcome[q]]
    BY DEF R!ConnectFails, R!Answer
  <2>2. \A q \in R!Requests :
          /\ phase[q] \in R!Phases /\ outcome[q] \in Reply
          /\ [kind |-> "error", by |-> q] \in Reply
    BY <1>0, RequestShapes DEF Reply
  <2>3. "done" \in R!Phases
    BY DEF R!Phases
  <2>4. QED
    BY <2>1, <2>2, <2>3
<1>3. \A q \in R!Requests :
        /\ Pends(q) => phase'[q] \in Pending
        /\ R!InFlight(q)' => R!InFlight(q)
        /\ phase'[q] = "joined" => phase[q] = "joined"
        /\ phase'[q] = "lookup" => phase[q] = "lookup"
  BY <1>2 DEF Pends, Pending, R!InFlight
<1>4. RequestTypes'
  <2>1. DOMAIN sem = 1..Len(sem) /\ Len(sem) \in Nat
    BY <1>0, RequestShapes
  <2>2. \A i \in DOMAIN sem : phase'[sem[i]] = phase[sem[i]]
    <3>1. \A i \in DOMAIN sem : phase[sem[i]] # "opening" /\ sem[i] \in R!Requests
      BY <1>0, <2>1, RequestShapes DEF RequestTypes, R!TypeOK
    <3>2. QED
      BY <1>2, <3>1
  <2>3. \A q \in R!Requests : phase'[q] = "done" <=> outcome'[q].kind # "none"
    BY <1>0, <1>2 DEF RequestTypes, R!TypeOK
  <2>4. \A i \in 2..Len(sem) : i \in DOMAIN sem
    BY <2>1
  <2>5. QED
    BY <1>0, <1>1, <1>2, <2>1, <2>2, <2>3, <2>4 DEF RequestTypes, R!TypeOK
<1>5. SemInv'
  BY <1>0, <1>1, <1>3 DEF SemInv
<1>6. CacheInv'
  BY <1>0, <1>1, <1>3 DEF CacheInv, Excused
<1>7. PromiseInv'
  <2>1. ASSUME NEW k \in R!RequestKeys, requestCache'[k] # None
        PROVE  /\ Key[requestCache'[k]] = k
               /\ phase'[requestCache'[k]] \in Pending \/ phase'[requestCache'[k]] = "done"
               /\ transport' # "provider" => phase'[requestCache'[k]] # "done"
    <3>1. requestCache'[k] = requestCache[k] /\ requestCache[k] \in R!Requests
      BY <1>0, <1>1, <2>1, RequestShapes
    <3>2. /\ Key[requestCache[k]] = k
          /\ Pends(requestCache[k]) \/ phase[requestCache[k]] = "done"
          /\ transport # "provider" => phase[requestCache[k]] # "done"
      BY <1>0, <2>1, <3>1 DEF PromiseInv
    <3>3. phase[requestCache[k]] # "opening"
      BY <3>2 DEF Pends, Pending
    <3>4. QED
      BY <1>1, <1>2, <3>1, <3>2, <3>3 DEF Pends
  <2>2. ASSUME NEW q \in R!Requests, phase'[q] = "joined"
        PROVE  on'[q] \in R!Requests /\ phase'[on'[q]] \in Pending /\ on'[q] \notin before'[q]
    BY <1>0, <1>1, <1>3, <2>2 DEF PromiseInv
  <2>3. \A q \in R!Requests : q \notin before'[q]
    BY <1>0, <1>1 DEF PromiseInv
  <2>4. QED
    BY <2>1, <2>2, <2>3 DEF PromiseInv, Pends
<1>8. R!ErrorsAreNotCachedByUrl'
  <2>1. SUFFICES ASSUME transport # "provider",
                        NEW q \in R!Requests, outcome'[q].kind = "error"
                 PROVE  outcome'[q].by \notin before[q]
    BY <1>1 DEF R!ErrorsAreNotCachedByUrl, R!ErrorsAreNotCached
  <2>2. CASE phase[q] = "opening"
    BY <1>0, <1>2, <2>2 DEF PromiseInv
  <2>3. CASE phase[q] # "opening"
    BY <1>0, <1>2, <2>1, <2>3 DEF R!ErrorsAreNotCachedByUrl, R!ErrorsAreNotCached
  <2>4. QED
    BY <2>2, <2>3
<1>9. QED
  BY <1>4, <1>5, <1>6, <1>7, <1>8 DEF RequestInv

(***************************************************************************)
(* queueRequest up to its first await, in each of its four ways.            *)
(***************************************************************************)
LEMMA EnterStep ==
  ASSUME RequestInv, NEW r \in R!Requests, phase[r] \in {"idle", "opening"},
         R!Enter(r), UNCHANGED R!life
  PROVE  RequestInv'
<1>0. RequestTypes /\ PromiseInv /\ None \notin R!Requests
  BY RequestsAssumption DEF RequestInv
<1>1. UNCHANGED <<transport, fork, open, valueCache, disk, refused>>
  BY DEF R!Enter, R!life
<1>2. /\ before' = [before EXCEPT ![r] = R!FailedFor(Key[r])]
      /\ outcome[r].kind = "none"
      /\ Key[r] \in R!RequestKeys
      /\ before \in [R!Requests -> SUBSET R!Requests]
      /\ R!FailedFor(Key[r]) \subseteq R!Requests
      /\ r \notin R!FailedFor(Key[r])
  <2>1. outcome[r].kind = "none"
    BY <1>0 DEF RequestTypes, R!TypeOK
  <2>2. before' = [before EXCEPT ![r] = R!FailedFor(Key[r])]
    BY DEF R!Enter
  <2>3. QED
    BY <1>0, <2>1, <2>2, RequestShapes DEF R!FailedFor, RequestTypes
<1>3. /\ before' \in [R!Requests -> SUBSET R!Requests]
      /\ \A q \in R!Requests : q # r => before'[q] = before[q]
      /\ before'[r] = R!FailedFor(Key[r])
      /\ r \notin before'[r]
  BY <1>2
<1>4. CASE r \in Uncached
  <2>1. /\ phase' = [phase EXCEPT ![r] = "queued"]
        /\ sem' = Append(sem, r)
        /\ requestCache' = [requestCache EXCEPT ![Key[r]] = r]
        /\ UNCHANGED <<on, outcome, raced>>
    BY <1>4 DEF R!Enter
  <2>2. QED
    BY <1>1, <1>3, <1>4, <2>1, QueueStep
<1>5. CASE r \notin Uncached /\ requestCache[Key[r]] # None
  <2>0. UNCHANGED <<sem, requestCache, raced>>
    BY <1>5 DEF R!Enter, R!CachedRequest
  <2>1. PICK p \in R!Requests : p = requestCache[Key[r]]
    BY <1>0, <1>2, <1>5, RequestShapes
  <2>2. CASE outcome[p].kind = "none"
    <3>1. /\ phase' = [phase EXCEPT ![r] = "joined"]
          /\ on' = [on EXCEPT ![r] = p]
          /\ UNCHANGED outcome
      BY <1>5, <2>1, <2>2 DEF R!Enter, R!CachedRequest
    <3>2. p \notin before'[r]
      BY <1>3, <2>2 DEF R!FailedFor
    <3>3. QED
      BY <1>1, <1>3, <2>0, <2>1, <2>2, <3>1, <3>2, JoinStep
  <2>3. CASE outcome[p].kind # "none"
    <3>1. R!Settle(r, outcome[p]) /\ UNCHANGED on
      BY <1>5, <2>1, <2>3 DEF R!Enter, R!CachedRequest
    <3>2. transport = "provider"
      <4>1. phase[p] = "done"
        BY <1>0, <2>3 DEF RequestTypes, R!TypeOK
      <4>2. QED
        BY <1>0, <1>2, <1>5, <2>1, <4>1 DEF PromiseInv
    <3>3. outcome[p] \in Reply
      BY <1>0, RequestShapes
    <3>4. /\ phase[r] # "sent" /\ phase[r] \in {"idle", "opening", "lookup", "sent"}
          /\ valueCache' \in [R!RequestKeys -> Result \cup {None}]
          /\ disk' \in [R!RequestKeys -> Result \cup {None}]
      BY <1>0, <1>1 DEF RequestTypes
    <3>5. QED
      BY <1>1, <1>3, <2>0, <2>3, <3>1, <3>2, <3>3, <3>4, SettleStep
  <2>4. QED
    BY <2>2, <2>3
<1>6. CASE r \notin Uncached /\ requestCache[Key[r]] = None /\ valueCache[Key[r]] # None
  <2>1. R!Settle(r, valueCache[Key[r]]) /\ UNCHANGED <<on, sem, requestCache, raced>>
    BY <1>6 DEF R!Enter, R!CachedRequest
  <2>2. valueCache[Key[r]] \in Result
    BY <1>0, <1>2, <1>6 DEF RequestTypes
  <2>3. valueCache[Key[r]] \in Reply /\ valueCache[Key[r]].kind = "result"
    BY <2>2 DEF Result, Reply
  <2>4. /\ phase[r] # "sent" /\ phase[r] \in {"idle", "opening", "lookup", "sent"}
        /\ valueCache' \in [R!RequestKeys -> Result \cup {None}]
        /\ disk' \in [R!RequestKeys -> Result \cup {None}]
    BY <1>0, <1>1 DEF RequestTypes
  <2>5. valueCache[Key[r]].kind # "none" /\ valueCache[Key[r]].kind # "error"
    BY <2>3
  <2>6. QED
    BY <1>1, <1>3, <2>1, <2>3, <2>4, <2>5, SettleStep
<1>7. CASE r \notin Uncached /\ requestCache[Key[r]] = None /\ valueCache[Key[r]] = None
  <2>1. /\ phase' = [phase EXCEPT ![r] = "lookup"]
        /\ raced' = IF \E p \in R!Requests : phase[p] = "lookup" /\ Key[p] = Key[r]
                    THEN raced \cup {Key[r]} ELSE raced
        /\ UNCHANGED <<on, outcome, sem, requestCache>>
    BY <1>7 DEF R!Enter, R!CachedRequest
  <2>2. QED
    BY <1>1, <1>3, <1>7, <2>1, LookStep
<1>8. QED
  BY <1>4, <1>5, <1>6, <1>7

-----------------------------------------------------------------------------
(***************************************************************************)
(* Every action of ForkRequests keeps the invariant.                        *)
(***************************************************************************)
LEMMA RequestKeeps ==
  ASSUME RequestInv, NEW r \in R!Requests, R!Request(r)
  PROVE  RequestInv'
<1>1. phase[r] = "idle" /\ UNCHANGED R!life
  BY DEF R!Request
<1>2. CASE open = "open"
  <2>1. R!Enter(r)
    BY <1>2 DEF R!Request
  <2>2. QED
    BY <1>1, <2>1, EnterStep
<1>3. CASE open # "open"
  <2>1. /\ phase' = [phase EXCEPT ![r] = "opening"]
        /\ UNCHANGED <<transport, fork, open, on, outcome, requestCache, valueCache, disk, sem,
                       before, raced, refused>>
    BY <1>3 DEF R!Request, R!life, R!caches, R!history
  <2>2. RequestTypes
    BY DEF RequestInv
  <2>3. /\ phase' \in [R!Requests -> R!Phases]
        /\ phase'[r] = "opening"
        /\ \A q \in R!Requests : q # r => phase'[q] = phase[q]
    BY <2>1, <2>2 DEF RequestTypes, R!TypeOK, R!Phases
  <2>4. /\ \A q \in R!Requests : GoesOn(phase[q], phase'[q])
        /\ \A q \in R!Requests : phase'[q] = "sent" /\ phase[q] # "sent" => Head(sem) = q
    BY <1>1, <2>3 DEF GoesOn
  <2>5. QED
    BY <2>1, <2>2, <2>3, <2>4, MoveStep DEF RequestTypes, R!TypeOK
<1>4. QED
  BY <1>2, <1>3

LEMMA LookedUpKeeps ==
  ASSUME RequestInv, NEW r \in R!Requests, R!LookedUp(r)
  PROVE  RequestInv'
<1>0. RequestTypes /\ PromiseInv /\ Key[r] \in R!RequestKeys
  BY RequestShapes DEF RequestInv
<1>1. /\ phase[r] = "lookup"
      /\ UNCHANGED <<transport, fork, open, on, disk, before, raced, refused>>
  BY DEF R!LookedUp, R!life, R!history
<1>2. /\ disk \in [R!RequestKeys -> Result \cup {None}]
      /\ valueCache \in [R!RequestKeys -> Result \cup {None}]
      /\ before \in [R!Requests -> SUBSET R!Requests]
      /\ r \notin before[r]
  BY <1>0 DEF RequestTypes, PromiseInv
<1>3. CASE attached /\ closing = "closed"
  <2>1. R!Settle(r, R!Answer("error", r)) /\ UNCHANGED <<valueCache, requestCache, sem>>
    BY <1>3 DEF R!LookedUp, R!Found
  <2>2. /\ R!Answer("error", r) \in Reply
        /\ R!Answer("error", r).kind = "error" /\ R!Answer("error", r).by = r
    BY DEF R!Answer, Reply
  <2>3. QED
    BY <1>1, <1>2, <2>1, <2>2, SettleStep
<1>4. CASE R!Found(r)
  <2>1. /\ valueCache' = [valueCache EXCEPT ![Key[r]] = disk[Key[r]]]
        /\ R!Settle(r, disk[Key[r]])
        /\ UNCHANGED <<requestCache, sem>>
    BY <1>4 DEF R!LookedUp, R!Found
  <2>2. disk[Key[r]] \in Result
    BY <1>0, <1>2, <1>4 DEF R!Found
  <2>3. disk[Key[r]] \in Reply /\ disk[Key[r]].kind = "result"
    BY <2>2 DEF Result, Reply
  <2>4. disk[Key[r]].kind # "none" /\ disk[Key[r]].kind # "error"
    BY <2>3
  <2>5. valueCache' \in [R!RequestKeys -> Result \cup {None}]
    BY <1>2, <2>1, <2>2
  <2>6. QED
    BY <1>1, <1>2, <2>1, <2>3, <2>4, <2>5, SettleStep
<1>5. CASE ~(attached /\ closing = "closed") /\ ~R!Found(r)
  <2>1. /\ sem' = Append(sem, r)
        /\ requestCache' = [requestCache EXCEPT ![Key[r]] = r]
        /\ phase' = [phase EXCEPT ![r] = "queued"]
        /\ UNCHANGED <<valueCache, outcome>>
    BY <1>5 DEF R!LookedUp
  <2>2. QED
    BY <1>1, <1>2, <2>1, QueueStep
<1>6. QED
  BY <1>3, <1>4, <1>5

LEMMA SendKeeps ==
  ASSUME RequestInv, NEW r \in R!Requests, R!Send(r)
  PROVE  RequestInv'
<1>0. RequestTypes
  BY DEF RequestInv
<1>1. /\ Head(sem) = r /\ phase[r] \in {"queued", "backoff"}
      /\ phase' = [phase EXCEPT ![r] = "sent"]
      /\ UNCHANGED <<transport, fork, open, on, outcome, requestCache, valueCache, disk, sem,
                     before, raced, refused>>
  BY DEF R!Send, R!life, R!caches, R!history
<1>2. /\ phase' \in [R!Requests -> R!Phases]
      /\ phase'[r] = "sent"
      /\ \A q \in R!Requests : q # r => phase'[q] = phase[q]
  BY <1>0, <1>1 DEF RequestTypes, R!TypeOK, R!Phases
<1>3. /\ \A q \in R!Requests : GoesOn(phase[q], phase'[q])
      /\ \A q \in R!Requests : phase'[q] = "sent" /\ phase[q] # "sent" => Head(sem) = q
  BY <1>1, <1>2 DEF GoesOn
<1>4. QED
  BY <1>0, <1>1, <1>2, <1>3, MoveStep DEF RequestTypes, R!TypeOK

LEMMA ReceiveKeeps ==
  ASSUME RequestInv, NEW r \in R!Requests, NEW kind \in {"result", "error"},
         R!Receive(r, kind)
  PROVE  RequestInv'
<1>0. RequestTypes /\ PromiseInv /\ Key[r] \in R!RequestKeys
  BY RequestShapes DEF RequestInv
<1>1. /\ phase[r] = "sent" /\ R!Forget(Key[r]) /\ sem' = Tail(sem)
      /\ R!Settle(r, R!Answer(kind, r))
      /\ UNCHANGED <<transport, fork, open, on, disk, before, raced, refused>>
  BY DEF R!Receive, R!Leave, R!life, R!history
<1>2. /\ disk \in [R!RequestKeys -> Result \cup {None}]
      /\ valueCache \in [R!RequestKeys -> Result \cup {None}]
      /\ before \in [R!Requests -> SUBSET R!Requests]
      /\ r \notin before[r]
  BY <1>0 DEF RequestTypes, PromiseInv
<1>3. /\ R!Answer(kind, r) \in Reply
      /\ R!Answer(kind, r).kind # "none" /\ R!Answer(kind, r).by = r
  BY DEF R!Answer, Reply
<1>4. valueCache' \in [R!RequestKeys -> Result \cup {None}]
  <2>1. R!Answer("result", r) \in Result
    BY DEF R!Answer, Result
  <2>2. \/ valueCache' = valueCache
        \/ valueCache' = [valueCache EXCEPT ![Key[r]] = R!Answer("result", r)]
    BY DEF R!Receive, R!Keep
  <2>3. QED
    BY <1>2, <2>1, <2>2
<1>5. QED
  BY <1>1, <1>2, <1>3, <1>4, SettleStep

LEMMA RefuseKeeps ==
  ASSUME RequestInv, NEW r \in R!Requests, R!Refuse(r)
  PROVE  RequestInv'
<1>0. RequestTypes /\ Key[r] \in R!RequestKeys
  BY RequestShapes DEF RequestInv
<1>1. /\ phase[r] = "sent" /\ R!Forget(Key[r])
      /\ phase' = [phase EXCEPT ![r] = "backoff"]
      /\ refused' = refused \cup {Key[r]}
      /\ UNCHANGED <<transport, fork, open, on, outcome, valueCache, disk, sem, before, raced>>
  BY DEF R!Refuse, R!life
<1>2. /\ phase' \in [R!Requests -> R!Phases]
      /\ phase'[r] = "backoff"
      /\ \A q \in R!Requests : q # r => phase'[q] = phase[q]
  BY <1>0, <1>1 DEF RequestTypes, R!TypeOK, R!Phases
<1>3. /\ \A q \in R!Requests : GoesOn(phase[q], phase'[q])
      /\ \A q \in R!Requests : phase'[q] = "sent" /\ phase[q] # "sent" => Head(sem) = q
  BY <1>1, <1>2 DEF GoesOn
<1>4. /\ requestCache' \in [R!RequestKeys -> R!Requests \cup {None}]
      /\ \A k \in R!RequestKeys :
           requestCache'[k] = requestCache[k] \/ (requestCache'[k] = None /\ k \in refused')
  <2>1. \/ requestCache' = requestCache
        \/ requestCache' = [requestCache EXCEPT ![Key[r]] = None]
    BY <1>1 DEF R!Forget
  <2>2. requestCache \in [R!RequestKeys -> R!Requests \cup {None}]
    BY <1>0 DEF RequestTypes, R!TypeOK
  <2>3. QED
    BY <1>0, <1>1, <2>1, <2>2
<1>5. refused \subseteq refused'
  BY <1>1
<1>6. /\ fork' \in {"starting", "ready", "failed"}
      /\ open' \in {"connecting", "open", "gone"}
      /\ disk' \in [R!RequestKeys -> Result \cup {None}]
  BY <1>0, <1>1 DEF RequestTypes, R!TypeOK
<1>7. QED
  BY <1>1, <1>2, <1>3, <1>4, <1>5, <1>6, MoveStep

\* What is sent may be lost: its body ends early, or the connection closes.
LEMMA LostKeeps ==
  ASSUME RequestInv,
         phase' \in [R!Requests -> R!Phases],
         \A q \in R!Requests :
           phase'[q] = phase[q] \/ (phase[q] = "sent" /\ phase'[q] = "lost"),
         UNCHANGED <<transport, on, outcome, requestCache, valueCache, sem, before, raced,
                     refused>>,
         fork' \in {"starting", "ready", "failed"},
         open' \in {"connecting", "open", "gone"},
         disk' \in [R!RequestKeys -> Result \cup {None}]
  PROVE  RequestInv'
<1>0. RequestTypes
  BY DEF RequestInv
<1>1. /\ \A q \in R!Requests : GoesOn(phase[q], phase'[q])
      /\ \A q \in R!Requests : phase'[q] = "sent" /\ phase[q] # "sent" => Head(sem) = q
  BY DEF GoesOn
<1>2. /\ requestCache' \in [R!RequestKeys -> R!Requests \cup {None}]
      /\ \A k \in R!RequestKeys : requestCache'[k] = requestCache[k]
      /\ refused \subseteq refused'
  BY <1>0 DEF RequestTypes, R!TypeOK
<1>3. QED
  BY <1>1, <1>2, MoveStep

LEMMA LoseAnswerKeeps ==
  ASSUME RequestInv, NEW r \in R!Requests, R!LoseAnswer(r)
  PROVE  RequestInv'
<1>0. RequestTypes
  BY DEF RequestInv
<1>1. /\ phase[r] = "sent" /\ phase' = [phase EXCEPT ![r] = "lost"]
      /\ UNCHANGED <<transport, fork, open, on, outcome, requestCache, valueCache, disk, sem,
                     before, raced, refused>>
  BY DEF R!LoseAnswer, R!life, R!caches, R!history
<1>2. /\ phase' \in [R!Requests -> R!Phases]
      /\ \A q \in R!Requests :
           phase'[q] = phase[q] \/ (phase[q] = "sent" /\ phase'[q] = "lost")
  BY <1>0, <1>1 DEF RequestTypes, R!TypeOK, R!Phases
<1>3. QED
  BY <1>0, <1>1, <1>2, LostKeeps DEF RequestTypes, R!TypeOK

LEMMA PutEndsKeeps ==
  ASSUME RequestInv, NEW r \in R!Requests, R!PutEnds(r)
  PROVE  RequestInv'
<1>0. RequestTypes /\ Key[r] \in R!RequestKeys
  BY RequestShapes DEF RequestInv
<1>1. UNCHANGED <<transport, fork, open, phase, on, outcome, requestCache, valueCache, sem,
                  before, raced, refused>>
  BY DEF R!PutEnds, R!life, R!history
<1>2. disk' \in [R!RequestKeys -> Result \cup {None}]
  <2>1. R!Answer("result", r) \in Result
    BY DEF R!Answer, Result
  <2>2. disk' = disk \/ disk' = [disk EXCEPT ![Key[r]] = R!Answer("result", r)]
    BY DEF R!PutEnds
  <2>3. QED
    BY <1>0, <2>1, <2>2 DEF RequestTypes
<1>3. QED
  BY <1>0, <1>1, <1>2, LostKeeps DEF RequestTypes, R!TypeOK

\* The requests in flight are lost when the connection closes.
LEMMA ClosedLoses ==
  ASSUME RequestTypes, phase' = R!Closed(phase) \/ phase' = phase
  PROVE  /\ phase' \in [R!Requests -> R!Phases]
         /\ \A q \in R!Requests :
              phase'[q] = phase[q] \/ (phase[q] = "sent" /\ phase'[q] = "lost")
BY DEF R!Closed, RequestTypes, R!TypeOK, R!Phases

LEMMA LifeKeeps ==
  ASSUME RequestInv,
         \/ R!Connected \/ R!Disconnected \/ R!Initialized \/ R!InitializeFails
         \/ R!Close \/ R!PutsAwaited
  PROVE  RequestInv'
<1>0. RequestTypes
  BY DEF RequestInv
<1>1. UNCHANGED <<transport, on, outcome, requestCache, valueCache, disk, sem, before, raced,
                  refused>>
  BY DEF R!Connected, R!Disconnected, R!Initialized, R!InitializeFails, R!Close,
         R!PutsAwaited, R!caches, R!history
<1>2. phase' = R!Closed(phase) \/ phase' = phase
  BY DEF R!Connected, R!Disconnected, R!Initialized, R!InitializeFails, R!Close,
         R!PutsAwaited
<1>3. fork' \in {"starting", "ready", "failed"} /\ open' \in {"connecting", "open", "gone"}
  <2>1. fork' \in {fork, "ready", "failed"} /\ open' \in {open, "open", "gone"}
    BY DEF R!Connected, R!Disconnected, R!Initialized, R!InitializeFails, R!Close,
           R!PutsAwaited
  <2>2. QED
    BY <1>0, <2>1 DEF RequestTypes, R!TypeOK
<1>4. disk' \in [R!RequestKeys -> Result \cup {None}]
  BY <1>0, <1>1 DEF RequestTypes
<1>5. QED
  BY <1>0, <1>1, <1>2, <1>3, <1>4, ClosedLoses, LostKeeps

LEMMA RequestInitially == R!Init => RequestInv
<1>1. SUFFICES ASSUME R!Init PROVE RequestInv
  OBVIOUS
<1>2. /\ \A r \in R!Requests : /\ phase[r] = "idle" /\ on[r] = None
                               /\ outcome[r] = R!NoAnswer /\ before[r] = {}
      /\ \A k \in R!RequestKeys : requestCache[k] = None /\ valueCache[k] = None
      /\ sem = <<>> /\ fork = "starting" /\ open \in {"connecting", "open"}
      /\ transport \in Transports
  BY <1>1 DEF R!Init
<1>3. /\ R!NoAnswer \in Reply /\ R!NoAnswer.kind = "none"
      /\ R!Answer("result", None) \in Result
  BY DEF R!NoAnswer, R!Answer, Reply, Result
<1>4. /\ outcome \in [R!Requests -> Reply]
      /\ before \in [R!Requests -> SUBSET R!Requests]
      /\ on \in [R!Requests -> R!Requests \cup {None}]
      /\ requestCache \in [R!RequestKeys -> R!Requests \cup {None}]
      /\ valueCache \in [R!RequestKeys -> Result \cup {None}]
      /\ disk \in [R!RequestKeys -> Result \cup {None}]
      /\ phase \in [R!Requests -> R!Phases]
  <2>1. disk \in [R!RequestKeys -> Result \cup {None}]
    BY <1>1, <1>3 DEF R!Init
  <2>2. phase \in [R!Requests -> R!Phases]
    BY <1>1 DEF R!Init, R!Phases
  <2>3. QED
    BY <1>1, <1>3, <2>1, <2>2 DEF R!Init
<1>5. /\ sem \in Seq(R!Requests) /\ DOMAIN sem = {} /\ Len(sem) = 0
      /\ 1..Len(sem) = {} /\ 2..Len(sem) = {}
  BY <1>2
<1>6. RequestTypes
  BY <1>2, <1>3, <1>4, <1>5 DEF RequestTypes, R!TypeOK
<1>7. SemInv
  BY <1>2, <1>5 DEF SemInv, R!InFlight
<1>8. CacheInv
  BY <1>2 DEF CacheInv, R!InFlight
<1>9. PromiseInv
  BY <1>2 DEF PromiseInv
<1>10. R!ErrorsAreNotCachedByUrl
  BY <1>2, <1>3 DEF R!ErrorsAreNotCachedByUrl, R!ErrorsAreNotCached
<1>11. QED
  BY <1>6, <1>7, <1>8, <1>9, <1>10 DEF RequestInv

(***************************************************************************)
(* The invariant: who is in flight holds the semaphore or waits for it, and *)
(* the caches know the promise of whoever is in flight, but for the keys    *)
(* that two looked up together or that were refused (BaseHandler and        *)
(* RateLimiter.handle, for any requests, keys, transports and refusals).    *)
(***************************************************************************)
THEOREM RequestInvariance == R!Spec => []RequestInv
<1>1. RequestInv /\ [R!Next]_R!vars => RequestInv'
  <2>1. SUFFICES ASSUME RequestInv, [R!Next]_R!vars PROVE RequestInv'
    OBVIOUS
  <2>2. ASSUME NEW r \in R!Requests,
               \/ R!Request(r) \/ R!Opened(r) \/ R!LookedUp(r) \/ R!Send(r)
               \/ R!Answers(r) \/ R!Refuse(r) \/ R!BodyEndsEarly(r) \/ R!AnswerIsDropped(r)
               \/ R!PutEnds(r)
        PROVE  RequestInv'
    <3>1. CASE R!Request(r)
      BY <2>1, <3>1, RequestKeeps
    <3>2. CASE R!Opened(r)
      <4>1. phase[r] = "opening" /\ R!Enter(r) /\ UNCHANGED R!life
        BY <3>2 DEF R!Opened
      <4>2. QED
        BY <2>1, <4>1, EnterStep
    <3>3. CASE R!LookedUp(r)
      BY <2>1, <3>3, LookedUpKeeps
    <3>4. CASE R!Send(r)
      BY <2>1, <3>4, SendKeeps
    <3>5. CASE R!Answers(r)
      <4>1. PICK kind \in {"result", "error"} : R!Receive(r, kind)
        BY <3>5 DEF R!Answers
      <4>2. QED
        BY <2>1, <4>1, ReceiveKeeps
    <3>6. CASE R!Refuse(r)
      BY <2>1, <3>6, RefuseKeeps
    <3>7. CASE R!BodyEndsEarly(r) \/ R!AnswerIsDropped(r)
      BY <2>1, <3>7, LoseAnswerKeeps DEF R!BodyEndsEarly, R!AnswerIsDropped
    <3>8. CASE R!PutEnds(r)
      BY <2>1, <3>8, PutEndsKeeps
    <3>9. QED
      BY <2>2, <3>1, <3>2, <3>3, <3>4, <3>5, <3>6, <3>7, <3>8
  <2>3. CASE R!ConnectFails
    BY <2>1, <2>3, ConnectFailsStep
  <2>4. CASE \/ R!Connected \/ R!Disconnected \/ R!Initialized \/ R!InitializeFails
             \/ R!Close \/ R!PutsAwaited
    BY <2>1, <2>4, LifeKeeps
  <2>5. CASE UNCHANGED R!vars
    <3>1. RequestTypes
      BY <2>1 DEF RequestInv
    <3>2. UNCHANGED <<transport, fork, open, phase, on, outcome, requestCache, valueCache, disk,
                      sem, before, raced, refused>>
      BY <2>5 DEF R!vars, R!life, R!caches, R!history
    <3>3. QED
      BY <2>1, <3>1, <3>2, LostKeeps DEF RequestTypes, R!TypeOK
  <2>6. QED
    BY <2>1, <2>2, <2>3, <2>4, <2>5 DEF R!Next
<1>2. QED
  BY <1>1, RequestInitially, PTL DEF R!Spec

(***************************************************************************)
(* RequestsAreSound, which the run checks: equal requests are in flight     *)
(* together only if they looked up the key together or it was refused, and  *)
(* by url nobody who asks after a failure is answered with that failure     *)
(* (queueRequest in base-handler.ts, and the finally of send()).            *)
(***************************************************************************)
THEOREM RequestsSound == R!Spec => []RequestsAreSound
<1>1. RequestInv => RequestsAreSound
  <2>1. SUFFICES ASSUME RequestInv PROVE RequestsAreSound
    OBVIOUS
  <2>2. RequestTypes /\ CacheInv /\ R!ErrorsAreNotCachedByUrl
    BY <2>1 DEF RequestInv
  <2>3. ASSUME NEW r \in R!Requests \ Uncached, NEW q \in R!Requests \ Uncached,
               r # q, Key[r] = Key[q], R!InFlight(r), R!InFlight(q)
        PROVE  Key[r] \in raced \cup refused
    <3>1. ~Excused(Key[r]) => requestCache[Key[r]] = r /\ requestCache[Key[q]] = q
      BY <2>2, <2>3 DEF CacheInv
    <3>2. QED
      BY <2>3, <3>1 DEF Excused
  <2>4. R!Coalesced
    BY <2>3 DEF R!Coalesced
  <2>5. QED
    BY <2>2, <2>4 DEF RequestsAreSound, R!RequestsAreSound, RequestTypes
<1>2. QED
  BY <1>1, RequestInvariance, PTL

-----------------------------------------------------------------------------
(***************************************************************************)
(* The cache on disk: what the tree of fork blocks is, for any tree of the *)
(* remote's blocks.                                                        *)
(***************************************************************************)

Nodes == [ancestor : Blocks \cup {None}, descendants : Seq(Blocks)]

\* The assumption, in the parts that are used.
LEMMA BranchesAre ==
  /\ Genesis \in Blocks /\ Tips \subseteq Blocks /\ None \notin Blocks
  /\ \A b \in Blocks :
       /\ Branch[b] \in Seq(Blocks) /\ Branch[b] # <<>> /\ Branch[b][1] = Genesis
       /\ Branch[b][Len(Branch[b])] = b
       /\ \A i \in DOMAIN Branch[b] : Branch[Branch[b][i]] = SubSeq(Branch[b], 1, i)
<1>. USE CacheAssumption
<1>1. Genesis \in Blocks /\ Tips \subseteq Blocks /\ None \notin Blocks
  OBVIOUS
<1>2. \A b \in Blocks : Branch[b] \in Seq(Blocks)
  OBVIOUS
<1>3. QED
  BY <1>1, <1>2

LEMMA BranchOf ==
  ASSUME NEW b \in Blocks
  PROVE  /\ Branch[b] \in Seq(Blocks) /\ P!Height(b) \in Nat /\ Len(Branch[b]) = P!Height(b) + 1
         /\ Branch[b][P!Height(b) + 1] = b
         /\ Branch[b][1] = Genesis
         /\ \A h \in 0 .. P!Height(b) : Branch[b][h + 1] \in Blocks
<1>1. Branch[b] \in Seq(Blocks) /\ Branch[b] # <<>>
  BY BranchesAre
<1>2. Len(Branch[b]) \in Nat /\ Len(Branch[b]) # 0
  BY <1>1, EmptySeq, LenProperties
<1>3. P!Height(b) \in Nat /\ Len(Branch[b]) = P!Height(b) + 1
  BY <1>2 DEF P!Height
<1>4. \A h \in 0 .. P!Height(b) : Branch[b][h + 1] \in Blocks
  BY <1>1, <1>3, ElementOfSeq
<1>5. QED
  BY <1>1, <1>3, <1>4, BranchesAre

\* A block of a branch ends the part of the branch up to it.
LEMMA Below ==
  ASSUME NEW t \in Blocks, NEW h \in 0 .. P!Height(t)
  PROVE  /\ P!Height(Branch[t][h + 1]) = h
         /\ \A k \in 0 .. h : Branch[Branch[t][h + 1]][k + 1] = Branch[t][k + 1]
<1>1. P!Height(t) \in Nat /\ Len(Branch[t]) = P!Height(t) + 1 /\ Branch[t] \in Seq(Blocks)
  BY BranchOf
<1>2. h + 1 \in DOMAIN Branch[t] /\ h \in Nat
  BY <1>1
<1>3. Branch[Branch[t][h + 1]] = SubSeq(Branch[t], 1, h + 1)
  BY <1>2, BranchesAre
<1>4. /\ Len(SubSeq(Branch[t], 1, h + 1)) = h + 1
      /\ \A k \in 0 .. h : SubSeq(Branch[t], 1, h + 1)[k + 1] = Branch[t][k + 1]
  BY <1>1, <1>2
<1>5. QED
  BY <1>2, <1>3, <1>4 DEF P!Height

LEMMA OnBranch ==
  ASSUME NEW b \in Blocks, NEW t \in Blocks
  PROVE  P!IsOnBranch(b, t) <=> P!Height(b) <= P!Height(t) /\ Branch[t][P!Height(b) + 1] = b
<1>1. None # b
  BY BranchesAre
<1>2. QED
  BY <1>1 DEF P!IsOnBranch, P!AtHeight

LEMMA OnOwnBranch ==
  ASSUME NEW b \in Blocks
  PROVE  P!IsOnBranch(b, b) /\ P!IsOnBranch(Genesis, b)
<1>1. P!Height(b) \in Nat /\ Branch[b][P!Height(b) + 1] = b /\ Branch[b][0 + 1] = Genesis
  BY BranchOf
<1>2. Genesis \in Blocks /\ P!Height(Genesis) = 0
  BY <1>1, Below, BranchesAre
<1>3. QED
  BY <1>1, <1>2, OnBranch

LEMMA HeightOfGenesis ==
  /\ Genesis \in Blocks /\ P!Height(Genesis) = 0
  /\ \A b \in Blocks : P!Height(b) = 0 => b = Genesis
<1>1. Genesis \in Blocks
  BY BranchesAre
<1>2. 0 \in 0 .. P!Height(Genesis) /\ Branch[Genesis][0 + 1] = Genesis
  BY <1>1, BranchOf
<1>3. P!Height(Genesis) = 0
  BY <1>1, <1>2, Below
<1>4. ASSUME NEW b \in Blocks, P!Height(b) = 0
      PROVE  b = Genesis
  BY <1>4, BranchOf
<1>5. QED
  BY <1>1, <1>3, <1>4

\* A branch through a block is that block's own up to its height.
LEMMA SharedBelow ==
  ASSUME NEW b \in Blocks, NEW t \in Blocks, P!IsOnBranch(b, t)
  PROVE  /\ P!Height(b) \in Nat /\ P!Height(t) \in Nat /\ P!Height(b) <= P!Height(t)
         /\ \A h \in 0 .. P!Height(b) : Branch[b][h + 1] = Branch[t][h + 1]
<1>1. P!Height(b) <= P!Height(t) /\ Branch[t][P!Height(b) + 1] = b
  BY OnBranch
<1>2. P!Height(b) \in Nat /\ P!Height(t) \in Nat
  BY BranchOf
<1>3. P!Height(b) \in 0 .. P!Height(t)
  BY <1>1, <1>2
<1>4. QED
  BY <1>1, <1>2, <1>3, Below

LEMMA Transitive ==
  ASSUME NEW a \in Blocks, NEW b \in Blocks, NEW c \in Blocks,
         P!IsOnBranch(a, b), P!IsOnBranch(b, c)
  PROVE  P!IsOnBranch(a, c)
<1>1. P!Height(a) <= P!Height(b) /\ Branch[b][P!Height(a) + 1] = a /\ P!Height(a) \in Nat
  BY OnBranch, BranchOf
<1>2. Branch[b][P!Height(a) + 1] = Branch[c][P!Height(a) + 1] /\ P!Height(a) <= P!Height(c)
  BY <1>1, SharedBelow
<1>3. QED
  BY <1>1, <1>2, OnBranch

(***************************************************************************)
(* Of two blocks of one branch the lower one is on the branch of the       *)
(* other.                                                                  *)
(***************************************************************************)
LEMMA Linear ==
  ASSUME NEW a \in Blocks, NEW b \in Blocks, NEW c \in Blocks,
         P!IsOnBranch(a, c), P!IsOnBranch(b, c), P!Height(a) <= P!Height(b)
  PROVE  P!IsOnBranch(a, b) /\ (P!Height(a) = P!Height(b) => a = b)
<1>1. Branch[c][P!Height(a) + 1] = a /\ Branch[c][P!Height(b) + 1] = b /\ P!Height(a) \in Nat
  BY OnBranch, BranchOf
<1>2. Branch[b][P!Height(a) + 1] = Branch[c][P!Height(a) + 1]
  BY <1>1, SharedBelow
<1>3. QED
  BY <1>1, <1>2, OnBranch
(***************************************************************************)
(* The least element of a set of numbers, from the well-foundedness of     *)
(* strict inclusion on the initial segments of the numbers.                *)
(***************************************************************************)
LEMMA LeastElement ==
  ASSUME NEW A \in SUBSET Nat, A # {}
  PROVE  \E n \in A : \A k \in A : n <= k
<1>1. PICK m \in A : TRUE
  OBVIOUS
<1> DEFINE U == 0..m
           Segments == {0..n : n \in A \cap U}
<1>2. IsFiniteSet(U)
  BY FS_Interval
<1>3. IsWellFoundedOn(StrictSubsetOrdering(U), SUBSET U)
  BY <1>2, FS_StrictSubsetOrderingWellFounded, FS_FiniteSubsetsOfFinite
<1>4. Segments \subseteq SUBSET U /\ Segments # {}
  BY <1>1
<1>5. PICK x \in Segments : \A y \in Segments : ~ (<<y, x>> \in StrictSubsetOrdering(U))
  BY <1>3, <1>4, WFMin
<1>6. PICK n \in A \cap U : x = 0..n
  OBVIOUS
<1>7. ASSUME NEW k \in A, k < n
      PROVE  FALSE
  <2>1. k \in A \cap U /\ 0..k \in Segments
    BY <1>6, <1>7
  <2>2. 0..k \subseteq 0..n /\ 0..k # 0..n
    BY <1>6, <1>7
  <2>3. <<0..k, 0..n>> \in StrictSubsetOrdering(U)
    BY <1>4, <1>6, <2>1, <2>2 DEF StrictSubsetOrdering
  <2>4. QED
    BY <1>5, <1>6, <2>1, <2>3
<1>8. QED
  BY <1>6, <1>7

(***************************************************************************)
(* A property of the numbers that passes from all smaller ones to each.    *)
(***************************************************************************)
LEMMA StrongInduction ==
  ASSUME NEW Bad \in SUBSET Nat, \A n \in Bad : \E k \in Bad : k < n
  PROVE  Bad = {}
<1> SUFFICES ASSUME Bad # {} PROVE FALSE
  OBVIOUS
<1>1. PICK n \in Bad : \A k \in Bad : n <= k
  BY LeastElement
<1>2. PICK k \in Bad : k < n
  OBVIOUS
<1>3. QED
  BY <1>1, <1>2


LEMMA ToSetOfAppend ==
  ASSUME NEW t \in Seq(Blocks), NEW b \in Blocks
  PROVE  P!ToSet(Append(t, b)) = P!ToSet(t) \cup {b}
<1>1. /\ DOMAIN Append(t, b) = DOMAIN t \cup {Len(t) + 1}
      /\ \A i \in DOMAIN t : Append(t, b)[i] = t[i]
      /\ Append(t, b)[Len(t) + 1] = b
  OBVIOUS
<1>2. QED
  BY <1>1 DEF P!ToSet

(***************************************************************************)
(* What is left of a sequence: first that the recursive function it is     *)
(* defined by exists, then its values.                                     *)
(***************************************************************************)
LEMMA OnlyIs ==
  ASSUME NEW s \in Seq(Blocks), NEW S
  PROVE  P!Only(s, S) \in Seq(Blocks) /\ P!ToSet(P!Only(s, S)) = P!ToSet(s) \cap S
<1> DEFINE L == Len(s)
           step(f, n) == IF n = 0 THEN <<>>
                         ELSE IF s[n] \in S THEN Append(f[n - 1], s[n]) ELSE f[n - 1]
           Solved(f, m) == \A n \in 0 .. m : f[n] = step(f, n)
           Unsolved == {m \in Nat : ~ \E f : Solved(f, m)}
           chosen == CHOOSE f : f = [n \in 0 .. L |-> step(f, n)]
           Upto(n) == {s[i] : i \in 1 .. n} \cap S
           Wrong == {n \in Nat : n <= L /\ ~(chosen[n] \in Seq(Blocks) /\ P!ToSet(chosen[n]) = Upto(n))}
<1>1. L \in Nat
  BY LenProperties
<1>2. ASSUME NEW m \in Unsolved
      PROVE  \E k \in Unsolved : k < m
  <2>1. CASE m = 0
    <3>1. Solved([n \in 0 .. 0 |-> <<>>], 0)
      OBVIOUS
    <3>2. QED
      BY <2>1, <3>1
  <2>2. CASE m # 0
    <3>1. m - 1 \in Nat /\ m - 1 < m
      BY <2>2
    <3>2. SUFFICES ASSUME m - 1 \notin Unsolved
                   PROVE  FALSE
      BY <3>1
    <3>3. PICK f : Solved(f, m - 1)
      BY <3>1, <3>2
    <3> DEFINE g == [n \in 0 .. m |-> IF n = m THEN step(f, m) ELSE f[n]]
    <3>4. \A n \in 0 .. (m - 1) : g[n] = f[n]
      BY <3>1
    <3>5. g[m] = step(f, m)
      OBVIOUS
    <3>6. ASSUME NEW n \in 0 .. m
          PROVE  g[n] = step(g, n)
      <4>1. CASE n = m
        <5>1. g[m - 1] = f[m - 1]
          BY <3>1, <3>4
        <5> HIDE DEF g
        <5>2. QED
          BY <4>1, <5>1, <3>5, <2>2
      <4>2. CASE n # m
        <5>1. n \in 0 .. (m - 1)
          BY <4>2
        <5>2. f[n] = step(f, n)
          BY <5>1, <3>3
        <5>3. n # 0 => g[n - 1] = f[n - 1]
          BY <5>1, <3>4
        <5>4. g[n] = f[n]
          BY <5>1, <3>4
        <5> HIDE DEF g
        <5>5. QED
          BY <5>2, <5>3, <5>4
      <4>3. QED
        BY <4>1, <4>2
    <3>7. Solved(g, m)
      BY <3>6
    <3> HIDE DEF g
    <3>8. QED
      BY <3>7
  <2>3. QED
    BY <2>1, <2>2
<1>3. Unsolved = {}
  <2>1. Unsolved \in SUBSET Nat
    OBVIOUS
  <2> HIDE DEF Unsolved
  <2>2. QED
    BY <1>2, <2>1, StrongInduction
<1>4. PICK f : Solved(f, L)
  BY <1>1, <1>3
<1>5. \E h : h = [n \in 0 .. L |-> step(h, n)]
  <2> DEFINE h == [n \in 0 .. L |-> f[n]]
  <2>1. \A n \in 0 .. L : h[n] = f[n]
    OBVIOUS
  <2>2. \A n \in 0 .. L : n # 0 => h[n - 1] = f[n - 1]
    BY <1>1
  <2>3. \A n \in 0 .. L : f[n] = step(h, n)
    <3> HIDE DEF h
    <3> QED BY <1>4, <2>2
  <2>4. h = [n \in 0 .. L |-> step(h, n)]
    BY <2>3
  <2> HIDE DEF h
  <2>5. QED
    BY <2>4
<1>6. chosen = [n \in 0 .. L |-> step(chosen, n)]
  BY <1>5
<1>7. P!Only(s, S) = chosen[L]
  BY DEF P!Only
<1> HIDE DEF chosen
<1>8. \A n \in 0 .. L : chosen[n] = step(chosen, n)
  BY <1>6
<1>9. ASSUME NEW n \in Wrong
      PROVE  \E k \in Wrong : k < n
  <2>1. n \in 0 .. L /\ chosen[n] = step(chosen, n)
    BY <1>1, <1>8
  <2>2. CASE n = 0
    <3>1. chosen[n] = <<>>
      BY <2>1, <2>2
    <3>2. P!ToSet(<<>>) = {} /\ Upto(0) = {}
      BY DEF P!ToSet
    <3>3. <<>> \in Seq(Blocks)
      OBVIOUS
    <3>4. chosen[n] \in Seq(Blocks) /\ P!ToSet(chosen[n]) = Upto(n)
      <4> HIDE DEF Upto
      <4> QED BY <2>2, <3>1, <3>2, <3>3
    <3>5. QED
      BY <3>4
  <2>3. CASE n # 0
    <3>1. n - 1 \in Nat /\ n - 1 < n /\ n - 1 <= L /\ n \in 1 .. L
      BY <2>1, <2>3, <1>1
    <3>2. SUFFICES ASSUME n - 1 \notin Wrong
                   PROVE  FALSE
      BY <3>1
    <3>3. chosen[n - 1] \in Seq(Blocks) /\ P!ToSet(chosen[n - 1]) = Upto(n - 1)
      BY <3>1, <3>2
    <3>4. s[n] \in Blocks
      BY <3>1
    <3>5. {s[i] : i \in 1 .. n} = {s[i] : i \in 1 .. (n - 1)} \cup {s[n]}
      <4>1. 1 .. n = (1 .. (n - 1)) \cup {n}
        BY <3>1
      <4>2. QED
        BY <4>1
    <3>6. CASE s[n] \in S
      <4>1. chosen[n] = Append(chosen[n - 1], s[n])
        BY <2>1, <2>3, <3>6
      <4>2. P!ToSet(Append(chosen[n - 1], s[n])) = P!ToSet(chosen[n - 1]) \cup {s[n]}
        BY <3>3, <3>4, ToSetOfAppend
      <4>3. chosen[n] \in Seq(Blocks)
        BY <3>3, <3>4, <4>1
      <4>4. P!ToSet(chosen[n]) = Upto(n)
        BY <3>3, <3>5, <3>6, <4>1, <4>2
      <4>5. QED
        BY <4>3, <4>4
    <3>7. CASE s[n] \notin S
      <4>1. chosen[n] = chosen[n - 1]
        BY <2>1, <2>3, <3>7
      <4>2. Upto(n) = Upto(n - 1)
        BY <3>5, <3>7
      <4>3. QED
        BY <3>3, <4>1, <4>2
    <3>8. QED
      BY <3>6, <3>7
  <2>4. QED
    BY <2>2, <2>3
<1>10. Wrong = {}
  <2>1. Wrong \in SUBSET Nat
    OBVIOUS
  <2> HIDE DEF Wrong
  <2>2. QED
    BY <1>9, <2>1, StrongInduction
<1>11. chosen[L] \in Seq(Blocks) /\ P!ToSet(chosen[L]) = Upto(L)
  <2>1. L <= L
    BY <1>1
  <2> HIDE DEF L, Upto
  <2>2. QED
    BY <1>1, <1>10, <2>1
<1>12. Upto(L) = P!ToSet(s) \cap S
  BY <1>1 DEF P!ToSet
<1>13. QED
  BY <1>7, <1>11, <1>12

LEMMA ToSetOfTwo ==
  ASSUME NEW s \in Seq(Blocks), NEW t \in Seq(Blocks)
  PROVE  s \o t \in Seq(Blocks) /\ P!ToSet(s \o t) = P!ToSet(s) \cup P!ToSet(t)
<1>1. s \o t \in Seq(Blocks) /\ Len(s \o t) = Len(s) + Len(t)
  BY ConcatProperties
<1>2. /\ \A i \in 1 .. Len(s) : (s \o t)[i] = s[i] /\ i \in 1 .. Len(s \o t)
      /\ \A i \in 1 .. Len(t) : (s \o t)[Len(s) + i] = t[i] /\ Len(s) + i \in 1 .. Len(s \o t)
  BY <1>1, ConcatProperties
<1>3. \A i \in 1 .. Len(s \o t) :
        i \in 1 .. Len(s) \/ \E j \in 1 .. Len(t) : i = Len(s) + j
  <2> SUFFICES ASSUME NEW i \in 1 .. Len(s \o t), i \notin 1 .. Len(s)
               PROVE  i - Len(s) \in 1 .. Len(t) /\ i = Len(s) + (i - Len(s))
    OBVIOUS
  <2> QED BY <1>1
<1>4. /\ DOMAIN s = 1 .. Len(s) /\ DOMAIN t = 1 .. Len(t)
      /\ DOMAIN (s \o t) = 1 .. Len(s \o t)
  BY <1>1
<1> DEFINE u == s \o t
<1>5. P!ToSet(u) \subseteq P!ToSet(s) \cup P!ToSet(t)
  <2> SUFFICES ASSUME NEW i \in 1 .. Len(u) PROVE u[i] \in P!ToSet(s) \cup P!ToSet(t)
    BY <1>4 DEF P!ToSet
  <2> QED BY <1>2, <1>3, <1>4 DEF P!ToSet
<1>6. P!ToSet(s) \subseteq P!ToSet(u) /\ P!ToSet(t) \subseteq P!ToSet(u)
  <2> HIDE DEF u
  <2>1. /\ \A i \in 1 .. Len(s) : u[i] = s[i] /\ i \in 1 .. Len(u)
        /\ \A i \in 1 .. Len(t) : u[Len(s) + i] = t[i] /\ Len(s) + i \in 1 .. Len(u)
    BY <1>2 DEF u
  <2>2. DOMAIN u = 1 .. Len(u)
    BY <1>4 DEF u
  <2> QED BY <2>1, <2>2, <1>4 DEF P!ToSet
<1> QED BY <1>1, <1>5, <1>6

(***************************************************************************)
(* A block that is listed is taken out once, and nothing else is: index -1 *)
(* never happens.                                                          *)
(***************************************************************************)
LEMMA SplicedIs ==
  ASSUME NEW s \in Seq(Blocks), NEW b \in P!ToSet(s)
  PROVE  /\ P!Spliced(s, b) \in Seq(Blocks)
         /\ P!ToSet(P!Spliced(s, b)) \subseteq P!ToSet(s)
         /\ P!ToSet(s) \ {b} \subseteq P!ToSet(P!Spliced(s, b))
<1> DEFINE I == {i \in 1 .. Len(s) : s[i] = b}
           k == P!Min(I)
<1>1. DOMAIN s = 1 .. Len(s) /\ Len(s) \in Nat
  OBVIOUS
<1>2. I # {} /\ P!Contains(s, b) /\ I \in SUBSET Nat
  BY <1>1 DEF P!ToSet, P!Contains
<1>3. \E i \in I : \A j \in I : i <= j
  <2> HIDE DEF I
  <2> QED BY <1>2, LeastElement
<1>4. k \in I
  <2> HIDE DEF I
  <2> QED BY <1>3 DEF P!Min
<1>5. P!Spliced(s, b) = P!RemoveAt(s, k)
  BY <1>2 DEF P!Spliced, P!RemoveFirst, P!SelectInSeq, P!Contains
<1> HIDE DEF k
<1>6. k \in 1 .. Len(s) /\ s[k] = b
  BY <1>4
<1> DEFINE p == SubSeq(s, 1, k - 1)
           q == SubSeq(s, k + 1, Len(s))
<1>7. p \in Seq(Blocks) /\ Len(p) = k - 1 /\ \A i \in 1 .. (k - 1) : p[i] = s[i]
  BY <1>1, <1>6
<1>8. q \in Seq(Blocks) /\ Len(q) = Len(s) - k /\ \A i \in 1 .. (Len(s) - k) : q[i] = s[k + i]
  <2>1. k + 1 \in 1 .. Len(s) + 1 /\ \A i \in k + 1 .. Len(s) : s[i] \in Blocks
    BY <1>1, <1>6
  <2>2. q = [i \in 1 .. (Len(s) - k) |-> s[k + i]]
    BY <2>1, <1>1, <1>6
  <2>3. \A i \in 1 .. (Len(s) - k) : s[k + i] \in Blocks
    BY <2>1, <1>1, <1>6
  <2> HIDE DEF q
  <2>4. QED
    BY <2>2, <2>3, <1>1, <1>6
<1>9. P!Spliced(s, b) = p \o q
  BY <1>5 DEF P!RemoveAt
<1> HIDE DEF p, q, I
<1>10. p \o q \in Seq(Blocks) /\ P!ToSet(p \o q) = P!ToSet(p) \cup P!ToSet(q)
  BY <1>7, <1>8, ToSetOfTwo
<1>11. DOMAIN p = 1 .. (k - 1) /\ DOMAIN q = 1 .. (Len(s) - k)
  BY <1>7, <1>8
<1>12. P!ToSet(p) \subseteq P!ToSet(s)
  BY <1>1, <1>6, <1>7, <1>11 DEF P!ToSet
<1>13. P!ToSet(q) \subseteq P!ToSet(s)
  <2>1. \A i \in 1 .. (Len(s) - k) : k + i \in 1 .. Len(s)
    BY <1>1, <1>6
  <2>2. QED
    BY <1>1, <1>8, <1>11, <2>1 DEF P!ToSet
<1>14. ASSUME NEW i \in 1 .. Len(s), s[i] # b
       PROVE  s[i] \in P!ToSet(p) \cup P!ToSet(q)
  <2>1. CASE i < k
    <3>1. i \in 1 .. (k - 1)
      BY <2>1, <1>6
    <3>2. QED
      BY <3>1, <1>7, <1>11 DEF P!ToSet
  <2>2. CASE ~(i < k)
    <3>1. i - k \in 1 .. (Len(s) - k) /\ k + (i - k) = i
      BY <2>2, <1>1, <1>6, <1>14
    <3>2. q[i - k] = s[i]
      BY <3>1, <1>8
    <3>3. QED
      BY <3>1, <3>2, <1>11 DEF P!ToSet
  <2>3. QED
    BY <2>1, <2>2
<1>15. P!ToSet(s) \ {b} \subseteq P!ToSet(p) \cup P!ToSet(q)
  BY <1>1, <1>14 DEF P!ToSet
<1>16. QED
  BY <1>9, <1>10, <1>12, <1>13, <1>15


Known(t) == {b \in Blocks : t[b] # None}

\* A tree in which every block is listed by the ancestor it names, and descends from it.
TreeIsOne(t) ==
  /\ t \in [Blocks -> Nodes \cup {None}]
  /\ \A b \in Known(t) : P!ToSet(t[b].descendants) \subseteq Known(t)
  /\ Genesis \in Known(t) => t[Genesis].ancestor = None
  /\ \A b \in Known(t) \ {Genesis} :
       /\ t[b].ancestor \in Known(t)
       /\ P!IsAncestor(t[b].ancestor, b)
       /\ b \in P!ToSet(t[t[b].ancestor].descendants)

LEMMA HighestIs ==
  ASSUME NEW S \in SUBSET Blocks, S # {}, NEW N \in Nat, \A c \in S : P!Height(c) <= N
  PROVE  \E c \in S : \A d \in S : P!Height(d) <= P!Height(c)
<1> DEFINE A == {N - P!Height(c) : c \in S}
<1>1. \A c \in S : P!Height(c) \in Nat /\ N - P!Height(c) \in Nat
  <2> SUFFICES ASSUME NEW c \in S PROVE P!Height(c) \in Nat /\ N - P!Height(c) \in Nat
    OBVIOUS
  <2>1. P!Height(c) \in Nat
    BY BranchOf
  <2> QED BY <2>1
<1>2. A \in SUBSET Nat /\ A # {}
  BY <1>1
<1>3. PICK n \in A : \A k \in A : n <= k
  <2> HIDE DEF A
  <2> QED BY <1>2, LeastElement
<1>4. PICK c \in S : n = N - P!Height(c)
  OBVIOUS
<1>5. ASSUME NEW d \in S
      PROVE  P!Height(d) <= P!Height(c)
  <2>1. N - P!Height(c) <= N - P!Height(d)
    BY <1>3, <1>4
  <2>2. QED
    BY <2>1, <1>1
<1>6. QED
  BY <1>5

LEMMA AncestorIsLower ==
  ASSUME NEW a \in Blocks, NEW b \in Blocks
  PROVE  /\ P!IsAncestor(a, b) => P!Height(a) < P!Height(b)
         /\ P!IsOnBranch(a, b) /\ P!Height(a) < P!Height(b) => P!IsAncestor(a, b)
<1>1. P!Height(a) \in Nat /\ P!Height(b) \in Nat /\ Branch[b][P!Height(b) + 1] = b
  BY BranchOf
<1>2. P!IsOnBranch(a, b) <=> P!Height(a) <= P!Height(b) /\ Branch[b][P!Height(a) + 1] = a
  BY OnBranch
<1>3. QED
  BY <1>1, <1>2 DEF P!IsAncestor

(***************************************************************************)
(* findClosestAncestor() finds an ancestor, and none that is known is      *)
(* higher.                                                                 *)
(***************************************************************************)
LEMMA ClosestIs ==
  ASSUME NEW b \in Blocks, NEW tip \in Blocks, P!IsOnBranch(b, tip), tree \in [Blocks -> Nodes \cup {None}],
         NEW u \in Blocks, P!IsAncestor(u, b)
  PROVE  LET a == P!ClosestAncestor(b, tip, u)
         IN /\ a \in Blocks /\ P!IsAncestor(a, b)
            /\ a = u \/ a \in P!InTree
            /\ P!Height(u) <= P!Height(a)
            /\ \A c \in P!InTree : P!IsAncestor(c, b) => P!Height(c) <= P!Height(a)
<1> DEFINE a == P!ClosestAncestor(b, tip, u)
           S == {c \in P!InTree : P!Height(u) <= P!Height(c) /\ P!Height(c) < P!Height(b) /\ P!IsRelated(c, tip)}
<1>0. P!Height(u) \in Nat /\ P!Height(b) \in Nat /\ \A c \in Blocks : P!Height(c) \in Nat
  BY BranchOf
<1>1. S \in SUBSET Blocks /\ \A c \in S : P!Height(c) <= P!Height(b)
  BY <1>0 DEF P!InTree
<1>2. ASSUME NEW c \in P!InTree, P!IsAncestor(c, b)
      PROVE  c \in S \/ P!Height(c) < P!Height(u)
  <2>1. c \in Blocks /\ P!Height(c) < P!Height(b)
    BY <1>2, AncestorIsLower DEF P!InTree
  <2>2. P!IsRelated(c, tip)
    BY <1>2, <2>1, Transitive DEF P!IsRelated, P!IsAncestor
  <2>3. QED
    BY <1>0, <2>1, <2>2
<1>3. CASE S = {}
  <2>1. a = u
    BY <1>3 DEF P!ClosestAncestor
  <2>2. \A c \in P!InTree : P!IsAncestor(c, b) => P!Height(c) <= P!Height(u)
    <3> SUFFICES ASSUME NEW c \in P!InTree, P!IsAncestor(c, b) PROVE P!Height(c) <= P!Height(u)
      OBVIOUS
    <3> HIDE DEF S
    <3>1. P!Height(c) < P!Height(u) /\ c \in Blocks
      BY <1>2, <1>3 DEF P!InTree
    <3> QED BY <3>1, <1>0
  <2> HIDE DEF a
  <2>3. QED
    BY <2>1, <2>2, <1>0 DEF a
<1>4. CASE S # {}
  <2>1. \E c \in S : \A d \in S : P!Height(d) <= P!Height(c)
    <3> HIDE DEF S
    <3> QED BY <1>0, <1>1, <1>4, HighestIs
  <2>2. a = CHOOSE c \in S : \A d \in S : P!Height(d) <= P!Height(c)
    BY <1>4 DEF P!ClosestAncestor
  <2>3. a \in S /\ \A d \in S : P!Height(d) <= P!Height(a)
    <3> HIDE DEF S, a
    <3> QED BY <2>1, <2>2
  <2> HIDE DEF a
  <2>4. a \in Blocks /\ a \in P!InTree /\ P!Height(u) <= P!Height(a) /\ P!Height(a) < P!Height(b) /\ P!IsOnBranch(a, tip)
    BY <2>3 DEF P!InTree, P!IsRelated
  <2>5. P!IsAncestor(a, b)
    BY <2>4, <1>0, Linear, AncestorIsLower
  <2>6. \A c \in P!InTree : P!IsAncestor(c, b) => P!Height(c) <= P!Height(a)
    <3> SUFFICES ASSUME NEW c \in P!InTree, P!IsAncestor(c, b) PROVE P!Height(c) <= P!Height(a)
      OBVIOUS
    <3> HIDE DEF S
    <3>1. c \in Blocks /\ (c \in S \/ P!Height(c) < P!Height(u))
      BY <1>2 DEF P!InTree
    <3> QED BY <3>1, <2>3, <2>4, <1>0
  <2>7. QED
    BY <2>4, <2>5, <2>6 DEF a
<1>5. QED
  BY <1>3, <1>4

(***************************************************************************)
(* initialize() leaves a tree, in which the target has its closest         *)
(* ancestor.                                                               *)
(***************************************************************************)
LEMMA InitializedIs ==
  ASSUME TreeIsOne(tree), NEW b \in Blocks \ {Genesis}, NEW tip \in Blocks, P!IsOnBranch(b, tip),
         NEW t, t = P!Initialized(b, tip)
  PROVE  /\ TreeIsOne(t)
         /\ b \in Known(t)
         /\ \A a \in Known(t) : P!IsAncestor(a, b) => P!Height(a) <= P!Height(t[b].ancestor)
<1> DEFINE target == IF P!HasAncestor(b) THEN tree[b] ELSE P!Node(None, <<>>)
           previous == target.ancestor
           start == IF previous = None THEN Genesis ELSE previous
           anc == P!ClosestAncestor(b, tip, start)
           above == IF tree[anc] = None THEN P!Node(None, <<>>) ELSE tree[anc]
           taken == P!Taken(above.descendants, b, tip)
           kept == P!Kept(above.descendants, b, tip)
<1>1. /\ Genesis \in Blocks /\ None \notin Blocks /\ <<>> \in Seq(Blocks)
      /\ \A c \in Blocks : P!Height(c) \in Nat
  BY BranchesAre, BranchOf
<1>2. tree \in [Blocks -> Nodes \cup {None}] /\ P!InTree = Known(tree) /\ P!InTree \subseteq Blocks
  BY DEF TreeIsOne, P!InTree, Known
<1>3. \A c \in P!InTree : /\ tree[c] \in Nodes /\ tree[c] # None
                        /\ tree[c].descendants \in Seq(Blocks)
                        /\ tree[c].ancestor \in Blocks \cup {None}
                        /\ P!ToSet(tree[c].descendants) \subseteq P!InTree
  BY <1>2 DEF TreeIsOne, Known, P!InTree, Nodes
<1>4. \A c \in P!InTree \ {Genesis} :
        /\ tree[c].ancestor \in P!InTree /\ P!IsAncestor(tree[c].ancestor, c)
        /\ c \in P!ToSet(tree[tree[c].ancestor].descendants)
  BY <1>2 DEF TreeIsOne
<1>5. P!ToSet(<<>>) = {}
  BY DEF P!ToSet
<1>6. \A a, d : P!Node(a, d).ancestor = a /\ P!Node(a, d).descendants = d
  BY DEF P!Node
<1>7. b \in P!InTree => P!HasAncestor(b) /\ target = tree[b]
  BY <1>1, <1>2, <1>4, <1>3 DEF P!HasAncestor, P!InTree
<1>8. b \notin P!InTree => target = P!Node(None, <<>>)
  BY <1>2 DEF P!HasAncestor, P!InTree
<1>9. /\ target.descendants \in Seq(Blocks) /\ P!ToSet(target.descendants) \subseteq P!InTree
      /\ previous = None \/ /\ b \in P!InTree /\ previous \in P!InTree /\ P!IsAncestor(previous, b)
                            /\ b \in P!ToSet(tree[previous].descendants)
  <2>1. CASE b \in P!InTree
    BY <2>1, <1>7, <1>3, <1>4
  <2>2. CASE b \notin P!InTree
    BY <2>2, <1>8, <1>1, <1>5, <1>6
  <2>3. QED
    BY <2>1, <2>2
<1>10. start \in Blocks /\ P!IsAncestor(start, b)
  BY <1>9, <1>1, <1>2, OnOwnBranch DEF P!IsAncestor
<1>11. /\ anc \in Blocks /\ P!IsAncestor(anc, b) /\ (anc = start \/ anc \in P!InTree)
       /\ P!Height(start) <= P!Height(anc)
       /\ \A c \in P!InTree : P!IsAncestor(c, b) => P!Height(c) <= P!Height(anc)
  <2> HIDE DEF start
  <2> QED BY <1>10, <1>2, ClosestIs
<1>12. anc # b /\ P!Height(anc) < P!Height(b)
  BY <1>11, AncestorIsLower DEF P!IsAncestor
<1>13. anc \in P!InTree \/ (anc = Genesis /\ above = P!Node(None, <<>>))
  BY <1>9, <1>11, <1>1 DEF P!InTree
<1>14. anc \in P!InTree => above = tree[anc]
  BY <1>3
<1>15. above.descendants \in Seq(Blocks) /\ P!ToSet(above.descendants) \subseteq P!InTree
  <2>1. ASSUME anc \in P!InTree
        PROVE  above.descendants \in Seq(Blocks) /\ P!ToSet(above.descendants) \subseteq P!InTree
    <3>1. above = tree[anc]
      BY <2>1, <1>14
    <3> HIDE DEF above, anc
    <3> QED BY <2>1, <3>1, <1>3
  <2>2. ASSUME above = P!Node(None, <<>>)
        PROVE  above.descendants \in Seq(Blocks) /\ P!ToSet(above.descendants) \subseteq P!InTree
    <3>1. above.descendants = <<>>
      <4> HIDE DEF above
      <4> QED BY <2>2, <1>6
    <3> HIDE DEF above
    <3> QED BY <3>1, <1>1, <1>5
  <2> HIDE DEF above, anc
  <2>3. QED
    BY <2>1, <2>2, <1>13
<1>16. /\ above.ancestor \in Blocks \cup {None}
       /\ anc = Genesis => above.ancestor = None
       /\ anc # Genesis => /\ anc \in P!InTree /\ above.ancestor \in P!InTree
                           /\ P!IsAncestor(above.ancestor, anc)
                           /\ anc \in P!ToSet(tree[above.ancestor].descendants)
  <2>1. Genesis \in P!InTree => tree[Genesis].ancestor = None
    BY <1>2 DEF TreeIsOne
  <2> HIDE DEF above, anc
  <2>2. QED
    BY <2>1, <1>13, <1>14, <1>3, <1>4, <1>6
<1> HIDE DEF target, anc, above
<1>17. /\ taken \subseteq P!ToSet(above.descendants) /\ taken \subseteq P!InTree
       /\ \A d \in taken : d # b /\ P!Height(d) > P!Height(b) /\ P!IsAncestor(b, d)
  <2>1. taken \subseteq P!ToSet(above.descendants) /\ taken \subseteq P!InTree
    BY <1>15 DEF P!Taken
  <2>2. \A d \in taken : d # b /\ P!Height(d) > P!Height(b) /\ P!IsOnBranch(d, tip)
    BY DEF P!Taken, P!IsRelated
  <2>3. \A d \in taken : P!IsAncestor(b, d)
    <3> SUFFICES ASSUME NEW d \in taken PROVE P!IsAncestor(b, d)
      OBVIOUS
    <3>1. d \in Blocks /\ P!IsOnBranch(d, tip) /\ P!Height(b) < P!Height(d)
      BY <2>1, <2>2, <1>1, <1>2
    <3>2. P!Height(b) <= P!Height(d)
      BY <3>1, <1>1
    <3>3. P!IsOnBranch(b, d)
      BY <3>1, <3>2, Linear
    <3> HIDE DEF taken
    <3> QED BY <3>1, <3>3, AncestorIsLower
  <2>4. QED
    BY <2>1, <2>2, <2>3
<1>18. kept \subseteq P!ToSet(above.descendants) /\ P!ToSet(above.descendants) \subseteq kept \cup taken \cup {b}
  BY DEF P!Kept
<1> DEFINE mine == target.descendants \o P!Only(above.descendants, taken)
           its == <<b>> \o P!Only(above.descendants, kept)
           left == P!Spliced(tree[previous].descendants, b)
<1>19. t = [c \in Blocks |->
              IF c = b THEN P!Node(anc, mine) ELSE
              IF c = anc THEN P!Node(above.ancestor, its) ELSE
              IF c = previous THEN P!Node(tree[c].ancestor, P!Spliced(tree[c].descendants, b)) ELSE
              IF c \in taken THEN P!Node(b, tree[c].descendants)
              ELSE tree[c]]
  BY DEF P!Initialized, target, anc, above
<1>20. mine \in Seq(Blocks) /\ P!ToSet(mine) = P!ToSet(target.descendants) \cup taken
  <2>1. /\ P!Only(above.descendants, taken) \in Seq(Blocks)
        /\ P!ToSet(P!Only(above.descendants, taken)) = P!ToSet(above.descendants) \cap taken
    <3> HIDE DEF taken
    <3> QED BY <1>15, OnlyIs
  <2> HIDE DEF taken
  <2>2. QED
    BY <2>1, <1>9, <1>17, ToSetOfTwo
<1>21. its \in Seq(Blocks) /\ P!ToSet(its) = {b} \cup kept
  <2>1. /\ P!Only(above.descendants, kept) \in Seq(Blocks)
        /\ P!ToSet(P!Only(above.descendants, kept)) = P!ToSet(above.descendants) \cap kept
    <3> HIDE DEF kept
    <3> QED BY <1>15, OnlyIs
  <2>2. <<b>> \in Seq(Blocks) /\ P!ToSet(<<b>>) = {b}
    BY DEF P!ToSet
  <2> HIDE DEF kept
  <2>3. QED
    BY <2>1, <2>2, <1>18, ToSetOfTwo
<1>22. previous # None => /\ left \in Seq(Blocks)
                          /\ P!ToSet(left) \subseteq P!ToSet(tree[previous].descendants)
                          /\ P!ToSet(tree[previous].descendants) \ {b} \subseteq P!ToSet(left)
  BY <1>9, <1>3, SplicedIs
<1> HIDE DEF mine, its, left, taken, kept, start
<1>23. /\ t[b] = P!Node(anc, mine) /\ t[anc] = P!Node(above.ancestor, its)
       /\ previous # None /\ previous # anc =>
            t[previous] = P!Node(tree[previous].ancestor, left) /\ previous # b
       /\ \A c \in taken : t[c] = P!Node(b, tree[c].descendants)
       /\ \A c \in Blocks \ ({b, anc, previous} \cup taken) : t[c] = tree[c]
  <2>1. previous # None => previous \in Blocks /\ previous # b /\ P!Height(previous) < P!Height(b)
    BY <1>9, <1>2, AncestorIsLower DEF P!IsAncestor
  <2>2. previous \notin taken /\ anc \notin taken
    BY <2>1, <1>17, <1>12, <1>1, <1>2, <1>11
  <2> HIDE DEF previous
  <2>3. /\ t[b] = P!Node(anc, mine) /\ t[anc] = P!Node(above.ancestor, its)
    BY <1>19, <1>11, <1>12
  <2>4. previous # None /\ previous # anc => t[previous] = P!Node(tree[previous].ancestor, left)
    BY <1>19, <2>1 DEF left
  <2>5. \A c \in taken : t[c] = P!Node(b, tree[c].descendants)
    <3> SUFFICES ASSUME NEW c \in taken PROVE t[c] = P!Node(b, tree[c].descendants)
      OBVIOUS
    <3>1. c \in Blocks /\ c # b /\ c # anc /\ c # previous
      BY <1>17, <1>2, <2>2
    <3> QED BY <3>1, <1>19
  <2>6. \A c \in Blocks \ ({b, anc, previous} \cup taken) : t[c] = tree[c]
    BY <1>19
  <2>7. QED
    BY <2>1, <2>3, <2>4, <2>5, <2>6
<1>24. \A a, d : P!Node(a, d) \in [ancestor : {a}, descendants : {d}]
  BY DEF P!Node
<1>25. \A a \in Blocks \cup {None}, d \in Seq(Blocks) : P!Node(a, d) \in Nodes /\ P!Node(a, d) # None
  BY CacheAssumption DEF P!Node, Nodes
<1>26. t \in [Blocks -> Nodes \cup {None}]
  <2> SUFFICES ASSUME NEW c \in Blocks
               PROVE  t[c] \in Nodes \cup {None}
    BY <1>19
  <2> HIDE DEF previous
  <2>1. CASE c = b
    BY <2>1, <1>23, <1>25, <1>20, <1>11
  <2>2. CASE c = anc
    BY <2>2, <1>23, <1>25, <1>21, <1>16
  <2>3. CASE c = previous /\ c # anc
    <3>1. t[c] = P!Node(tree[c].ancestor, left) /\ tree[c].ancestor \in Blocks \cup {None}
      BY <2>3, <1>23, <1>9, <1>3, <1>1 DEF previous
    <3> QED BY <3>1, <2>3, <1>22, <1>25, <1>1
  <2>4. CASE c \in taken
    BY <2>4, <1>23, <1>25, <1>3, <1>17
  <2>5. CASE c \notin {b, anc, previous} \cup taken
    BY <2>5, <1>23, <1>2
  <2>6. QED
    BY <2>1, <2>2, <2>3, <2>4, <2>5
<1>27. Known(t) = P!InTree \cup {b, anc}
  <2> SUFFICES ASSUME NEW c \in Blocks
               PROVE  t[c] # None <=> c \in P!InTree \cup {b, anc}
    BY <1>2, <1>11 DEF Known
  <2> HIDE DEF previous
  <2>1. CASE c \in {b, anc}
    BY <2>1, <1>23, <1>25, <1>20, <1>21, <1>11, <1>16
  <2>2. CASE c = previous /\ c # anc
    <3>1. c \in P!InTree /\ t[c] = P!Node(tree[c].ancestor, left) /\ tree[c].ancestor \in Blocks \cup {None}
      BY <2>2, <1>23, <1>9, <1>3, <1>1 DEF previous
    <3> QED BY <3>1, <2>2, <1>22, <1>25, <1>1
  <2>3. CASE c \in taken
    BY <2>3, <1>23, <1>25, <1>3, <1>17
  <2>4. CASE c \notin {b, anc, previous} \cup taken
    BY <2>4, <1>23 DEF P!InTree
  <2>5. QED
    BY <2>1, <2>2, <2>3, <2>4
<1>28. \A c \in Known(t) : P!ToSet(t[c].descendants) \subseteq Known(t)
  <2> SUFFICES ASSUME NEW c \in Known(t) PROVE P!ToSet(t[c].descendants) \subseteq P!InTree \cup {b}
    BY <1>27
  <2> HIDE DEF previous
  <2>1. CASE c = b
    BY <2>1, <1>23, <1>6, <1>20, <1>9, <1>17
  <2>2. CASE c = anc
    BY <2>2, <1>23, <1>6, <1>21, <1>15, <1>18
  <2>3. CASE c = previous /\ c # anc
    BY <2>3, <1>23, <1>6, <1>22, <1>9, <1>3, <1>27, <1>2, <1>1 DEF previous
  <2>4. CASE c \in taken
    BY <2>4, <1>23, <1>6, <1>3, <1>17
  <2>5. CASE c \notin {b, anc, previous} \cup taken
    BY <2>5, <1>23, <1>3, <1>27, <1>2
  <2>6. QED
    BY <2>1, <2>2, <2>3, <2>4, <2>5
<1>29. ASSUME NEW p \in P!InTree, NEW d \in P!ToSet(tree[p].descendants), d # b, p = anc => d \notin taken
       PROVE  d \in P!ToSet(t[p].descendants)
  <2> HIDE DEF previous
  <2>1. CASE p = b
    BY <2>1, <1>29, <1>7, <1>23, <1>6, <1>20
  <2>2. CASE p = anc
    BY <2>2, <1>29, <1>14, <1>18, <1>23, <1>6, <1>21
  <2>3. CASE p = previous /\ p # anc
    BY <2>3, <1>29, <1>23, <1>6, <1>22, <1>2, <1>1
  <2>4. CASE p \in taken
    BY <2>4, <1>23, <1>6
  <2>5. CASE p \notin {b, anc, previous} \cup taken
    BY <2>5, <1>23, <1>2
  <2>6. QED
    BY <2>1, <2>2, <2>3, <2>4, <2>5
<1>30. ASSUME NEW c \in P!InTree \ ({b, Genesis} \cup taken)
       PROVE  /\ t[c].ancestor \in P!InTree /\ P!IsAncestor(t[c].ancestor, c)
              /\ c \in P!ToSet(t[t[c].ancestor].descendants)
  <2>1. t[c].ancestor = tree[c].ancestor
    <3> HIDE DEF previous
    <3>1. CASE c = anc
      BY <3>1, <1>14, <1>23, <1>6
    <3>2. CASE c = previous /\ c # anc
      BY <3>2, <1>23, <1>6, <1>2, <1>1
    <3>3. CASE c \notin {anc, previous}
      BY <3>3, <1>23, <1>2
    <3>4. QED
      BY <3>1, <3>2, <3>3
  <2>2. QED
    BY <2>1, <1>4, <1>29
<1>31. ASSUME NEW c \in Known(t) \ {Genesis}
       PROVE  /\ t[c].ancestor \in Known(t) /\ P!IsAncestor(t[c].ancestor, c)
              /\ c \in P!ToSet(t[t[c].ancestor].descendants)
  <2> HIDE DEF previous
  <2>1. CASE c = b
    BY <2>1, <1>23, <1>6, <1>11, <1>27, <1>21
  <2>2. CASE c \in taken
    BY <2>2, <1>23, <1>6, <1>17, <1>20, <1>27
  <2>3. CASE c \notin {b} \cup taken
    BY <2>3, <1>27, <1>30, <1>13, <1>31
  <2>4. QED
    BY <2>1, <2>2, <2>3
<1>32. Genesis \in Known(t) => t[Genesis].ancestor = None
  <2>1. Genesis # b /\ Genesis \notin taken
    BY <1>17, HeightOfGenesis, <1>1
  <2>2. Genesis \in P!InTree => tree[Genesis].ancestor = None
    BY <1>2 DEF TreeIsOne
  <2> HIDE DEF previous
  <2>3. CASE Genesis = anc
    BY <2>3, <1>23, <1>6, <1>16
  <2>4. CASE Genesis = previous /\ Genesis # anc
    BY <2>4, <2>2, <1>23, <1>6, <1>9, <1>1 DEF previous
  <2>5. CASE Genesis \notin {anc, previous}
    BY <2>5, <2>1, <2>2, <1>23, <1>27, <1>1
  <2>6. QED
    BY <2>3, <2>4, <2>5
<1>33. TreeIsOne(t)
  BY <1>26, <1>28, <1>31, <1>32 DEF TreeIsOne
<1>34. \A a \in Known(t) : P!IsAncestor(a, b) => P!Height(a) <= P!Height(t[b].ancestor)
  <2>1. t[b].ancestor = anc
    BY <1>23, <1>6
  <2>2. P!Height(anc) <= P!Height(anc) /\ ~P!IsAncestor(b, b)
    BY <1>1, <1>11 DEF P!IsAncestor
  <2>3. QED
    BY <2>1, <2>2, <1>11, <1>27
<1>35. QED
  BY <1>27, <1>33, <1>34


(***************************************************************************)
(* So does reBalanceDescendantTree(), wherever it is cut off.  The parent  *)
(* of a block that is moved is not itself moved: if it were above the      *)
(* target, its descendants would be known.                                 *)
(***************************************************************************)
LEMMA BalancedIs ==
  ASSUME TreeIsOne(tree), session \in [target : Blocks, tip : Tips],
         session.target \in P!InTree, P!IsOnBranch(session.target, session.tip),
         NEW h \in Nat, NEW t, t = P!Balanced(h)
  PROVE  /\ TreeIsOne(t) /\ Known(t) = P!InTree
         /\ t[session.target].ancestor = tree[session.target].ancestor
<1> DEFINE target == session.target
           tip == session.tip
           moved == P!Moved(h)
           MovedFrom(p) == {c \in moved : tree[c].ancestor = p}
           LastFrom(p) ==
             CHOOSE c \in MovedFrom(p) : \A d \in MovedFrom(p) : P!Height(d) <= P!Height(c)
           order == P!Only(Branch[tip], moved)
<1>1. /\ target \in Blocks /\ tip \in Blocks /\ None \notin Blocks
      /\ \A c \in Blocks : P!Height(c) \in Nat
  BY BranchesAre, BranchOf
<1>2. tree \in [Blocks -> Nodes \cup {None}] /\ P!InTree = Known(tree) /\ P!InTree \subseteq Blocks
  BY DEF TreeIsOne, P!InTree, Known
<1>3. \A c \in P!InTree : /\ tree[c] \in Nodes /\ tree[c] # None
                        /\ tree[c].descendants \in Seq(Blocks)
                        /\ tree[c].ancestor \in Blocks \cup {None}
                        /\ P!ToSet(tree[c].descendants) \subseteq P!InTree
  BY <1>2 DEF TreeIsOne, Known, P!InTree, Nodes
<1>4. \A c \in P!InTree \ {Genesis} :
        /\ tree[c].ancestor \in P!InTree /\ P!IsAncestor(tree[c].ancestor, c)
        /\ c \in P!ToSet(tree[tree[c].ancestor].descendants)
  BY <1>2 DEF TreeIsOne
<1>5. \A a, d : P!Node(a, d).ancestor = a /\ P!Node(a, d).descendants = d
  BY DEF P!Node
<1>6. \A a \in Blocks \cup {None}, d \in Seq(Blocks) : P!Node(a, d) \in Nodes /\ P!Node(a, d) # None
  BY CacheAssumption DEF P!Node, Nodes
<1>7. /\ moved \subseteq P!InTree
      /\ \A c \in moved : /\ P!Height(target) < P!Height(c) /\ P!Height(c) <= h
                          /\ P!IsOnBranch(c, tip)
                          /\ c \notin P!ToSet(tree[target].descendants) /\ c \notin P!KnownAt(c)
  BY DEF P!Moved, P!Candidates, P!IsRelated
<1>8. ASSUME NEW c \in moved
      PROVE  /\ c \in Blocks /\ c # target /\ c # Genesis /\ P!IsAncestor(target, c)
             /\ tree[c].ancestor \in P!InTree
             /\ c \in P!ToSet(tree[tree[c].ancestor].descendants)
             /\ tree[c].ancestor \notin moved \cup {target}
  <2> DEFINE p == tree[c].ancestor
  <2>1. c \in Blocks /\ P!Height(target) < P!Height(c)
    BY <1>2, <1>7
  <2>2. c # target /\ c # Genesis
    BY <2>1, <1>1, HeightOfGenesis
  <2>3. P!IsAncestor(target, c)
    <3>1. P!IsOnBranch(target, c)
      BY <2>1, <1>1, <1>7, Linear
    <3>2. QED
      BY <3>1, <2>1, <1>1, AncestorIsLower
  <2>4. p \in P!InTree /\ P!IsAncestor(p, c) /\ c \in P!ToSet(tree[p].descendants)
    BY <2>2, <1>4, <1>7
  <2>5. p # target
    BY <2>4, <1>7
  <2>6. p \in Blocks /\ P!IsOnBranch(p, tip) /\ P!Height(p) < P!Height(c)
    BY <2>1, <2>4, <1>1, <1>2, <1>7, Transitive, AncestorIsLower DEF P!IsAncestor
  <2>7. ~(P!Height(target) < P!Height(p))
    <3> SUFFICES ASSUME P!Height(target) < P!Height(p) PROVE FALSE
      OBVIOUS
    <3>1. p \in P!Candidates(P!Height(c))
      BY <2>1, <2>4, <2>6, <1>1 DEF P!Candidates, P!IsRelated
    <3>2. c \in P!KnownAt(c)
      BY <3>1, <2>4 DEF P!KnownAt
    <3>3. QED
      BY <3>2, <1>7
  <2>8. p \notin moved
    BY <2>7, <1>7
  <2>9. QED
    BY <2>1, <2>2, <2>3, <2>4, <2>5, <2>8
<1>9. ASSUME NEW p \in Blocks, MovedFrom(p) # {}
      PROVE  /\ p \in P!InTree /\ p # target /\ p \notin moved
             /\ LastFrom(p) \in moved /\ LastFrom(p) \in P!ToSet(tree[p].descendants)
  <2> HIDE DEF moved
  <2>1. MovedFrom(p) \in SUBSET Blocks /\ \A c \in MovedFrom(p) : P!Height(c) <= h
    BY <1>7, <1>8
  <2>2. \E c \in MovedFrom(p) : \A d \in MovedFrom(p) : P!Height(d) <= P!Height(c)
    <3> HIDE DEF MovedFrom
    <3> QED BY <2>1, <1>9, HighestIs
  <2>3. LastFrom(p) \in MovedFrom(p)
    <3> HIDE DEF MovedFrom
    <3> QED BY <2>2
  <2> HIDE DEF LastFrom
  <2>4. QED
    BY <2>3, <1>8
<1>10. order \in Seq(Blocks) /\ P!ToSet(order) = moved
  <2>1. order \in Seq(Blocks) /\ P!ToSet(order) = P!ToSet(Branch[tip]) \cap moved
    <3> HIDE DEF moved
    <3> QED BY <1>1, BranchesAre, OnlyIs
  <2>2. ASSUME NEW c \in moved
        PROVE  c \in P!ToSet(Branch[tip])
    <3>1. Branch[tip][P!Height(c) + 1] = c /\ P!Height(c) <= P!Height(tip) /\ P!Height(c) \in Nat
      BY <1>1, <1>7, <1>8, OnBranch
    <3>2. P!Height(c) + 1 \in DOMAIN Branch[tip]
      BY <3>1, <1>1, BranchOf
    <3>3. QED
      BY <3>1, <3>2 DEF P!ToSet
  <2> HIDE DEF order, moved
  <2>3. QED
    BY <2>1, <2>2
<1>11. CASE moved = {}
  <2>1. t = tree
    BY <1>11 DEF P!Balanced
  <2>2. QED
    BY <2>1, <1>2
<1>12. CASE moved # {}
  <2> DEFINE mine == tree[target].descendants \o order
             left(p) == P!Spliced(tree[p].descendants, LastFrom(p))
  <2>1. t = [b \in Blocks |->
               IF b = target THEN P!Node(tree[b].ancestor, tree[b].descendants \o order) ELSE
               IF MovedFrom(b) # {} THEN P!Node(tree[b].ancestor, left(b)) ELSE
               IF b \in moved THEN P!Node(target, tree[b].descendants)
               ELSE tree[b]]
    BY <1>12 DEF P!Balanced
  <2> HIDE DEF moved
  <2>2. mine \in Seq(Blocks) /\ P!ToSet(mine) = P!ToSet(tree[target].descendants) \cup moved
    <3> HIDE DEF order
    <3> QED BY <1>3, <1>10, ToSetOfTwo
  <2>3. ASSUME NEW p \in Blocks, MovedFrom(p) # {}
        PROVE  /\ left(p) \in Seq(Blocks)
               /\ P!ToSet(left(p)) \subseteq P!ToSet(tree[p].descendants)
               /\ P!ToSet(tree[p].descendants) \ moved \subseteq P!ToSet(left(p))
    <3>1. /\ p \in P!InTree /\ LastFrom(p) \in moved /\ LastFrom(p) \in P!ToSet(tree[p].descendants)
          /\ tree[p].descendants \in Seq(Blocks)
      BY <2>3, <1>9, <1>3
    <3> HIDE DEF LastFrom, MovedFrom
    <3>2. /\ left(p) \in Seq(Blocks)
          /\ P!ToSet(left(p)) \subseteq P!ToSet(tree[p].descendants)
          /\ P!ToSet(tree[p].descendants) \ {LastFrom(p)} \subseteq P!ToSet(left(p))
      BY <3>1, SplicedIs
    <3> HIDE DEF left
    <3>3. QED
      BY <3>1, <3>2
  <2> HIDE DEF mine, left, order, LastFrom
  <2>4. /\ t[target] = P!Node(tree[target].ancestor, mine)
        /\ \A p \in Blocks : MovedFrom(p) # {} => t[p] = P!Node(tree[p].ancestor, left(p))
        /\ \A c \in moved : t[c] = P!Node(target, tree[c].descendants)
        /\ \A c \in Blocks \ (moved \cup {target}) : MovedFrom(c) = {} => t[c] = tree[c]
    <3>1. t[target] = P!Node(tree[target].ancestor, mine)
      BY <2>1, <1>1 DEF mine
    <3>2. \A p \in Blocks : MovedFrom(p) # {} => t[p] = P!Node(tree[p].ancestor, left(p))
      <4> HIDE DEF MovedFrom
      <4> QED BY <2>1, <1>9
    <3>3. \A c \in moved : MovedFrom(c) = {} /\ c # target /\ c \in Blocks
      <4> HIDE DEF MovedFrom
      <4> QED BY <1>9, <1>8
    <3> HIDE DEF MovedFrom
    <3>4. QED
      BY <2>1, <3>1, <3>2, <3>3
  <2>5. ASSUME NEW b \in P!InTree
        PROVE  /\ t[b] \in Nodes /\ t[b] # None
               /\ P!ToSet(t[b].descendants) \subseteq P!InTree
               /\ P!ToSet(tree[b].descendants) \ moved \subseteq P!ToSet(t[b].descendants)
               /\ b \notin moved => t[b].ancestor = tree[b].ancestor
    <3> HIDE DEF MovedFrom
    <3>0. b \in Blocks /\ tree[b].ancestor \in Blocks \cup {None}
      BY <1>2, <1>3
    <3>1. CASE b = target
      <4>1. t[b] = P!Node(tree[b].ancestor, mine)
        BY <2>4, <3>1
      <4>2. mine \in Seq(Blocks) /\ P!ToSet(mine) = P!ToSet(tree[b].descendants) \cup moved
        BY <2>2, <3>1
      <4>3. /\ t[b] \in Nodes /\ t[b] # None
            /\ t[b].ancestor = tree[b].ancestor /\ t[b].descendants = mine
        BY <4>1, <4>2, <3>0, <1>5, <1>6
      <4>4. P!ToSet(tree[b].descendants) \subseteq P!InTree /\ moved \subseteq P!InTree
        BY <1>3, <1>7
      <4> HIDE DEF P!InTree
      <4>5. QED
        BY <4>2, <4>3, <4>4
    <3>2. CASE MovedFrom(b) # {}
      <4>1. t[b] = P!Node(tree[b].ancestor, left(b))
        BY <2>4, <3>2, <3>0
      <4>2. /\ left(b) \in Seq(Blocks)
            /\ P!ToSet(left(b)) \subseteq P!ToSet(tree[b].descendants)
            /\ P!ToSet(tree[b].descendants) \ moved \subseteq P!ToSet(left(b))
        BY <2>3, <3>2, <3>0
      <4>3. /\ t[b] \in Nodes /\ t[b] # None
            /\ t[b].ancestor = tree[b].ancestor /\ t[b].descendants = left(b)
        BY <4>1, <4>2, <3>0, <1>5, <1>6
      <4>4. P!ToSet(tree[b].descendants) \subseteq P!InTree
        BY <1>3
      <4>5. QED
        BY <4>2, <4>3, <4>4
    <3>3. CASE b \in moved
      <4>1. t[b] = P!Node(target, tree[b].descendants)
        BY <2>4, <3>3
      <4>2. QED
        BY <4>1, <3>3, <3>0, <1>1, <1>3, <1>5, <1>6
    <3>4. CASE b \notin moved \cup {target} /\ MovedFrom(b) = {}
      BY <2>4, <3>4, <3>0, <1>3
    <3>5. QED
      BY <3>1, <3>2, <3>3, <3>4
  <2>6. ASSUME NEW b \in Blocks \ P!InTree
        PROVE  t[b] = None
    <3>1. MovedFrom(b) = {} /\ b \notin moved /\ b # target /\ tree[b] = None
      <4> HIDE DEF MovedFrom
      <4> QED BY <1>9, <1>7 DEF P!InTree
    <3> HIDE DEF MovedFrom
    <3>2. QED
      BY <3>1, <2>4
  <2>7. t \in [Blocks -> Nodes \cup {None}]
    <3>1. \A b \in Blocks : t[b] \in Nodes \cup {None}
      BY <2>5, <2>6
    <3>2. QED
      BY <3>1, <2>1
  <2>8. Known(t) = P!InTree
    BY <2>5, <2>6, <1>2 DEF Known
  <2>9. Genesis \in Known(t) => t[Genesis].ancestor = None
    <3>1. Genesis \notin moved
      BY <1>8
    <3>2. Genesis \in P!InTree => tree[Genesis].ancestor = None
      BY <1>2 DEF TreeIsOne
    <3>3. QED
      BY <3>1, <3>2, <2>5, <2>8
  <2>10. ASSUME NEW c \in P!InTree \ {Genesis}
         PROVE  /\ t[c].ancestor \in P!InTree /\ P!IsAncestor(t[c].ancestor, c)
                /\ c \in P!ToSet(t[t[c].ancestor].descendants)
    <3>1. CASE c \in moved
      <4>1. t[c].ancestor = target
        BY <2>4, <3>1, <1>5
      <4>2. c \in P!ToSet(t[target].descendants)
        BY <2>2, <2>4, <3>1, <1>5
      <4>3. QED
        BY <4>1, <4>2, <3>1, <1>8
    <3>2. CASE c \notin moved
      <4>1. t[c].ancestor = tree[c].ancestor
        BY <2>5, <3>2
      <4>2. QED
        BY <4>1, <3>2, <2>5, <1>4
    <3>3. QED
      BY <3>1, <3>2
  <2>11. TreeIsOne(t)
    BY <2>5, <2>7, <2>8, <2>9, <2>10 DEF TreeIsOne
  <2>12. t[target].ancestor = tree[target].ancestor
    BY <2>4, <1>5
  <2>13. QED
    BY <2>8, <2>11, <2>12
<1>13. QED
  BY <1>11, <1>12


GetStates == {"asking", "loading", "hit", "miss"}

CallIs(g, state) == get[g] # None /\ get[g].state = state

\* What a running session relies on.
SessionInv ==
  /\ session.target \in P!InTree /\ P!IsOnBranch(session.target, session.tip)
  /\ \A a \in P!InTree : P!IsAncestor(a, session.target) =>
       P!Height(a) <= P!Height(tree[session.target].ancestor)
  /\ \A a \in ancestors : P!IsOnBranch(a, session.tip)
  /\ next # None => next \in P!InTree /\ P!IsOnBranch(next, session.tip)
  /\ \A g \in Gets : CallIs(g, "hit") => P!Usable(get[g].by)

\* At most one call loads an ancestor, and it is the next one.
LoadInv ==
  /\ lock = None \/ lock = next
  /\ \A g \in Gets : CallIs(g, "loading") =>
       lock # None /\ \A h \in Gets : CallIs(h, "loading") => h = g

PersistentInv ==
  /\ TreeIsOne(tree)
  /\ session \in [target : Blocks, tip : Tips] \cup {None}
  /\ get \in [Gets -> [by : Blocks, state : GetStates] \cup {None}]
  /\ ancestors \subseteq Blocks
  /\ session = None =>
       unbalanced = None /\ lock = None /\ \A g \in Gets : get[g] = None
  /\ session # None => SessionInv
  /\ LoadInv

LEMMA NoneIsNothing ==
  /\ None \notin [target : Blocks, tip : Tips]
  /\ None \notin [by : Blocks, state : GetStates]
  /\ None \notin Blocks
  /\ \A a \in Blocks \cup {None}, d \in Seq(Blocks) : P!Node(a, d) \in Nodes /\ P!Node(a, d) # None
BY CacheAssumption DEF GetStates, P!Node, Nodes

LEMMA CacheInitially == P!Init => PersistentInv
<1> SUFFICES ASSUME P!Init PROVE PersistentInv
  OBVIOUS
<1>1. TreeIsOne(tree)
  <2>1. tree = [b \in Blocks |-> None]
    BY DEF P!Init
  <2>2. Known(tree) = {} /\ tree \in [Blocks -> Nodes \cup {None}]
    BY <2>1 DEF Known
  <2>3. QED
    BY <2>2 DEF TreeIsOne
<1>2. QED
  BY <1>1 DEF P!Init, PersistentInv, LoadInv, CallIs

LEMMA OpenKeeps ==
  ASSUME PersistentInv, NEW b \in Blocks, NEW tip \in Tips, P!Open(b, tip)
  PROVE  PersistentInv'
<1>1. /\ session = None /\ TreeIsOne(tree) /\ P!IsOnBranch(b, tip) /\ tip \in Blocks
      /\ session' = [target |-> b, tip |-> tip]
      /\ lock' = None /\ get' = get /\ \A g \in Gets : get[g] = None
  BY BranchesAre DEF P!Open, PersistentInv
<1>2. /\ session' \in [target : Blocks, tip : Tips] /\ session' # None
      /\ session'.target = b /\ session'.tip = tip
  BY <1>1, NoneIsNothing
<1>3. /\ TreeIsOne(tree') /\ b \in Known(tree')
      /\ \A a \in Known(tree') : P!IsAncestor(a, b) => P!Height(a) <= P!Height(tree'[b].ancestor)
      /\ ancestors' \subseteq Blocks
      /\ \A a \in ancestors' : P!IsOnBranch(a, tip)
      /\ next' # None => next' \in Known(tree') /\ P!IsOnBranch(next', tip)
  <2>1. CASE b = Genesis
    <3>1. tree' = P!InitializedGenesis /\ next' = None /\ ancestors' = {}
      BY <2>1 DEF P!Open
    <3>2. \A a \in Blocks : ~P!IsAncestor(a, Genesis)
      <4> SUFFICES ASSUME NEW a \in Blocks, P!IsAncestor(a, Genesis) PROVE FALSE
        OBVIOUS
      <4>1. P!Height(a) < 0 /\ P!Height(a) \in Nat
        BY AncestorIsLower, HeightOfGenesis, BranchOf
      <4>2. QED
        BY <4>1
    <3>3. CASE tree[Genesis] # None
      <4>1. tree' = tree
        BY <3>1, <3>3 DEF P!InitializedGenesis
      <4>2. QED
        BY <4>1, <3>1, <3>2, <3>3, <2>1, <1>1, HeightOfGenesis DEF Known
    <3>4. CASE tree[Genesis] = None
      <4> DEFINE node == P!Node(None, <<>>)
      <4>1. tree' = [tree EXCEPT ![Genesis] = node]
        BY <3>1, <3>4 DEF P!InitializedGenesis
      <4>2. node \in Nodes /\ node # None /\ node.ancestor = None /\ P!ToSet(node.descendants) = {}
        <5>1. <<>> \in Seq(Blocks)
          OBVIOUS
        <5>2. node \in Nodes /\ node # None
          BY <5>1, NoneIsNothing
        <5>3. QED
          BY <5>2 DEF P!Node, P!ToSet
      <4> HIDE DEF node
      <4>3. tree \in [Blocks -> Nodes \cup {None}] /\ Genesis \in Blocks
        BY <1>1, HeightOfGenesis DEF TreeIsOne
      <4>4. /\ tree' \in [Blocks -> Nodes \cup {None}]
            /\ tree'[Genesis] = node
            /\ \A c \in Blocks \ {Genesis} : tree'[c] = tree[c]
        BY <4>1, <4>2, <4>3
      <4>5. Known(tree') = Known(tree) \cup {Genesis} /\ Genesis \notin Known(tree)
        BY <4>2, <4>3, <4>4, <3>4 DEF Known
      <4>6. \A c \in Known(tree) : c # Genesis /\ c \in Blocks /\ tree'[c] = tree[c]
        BY <4>4, <4>5 DEF Known
      <4>7. ASSUME NEW c \in Known(tree') \ {Genesis}
            PROVE  /\ tree'[c].ancestor \in Known(tree') /\ P!IsAncestor(tree'[c].ancestor, c)
                   /\ c \in P!ToSet(tree'[tree'[c].ancestor].descendants)
        <5>1. c \in Known(tree) \ {Genesis}
          BY <4>5
        <5>2. /\ tree[c].ancestor \in Known(tree) /\ P!IsAncestor(tree[c].ancestor, c)
              /\ c \in P!ToSet(tree[tree[c].ancestor].descendants)
          BY <5>1, <1>1 DEF TreeIsOne
        <5>3. QED
          BY <5>1, <5>2, <4>5, <4>6
      <4>8. ASSUME NEW c \in Known(tree')
            PROVE  P!ToSet(tree'[c].descendants) \subseteq Known(tree')
        <5>1. CASE c = Genesis
          BY <5>1, <4>2, <4>4
        <5>2. CASE c # Genesis
          <6>1. c \in Known(tree) /\ P!ToSet(tree[c].descendants) \subseteq Known(tree)
            BY <5>2, <4>5, <1>1 DEF TreeIsOne
          <6>2. QED
            BY <6>1, <4>5, <4>6
        <5>3. QED
          BY <5>1, <5>2
      <4>9. TreeIsOne(tree')
        BY <4>2, <4>4, <4>7, <4>8 DEF TreeIsOne
      <4>10. QED
        BY <4>5, <4>9, <3>1, <3>2, <2>1 DEF Known
    <3>5. QED
      BY <3>3, <3>4
  <2>2. CASE b # Genesis
    <3> DEFINE a == tree'[b].ancestor
    <3>1. tree' = P!Initialized(b, tip) /\ next' = tree'[a].ancestor /\ ancestors' = {a}
      BY <2>2 DEF P!Open
    <3>2. /\ TreeIsOne(tree') /\ b \in Known(tree')
          /\ \A c \in Known(tree') : P!IsAncestor(c, b) => P!Height(c) <= P!Height(a)
      BY <1>1, <2>2, <3>1, InitializedIs
    <3>3. a \in Known(tree') /\ P!IsAncestor(a, b)
      BY <2>2, <3>2 DEF TreeIsOne
    <3>4. a \in Blocks /\ P!IsOnBranch(a, tip)
      BY <3>3, <1>1, Transitive DEF Known, P!IsAncestor
    <3>5. next' # None => next' \in Known(tree') /\ P!IsOnBranch(next', tip)
      <4>1. a # Genesis => next' \in Known(tree') /\ P!IsAncestor(next', a)
        BY <3>1, <3>2, <3>3 DEF TreeIsOne
      <4>2. a = Genesis => next' = None
        BY <3>1, <3>2, <3>3 DEF TreeIsOne
      <4> HIDE DEF a
      <4>3. QED
        BY <4>1, <4>2, <3>4, <1>1, Transitive DEF Known, P!IsAncestor
    <3> HIDE DEF a
    <3>6. QED
      BY <3>1, <3>2, <3>4, <3>5 DEF a
  <2>3. QED
    BY <2>1, <2>2
<1>4. Known(tree') = P!InTree'
  BY DEF Known, P!InTree
<1>5. \A g \in Gets : get'[g] = None
  BY <1>1
<1>6. SessionInv'
  <2>1. \A g \in Gets : ~CallIs(g, "hit")'
    BY <1>5 DEF CallIs
  <2> HIDE DEF P!InTree
  <2>2. QED
    BY <1>1, <1>2, <1>3, <1>4, <2>1 DEF SessionInv
<1>7. LoadInv'
  BY <1>1, <1>5 DEF LoadInv, CallIs
<1>8. get' \in [Gets -> [by : Blocks, state : GetStates] \cup {None}]
  BY <1>1 DEF PersistentInv
<1>9. QED
  BY <1>2, <1>3, <1>6, <1>7, <1>8 DEF PersistentInv

LEMMA ReBalancedKeeps ==
  ASSUME PersistentInv, P!ReBalanced
  PROVE  PersistentInv'
<1>1. session # None /\ session \in [target : Blocks, tip : Tips] /\ SessionInv
  BY DEF PersistentInv, P!ReBalanced
<1>2. P!Height(session.tip) \in Nat
  BY <1>1, BranchesAre, BranchOf
<1>3. /\ TreeIsOne(tree') /\ Known(tree') = P!InTree
      /\ tree'[session.target].ancestor = tree[session.target].ancestor
  BY <1>1, <1>2, BalancedIs DEF PersistentInv, SessionInv, P!ReBalanced
<1>4. Known(tree') = P!InTree'
  BY DEF Known, P!InTree
<1>5. /\ session' = session /\ next' = next /\ ancestors' = ancestors /\ lock' = lock /\ get' = get
  BY DEF P!ReBalanced, P!ancestryVars
<1>6. SessionInv'
  <2>1. \A g \in Gets : (CallIs(g, "hit") <=> CallIs(g, "hit")')
    BY <1>5 DEF CallIs
  <2>2. \A g \in Gets : P!Usable(get[g].by) <=> P!Usable(get[g].by)'
    BY <1>5 DEF P!Usable
  <2>3. P!InTree' = P!InTree
    BY <1>3, <1>4
  <2> HIDE DEF P!InTree
  <2>4. QED
    BY <1>1, <1>3, <1>5, <2>1, <2>2, <2>3 DEF SessionInv
<1>7. LoadInv'
  BY <1>5 DEF PersistentInv, LoadInv, CallIs
<1>8. QED
  BY <1>1, <1>3, <1>5, <1>6, <1>7 DEF PersistentInv

\* A step of a call: only its own state changes, and what is known of ancestors.
LEMMA CallKeeps ==
  ASSUME PersistentInv, NEW g \in Gets, session # None,
         UNCHANGED <<P!treeVars, session, sessions>>,
         NEW new \in [by : Blocks, state : GetStates] \cup {None},
         get' = [get EXCEPT ![g] = new],
         ancestors \subseteq ancestors', ancestors' \subseteq Blocks,
         \A a \in ancestors' : P!IsOnBranch(a, session.tip),
         next' # None => next' \in P!InTree /\ P!IsOnBranch(next', session.tip),
         new # None /\ new.state = "hit" => new.by = session.target \/ new.by \in ancestors',
         LoadInv'
  PROVE  PersistentInv'
<1>1. /\ tree' = tree /\ session' = session /\ P!InTree' = P!InTree
      /\ SessionInv /\ TreeIsOne(tree) /\ session \in [target : Blocks, tip : Tips]
  BY DEF PersistentInv, P!treeVars, P!InTree
<1>2. get' \in [Gets -> [by : Blocks, state : GetStates] \cup {None}]
  BY DEF PersistentInv
<1>3. ASSUME NEW h \in Gets, CallIs(h, "hit")'
      PROVE  P!Usable(get[h].by)'
  <2>1. CASE h = g
    <3>1. get'[h] = new
      BY <2>1 DEF PersistentInv
    <3>2. QED
      BY <3>1, <1>1, <1>3 DEF CallIs, P!Usable
  <2>2. CASE h # g
    <3>1. get'[h] = get[h]
      BY <2>2 DEF PersistentInv
    <3>2. P!Usable(get[h].by)
      BY <3>1, <1>1, <1>3 DEF CallIs, SessionInv
    <3>3. QED
      BY <3>1, <3>2, <1>1 DEF P!Usable
  <2>3. QED
    BY <2>1, <2>2
<1>4. SessionInv'
  BY <1>1, <1>3 DEF SessionInv
<1>5. QED
  BY <1>1, <1>2, <1>4 DEF PersistentInv

LEMMA SameLoads ==
  ASSUME PersistentInv, NEW g \in Gets, lock' = lock, next' = next, ~CallIs(g, "loading")', 
         \A h \in Gets \ {g} : get'[h] = get[h]
  PROVE  LoadInv'
<1>1. \A h \in Gets : CallIs(h, "loading")' => CallIs(h, "loading") /\ h # g
  BY DEF CallIs
<1>2. LoadInv
  BY DEF PersistentInv
<1>3. QED
  BY <1>1, <1>2 DEF LoadInv

LEMMA GetKeeps ==
  ASSUME PersistentInv, NEW g \in Gets, NEW by \in Blocks, P!Get(g, by)
  PROVE  PersistentInv'
<1> DEFINE new == [by |-> by, state |-> "asking"]
<1>1. /\ session # None /\ get' = [get EXCEPT ![g] = new] /\ new.state = "asking"
      /\ new \in [by : Blocks, state : GetStates]
      /\ UNCHANGED <<P!treeVars, session, sessions>>
      /\ next' = next /\ ancestors' = ancestors /\ lock' = lock
  BY DEF P!Get, GetStates, P!ancestryVars
<1> HIDE DEF new
<1>2. get'[g] = new /\ \A h \in Gets \ {g} : get'[h] = get[h]
  BY <1>1 DEF PersistentInv
<1>3. LoadInv'
  BY <1>1, <1>2, SameLoads DEF CallIs
<1>4. ancestors \subseteq Blocks /\ SessionInv
  BY <1>1 DEF PersistentInv
<1>5. QED
  BY <1>1, <1>3, <1>4, CallKeeps DEF SessionInv

\* A call of which the state is another one.
LEMMA MovedTo ==
  ASSUME PersistentInv, NEW g \in Gets, get[g] # None, NEW state \in GetStates,
         get' = [get EXCEPT ![g].state = state]
  PROVE  \E new \in [by : Blocks, state : GetStates] :
           /\ get' = [get EXCEPT ![g] = new] /\ new.state = state /\ new.by = get[g].by
           /\ get'[g] = new /\ \A h \in Gets \ {g} : get'[h] = get[h]
           /\ session # None /\ SessionInv /\ ancestors \subseteq Blocks
<1> DEFINE new == [get[g] EXCEPT !.state = state]
<1>1. get[g] \in [by : Blocks, state : GetStates] /\ get \in [Gets -> [by : Blocks, state : GetStates] \cup {None}]
  BY DEF PersistentInv
<1>2. new \in [by : Blocks, state : GetStates] /\ new.state = state /\ new.by = get[g].by
  BY <1>1
<1>3. get' = [get EXCEPT ![g] = new]
  BY <1>1
<1>4. session # None /\ SessionInv /\ ancestors \subseteq Blocks
  BY DEF PersistentInv
<1> HIDE DEF new
<1>5. get'[g] = new /\ \A h \in Gets \ {g} : get'[h] = get[h]
  BY <1>1, <1>3
<1>6. QED
  BY <1>2, <1>3, <1>4, <1>5

LEMMA FoundKeeps ==
  ASSUME PersistentInv, NEW g \in Gets, P!Found(g)
  PROVE  PersistentInv'
<1>1. /\ get[g] # None /\ get' = [get EXCEPT ![g].state = "hit"] /\ P!Usable(get[g].by)
      /\ UNCHANGED <<P!treeVars, session, sessions>>
      /\ next' = next /\ ancestors' = ancestors /\ lock' = lock
      /\ "hit" \in GetStates
  BY DEF P!Found, GetStates, P!ancestryVars
<1>2. PICK new \in [by : Blocks, state : GetStates] :
           /\ get' = [get EXCEPT ![g] = new] /\ new.state = "hit" /\ new.by = get[g].by
           /\ get'[g] = new /\ \A h \in Gets \ {g} : get'[h] = get[h]
           /\ session # None /\ SessionInv /\ ancestors \subseteq Blocks
  BY <1>1, MovedTo
<1>3. LoadInv'
  BY <1>1, <1>2, SameLoads DEF CallIs
<1>4. new.by = session.target \/ new.by \in ancestors
  BY <1>1, <1>2 DEF P!Usable
<1>5. next' # None => next' \in P!InTree /\ P!IsOnBranch(next', session.tip)
  BY <1>1, <1>2 DEF SessionInv
<1>6. \A a \in ancestors' : P!IsOnBranch(a, session.tip)
  BY <1>1, <1>2 DEF SessionInv
<1>7. QED
  BY <1>1, <1>2, <1>3, <1>4, <1>5, <1>6, CallKeeps

LEMMA MissedKeeps ==
  ASSUME PersistentInv, NEW g \in Gets, P!Missed(g)
  PROVE  PersistentInv'
<1>1. /\ get[g] # None /\ get' = [get EXCEPT ![g].state = "miss"]
      /\ UNCHANGED <<P!treeVars, session, sessions>>
      /\ next' = next /\ ancestors' = ancestors /\ lock' = lock
      /\ "miss" \in GetStates
  BY DEF P!Missed, GetStates, P!ancestryVars
<1>2. PICK new \in [by : Blocks, state : GetStates] :
           /\ get' = [get EXCEPT ![g] = new] /\ new.state = "miss" /\ new.by = get[g].by
           /\ get'[g] = new /\ \A h \in Gets \ {g} : get'[h] = get[h]
           /\ session # None /\ SessionInv /\ ancestors \subseteq Blocks
  BY <1>1, MovedTo
<1>3. LoadInv'
  BY <1>1, <1>2, SameLoads DEF CallIs
<1>4. QED
  BY <1>1, <1>2, <1>3, CallKeeps DEF SessionInv

LEMMA StartLoadingKeeps ==
  ASSUME PersistentInv, NEW g \in Gets, P!StartLoading(g)
  PROVE  PersistentInv'
<1>1. /\ get[g] # None /\ get' = [get EXCEPT ![g].state = "loading"]
      /\ UNCHANGED <<P!treeVars, session, sessions>>
      /\ next # None /\ lock # next /\ lock' = next
      /\ next' = next /\ ancestors' = ancestors
      /\ "loading" \in GetStates
  BY DEF P!StartLoading, GetStates
<1>2. PICK new \in [by : Blocks, state : GetStates] :
           /\ get' = [get EXCEPT ![g] = new] /\ new.state = "loading" /\ new.by = get[g].by
           /\ get'[g] = new /\ \A h \in Gets \ {g} : get'[h] = get[h]
           /\ session # None /\ SessionInv /\ ancestors \subseteq Blocks
  BY <1>1, MovedTo
<1>3. lock = None /\ \A h \in Gets : ~CallIs(h, "loading")
  BY <1>1 DEF PersistentInv, LoadInv
<1>4. \A h \in Gets : CallIs(h, "loading")' => h = g
  BY <1>2, <1>3 DEF CallIs
<1>5. LoadInv'
  BY <1>1, <1>4 DEF LoadInv
<1>6. QED
  BY <1>1, <1>2, <1>5, CallKeeps DEF SessionInv

LEMMA LoadedKeeps ==
  ASSUME PersistentInv, NEW g \in Gets, P!Loaded(g)
  PROVE  PersistentInv'
<1>1. /\ CallIs(g, "loading") /\ get' = [get EXCEPT ![g].state = "asking"]
      /\ UNCHANGED <<P!treeVars, session, sessions>>
      /\ ancestors' = ancestors \cup {lock} /\ next' = tree[lock].ancestor /\ lock' = None
      /\ "asking" \in GetStates
  BY DEF P!Loaded, P!Following, GetStates, CallIs
<1>2. PICK new \in [by : Blocks, state : GetStates] :
           /\ get' = [get EXCEPT ![g] = new] /\ new.state = "asking" /\ new.by = get[g].by
           /\ get'[g] = new /\ \A h \in Gets \ {g} : get'[h] = get[h]
           /\ session # None /\ SessionInv /\ ancestors \subseteq Blocks
  BY <1>1, MovedTo DEF CallIs
<1>3. lock # None /\ lock = next /\ \A h \in Gets : CallIs(h, "loading") => h = g
  BY <1>1 DEF PersistentInv, LoadInv
<1>4. next \in P!InTree /\ P!IsOnBranch(next, session.tip) /\ next \in Blocks
  BY <1>2, <1>3 DEF SessionInv, P!InTree
<1>5. next' # None => next' \in P!InTree /\ P!IsOnBranch(next', session.tip)
  <2>1. TreeIsOne(tree) /\ Known(tree) = P!InTree
    BY DEF PersistentInv, Known, P!InTree
  <2>2. next = Genesis => next' = None
    BY <2>1, <1>1, <1>3, <1>4 DEF TreeIsOne
  <2>3. next # Genesis => next' \in P!InTree /\ P!IsAncestor(next', next)
    BY <2>1, <1>1, <1>3, <1>4 DEF TreeIsOne
  <2>4. session.tip \in Blocks
    BY <1>2, BranchesAre DEF PersistentInv
  <2>5. QED
    BY <2>2, <2>3, <2>4, <1>4, Transitive DEF P!IsAncestor, P!InTree
<1>6. LoadInv'
  <2>1. \A h \in Gets : ~CallIs(h, "loading")'
    BY <1>2, <1>3 DEF CallIs
  <2>2. QED
    BY <2>1, <1>1 DEF LoadInv
<1>7. /\ ancestors \subseteq ancestors' /\ ancestors' \subseteq Blocks
      /\ \A a \in ancestors' : P!IsOnBranch(a, session.tip)
  BY <1>1, <1>2, <1>3, <1>4 DEF SessionInv
<1>8. QED
  BY <1>1, <1>2, <1>5, <1>6, <1>7, CallKeeps

LEMMA ReturnKeeps ==
  ASSUME PersistentInv, NEW g \in Gets, P!Return(g)
  PROVE  PersistentInv'
<1>1. /\ get[g] # None /\ get' = [get EXCEPT ![g] = None]
      /\ UNCHANGED <<P!treeVars, session, sessions>>
      /\ next' = next /\ ancestors' = ancestors /\ lock' = lock
  BY DEF P!Return, P!ancestryVars
<1>2. get'[g] = None /\ \A h \in Gets \ {g} : get'[h] = get[h]
  BY <1>1 DEF PersistentInv
<1>3. LoadInv'
  BY <1>1, <1>2, SameLoads DEF CallIs
<1>4. session # None /\ SessionInv /\ ancestors \subseteq Blocks
  BY <1>1 DEF PersistentInv
<1>5. QED
  BY <1>1, <1>3, <1>4, CallKeeps DEF SessionInv

LEMMA CloseKeeps ==
  ASSUME PersistentInv, P!Close
  PROVE  PersistentInv'
<1>1. session # None /\ session \in [target : Blocks, tip : Tips] /\ SessionInv
  BY DEF PersistentInv, P!Close
<1>2. P!Height(session.tip) \in Nat /\ P!Height(session.target) \in Nat
  BY <1>1, BranchesAre, BranchOf
<1>3. TreeIsOne(tree')
  <2>1. CASE tree' = tree
    BY <2>1 DEF PersistentInv
  <2>2. CASE tree' # tree
    <3>1. PICK h \in P!Height(session.target) .. P!Height(session.tip) : tree' = P!Balanced(h)
      BY <2>2 DEF P!Close
    <3>2. h \in Nat
      BY <1>2
    <3>3. QED
      BY <1>1, <3>1, <3>2, BalancedIs DEF PersistentInv, SessionInv
  <2>3. QED
    BY <2>1, <2>2
<1>4. /\ session' = None /\ unbalanced' = None /\ next' = None /\ ancestors' = {} /\ lock' = None
      /\ get' = [g \in Gets |-> None]
  BY DEF P!Close
<1>5. \A g \in Gets : get'[g] = None
  BY <1>4
<1>6. LoadInv'
  BY <1>4, <1>5 DEF LoadInv, CallIs
<1>7. QED
  BY <1>3, <1>4, <1>5, <1>6 DEF PersistentInv

LEMMA CacheNext == PersistentInv /\ [P!Next]_P!vars => PersistentInv'
<1> SUFFICES ASSUME PersistentInv, [P!Next]_P!vars PROVE PersistentInv'
  OBVIOUS
<1>1. CASE \E b \in Blocks, tip \in Tips : P!Open(b, tip)
  BY <1>1, OpenKeeps
<1>2. CASE P!ReBalanced
  BY <1>2, ReBalancedKeeps
<1>3. CASE \E g \in Gets : \/ \E by \in Blocks : P!Get(g, by)
                           \/ P!Found(g) \/ P!Missed(g) \/ P!StartLoading(g) \/ P!Loaded(g) \/ P!Return(g)
  BY <1>3, GetKeeps, FoundKeeps, MissedKeeps, StartLoadingKeeps, LoadedKeeps, ReturnKeeps
<1>4. CASE P!Close
  BY <1>4, CloseKeeps
<1>5. CASE UNCHANGED P!vars
  BY <1>5 DEF P!vars, P!treeVars, P!ancestryVars, PersistentInv, SessionInv, LoadInv, CallIs, P!Usable, P!InTree
<1>6. QED
  BY <1>1, <1>2, <1>3, <1>4, <1>5 DEF P!Next

\* An ancestor of the session has answered for blocks the two share.
LEMMA HitsAre == PersistentInv => P!HitsAreRight
<1> SUFFICES ASSUME PersistentInv, NEW g \in Gets, get[g] # None, get[g].state = "hit",
                    NEW h \in 0 .. P!Height(get[g].by), h <= P!Height(session.target)
             PROVE  P!Stored(get[g].by, h) = P!AtHeight(session.tip, h)
  BY DEF P!HitsAreRight
<1> DEFINE by == get[g].by
<1>1. session # None /\ SessionInv /\ session \in [target : Blocks, tip : Tips] /\ by \in Blocks
  BY DEF PersistentInv
<1>2. by = session.target \/ by \in ancestors
  BY <1>1 DEF SessionInv, CallIs, P!Usable
<1>3. P!IsOnBranch(by, session.tip) /\ session.tip \in Blocks
  BY <1>1, <1>2, BranchesAre DEF SessionInv
<1> HIDE DEF by
<1>4. /\ P!Height(by) \in Nat /\ P!Height(session.tip) \in Nat /\ P!Height(by) <= P!Height(session.tip)
      /\ \A k \in 0 .. P!Height(by) : Branch[by][k + 1] = Branch[session.tip][k + 1]
  BY <1>1, <1>3, SharedBelow
<1>5. h \in 0 .. P!Height(by) /\ h <= P!Height(by) /\ h <= P!Height(session.tip)
  BY <1>4 DEF by
<1>6. QED
  BY <1>4, <1>5 DEF P!Stored, P!AtHeight, by

LEMMA TreeIs == PersistentInv => P!TreeIsSound
<1> SUFFICES ASSUME PersistentInv PROVE P!TreeIsSound
  OBVIOUS
<1>1. P!InTree = Known(tree) /\ TreeIsOne(tree)
  BY DEF PersistentInv, P!InTree, Known
<1>2. ASSUME NEW b \in P!InTree \ {Genesis}
      PROVE  /\ tree[b].ancestor \in P!InTree
             /\ P!IsAncestor(tree[b].ancestor, b)
             /\ P!Contains(tree[tree[b].ancestor].descendants, b)
  <2> DEFINE a == tree[b].ancestor
             s == tree[a].descendants
  <2>1. a \in P!InTree /\ P!IsAncestor(a, b) /\ b \in P!ToSet(s)
    BY <1>1 DEF TreeIsOne
  <2>2. s \in Seq(Blocks)
    BY <2>1, <1>1 DEF TreeIsOne, Nodes, P!InTree
  <2> HIDE DEF s
  <2>3. P!Contains(s, b)
    BY <2>1, <2>2 DEF P!ToSet, P!Contains
  <2>4. QED
    BY <2>1, <2>3 DEF s
<1>3. P!ListedByParent
  BY <1>2 DEF P!ListedByParent
<1>4. P!AncestorIsClosest
  BY DEF PersistentInv, SessionInv, P!AncestorIsClosest
<1>5. QED
  BY <1>3, <1>4 DEF P!TreeIsSound

(***************************************************************************)
(* The invariant holds of every session of the cache, at every step of its *)
(* initialize(), its re-balancing, its calls of get() and its close().     *)
(***************************************************************************)
THEOREM PersistentInvariance == P!Spec => []PersistentInv
<1>1. QED
  BY CacheInitially, CacheNext, PTL DEF P!Spec

(***************************************************************************)
(* CacheIsSound, which the run checks: what get() takes from an earlier    *)
(* session is what this session's chain has at that height, and the tree of *)
(* fork blocks gives each the closest known ancestor, by which it is listed *)
(* (persistent-cache.ts:123-330, ancestry.ts).                             *)
(***************************************************************************)
THEOREM CacheSound == P!Spec => []CacheIsSound
<1>1. PersistentInv => CacheIsSound
  BY HitsAre, TreeIs DEF CacheIsSound, P!CacheIsSound
<1>2. QED
  BY <1>1, PersistentInvariance, PTL

=============================================================================
