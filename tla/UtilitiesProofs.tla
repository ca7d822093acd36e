-------------------------- MODULE UtilitiesProofs ---------------------------
(***************************************************************************)
(* What holds of the parts that MCUtilities puts side by side, for every   *)
(* value of their constants.                                               *)
(*                                                                         *)
(* The promise queue: for any number of calls of add() and clear() and any *)
(* values, the types, ResolvedInOrder, NotBusyMeansDrained and             *)
(* ResultIsOwnOrFirstClear.  The heap: HeapIsRight.  The rate limiter:     *)
(* WindowsAreCounted.                                                      *)
(*                                                                         *)
(* The heap's operations are recursive functions.  That some function      *)
(* solves such an equation is lemma Recursion; what it computes follows by *)
(* strong induction on a number.  Both come from the least element of a    *)
(* set of numbers.                                                         *)
(***************************************************************************)
EXTENDS MCUtilities, SequenceTheorems, FiniteSetTheorems, WellFoundedInduction, TLAPS

-----------------------------------------------------------------------------

(***************************************************************************)
(* The least element of a set of numbers, from the well-foundedness of     *)
(* strict inclusion on the initial segments of the numbers.                *)
(***************************************************************************)
LEMMA LeastElement ==
  ASSUME NEW A \in SUBSET Nat, A # {}
  PROVE  \E n \in A : \A k \in A : n <= k
<1>1. PICK m \in A : TRUE
  OBVIOUS
<1> DEFINE U == 0..m
           Segments == {0..n : n \in A \cap U}
<1>2. IsFiniteSet(U)
  BY FS_Interval
<1>3. IsWellFoundedOn(StrictSubsetOrdering(U), SUBSET U)
  BY <1>2, FS_StrictSubsetOrderingWellFounded, FS_FiniteSubsetsOfFinite
<1>4. Segments \subseteq SUBSET U /\ Segments # {}
  BY <1>1
<1>5. PICK x \in Segments : \A y \in Segments : ~ (<<y, x>> \in StrictSubsetOrdering(U))
  BY <1>3, <1>4, WFMin
<1>6. PICK n \in A \cap U : x = 0..n
  OBVIOUS
<1>7. ASSUME NEW k \in A, k < n
      PROVE  FALSE
  <2>1. k \in A \cap U /\ 0..k \in Segments
    BY <1>6, <1>7
  <2>2. 0..k \subseteq 0..n /\ 0..k # 0..n
    BY <1>6, <1>7
  <2>3. <<0..k, 0..n>> \in StrictSubsetOrdering(U)
    BY <1>4, <1>6, <2>1, <2>2 DEF StrictSubsetOrdering
  <2>4. QED
    BY <1>5, <1>6, <2>1, <2>3
<1>8. QED
  BY <1>6, <1>7

(***************************************************************************)
(* A property of the numbers that passes from all smaller ones to each.    *)
(***************************************************************************)
LEMMA StrongInduction ==
  ASSUME NEW Bad \in SUBSET Nat, \A n \in Bad : \E k \in Bad : k < n
  PROVE  Bad = {}
<1> SUFFICES ASSUME Bad # {} PROVE FALSE
  OBVIOUS
<1>1. PICK n \in Bad : \A k \in Bad : n <= k
  BY LeastElement
<1>2. PICK k \in Bad : k < n
  OBVIOUS
<1>3. QED
  BY <1>1, <1>2

(***************************************************************************)
(* A recursive function whose calls have a smaller measure exists.  Its    *)
(* domain is dom; it goes on where goes says so, at next, and makes its    *)
(* result of that one by make; it ends with end.                           *)
(***************************************************************************)
Solves(f, set, goes, next, make, end) ==
  \A x \in set : f[x] = IF goes[x] THEN make[<<x, f[next[x]]>>] ELSE end[x]

Below(dom, size, n) == {x \in dom : size[x] < n}

GoesDown(dom, res, goes, next, make, end, size) ==
  /\ goes \in [dom -> BOOLEAN]
  /\ next \in [dom -> dom]
  /\ make \in [dom \X res -> res]
  /\ end \in [dom -> res]
  /\ size \in [dom -> Nat]
  /\ \A x \in dom : goes[x] => size[next[x]] < size[x]

LEMMA RecursionUpTo ==
  ASSUME NEW dom, NEW res, NEW goes, NEW next, NEW make, NEW end, NEW size,
         GoesDown(dom, res, goes, next, make, end, size),
         NEW n \in Nat
  PROVE  \E f \in [Below(dom, size, n) -> res] :
           Solves(f, Below(dom, size, n), goes, next, make, end)
<1> USE DEF GoesDown, Below
<1> DEFINE Good(k) == \E f \in [Below(dom, size, k) -> res] : Solves(f, Below(dom, size, k), goes, next, make, end)
           Bad == {k \in Nat : ~Good(k)}
<1>1. ASSUME NEW k \in Bad
      PROVE  \E j \in Bad : j < k
  <2>1. CASE k = 0
    <3>1. Below(dom, size, 0) = {}
      OBVIOUS
    <3>2. [x \in Below(dom, size, 0) |-> end[x]] \in [Below(dom, size, 0) -> res]
      OBVIOUS
    <3>3. Solves([x \in Below(dom, size, 0) |-> end[x]], Below(dom, size, 0), goes, next, make, end)
      BY <3>1 DEF Solves
    <3>4. Good(0)
      BY <3>2, <3>3
    <3>5. QED
      BY <2>1, <3>4
  <2>2. CASE k # 0
    <3>1. k - 1 \in Nat /\ k - 1 < k
      BY <2>2
    <3> SUFFICES ASSUME k - 1 \notin Bad PROVE FALSE
      BY <3>1
    <3>2. PICK f \in [Below(dom, size, k - 1) -> res] : Solves(f, Below(dom, size, k - 1), goes, next, make, end)
      BY <3>1
    <3> DEFINE g == [x \in Below(dom, size, k) |-> IF goes[x] THEN make[<<x, f[next[x]]>>] ELSE end[x]]
    <3>3. ASSUME NEW x \in Below(dom, size, k), goes[x]
          PROVE  next[x] \in Below(dom, size, k - 1) /\ next[x] \in Below(dom, size, k)
      <4>1. x \in dom /\ next[x] \in dom /\ size[next[x]] \in Nat /\ size[x] \in Nat
        OBVIOUS
      <4>2. size[next[x]] < size[x] /\ size[x] < k
        BY <4>1, <3>3
      <4>3. QED
        BY <4>1, <4>2, <3>1
    <3>4. g \in [Below(dom, size, k) -> res]
      <4> SUFFICES ASSUME NEW x \in Below(dom, size, k)
                   PROVE  (IF goes[x] THEN make[<<x, f[next[x]]>>] ELSE end[x]) \in res
        OBVIOUS
      <4>1. CASE goes[x]
        <5>1. f[next[x]] \in res
          BY <4>1, <3>3, <3>2
        <5>2. QED
          BY <4>1, <5>1
      <4>2. QED
        BY <4>1
    <3>5. \A x \in Below(dom, size, k) : goes[x] => g[next[x]] = f[next[x]]
      <4> SUFFICES ASSUME NEW x \in Below(dom, size, k), goes[x] PROVE g[next[x]] = f[next[x]]
        OBVIOUS
      <4>1. next[x] \in Below(dom, size, k - 1) /\ next[x] \in Below(dom, size, k)
        BY <3>3
      <4> DEFINE y == next[x]
      <4>2. f[y] = IF goes[y] THEN make[<<y, f[next[y]]>>] ELSE end[y]
        BY <3>2, <4>1 DEF Solves
      <4>3. QED
        BY <4>1, <4>2
    <3>6. \A x \in Below(dom, size, k) : g[x] = IF goes[x] THEN make[<<x, f[next[x]]>>] ELSE end[x]
      OBVIOUS
    <3> HIDE DEF g
    <3>7. Solves(g, Below(dom, size, k), goes, next, make, end)
      BY <3>5, <3>6 DEF Solves
    <3>8. QED
      BY <3>4, <3>7
  <2>3. QED
    BY <2>1, <2>2
<1>2. Bad \in SUBSET Nat
  OBVIOUS
<1> HIDE DEF Good, Bad
<1>3. Bad = {}
  BY <1>1, <1>2, StrongInduction
<1>4. Good(n)
  BY <1>3 DEF Bad
<1>5. QED
  BY <1>4 DEF Good

LEMMA RecursionUnique ==
  ASSUME NEW dom, NEW res, NEW goes, NEW next, NEW make, NEW end, NEW size,
         GoesDown(dom, res, goes, next, make, end, size),
         NEW n \in Nat, NEW m \in Nat, n <= m, NEW f, NEW g,
         Solves(f, Below(dom, size, n), goes, next, make, end),
         Solves(g, Below(dom, size, m), goes, next, make, end)
  PROVE  \A x \in dom : size[x] < n => f[x] = g[x]
<1> USE DEF GoesDown, Below
<1> DEFINE Bad == {k \in Nat : \E x \in dom : size[x] = k /\ k < n /\ f[x] # g[x]}
<1>1. ASSUME NEW k \in Bad
      PROVE  \E j \in Bad : j < k
  <2>1. PICK x \in dom : size[x] = k /\ k < n /\ f[x] # g[x]
    OBVIOUS
  <2>2. x \in Below(dom, size, n) /\ x \in Below(dom, size, m)
    BY <2>1
  <2>3. /\ f[x] = IF goes[x] THEN make[<<x, f[next[x]]>>] ELSE end[x]
        /\ g[x] = IF goes[x] THEN make[<<x, g[next[x]]>>] ELSE end[x]
    BY <2>2 DEF Solves
  <2>4. goes[x] /\ f[next[x]] # g[next[x]]
    BY <2>1, <2>3
  <2>5. next[x] \in dom /\ size[next[x]] \in Nat /\ size[next[x]] < k
    BY <2>1, <2>4
  <2>6. size[next[x]] < n
    BY <2>1, <2>5
  <2>7. size[next[x]] \in Bad
    BY <2>4, <2>5, <2>6
  <2>8. QED
    BY <2>5, <2>7
<1>2. Bad \in SUBSET Nat
  OBVIOUS
<1> HIDE DEF Bad
<1>3. Bad = {}
  BY <1>1, <1>2, StrongInduction
<1>4. QED
  BY <1>3 DEF Bad

LEMMA Recursion ==
  ASSUME NEW dom, NEW res, NEW goes, NEW next, NEW make, NEW end, NEW size,
         GoesDown(dom, res, goes, next, make, end, size)
  PROVE  \E f \in [dom -> res] :
           f = [x \in dom |-> IF goes[x] THEN make[<<x, f[next[x]]>>] ELSE end[x]]
<1> USE DEF GoesDown, Below
<1> DEFINE IsUpTo(f, k) == f \in [Below(dom, size, k) -> res] /\ Solves(f, Below(dom, size, k), goes, next, make, end)
           UpTo(k) == CHOOSE f : IsUpTo(f, k)
           F == [x \in dom |-> UpTo(size[x] + 1)[x]]
<1> HIDE DEF UpTo, F
<1>1. ASSUME NEW k \in Nat
      PROVE  IsUpTo(UpTo(k), k)
  <2>1. \E f \in [Below(dom, size, k) -> res] :
          Solves(f, Below(dom, size, k), goes, next, make, end)
    <3> HIDE DEF GoesDown, Below
    <3>1. QED
      BY RecursionUpTo
  <2>2. \E f : IsUpTo(f, k)
    BY <2>1
  <2> HIDE DEF IsUpTo
  <2>3. QED
    BY <2>2 DEF UpTo
<1> USE DEF F
<1>2. ASSUME NEW x \in dom
      PROVE  /\ F[x] \in res
             /\ F[x] = IF goes[x] THEN make[<<x, F[next[x]]>>] ELSE end[x]
  <2> DEFINE k == size[x] + 1
             j == size[next[x]] + 1
  <2>1. size[x] \in Nat /\ k \in Nat /\ size[x] < k
    OBVIOUS
  <2>2. UpTo(k) \in [Below(dom, size, k) -> res] /\ Solves(UpTo(k), Below(dom, size, k), goes, next, make, end)
    BY <2>1, <1>1
  <2>3. x \in Below(dom, size, k)
    BY <2>1
  <2>4. F[x] = UpTo(k)[x]
    OBVIOUS
  <2>5. F[x] \in res
    BY <2>2, <2>3, <2>4
  <2>6. F[x] = IF goes[x] THEN make[<<x, UpTo(k)[next[x]]>>] ELSE end[x]
    BY <2>2, <2>3, <2>4 DEF Solves
  <2>7. CASE goes[x]
    <3>1. next[x] \in dom /\ size[next[x]] \in Nat /\ size[next[x]] < size[x]
      BY <2>7
    <3>2. j \in Nat /\ j <= k /\ size[next[x]] < j
      BY <2>1, <3>1
    <3>3. Solves(UpTo(j), Below(dom, size, j), goes, next, make, end)
      BY <3>2, <1>1
    <3>4. UpTo(j)[next[x]] = UpTo(k)[next[x]]
      <4>1. /\ Solves(UpTo(j), Below(dom, size, j), goes, next, make, end)
            /\ Solves(UpTo(k), Below(dom, size, k), goes, next, make, end)
        BY <2>2, <3>3
      <4> HIDE DEF j, k, GoesDown, Below
      <4>2. \A y \in dom : size[y] < j => UpTo(j)[y] = UpTo(k)[y]
        BY <4>1, <2>1, <3>2, RecursionUnique
      <4>3. QED
        BY <3>1, <3>2, <4>2
    <3>5. F[next[x]] = UpTo(j)[next[x]]
      BY <3>1
    <3> HIDE DEF F, j, k
    <3>6. QED
      BY <2>5, <2>6, <2>7, <3>4, <3>5
  <2>8. QED
    BY <2>5, <2>6, <2>7
<1> HIDE DEF F
<1>3. F = [x \in dom |-> F[x]]
  BY DEF F
<1>4. F \in [dom -> res]
  BY <1>2, <1>3
<1>5. F = [x \in dom |-> IF goes[x] THEN make[<<x, F[next[x]]>>] ELSE end[x]]
  BY <1>2, <1>3
<1>6. QED
  BY <1>4, <1>5

-----------------------------------------------------------------------------

(***************************************************************************)
(* The array an entry that is still pending belongs in: the live one, or   *)
(* the one that the first clear() after its add() made.                    *)
(***************************************************************************)
Home(e) == IF batch[e] = clears THEN 0 ELSE batch[e] + 1

Increasing(q) == \A p, j \in 1..Len(q) : p < j => q[p] < q[j]

Fresh ==
  \A e \in Entries : e > adds =>
    /\ settled[e] = FALSE
    /\ resolved[e] = FALSE
    /\ promise[e] = Pending
    /\ value[e] = Own
    /\ entryQueue[e] = 0

InItsArray ==
  \A k \in ArrayIds : \A p \in 1..Len(array[k]) : \A e \in Entries :
    array[k][p] = e =>
      /\ e \in 1..adds
      /\ Home(e) = k
      /\ promise[e] = Pending
      /\ entryQueue[e] = k

NoneLost ==
  \A e \in 1..adds : promise[e] = Pending =>
    \E p \in 1..Len(array[Home(e)]) : array[Home(e)][p] = e

FlagsRight ==
  \A e \in 1..adds :
    /\ resolved[e] = TRUE => settled[e] = TRUE
    /\ promise[e] = Pending /\ settled[e] = TRUE => resolved[e] = TRUE

HeadWaits ==
  \A k \in ArrayIds : Len(array[k]) > 0 => settled[array[k][1]] = FALSE

AheadSettled ==
  \A e \in 1..adds : promise[e] # Pending =>
    \A f \in Ahead(e) : settled[f] = TRUE

ValueRight ==
  \A e \in 1..adds : promise[e] = Pending =>
    value[e] = IF batch[e] = clears THEN Own ELSE clearValue[batch[e] + 1]

(***************************************************************************)
(* The inductive invariant.  ResolvedInOrder is about promises and flags   *)
(* only; what keeps it is where the pending entries are: each in the one   *)
(* array it believes to be in, in the order they were added, behind a      *)
(* head that has not settled.                                              *)
(***************************************************************************)
IInv ==
  /\ TypeOK
  /\ \A e \in 1..adds : batch[e] <= clears
  /\ Fresh
  /\ \A k \in ArrayIds : Increasing(array[k])
  /\ InItsArray
  /\ NoneLost
  /\ FlagsRight
  /\ HeadWaits
  /\ AheadSettled
  /\ ValueRight

-----------------------------------------------------------------------------

(***************************************************************************)
(* #tryResolveChain: the settled prefix exists.                            *)
(***************************************************************************)
LEMMA PrefixExists ==
  ASSUME NEW q \in Seq(Entries), resolved \in [Entries -> BOOLEAN]
  PROVE  /\ ResolvedPrefix(q) \in 0..Len(q)
         /\ \A p \in 1..ResolvedPrefix(q) : resolved[q[p]] = TRUE
         /\ ResolvedPrefix(q) < Len(q) =>
              resolved[q[ResolvedPrefix(q) + 1]] = FALSE
<1> DEFINE A == {n \in 0..Len(q) : n < Len(q) => ~resolved[q[n + 1]]}
<1>1. Len(q) \in Nat /\ \A p \in 1..Len(q) : q[p] \in Entries
  BY LenProperties, ElementOfSeq
<1>2. A \in SUBSET Nat /\ Len(q) \in A
  BY <1>1
<1>3. PICK n \in A : \A k \in A : n <= k
  BY <1>2, LeastElement
<1>4. \A p \in 1..n : resolved[q[p]]
  <2> SUFFICES ASSUME NEW p \in 1..n PROVE resolved[q[p]]
    OBVIOUS
  <2>1. p - 1 \in 0..Len(q) /\ p - 1 < Len(q) /\ ~(n <= p - 1) /\ p - 1 + 1 = p
    BY <1>1
  <2>2. p - 1 \notin A
    <3> HIDE DEF A
    <3>1. QED
      BY <1>3, <2>1
  <2>3. QED
    BY <2>1, <2>2
<1>5. \E j \in 0..Len(q) :
        /\ \A p \in 1..j : resolved[q[p]]
        /\ j < Len(q) => ~resolved[q[j + 1]]
  BY <1>3, <1>4
<1>6. /\ ResolvedPrefix(q) \in 0..Len(q)
      /\ \A p \in 1..ResolvedPrefix(q) : resolved[q[p]]
      /\ ResolvedPrefix(q) < Len(q) => ~resolved[q[ResolvedPrefix(q) + 1]]
  BY <1>5 DEF ResolvedPrefix
<1>7. \A p \in 1..Len(q) : resolved[q[p]] \in BOOLEAN
  BY <1>1
<1> HIDE DEF A
<1>8. QED
  BY <1>1, <1>6, <1>7

-----------------------------------------------------------------------------

LEMMA InvariantInit == Init => IInv
<1> SUFFICES ASSUME Init PROVE IInv
  OBVIOUS
<1>1. 1..0 = {} /\ Len(<<>>) = 0 /\ <<>> \in Seq(Entries)
  BY EmptySeq
<1>2. 0 \in ArrayIds /\ 0 \in 0..MaxAdds
  BY BoundsAssumption DEF ArrayIds
<1>3. TypeOK
  BY <1>1, <1>2 DEF Init, TypeOK
<1>4. Fresh
  BY DEF Init, Fresh
<1>5. \A k \in ArrayIds : array[k] = <<>>
  BY DEF Init
<1>6. (\A k \in ArrayIds : Increasing(array[k])) /\ InItsArray /\ HeadWaits
  BY <1>1, <1>5 DEF Increasing, InItsArray, HeadWaits
<1>7. NoneLost /\ FlagsRight /\ AheadSettled /\ ValueRight
  BY <1>1 DEF Init, NoneLost, FlagsRight, AheadSettled, ValueRight
<1>8. \A e \in 1..adds : batch[e] <= clears
  BY <1>1 DEF Init
<1>9. QED
  BY <1>3, <1>4, <1>6, <1>7, <1>8 DEF IInv

(***************************************************************************)
(* What the steps have in common: the shape of the state.                  *)
(***************************************************************************)
LEMMA Shapes ==
  ASSUME IInv
  PROVE  /\ adds \in Nat /\ adds <= MaxAdds /\ MaxAdds \in Nat
         /\ clears \in Nat /\ clears <= MaxClears /\ MaxClears \in Nat
         /\ 1..adds \subseteq Entries
         /\ clears \in ArrayIds /\ 0 \in ArrayIds
         /\ \A k \in ArrayIds : array[k] \in Seq(Entries) /\ Len(array[k]) \in Nat
         /\ \A e \in 1..adds : batch[e] \in Nat /\ batch[e] <= clears
         /\ \A e \in 1..adds : Home(e) \in ArrayIds
<1>1. /\ adds \in Nat /\ adds <= MaxAdds /\ MaxAdds \in Nat
      /\ clears \in Nat /\ clears <= MaxClears /\ MaxClears \in Nat
      /\ 1..adds \subseteq Entries
      /\ clears \in ArrayIds /\ 0 \in ArrayIds
  BY BoundsAssumption DEF IInv, TypeOK, ArrayIds, Entries
<1>2. \A k \in ArrayIds : array[k] \in Seq(Entries)
  BY DEF IInv, TypeOK
<1>3. \A k \in ArrayIds : Len(array[k]) \in Nat
  BY <1>2, LenProperties
<1>4. \A e \in 1..adds : batch[e] \in Nat /\ batch[e] <= clears
  BY <1>1 DEF IInv, TypeOK, ArrayIds
<1>5. \A e \in 1..adds : Home(e) \in ArrayIds
  BY <1>1, <1>4 DEF Home, ArrayIds
<1>6. QED
  BY <1>1, <1>2, <1>3, <1>4, <1>5

LEMMA Members ==
  ASSUME IInv, NEW k \in ArrayIds, NEW p \in 1..Len(array[k])
  PROVE  /\ array[k][p] \in 1..adds /\ array[k][p] \in Entries
         /\ Home(array[k][p]) = k
         /\ promise[array[k][p]] = Pending
         /\ entryQueue[array[k][p]] = k
<1>1. PICK e \in Entries : array[k][p] = e
  BY Shapes, ElementOfSeq
<1>2. e \in 1..adds /\ Home(e) = k /\ promise[e] = Pending /\ entryQueue[e] = k
  BY <1>1 DEF IInv, InItsArray
<1>3. QED
  BY <1>1, <1>2

LEMMA AddStep ==
  ASSUME IInv, Add
  PROVE  IInv'
<1>1. PICK new \in Entries : new = adds + 1
  BY Shapes DEF Add, Entries
<1>2. PICK q \in Seq(Entries) : q = array[0]
  BY Shapes
<1>3. /\ adds \in Nat /\ adds < MaxAdds /\ MaxAdds \in Nat
      /\ 1..adds \subseteq Entries
      /\ 1..adds' = 1..adds \cup {new} /\ new \notin 1..adds
      /\ clears \in ArrayIds /\ clears \in Nat /\ 0 \in ArrayIds
      /\ Len(q) \in Nat
  BY <1>1, <1>2, Shapes, LenProperties DEF Add, Entries
<1>4. /\ adds' = adds + 1
      /\ UNCHANGED <<entryQueue, value, resolved, promise, settled, clears,
                     clearValue>>
      /\ array' = [array EXCEPT ![0] = Append(q, new)]
      /\ batch' = [batch EXCEPT ![new] = clears]
  BY <1>1, <1>2 DEF Add
<1>5. /\ array' \in [ArrayIds -> Seq(Entries)]
      /\ array'[0] = Append(q, new)
      /\ \A k \in ArrayIds : k # 0 => array'[k] = array[k]
  BY <1>3, <1>4, AppendProperties DEF IInv, TypeOK
<1>6. /\ batch' \in [Entries -> ArrayIds]
      /\ batch'[new] = clears
      /\ \A e \in 1..adds : batch'[e] = batch[e]
  BY <1>3, <1>4 DEF IInv, TypeOK
<1>7. TypeOK'
  <2>1. adds' \in 0..MaxAdds
    BY <1>3, <1>4
  <2>2. QED
    BY <1>4, <1>5, <1>6, <2>1 DEF IInv, TypeOK
<1>8. /\ settled[new] = FALSE /\ resolved[new] = FALSE /\ promise[new] = Pending
      /\ value[new] = Own /\ entryQueue[new] = 0
  <2>1. new > adds
    BY <1>1, <1>3
  <2>2. QED
    BY <2>1 DEF IInv, Fresh
<1>9. \A e \in 1..adds' : batch'[e] <= clears'
  BY <1>3, <1>4, <1>6 DEF IInv
<1>10. Fresh'
  <2>1. \A e \in Entries : e > adds' => e > adds
    BY <1>3, <1>4 DEF Entries
  <2>2. QED
    BY <1>4, <2>1 DEF IInv, Fresh
<1>11. /\ Home(new)' = 0
       /\ \A e \in 1..adds : Home(e)' = Home(e)
  BY <1>4, <1>6 DEF Home
<1>12. /\ Len(array'[0]) = Len(q) + 1
       /\ \A p \in 1..Len(q) : array'[0][p] = q[p]
       /\ array'[0][Len(q) + 1] = new
  BY <1>5, AppendProperties
<1>13. \A p \in 1..Len(q) : q[p] \in 1..adds
  BY <1>2, <1>3, Members
<1>14. \A k \in ArrayIds : Increasing(array'[k])
  <2>1. Increasing(q)
    BY <1>2, <1>3 DEF IInv
  <2>2. Increasing(array'[0])
    <3> SUFFICES ASSUME NEW p \in 1..Len(q) + 1, NEW j \in 1..Len(q) + 1, p < j
                 PROVE  array'[0][p] < array'[0][j]
      BY <1>12 DEF Increasing
    <3>1. p \in 1..Len(q) /\ array'[0][p] = q[p] /\ q[p] \in 1..adds
      BY <1>3, <1>12, <1>13
    <3>2. CASE j = Len(q) + 1
      <4>1. array'[0][j] = adds + 1
        BY <1>1, <1>12, <3>2
      <4>2. QED
        BY <1>3, <3>1, <4>1
    <3>3. CASE j # Len(q) + 1
      <4>1. j \in 1..Len(q)
        BY <1>3, <3>3
      <4>2. QED
        BY <1>12, <2>1, <3>1, <4>1 DEF Increasing
    <3>4. QED
      BY <3>2, <3>3
  <2>3. QED
    BY <1>5, <2>2 DEF IInv
<1>15. InItsArray'
  <2> SUFFICES ASSUME NEW k \in ArrayIds, NEW p \in 1..Len(array'[k]),
                      NEW e \in Entries, array'[k][p] = e
               PROVE  /\ e \in 1..adds'
                      /\ Home(e)' = k
                      /\ promise'[e] = Pending
                      /\ entryQueue'[e] = k
    BY DEF InItsArray
  <2>1. CASE p \in 1..Len(array[k]) /\ array[k][p] = e
    <3>1. /\ e \in 1..adds /\ Home(e) = k
          /\ promise[e] = Pending /\ entryQueue[e] = k
      BY <2>1, Members
    <3>2. QED
      BY <1>3, <1>4, <1>11, <3>1
  <2>2. CASE k = 0 /\ e = new
    BY <1>3, <1>4, <1>8, <1>11, <2>2
  <2>3. QED
    <3>1. CASE k # 0
      BY <1>5, <2>1, <3>1
    <3>2. CASE k = 0 /\ p \in 1..Len(q)
      BY <1>2, <1>12, <2>1, <3>2
    <3>3. CASE k = 0 /\ p = Len(q) + 1
      BY <1>12, <2>2, <3>3
    <3>4. QED
      BY <1>3, <1>12, <3>1, <3>2, <3>3
<1>16. NoneLost'
  <2> SUFFICES ASSUME NEW e \in 1..adds', promise'[e] = Pending
               PROVE  \E p \in 1..Len(array'[Home(e)']) : array'[Home(e)'][p] = e
    BY DEF NoneLost
  <2>1. CASE e = new
    <3>1. Home(e)' = 0 /\ Len(q) + 1 \in 1..Len(array'[0])
      BY <1>3, <1>11, <1>12, <2>1
    <3>2. QED
      BY <1>12, <2>1, <3>1
  <2>2. CASE e \in 1..adds
    <3>1. PICK p \in 1..Len(array[Home(e)]) : array[Home(e)][p] = e
      BY <1>4, <2>2 DEF IInv, NoneLost
    <3>2. Home(e)' = Home(e) /\ Home(e) \in ArrayIds
      BY <1>11, <2>2, Shapes
    <3>3. CASE Home(e) = 0
      <4>1. p \in 1..Len(q) /\ q[p] = e /\ p \in 1..Len(array'[0])
        BY <1>2, <1>3, <1>12, <3>1, <3>3
      <4>2. QED
        BY <1>12, <3>2, <3>3, <4>1
    <3>4. CASE Home(e) # 0
      BY <1>5, <3>1, <3>2, <3>4
    <3>5. QED
      BY <3>3, <3>4
  <2>3. QED
    BY <1>3, <2>1, <2>2
<1>17. FlagsRight'
  BY <1>3, <1>4, <1>8 DEF IInv, FlagsRight
<1>18. HeadWaits'
  <2> SUFFICES ASSUME NEW k \in ArrayIds, Len(array'[k]) > 0
               PROVE  settled'[array'[k][1]] = FALSE
    BY DEF HeadWaits
  <2>1. CASE k # 0
    BY <1>4, <1>5, <2>1 DEF IInv, HeadWaits
  <2>2. CASE k = 0 /\ Len(q) = 0
    BY <1>4, <1>8, <1>12, <2>2
  <2>3. CASE k = 0 /\ Len(q) > 0
    <3>1. array'[0][1] = q[1]
      BY <1>3, <1>12, <2>3
    <3>2. settled[q[1]] = FALSE
      BY <1>2, <1>3, <2>3 DEF IInv, HeadWaits
    <3>3. QED
      BY <1>4, <2>3, <3>1, <3>2
  <2>4. Len(q) = 0 \/ Len(q) > 0
    BY <1>3
  <2>5. QED
    BY <2>1, <2>2, <2>3, <2>4
<1>19. AheadSettled'
  <2> SUFFICES ASSUME NEW e \in 1..adds', promise'[e] # Pending, NEW f \in Ahead(e)'
               PROVE  settled'[f] = TRUE
    BY DEF AheadSettled
  <2>1. e \in 1..adds
    BY <1>3, <1>4, <1>8
  <2>2. f \in 1..adds /\ f \in Ahead(e)
    BY <1>3, <1>6, <2>1 DEF Ahead
  <2>3. QED
    BY <1>4, <2>1, <2>2 DEF IInv, AheadSettled
<1>20. ValueRight'
  BY <1>3, <1>4, <1>6, <1>8 DEF IInv, ValueRight
<1>21. QED
  BY <1>7, <1>9, <1>10, <1>14, <1>15, <1>16, <1>17, <1>18, <1>19, <1>20 DEF IInv

LEMMA ClearStep ==
  ASSUME IInv, NEW v \in Values, Clear(v)
  PROVE  IInv'
<1>1. PICK c \in ArrayIds : c = clears + 1
  BY Shapes DEF Clear, ArrayIds
<1>2. PICK q \in Seq(Entries) : q = array[0]
  BY Shapes
<1>3. /\ clears \in Nat /\ c \in Nat /\ 0 \in ArrayIds /\ c # 0
      /\ 1..adds \subseteq Entries /\ adds \in Nat
      /\ Len(q) \in Nat /\ Len(<<>>) = 0 /\ <<>> \in Seq(Entries)
  BY <1>1, <1>2, Shapes, LenProperties, EmptySeq
<1>4. /\ clears' = c
      /\ array' = [array EXCEPT ![0] = <<>>, ![c] = q]
      /\ entryQueue' = [e \in Entries |-> IF e \in Live THEN c ELSE entryQueue[e]]
      /\ value' = [e \in Entries |-> IF e \in Live THEN v ELSE value[e]]
      /\ clearValue' = [clearValue EXCEPT ![c] = v]
      /\ UNCHANGED <<resolved, promise, settled, adds, batch>>
  BY <1>1, <1>2 DEF Clear, Repoint, Revalue
<1>5. /\ array' \in [ArrayIds -> Seq(Entries)]
      /\ array'[0] = <<>>
      /\ array'[c] = q
      /\ \A k \in ArrayIds : k # 0 /\ k # c => array'[k] = array[k]
  BY <1>3, <1>4 DEF IInv, TypeOK
<1>6. TypeOK'
  BY <1>3, <1>4, <1>5 DEF IInv, TypeOK
<1>7. \A e \in 1..adds : batch'[e] = batch[e] /\ batch[e] \in Nat
                         /\ batch[e] <= clears
  BY <1>4, Shapes
<1>8. \A e \in 1..adds :
        /\ Home(e) = 0 => Home(e)' = c
        /\ Home(e) # 0 => Home(e)' = Home(e) /\ Home(e) # c
  BY <1>1, <1>3, <1>4, <1>7 DEF Home
<1>9. \A p \in 1..Len(q) : /\ q[p] \in 1..adds /\ q[p] \in Live
                           /\ Home(q[p]) = 0 /\ promise[q[p]] = Pending
  BY <1>2, <1>3, Members DEF Live
<1>10. \A e \in Live : e \in 1..adds /\ Home(e) = 0
  BY <1>2, <1>9 DEF Live
<1>11. \A e \in 1..adds : promise[e] = Pending /\ Home(e) = 0 => e \in Live
  BY <1>2 DEF IInv, NoneLost, Live
<1>12. \A e \in 1..adds' : batch'[e] <= clears'
  BY <1>1, <1>3, <1>4, <1>7
<1>13. Fresh'
  <2> SUFFICES ASSUME NEW e \in Entries, e > adds'
               PROVE  /\ settled'[e] = FALSE
                      /\ resolved'[e] = FALSE
                      /\ promise'[e] = Pending
                      /\ value'[e] = Own
                      /\ entryQueue'[e] = 0
    BY DEF Fresh
  <2>1. e > adds /\ e \notin Live
    BY <1>3, <1>4, <1>10
  <2>2. QED
    BY <1>4, <2>1 DEF IInv, Fresh
<1>14. \A k \in ArrayIds : Increasing(array'[k])
  <2>1. Increasing(<<>>)
    BY <1>3 DEF Increasing
  <2>2. Increasing(q)
    BY <1>2, <1>3 DEF IInv
  <2>3. QED
    BY <1>5, <2>1, <2>2 DEF IInv
<1>15. InItsArray'
  <2> SUFFICES ASSUME NEW k \in ArrayIds, NEW p \in 1..Len(array'[k]),
                      NEW e \in Entries, array'[k][p] = e
               PROVE  /\ e \in 1..adds'
                      /\ Home(e)' = k
                      /\ promise'[e] = Pending
                      /\ entryQueue'[e] = k
    BY DEF InItsArray
  <2>1. k # 0
    BY <1>3, <1>5
  <2>2. CASE k = c
    <3>1. p \in 1..Len(q) /\ q[p] = e
      BY <1>5, <2>2
    <3>2. e \in 1..adds /\ e \in Live /\ Home(e) = 0 /\ promise[e] = Pending
      BY <1>9, <3>1
    <3>3. QED
      BY <1>4, <1>8, <2>2, <3>2
  <2>3. CASE k # c
    <3>1. p \in 1..Len(array[k]) /\ array[k][p] = e
      BY <1>5, <2>1, <2>3
    <3>2. e \in 1..adds /\ Home(e) = k /\ promise[e] = Pending /\ entryQueue[e] = k
      BY <3>1 DEF IInv, InItsArray
    <3>3. e \notin Live
      BY <1>10, <2>1, <3>2
    <3>4. QED
      BY <1>4, <1>8, <2>1, <3>2, <3>3
  <2>4. QED
    BY <2>2, <2>3
<1>16. NoneLost'
  <2> SUFFICES ASSUME NEW e \in 1..adds, promise[e] = Pending
               PROVE  \E p \in 1..Len(array'[Home(e)']) : array'[Home(e)'][p] = e
    BY <1>4 DEF NoneLost
  <2>1. array'[Home(e)'] = array[Home(e)]
    BY <1>2, <1>5, <1>8, Shapes
  <2>2. QED
    BY <2>1 DEF IInv, NoneLost
<1>17. FlagsRight'
  BY <1>4 DEF IInv, FlagsRight
<1>18. HeadWaits'
  <2> SUFFICES ASSUME NEW k \in ArrayIds, Len(array'[k]) > 0
               PROVE  settled'[array'[k][1]] = FALSE
    BY DEF HeadWaits
  <2>1. k # 0
    BY <1>3, <1>5
  <2>2. PICK l \in ArrayIds : array'[k] = array[l]
    BY <1>2, <1>3, <1>5, <2>1
  <2>3. QED
    BY <1>4, <2>2 DEF IInv, HeadWaits
<1>19. AheadSettled'
  BY <1>4 DEF IInv, AheadSettled, Ahead
<1>20. ValueRight'
  <2> SUFFICES ASSUME NEW e \in 1..adds, promise[e] = Pending
               PROVE  value'[e] = IF batch[e] = c THEN Own
                                  ELSE clearValue'[batch[e] + 1]
    BY <1>4 DEF ValueRight
  <2>1. /\ batch[e] # c /\ batch[e] \in Nat /\ batch[e] <= clears
        /\ e \in Entries /\ Home(e) \in ArrayIds
    BY <1>1, <1>3, <1>7, Shapes
  <2>2. CASE batch[e] = clears
    <3>1. e \in Live
      BY <1>11, <2>2 DEF Home
    <3>2. value'[e] = v /\ clearValue'[c] = v
      BY <1>4, <2>1, <3>1 DEF IInv, TypeOK
    <3>3. QED
      BY <1>1, <2>1, <2>2, <3>2
  <2>3. CASE batch[e] # clears
    <3>1. Home(e) = batch[e] + 1 /\ Home(e) # 0
      BY <2>1, <2>3 DEF Home
    <3>2. e \notin Live /\ Home(e) # c
      BY <1>8, <1>10, <3>1
    <3>3. value'[e] = value[e] /\ clearValue'[batch[e] + 1] = clearValue[batch[e] + 1]
      BY <1>4, <2>1, <3>1, <3>2 DEF IInv, TypeOK
    <3>4. QED
      BY <2>1, <2>3, <3>3 DEF IInv, ValueRight
  <2>4. QED
    BY <2>2, <2>3
<1>21. QED
  BY <1>6, <1>12, <1>13, <1>14, <1>15, <1>16, <1>17, <1>18, <1>19, <1>20 DEF IInv

(***************************************************************************)
(* An entry whose promise settles is still pending, in the array it        *)
(* believes to be in.                                                      *)
(***************************************************************************)
LEMMA SettlingIsPending ==
  ASSUME IInv, NEW e \in 1..adds, settled[e] = FALSE
  PROVE  /\ promise[e] = Pending
         /\ entryQueue[e] = Home(e)
         /\ Home(e) \in ArrayIds
         /\ \E p \in 1..Len(array[Home(e)]) : array[Home(e)][p] = e
<1>1. promise[e] = Pending
  <2>1. e \in Ahead(e)
    BY Shapes DEF Ahead
  <2>2. QED
    BY <2>1 DEF IInv, AheadSettled
<1>2. PICK p \in 1..Len(array[Home(e)]) : array[Home(e)][p] = e
  BY <1>1 DEF IInv, NoneLost
<1>3. QED
  BY <1>1, <1>2, Members, Shapes

(***************************************************************************)
(* #tryResolve of an entry that is not at the front: it is only marked.    *)
(***************************************************************************)
Mark(e) ==
  /\ settled[e] = FALSE
  /\ array[Home(e)][1] # e
  /\ settled' = [settled EXCEPT ![e] = TRUE]
  /\ resolved' = [resolved EXCEPT ![e] = TRUE]
  /\ UNCHANGED <<array, entryQueue, value, promise, adds, clears, batch,
                 clearValue>>

LEMMA MarkStep ==
  ASSUME IInv, NEW e \in 1..adds, Mark(e)
  PROVE  IInv'
<1> USE DEF Mark
<1>1. /\ promise[e] = Pending /\ e \in Entries
      /\ settled \in [Entries -> BOOLEAN] /\ resolved \in [Entries -> BOOLEAN]
  BY SettlingIsPending, Shapes DEF IInv, TypeOK
<1>2. /\ settled'[e] = TRUE /\ resolved'[e] = TRUE
      /\ \A f \in Entries : f # e => settled'[f] = settled[f]
                                     /\ resolved'[f] = resolved[f]
  BY <1>1
<1>3. TypeOK'
  BY <1>1 DEF IInv, TypeOK
<1>4. Fresh'
  <2>1. \A f \in Entries : f > adds => f # e
    BY Shapes
  <2>2. QED
    BY <1>2, <2>1 DEF IInv, Fresh
<1>5. InItsArray' /\ NoneLost' /\ ValueRight'
  BY DEF IInv, InItsArray, NoneLost, ValueRight, Home
<1>6. FlagsRight'
  BY <1>2, Shapes DEF IInv, FlagsRight
<1>7. HeadWaits'
  <2> SUFFICES ASSUME NEW k \in ArrayIds, Len(array[k]) > 0
               PROVE  settled'[array[k][1]] = FALSE
    BY DEF HeadWaits
  <2>1. 1 \in 1..Len(array[k])
    BY Shapes
  <2>2. array[k][1] \in Entries /\ Home(array[k][1]) = k
    BY <2>1, Members
  <2>3. array[k][1] # e
    BY <2>2
  <2>4. QED
    BY <1>2, <2>2, <2>3 DEF IInv, HeadWaits
<1>8. AheadSettled'
  BY <1>2, Shapes DEF IInv, AheadSettled, Ahead
<1>9. QED
  BY <1>3, <1>4, <1>5, <1>6, <1>7, <1>8 DEF IInv

(***************************************************************************)
(* #tryResolve of the entry at the front: it is shifted off with the m - 1 *)
(* settled entries right behind it, the set out in all.                    *)
(***************************************************************************)
Shift(e, k, q, m, out) ==
  /\ k = Home(e) /\ q = array[k] /\ q[1] = e /\ settled[e] = FALSE
  /\ \A p \in 2..m : resolved[q[p]] = TRUE
  /\ m < Len(q) => resolved[q[m + 1]] = FALSE
  /\ out = {q[p] : p \in 1..m}
  /\ settled' = [settled EXCEPT ![e] = TRUE]
  /\ array' = [array EXCEPT ![k] = SubSeq(q, m + 1, Len(q))]
  /\ promise' = [f \in Entries |-> IF f \in out THEN value[f] ELSE promise[f]]
  /\ UNCHANGED <<resolved, entryQueue, value, adds, clears, batch, clearValue>>

LEMMA ShiftStep ==
  ASSUME IInv, NEW e \in 1..adds, NEW k \in ArrayIds, NEW q \in Seq(Entries),
         NEW m \in 1..Len(q), NEW out, Shift(e, k, q, m, out)
  PROVE  IInv'
<1>1. k = Home(e) /\ q = array[k] /\ q[1] = e /\ settled[e] = FALSE
  BY DEF Shift
<1>2. /\ \A p \in 2..m : resolved[q[p]] = TRUE
      /\ m < Len(q) => resolved[q[m + 1]] = FALSE
  BY DEF Shift
<1>3. out = {q[p] : p \in 1..m}
  BY DEF Shift
<1>4. /\ settled' = [settled EXCEPT ![e] = TRUE]
      /\ array' = [array EXCEPT ![k] = SubSeq(q, m + 1, Len(q))]
  BY DEF Shift
<1>5. promise' = [f \in Entries |-> IF f \in out THEN value[f] ELSE promise[f]]
  BY DEF Shift
<1>6. UNCHANGED <<resolved, entryQueue, value, adds, clears, batch, clearValue>>
  BY DEF Shift
<1>7. \A f : Home(f)' = Home(f)
  BY <1>6 DEF Home
<1>8. /\ Len(q) \in Nat /\ m \in Nat /\ 1..adds \subseteq Entries /\ e \in Entries
      /\ settled \in [Entries -> BOOLEAN]
      /\ array \in [ArrayIds -> Seq(Entries)]
      /\ value \in [Entries -> Values \cup {Own}]
      /\ promise \in [Entries -> Values \cup {Own, Pending}]
  <2>1. Len(q) \in Nat /\ m \in Nat
    BY LenProperties
  <2>2. 1..adds \subseteq Entries
    BY Shapes
  <2>3. QED
    BY <2>1, <2>2 DEF IInv, TypeOK
<1>9. \A p \in 1..Len(q) : /\ q[p] \in 1..adds /\ q[p] \in Entries
                           /\ Home(q[p]) = k /\ promise[q[p]] = Pending
                           /\ entryQueue[q[p]] = k
  BY <1>1, Members
<1>10. \A p, j \in 1..Len(q) : p < j => q[p] < q[j]
  BY <1>1 DEF IInv, Increasing
<1>11. /\ array'[k] \in Seq(Entries)
       /\ Len(array'[k]) = Len(q) - m
       /\ \A p \in 1..Len(q) - m : array'[k][p] = q[m + p]
       /\ \A l \in ArrayIds : l # k => array'[l] = array[l]
  <2>1. \A p \in m + 1..Len(q) : q[p] \in Entries
    BY <1>8, <1>9
  <2>2. /\ SubSeq(q, m + 1, Len(q)) \in Seq(Entries)
        /\ Len(SubSeq(q, m + 1, Len(q))) = Len(q) - m
        /\ \A p \in 1..Len(q) - m : SubSeq(q, m + 1, Len(q))[p] = q[m + 1 + p - 1]
    BY <1>8, <2>1, SubSeqProperties
  <2>3. \A p \in 1..Len(q) - m : m + 1 + p - 1 = m + p
    BY <1>8
  <2>4. QED
    BY <1>4, <1>8, <2>2, <2>3
<1>12. out \subseteq 1..adds /\ \A f \in out : promise[f] = Pending /\ Home(f) = k
  BY <1>3, <1>8, <1>9
<1>13. \A p \in m + 1..Len(q) : q[p] \notin out
  <2> SUFFICES ASSUME NEW p \in m + 1..Len(q), NEW j \in 1..m, q[p] = q[j]
               PROVE  FALSE
    BY <1>3
  <2>1. q[j] < q[p] /\ q[p] \in Nat
    BY <1>8, <1>9, <1>10 DEF Entries
  <2>2. QED
    BY <2>1
<1>14. /\ \A f \in out : promise'[f] = value[f] /\ promise'[f] # Pending
       /\ \A f \in Entries : f \notin out => promise'[f] = promise[f]
  BY <1>5, <1>8, <1>12, PendingAssumption
<1>15. /\ settled'[e] = TRUE
       /\ \A f \in Entries : f # e => settled'[f] = settled[f]
  BY <1>4, <1>8
<1>16. \A f \in out : settled'[f] = TRUE
  <2> SUFFICES ASSUME NEW p \in 1..m PROVE settled'[q[p]] = TRUE
    BY <1>3
  <2>1. CASE p = 1
    BY <1>1, <1>15, <2>1
  <2>2. CASE p # 1
    <3>1. p \in 2..m /\ p \in 1..Len(q)
      BY <1>8, <2>2
    <3>2. settled[q[p]] = TRUE
      BY <1>2, <1>9, <3>1 DEF IInv, FlagsRight
    <3>3. QED
      BY <1>9, <1>15, <3>1, <3>2
  <2>3. QED
    BY <2>1, <2>2
<1>17. TypeOK'
  <2>1. array' \in [ArrayIds -> Seq(Entries)]
    <3>1. SubSeq(q, m + 1, Len(q)) = array'[k]
      BY <1>4, <1>8
    <3>2. QED
      BY <1>4, <1>8, <1>11, <3>1
  <2>2. promise' \in [Entries -> Values \cup {Own, Pending}]
    BY <1>5, <1>8
  <2>3. settled' \in [Entries -> BOOLEAN]
    BY <1>4, <1>8
  <2>4. QED
    BY <1>6, <2>1, <2>2, <2>3 DEF IInv, TypeOK
<1>18. Fresh'
  <2>1. \A f \in Entries : f > adds => f \notin 1..adds
    BY Shapes
  <2>2. \A f \in Entries : f > adds => f \notin out /\ f # e
    BY <1>12, <2>1
  <2>3. QED
    BY <1>6, <1>14, <1>15, <2>2 DEF IInv, Fresh
<1>19. \A l \in ArrayIds : Increasing(array'[l])
  <2>1. Increasing(array'[k])
    <3> SUFFICES ASSUME NEW p \in 1..Len(q) - m, NEW j \in 1..Len(q) - m, p < j
                 PROVE  array'[k][p] < array'[k][j]
      BY <1>11 DEF Increasing
    <3>1. m + p \in 1..Len(q) /\ m + j \in 1..Len(q) /\ m + p < m + j
      BY <1>8
    <3>2. array'[k][p] = q[m + p] /\ array'[k][j] = q[m + j]
      BY <1>11
    <3>3. QED
      BY <1>10, <3>1, <3>2
  <2>2. QED
    BY <1>11, <2>1 DEF IInv
<1>20. InItsArray'
  <2> SUFFICES ASSUME NEW l \in ArrayIds, NEW p \in 1..Len(array'[l]),
                      NEW f \in Entries, array'[l][p] = f
               PROVE  /\ f \in 1..adds
                      /\ Home(f) = l
                      /\ promise'[f] = Pending
                      /\ entryQueue[f] = l
    BY <1>6, <1>7 DEF InItsArray
  <2>1. CASE l = k
    <3>1. p \in 1..Len(q) - m /\ f = q[m + p]
      BY <1>11, <2>1
    <3>2. m + p \in 1..Len(q) /\ m + p \in m + 1..Len(q)
      BY <1>8, <3>1
    <3>3. f \in 1..adds /\ Home(f) = k /\ promise[f] = Pending
          /\ entryQueue[f] = k /\ f \notin out
      BY <1>9, <1>13, <3>1, <3>2
    <3>4. QED
      BY <1>14, <2>1, <3>3
  <2>2. CASE l # k
    <3>1. p \in 1..Len(array[l]) /\ array[l][p] = f
      BY <1>11, <2>2
    <3>2. f \in 1..adds /\ Home(f) = l /\ promise[f] = Pending /\ entryQueue[f] = l
      BY <3>1, Members
    <3>3. f \notin out
      BY <1>12, <2>2, <3>2
    <3>4. QED
      BY <1>14, <3>2, <3>3
  <2>3. QED
    BY <2>1, <2>2
<1>21. NoneLost'
  <2> SUFFICES ASSUME NEW f \in 1..adds, promise'[f] = Pending
               PROVE  \E p \in 1..Len(array'[Home(f)]) : array'[Home(f)][p] = f
    BY <1>6, <1>7 DEF NoneLost
  <2>1. f \notin out /\ promise[f] = Pending /\ Home(f) \in ArrayIds
    BY <1>8, <1>14, Shapes
  <2>2. PICK p \in 1..Len(array[Home(f)]) : array[Home(f)][p] = f
    BY <2>1 DEF IInv, NoneLost
  <2>3. CASE Home(f) = k
    <3>1. p \in 1..Len(q) /\ q[p] = f /\ p \notin 1..m
      BY <1>1, <1>3, <2>1, <2>2, <2>3
    <3>2. p - m \in 1..Len(q) - m /\ m + (p - m) = p
      BY <1>8, <3>1
    <3>3. QED
      BY <1>11, <2>3, <3>1, <3>2
  <2>4. CASE Home(f) # k
    BY <1>11, <2>1, <2>2, <2>4
  <2>5. QED
    BY <2>3, <2>4
<1>22. FlagsRight'
  <2> SUFFICES ASSUME NEW f \in 1..adds
               PROVE  /\ resolved[f] = TRUE => settled'[f] = TRUE
                      /\ promise'[f] = Pending /\ settled'[f] = TRUE =>
                           resolved[f] = TRUE
    BY <1>6 DEF FlagsRight
  <2>1. CASE f \in out
    BY <1>14, <1>16, <2>1
  <2>2. CASE f \notin out
    <3>1. e \in out
      BY <1>1, <1>3, <1>8
    <3>2. f # e /\ f \in Entries
      BY <1>8, <2>2, <3>1
    <3>3. QED
      BY <1>14, <1>15, <2>2, <3>2 DEF IInv, FlagsRight
  <2>3. QED
    BY <2>1, <2>2
<1>23. HeadWaits'
  <2> SUFFICES ASSUME NEW l \in ArrayIds, Len(array'[l]) > 0
               PROVE  settled'[array'[l][1]] = FALSE
    BY DEF HeadWaits
  <2>1. CASE l = k
    <3>1. m < Len(q) /\ 1 \in 1..Len(q) - m /\ m + 1 \in 1..Len(q)
          /\ m + 1 \in m + 1..Len(q)
      BY <1>8, <1>11, <2>1
    <3>2. array'[k][1] = q[m + 1]
      BY <1>11, <3>1
    <3>3. settled[q[m + 1]] \in BOOLEAN /\ settled[q[m + 1]] # TRUE
      BY <1>2, <1>8, <1>9, <3>1 DEF IInv, FlagsRight
    <3>4. q[m + 1] # e /\ q[m + 1] \in Entries
      BY <1>1, <1>3, <1>8, <1>9, <1>13, <3>1
    <3>5. settled'[q[m + 1]] = settled[q[m + 1]]
      BY <1>15, <3>4
    <3>6. QED
      BY <2>1, <3>2, <3>3, <3>5
  <2>2. CASE l # k
    <3>1. array'[l] = array[l] /\ 1 \in 1..Len(array[l])
      BY <1>11, <2>2, Shapes
    <3>2. array[l][1] \in Entries /\ Home(array[l][1]) = l
      BY <3>1, Members
    <3>3. array[l][1] # e
      BY <1>1, <2>2, <3>2
    <3>4. QED
      BY <1>15, <3>1, <3>2, <3>3 DEF IInv, HeadWaits
  <2>3. QED
    BY <2>1, <2>2
<1>24. AheadSettled'
  <2> SUFFICES ASSUME NEW f \in 1..adds, promise'[f] # Pending, NEW g \in Ahead(f)
               PROVE  settled'[g] = TRUE
    BY <1>6 DEF AheadSettled, Ahead
  <2>1. g \in 1..adds /\ g \in Nat /\ f \in Nat /\ g <= f
        /\ g \in Entries /\ f \in Entries /\ batch[g] = batch[f]
    <3>1. adds \in Nat /\ f \in Nat /\ f <= adds /\ g \in 1..f
      BY Shapes DEF Ahead
    <3>2. g \in 1..adds /\ g \in Nat /\ g <= f
      BY <3>1
    <3>3. batch[g] = batch[f]
      BY DEF Ahead
    <3>4. QED
      BY <1>8, <3>1, <3>2, <3>3
  <2>2. Home(g) = Home(f)
    BY <2>1 DEF Home
  <2>3. CASE promise[g] # Pending
    <3>1. g \in Ahead(g)
      BY <2>1 DEF Ahead
    <3>2. settled[g] = TRUE
      BY <2>1, <2>3, <3>1 DEF IInv, AheadSettled
    <3>3. QED
      BY <1>15, <2>1, <3>2
  <2>4. CASE f \notin out
    <3>1. promise[f] # Pending
      BY <1>14, <2>1, <2>4
    <3>2. settled[g] = TRUE
      BY <3>1 DEF IInv, AheadSettled
    <3>3. QED
      BY <1>15, <2>1, <3>2
  <2>5. CASE promise[g] = Pending /\ f \in out
    <3>1. PICK p \in 1..m : q[p] = f
      BY <1>3, <2>5
    <3>2. Home(g) = k
      BY <1>12, <2>2, <2>5
    <3>3. PICK j \in 1..Len(q) : q[j] = g
      BY <1>1, <2>1, <2>5, <3>2 DEF IInv, NoneLost
    <3>4. ~(p < j)
      <4>1. p \in 1..Len(q)
        BY <1>8
      <4>2. p < j => q[p] < q[j]
        BY <1>10, <4>1
      <4>3. QED
        BY <2>1, <3>1, <3>3, <4>2
    <3>5. j \in 1..m
      BY <1>8, <3>4
    <3>6. QED
      BY <1>3, <1>16, <3>3, <3>5
  <2>6. QED
    BY <2>3, <2>4, <2>5
<1>25. ValueRight'
  BY <1>6, <1>8, <1>14 DEF IInv, ValueRight
<1>26. \A f \in 1..adds' : batch'[f] <= clears'
  BY <1>6 DEF IInv
<1>27. QED
  BY <1>17, <1>18, <1>19, <1>20, <1>21, <1>22, <1>23, <1>24, <1>25, <1>26 DEF IInv

(***************************************************************************)
(* OnSettled is one or the other.                                          *)
(***************************************************************************)
LEMMA SettleCases ==
  ASSUME IInv, NEW e \in Entries, OnSettled(e)
  PROVE  /\ e \in 1..adds
         /\ \/ Mark(e)
            \/ \E k \in ArrayIds : \E q \in Seq(Entries) : \E m \in 1..Len(q) :
                 \E out : Shift(e, k, q, m, out)
<1> DEFINE k == Home(e)
<1>1. /\ e \in 1..adds /\ settled[e] = FALSE
      /\ settled' = [settled EXCEPT ![e] = TRUE]
      /\ TryResolve(entryQueue[e], e)
      /\ UNCHANGED <<entryQueue, value, adds, clears, batch, clearValue>>
  BY DEF OnSettled, IInv, TypeOK
<1>2. /\ promise[e] = Pending /\ entryQueue[e] = k /\ k \in ArrayIds
      /\ \E p \in 1..Len(array[k]) : array[k][p] = e
  BY <1>1, SettlingIsPending
<1>3. PICK q \in Seq(Entries) : q = array[k]
  BY <1>2, Shapes
<1>4. Len(q) \in Nat /\ Len(q) > 0 /\ q # <<>> /\ Head(q) = q[1]
  BY <1>2, <1>3, LenProperties, EmptySeq
<1>5. CASE q[1] # e
  <2>1. resolved' = [resolved EXCEPT ![e] = TRUE] /\ UNCHANGED <<array, promise>>
    BY <1>1, <1>2, <1>3, <1>4, <1>5 DEF TryResolve
  <2>2. QED
    BY <1>1, <1>3, <1>5, <2>1 DEF Mark
<1>6. CASE q[1] = e
  <2> DEFINE rest == Tail(q)
             n == ResolvedPrefix(rest)
             out == {e} \cup {rest[p] : p \in 1..n}
  <2>1. /\ array' = [array EXCEPT ![k] = SubSeq(rest, n + 1, Len(rest))]
        /\ promise' = [f \in Entries |-> IF f \in out THEN value[f]
                                                      ELSE promise[f]]
        /\ UNCHANGED resolved
    <3>1. array[k] # <<>> /\ Head(array[k]) = e
      BY <1>3, <1>4, <1>6
    <3>2. TryResolve(k, e)
      BY <1>1, <1>2
    <3> DEFINE r == Tail(array[k])
    <3>3. /\ array' = [array EXCEPT ![k] =
                         SubSeq(r, ResolvedPrefix(r) + 1, Len(r))]
          /\ promise' = [f \in Entries |->
                           IF f \in {e} \cup {r[p] : p \in 1..ResolvedPrefix(r)}
                           THEN value[f] ELSE promise[f]]
          /\ UNCHANGED resolved
      BY <3>1, <3>2 DEF TryResolve
    <3>4. r = rest
      BY <1>3
    <3> HIDE DEF r, rest, k
    <3>5. QED
      BY <3>3, <3>4
  <2>2. /\ rest \in Seq(Entries) /\ Len(rest) = Len(q) - 1
        /\ \A p \in 1..Len(rest) : rest[p] = q[p + 1]
    BY <1>4, HeadTailProperties
  <2>3. /\ n \in 0..Len(rest)
        /\ \A p \in 1..n : resolved[rest[p]] = TRUE
        /\ n < Len(rest) => resolved[rest[n + 1]] = FALSE
    BY <2>2, PrefixExists DEF IInv, TypeOK
  <2> HIDE DEF n, rest
  <2>4. PICK m \in 1..Len(q) : m = n + 1
    BY <1>4, <2>2, <2>3
  <2>5. \A p \in 2..m : resolved[q[p]] = TRUE
    <3> SUFFICES ASSUME NEW p \in 2..m PROVE resolved[q[p]] = TRUE
      OBVIOUS
    <3>1. p - 1 \in 1..n /\ p - 1 \in 1..Len(rest) /\ p - 1 + 1 = p
      BY <1>4, <2>2, <2>3, <2>4
    <3>2. QED
      BY <2>2, <2>3, <3>1
  <2>6. m < Len(q) => resolved[q[m + 1]] = FALSE
    <3>1. m < Len(q) => n < Len(rest) /\ n + 1 \in 1..Len(rest) /\ n + 1 + 1 = m + 1
      BY <1>4, <2>2, <2>3, <2>4
    <3>2. QED
      BY <2>2, <2>3, <3>1
  <2>7. out = {q[p] : p \in 1..m}
    <3>1. ASSUME NEW p \in 1..n PROVE p + 1 \in 1..m /\ rest[p] = q[p + 1]
      BY <1>4, <2>2, <2>3, <2>4
    <3>2. ASSUME NEW p \in 1..m, p # 1 PROVE p - 1 \in 1..n /\ rest[p - 1] = q[p]
      <4>1. p - 1 \in 1..n /\ p - 1 \in 1..Len(rest) /\ p - 1 + 1 = p
        BY <1>4, <2>2, <2>3, <2>4, <3>2
      <4>2. QED
        BY <2>2, <4>1
    <3>3. 1 \in 1..m
      BY <2>4
    <3>4. out \subseteq {q[p] : p \in 1..m}
      BY <1>6, <3>1, <3>3
    <3>5. {q[p] : p \in 1..m} \subseteq out
      BY <1>6, <3>2
    <3>6. QED
      BY <3>4, <3>5
  <2>8. SubSeq(rest, n + 1, Len(rest)) = SubSeq(q, m + 1, Len(q))
    <3> DEFINE s == SubSeq(rest, n + 1, Len(rest))
               t == SubSeq(q, m + 1, Len(q))
    <3>1. \A p \in n + 1..Len(rest) : rest[p] \in Entries
      BY <2>2, <2>3, ElementOfSeq
    <3>2. /\ s \in Seq(Entries)
          /\ Len(s) = Len(rest) - n
          /\ \A p \in 1..Len(rest) - n : s[p] = rest[n + 1 + p - 1]
      BY <2>2, <2>3, <1>4, <3>1, SubSeqProperties
    <3>3. \A p \in m + 1..Len(q) : q[p] \in Entries
      BY <1>4, <2>4, ElementOfSeq
    <3>4. /\ t \in Seq(Entries)
          /\ Len(t) = Len(q) - m
          /\ \A p \in 1..Len(q) - m : t[p] = q[m + 1 + p - 1]
      BY <1>4, <2>4, <3>3, SubSeqProperties
    <3>5. Len(s) = Len(t) /\ Len(rest) - n = Len(q) - m
      BY <1>4, <2>2, <2>3, <2>4, <3>2, <3>4
    <3>6. ASSUME NEW p \in 1..Len(q) - m PROVE s[p] = t[p]
      <4> Len(rest) \in Nat /\ n \in Nat /\ m = n + 1 /\ p \in 1..Len(rest) - n
        BY <1>4, <2>2, <2>3, <2>4, <3>5, <3>6
      <4>1. n + 1 + p - 1 = n + p /\ n + p \in 1..Len(rest) /\ m + 1 + p - 1 = n + p + 1
        OBVIOUS
      <4>2. s[p] = rest[n + p] /\ t[p] = q[n + p + 1]
        BY <3>2, <3>4, <3>5, <4>1
      <4>3. QED
        BY <2>2, <4>1, <4>2
    <3> HIDE DEF s, t
    <3>7. s = t
      BY <3>2, <3>4, <3>5, <3>6, SeqEqual
    <3>8. QED
      BY <3>7 DEF s, t
  <2> HIDE DEF out
  <2>9. Shift(e, k, q, m, out)
    BY <1>1, <1>3, <1>6, <2>1, <2>5, <2>6, <2>7, <2>8 DEF Shift
  <2>10. QED
    BY <1>1, <1>2, <2>9
<1>7. QED
  BY <1>5, <1>6

LEMMA SettleStep ==
  ASSUME IInv, NEW e \in Entries, OnSettled(e)
  PROVE  IInv'
BY SettleCases, MarkStep, ShiftStep

LEMMA InvariantStep == IInv /\ [Next]_vars => IInv'
<1> SUFFICES ASSUME IInv, [Next]_vars PROVE IInv'
  OBVIOUS
<1>1. CASE Add
  BY <1>1, AddStep
<1>2. ASSUME NEW e \in Entries, OnSettled(e) PROVE IInv'
  BY <1>2, SettleStep
<1>3. ASSUME NEW v \in Values, Clear(v) PROVE IInv'
  BY <1>3, ClearStep
<1>4. CASE UNCHANGED vars
  BY <1>4 DEF vars, IInv, TypeOK, Fresh, Increasing, InItsArray, NoneLost,
              FlagsRight, HeadWaits, AheadSettled, ValueRight, Home, Ahead
<1>5. QED
  BY <1>1, <1>2, <1>3, <1>4 DEF Next

-----------------------------------------------------------------------------

(***************************************************************************)
(* The invariant holds in every reachable state of the queue.              *)
(***************************************************************************)
THEOREM Invariance == Spec => []IInv
<1>1. Init => IInv
  BY InvariantInit
<1>2. IInv /\ [Next]_vars => IInv'
  BY InvariantStep
<1>3. QED
  BY <1>1, <1>2, PTL DEF Spec

(***************************************************************************)
(* Every entry of promise-queue/index.ts keeps its type; what an outer     *)
(* promise resolves to is its own outcome or a value given to clear().     *)
(***************************************************************************)
THEOREM TypeCorrect == Spec => []TypeOK
<1>1. IInv => TypeOK
  BY DEF IInv
<1>2. QED
  BY <1>1, Invariance, PTL

(***************************************************************************)
(* The order the queue promises, and that no entry is stranded: an outer   *)
(* promise is resolved exactly when its own promise and all those added    *)
(* before it since the last clear() have settled.                          *)
(***************************************************************************)
THEOREM InOrder == Spec => []ResolvedInOrder
<1>1. ASSUME IInv, NEW e \in 1..adds
      PROVE  promise[e] # Pending <=> \A f \in Ahead(e) : settled[f]
  <2>1. CASE promise[e] # Pending
    BY <1>1, <2>1 DEF IInv, AheadSettled
  <2>2. CASE promise[e] = Pending
    <3>1. PICK p \in 1..Len(array[Home(e)]) : array[Home(e)][p] = e
      BY <1>1, <2>2 DEF IInv, NoneLost
    <3>2. PICK k \in ArrayIds : k = Home(e)
      BY <1>1, Shapes
    <3>3. PICK h \in 1..adds : h = array[k][1] /\ Home(h) = Home(e)
      <4>1. 1 \in 1..Len(array[k])
        BY <3>1, <3>2
      <4>2. QED
        BY <1>1, <3>2, <4>1, Members
    <3>4. settled[h] = FALSE
      BY <1>1, <3>1, <3>2, <3>3 DEF IInv, HeadWaits
    <3>5. h <= e
      BY <1>1, <3>1, <3>2, <3>3 DEF IInv, Increasing
    <3>6. batch[h] = batch[e]
      <4>1. /\ batch[h] \in Nat /\ batch[h] <= clears /\ clears \in Nat
            /\ batch[e] \in Nat /\ batch[e] <= clears
        BY <1>1, Shapes
      <4>2. QED
        BY <3>3, <4>1 DEF Home
    <3>7. h \in Ahead(e)
      BY <3>5, <3>6 DEF Ahead
    <3>8. QED
      BY <2>2, <3>4, <3>7
  <2>3. QED
    BY <2>1, <2>2
<1>2. IInv => ResolvedInOrder
  BY <1>1 DEF ResolvedInOrder
<1>3. QED
  BY <1>2, Invariance, PTL

(***************************************************************************)
(* isBusy() is exact.                                                      *)
(***************************************************************************)
THEOREM BusyIsExact == Spec => []NotBusyMeansDrained
<1>1. ASSUME IInv PROVE NotBusyMeansDrained
  <2>1. /\ 0 \in ArrayIds /\ array[0] \in Seq(Entries) /\ Len(array[0]) \in Nat
        /\ clears \in Nat
        /\ \A e \in 1..adds : batch[e] \in Nat
    BY <1>1, Shapes
  <2>2. CASE array[0] = <<>>
    <3> SUFFICES ASSUME NEW e \in 1..adds, batch[e] = clears PROVE settled[e]
      BY <2>2 DEF NotBusyMeansDrained
    <3>1. Len(array[0]) = 0 /\ Home(e) = 0
      BY <2>2, EmptySeq DEF Home
    <3>2. promise[e] # Pending
      BY <1>1, <3>1 DEF IInv, NoneLost
    <3>3. e \in Ahead(e)
      BY DEF Ahead
    <3>4. QED
      BY <1>1, <3>2, <3>3 DEF IInv, AheadSettled
  <2>3. CASE array[0] # <<>>
    <3>1. 1 \in 1..Len(array[0])
      BY <2>1, <2>3, EmptySeq
    <3>2. PICK h \in 1..adds : h = array[0][1] /\ Home(h) = 0
      BY <1>1, <2>1, <3>1, Members
    <3>3. batch[h] = clears
      BY <2>1, <3>2 DEF Home
    <3>4. settled[h] = FALSE
      BY <1>1, <2>1, <3>1, <3>2 DEF IInv, HeadWaits
    <3>5. QED
      BY <2>3, <3>3, <3>4 DEF NotBusyMeansDrained
  <2>4. QED
    BY <2>2, <2>3
<1>2. IInv => NotBusyMeansDrained
  BY <1>1
<1>3. QED
  BY <1>2, Invariance, PTL

(***************************************************************************)
(* The documented result of add(): the outcome of the added promise, or    *)
(* the value of the first clear() that reached the entry.                  *)
(***************************************************************************)
THEOREM RightResult == Spec => ResultIsOwnOrFirstClear
<1>1. ASSUME IInv, [Next]_vars, NEW e \in Entries, promise[e] # promise'[e]
      PROVE  /\ promise[e] = Pending
             /\ promise'[e] = IF batch[e] = clears THEN Own
                              ELSE clearValue[batch[e] + 1]
  <2>1. PICK s \in Entries : OnSettled(s)
    BY <1>1 DEF Next, Add, Clear, vars
  <2>2. s \in 1..adds /\ ~Mark(s)
    BY <1>1, <2>1, SettleCases DEF Mark
  <2>3. PICK k \in ArrayIds, q \in Seq(Entries) :
          \E m \in 1..Len(q) : \E out : Shift(s, k, q, m, out)
    BY <1>1, <2>1, <2>2, SettleCases
  <2>4. PICK m \in 1..Len(q) : \E out : Shift(s, k, q, m, out)
    BY <2>3
  <2>5. PICK out : Shift(s, k, q, m, out)
    BY <2>4
  <2>6. e \in out /\ promise'[e] = value[e]
    BY <1>1, <2>5 DEF Shift
  <2>7. PICK p \in 1..Len(array[k]) : e = array[k][p]
    <3>1. Len(q) \in Nat /\ q = array[k]
      BY <2>5, LenProperties DEF Shift
    <3>2. PICK p \in 1..m : e = q[p]
      BY <2>5, <2>6 DEF Shift
    <3>3. QED
      BY <3>1, <3>2
  <2>8. e \in 1..adds /\ promise[e] = Pending
    BY <1>1, <2>7, Members
  <2>9. QED
    BY <1>1, <2>6, <2>8 DEF IInv, ValueRight
<1>2. IInv /\ [Next]_vars =>
        [\A e \in Entries :
           promise[e] # promise'[e] =>
             /\ promise[e] = Pending
             /\ promise'[e] = IF batch[e] = clears THEN Own
                              ELSE clearValue[batch[e] + 1]]_vars
  BY <1>1
<1>3. QED
  BY <1>2, Invariance, PTL DEF Spec, ResultIsOwnOrFirstClear

-----------------------------------------------------------------------------

(***************************************************************************)
(* The heap.                                                               *)
(***************************************************************************)
Orders(less, X) ==
  /\ less \in [X \X X -> BOOLEAN]
  /\ \A x, y \in X : less[<<x, y>>] => ~less[<<y, x>>]
  /\ \A x, y, z \in X : ~less[<<x, y>>] /\ ~less[<<y, z>>] => ~less[<<x, z>>]

\* A function from 1..n is a sequence.
LEMMA IsSequence ==
  ASSUME NEW X, NEW n \in Nat, NEW h \in [1..n -> X]
  PROVE  h \in Seq(X) /\ Len(h) = n /\ DOMAIN h = 1..n
<1>1. h \in Seq(X)
  OBVIOUS
<1>2. DOMAIN h = 1..n /\ DOMAIN h = 1..Len(h) /\ Len(h) \in Nat
  BY <1>1, LenProperties
<1>3. Len(h) = n
  BY <1>2
<1>4. QED
  BY <1>1, <1>2, <1>3

LEMMA SwapType ==
  ASSUME NEW X, NEW n \in Nat, NEW h \in [1..n -> X], NEW s \in 1..n, NEW j \in 1..n
  PROVE  /\ H!Swap(h, s, j) \in [1..n -> X]
         /\ \A k \in 1..n : H!Swap(h, s, j)[k] = IF k = j THEN h[s] ELSE IF k = s THEN h[j] ELSE h[k]
BY DEF H!Swap

LEMMA ArraysType ==
  ASSUME NEW X, NEW n \in Nat, NEW h \in [1..n -> X]
  PROVE  /\ h \in H!Arrays(h)
         /\ \A a \in H!Arrays(h) : a \in [1..n -> X]
         /\ \A a \in H!Arrays(h), s, j \in 1..n : H!Swap(a, s, j) \in H!Arrays(h)
<1> DEFINE Y == {h[s] : s \in DOMAIN h}
<1>1. DOMAIN h = 1..n /\ h \in [1..n -> Y] /\ Y \subseteq X
  BY IsSequence
<1>2. H!Arrays(h) = [1..n -> Y]
  BY <1>1 DEF H!Arrays
<1> HIDE DEF Y
<1>3. \A a \in [1..n -> Y], s, j \in 1..n : H!Swap(a, s, j) \in [1..n -> Y]
  BY SwapType
<1>4. QED
  BY <1>1, <1>2, <1>3

\* What up() does at each place.
RisesBy(up, less, n, h) ==
  /\ \A j \in 1..n : H!Up(less, h, j) = up[[at |-> j, array |-> h]]
  /\ \A j \in 1..n, a \in H!Arrays(h) :
       up[[at |-> j, array |-> a]] =
         IF j > 1 /\ less[<<a[j], a[j \div 2]>>]
           THEN up[[at |-> j \div 2, array |-> H!Swap(a, j, j \div 2)]]
           ELSE a

LEMMA UpUnfolds ==
  ASSUME NEW X, NEW less \in [X \X X -> BOOLEAN], NEW n \in Nat, NEW h \in [1..n -> X]
  PROVE  \E up : RisesBy(up, less, n, h)
<1> DEFINE dom == H!Places(h)
           res == H!Arrays(h)
           rises(p) == p.at > 1 /\ less[<<p.array[p.at], p.array[p.at \div 2]>>]
           up2(p) == [at |-> p.at \div 2, array |-> H!Swap(p.array, p.at, p.at \div 2)]
           goes == [p \in dom |-> rises(p)]
           next == [p \in dom |-> IF rises(p) THEN up2(p) ELSE p]
           make == [q \in dom \X res |-> q[2]]
           end == [p \in dom |-> p.array]
           size == [p \in dom |-> p.at]
<1>1. dom = [at : 1..n, array : res]
  BY IsSequence DEF H!Places
<1> HIDE DEF dom, res
<1>2. ASSUME NEW p \in dom
      PROVE  /\ p.at \in 1..n /\ p.array \in res /\ p.array \in [1..n -> X]
             /\ p.at > 1 => p.at \div 2 \in 1..n /\ p.at \div 2 < p.at
  <2>1. p.at \in 1..n /\ p.array \in res
    BY <1>1
  <2>2. p.array \in [1..n -> X]
    BY <2>1, ArraysType DEF res
  <2>3. p.at > 1 => p.at \div 2 \in 1..n /\ p.at \div 2 < p.at
    BY <2>1
  <2>4. QED
    BY <2>1, <2>2, <2>3
<1>3. ASSUME NEW p \in dom
      PROVE  rises(p) \in BOOLEAN /\ (rises(p) => up2(p) \in dom /\ up2(p).at < p.at)
  <2>1. p.at > 1 => p.array[p.at] \in X /\ p.array[p.at \div 2] \in X
    BY <1>2
  <2>2. rises(p) \in BOOLEAN
    BY <2>1, <1>2
  <2>3. rises(p) => H!Swap(p.array, p.at, p.at \div 2) \in res
    BY <1>2, ArraysType DEF res
  <2>4. QED
    BY <1>1, <1>2, <2>2, <2>3
<1>4. GoesDown(dom, res, goes, next, make, end, size)
  <2>1. goes \in [dom -> BOOLEAN] /\ next \in [dom -> dom]
    BY <1>3
  <2>2. make \in [dom \X res -> res] /\ end \in [dom -> res] /\ size \in [dom -> Nat]
    BY <1>2
  <2>3. \A p \in dom : goes[p] => size[next[p]] < size[p]
    BY <1>3
  <2>4. QED
    BY <2>1, <2>2, <2>3 DEF GoesDown
<1>5. PICK f \in [dom -> res] :
        f = [p \in dom |-> IF goes[p] THEN make[<<p, f[next[p]]>>] ELSE end[p]]
  <2> HIDE DEF goes, next, make, end, size
  <2>1. QED
    BY <1>4, Recursion
<1>6. f = [p \in dom |-> IF rises(p) THEN f[up2(p)] ELSE p.array]
  <2>1. ASSUME NEW p \in dom
        PROVE  f[p] = IF rises(p) THEN f[up2(p)] ELSE p.array
    <3>1. f[p] = IF goes[p] THEN make[<<p, f[next[p]]>>] ELSE end[p]
      BY <1>5
    <3>2. goes[p] = rises(p) /\ end[p] = p.array
      OBVIOUS
    <3>3. rises(p) => next[p] = up2(p) /\ make[<<p, f[next[p]]>>] = f[up2(p)]
      BY <1>3
    <3>4. QED
      BY <3>1, <3>2, <3>3
  <2>2. QED
    BY <2>1
<1> DEFINE up == CHOOSE g : g = [p \in dom |-> IF rises(p) THEN g[up2(p)] ELSE p.array]
<1>7. up = [p \in dom |-> IF rises(p) THEN up[up2(p)] ELSE p.array]
  BY <1>6
<1>8. \A j : H!Up(less, h, j) = up[[at |-> j, array |-> h]]
  BY DEF H!Up, dom
<1> HIDE DEF up
<1>9. \A j \in 1..n, a \in res :
        up[[at |-> j, array |-> a]] =
          IF j > 1 /\ less[<<a[j], a[j \div 2]>>]
            THEN up[[at |-> j \div 2, array |-> H!Swap(a, j, j \div 2)]]
            ELSE a
  <2> SUFFICES ASSUME NEW j \in 1..n, NEW a \in res
               PROVE  up[[at |-> j, array |-> a]] =
                        IF j > 1 /\ less[<<a[j], a[j \div 2]>>]
                          THEN up[[at |-> j \div 2, array |-> H!Swap(a, j, j \div 2)]]
                          ELSE a
    OBVIOUS
  <2> DEFINE p == [at |-> j, array |-> a]
  <2>1. p \in dom
    BY <1>1
  <2>2. up[p] = IF rises(p) THEN up[up2(p)] ELSE p.array
    BY <1>7, <2>1
  <2>3. QED
    BY <2>2
<1>10. QED
  BY <1>8, <1>9 DEF res, RisesBy

(***************************************************************************)
(* The arrays that hold each of some items once; and where an array is a   *)
(* heap: below low, no element goes before its parent.                     *)
(***************************************************************************)
Holding(n, items) ==
  {h \in [1..n -> items] :
     /\ \A s, j \in 1..n : h[s] = h[j] => s = j
     /\ \A x \in items : \E s \in 1..n : h[s] = x}

IsHeapFrom(less, n, h, low) ==
  \A k \in 2..n : k \div 2 >= low => ~less[<<h[k], h[k \div 2]>>]

IsHeap(less, n, h) == IsHeapFrom(less, n, h, 1)

\* A heap but for the element at j, which may have to rise ...
MayRise(less, n, h, j) ==
  /\ \A k \in 2..n : k # j => ~less[<<h[k], h[k \div 2]>>]
  /\ \A k \in 2..n : k \div 2 = j /\ j > 1 => ~less[<<h[k], h[j \div 2]>>]

\* ... or to sink.
MaySink(less, n, h, s, low) ==
  /\ \A k \in 2..n : k \div 2 >= low /\ k \div 2 # s => ~less[<<h[k], h[k \div 2]>>]
  /\ \A k \in 2..n : k \div 2 = s /\ s \div 2 >= low => ~less[<<h[k], h[s \div 2]>>]

LEMMA SwapHolds ==
  ASSUME NEW n \in Nat, NEW items, NEW h \in Holding(n, items), NEW s \in 1..n, NEW j \in 1..n
  PROVE  H!Swap(h, s, j) \in Holding(n, items)
<1> DEFINE a == H!Swap(h, s, j)
<1>1. /\ h \in [1..n -> items]
      /\ \A k, m \in 1..n : h[k] = h[m] => k = m
      /\ \A x \in items : \E k \in 1..n : h[k] = x
  BY DEF Holding
<1>2. /\ a \in [1..n -> items]
      /\ \A k \in 1..n : a[k] = IF k = j THEN h[s] ELSE IF k = s THEN h[j] ELSE h[k]
  BY <1>1 DEF H!Swap
<1> HIDE DEF a
<1>3. \A k, m \in 1..n : a[k] = a[m] => k = m
  BY <1>1, <1>2
<1>4. ASSUME NEW x \in items
      PROVE  \E k \in 1..n : a[k] = x
  <2>1. PICK k \in 1..n : h[k] = x
    BY <1>1
  <2>2. CASE k = s
    BY <2>1, <2>2, <1>2
  <2>3. CASE k = j
    BY <2>1, <2>3, <1>2
  <2>4. CASE k # s /\ k # j
    BY <2>1, <2>4, <1>2
  <2>5. QED
    BY <2>2, <2>3, <2>4
<1>5. a \in Holding(n, items)
  BY <1>2, <1>3, <1>4 DEF Holding
<1>6. QED
  BY <1>5 DEF a

LEMMA Half ==
  ASSUME NEW k \in Nat, k >= 2
  PROVE  k \div 2 \in Nat /\ k \div 2 >= 1 /\ k \div 2 < k
OBVIOUS

(***************************************************************************)
(* One exchange of up().                                                   *)
(***************************************************************************)
LEMMA RiseStep ==
  ASSUME NEW X, NEW less, Orders(less, X), NEW n \in Nat, NEW h \in [1..n -> X],
         NEW j \in 2..n, less[<<h[j], h[j \div 2]>>], MayRise(less, n, h, j)
  PROVE  MayRise(less, n, H!Swap(h, j, j \div 2), j \div 2)
<1> DEFINE p == j \div 2
           a == H!Swap(h, j, p)
<1>1. j \in 1..n /\ p \in 1..n /\ p < j /\ p # j
  OBVIOUS
<1>2. /\ a \in [1..n -> X]
      /\ a[p] = h[j] /\ a[j] = h[p]
      /\ \A k \in 1..n : k # j /\ k # p => a[k] = h[k]
  BY <1>1 DEF H!Swap
<1>3. /\ \A x, y \in X : less[<<x, y>>] => ~less[<<y, x>>]
      /\ \A x, y, z \in X : ~less[<<x, y>>] /\ ~less[<<y, z>>] => ~less[<<x, z>>]
  BY DEF Orders
<1>4. /\ \A k \in 2..n : k # j => ~less[<<h[k], h[k \div 2]>>]
      /\ \A k \in 2..n : k \div 2 = j => ~less[<<h[k], h[p]>>]
  <2>1. j > 1
    OBVIOUS
  <2>2. QED
    BY <2>1 DEF MayRise
<1>5. \A k \in 1..n : h[k] \in X
  OBVIOUS
<1>6. ~less[<<h[p], h[j]>>]
  BY <1>1, <1>3, <1>5
<1>7. \A k \in 2..n : k \in 1..n /\ k \div 2 \in 1..n /\ k \div 2 # k
  OBVIOUS
<1> HIDE DEF a
<1>8. ASSUME NEW k \in 2..n, k # p
      PROVE  ~less[<<a[k], a[k \div 2]>>]
  <2>1. CASE k = j
    BY <2>1, <1>2, <1>6
  <2>2. CASE k # j /\ k \div 2 = j
    <3>1. a[k] = h[k] /\ a[k \div 2] = h[p]
      BY <2>2, <1>2, <1>7, <1>8
    <3>2. QED
      BY <2>2, <3>1, <1>4
  <2>3. CASE k # j /\ k \div 2 = p
    <3>1. a[k] = h[k] /\ a[k \div 2] = h[j]
      BY <2>3, <1>2, <1>7, <1>8
    <3>2. ~less[<<h[k], h[p]>>]
      BY <2>3, <1>4
    <3>3. h[k] \in X /\ h[p] \in X /\ h[j] \in X
      BY <1>1, <1>5, <1>7
    <3>4. QED
      BY <3>1, <3>2, <3>3, <1>3, <1>6
  <2>4. CASE k # j /\ k \div 2 # j /\ k \div 2 # p
    <3>1. a[k] = h[k] /\ a[k \div 2] = h[k \div 2]
      BY <2>4, <1>2, <1>7, <1>8
    <3>2. QED
      BY <2>4, <3>1, <1>4
  <2>5. QED
    BY <2>1, <2>2, <2>3, <2>4
<1>9. ASSUME NEW k \in 2..n, k \div 2 = p, p > 1
      PROVE  ~less[<<a[k], a[p \div 2]>>]
  <2> DEFINE r == p \div 2
  <2>1. p \in 2..n /\ r \in 1..n /\ r # p /\ r # j /\ k # p
    BY <1>1, <1>7, <1>9
  <2>2. a[r] = h[r] /\ ~less[<<h[p], h[r]>>]
    BY <2>1, <1>1, <1>2, <1>4
  <2> HIDE DEF r
  <2>3. CASE k = j
    BY <2>2, <2>3, <1>2 DEF r
  <2>4. CASE k # j
    <3>1. a[k] = h[k] /\ ~less[<<h[k], h[p]>>]
      BY <2>1, <2>4, <1>2, <1>4, <1>7, <1>9
    <3>2. h[k] \in X /\ h[p] \in X /\ h[r] \in X
      BY <2>1, <1>1, <1>5, <1>7
    <3>3. ~less[<<h[k], h[r]>>]
      BY <2>2, <3>1, <3>2, <1>3
    <3>4. QED
      BY <2>2, <3>1, <3>3 DEF r
  <2>5. QED
    BY <2>3, <2>4
<1>10. MayRise(less, n, a, p)
  BY <1>8, <1>9 DEF MayRise
<1>11. QED
  BY <1>10 DEF a

(***************************************************************************)
(* up(j): what is a heap but for an element that may have to rise becomes  *)
(* one, with the same items.                                               *)
(***************************************************************************)
LEMMA UpIsRight ==
  ASSUME NEW X, NEW less, Orders(less, X), NEW n \in Nat, NEW h \in [1..n -> X], NEW j \in 1..n
  PROVE  /\ H!Up(less, h, j) \in [1..n -> X]
         /\ \A items : h \in Holding(n, items) => H!Up(less, h, j) \in Holding(n, items)
         /\ MayRise(less, n, h, j) => IsHeap(less, n, H!Up(less, h, j))
<1>1. less \in [X \X X -> BOOLEAN]
  BY DEF Orders
<1>2. PICK up : RisesBy(up, less, n, h)
  BY <1>1, UpUnfolds
<1>9. /\ \A s \in 1..n : H!Up(less, h, s) = up[[at |-> s, array |-> h]]
      /\ \A s \in 1..n, a \in H!Arrays(h) :
           up[[at |-> s, array |-> a]] =
             IF s > 1 /\ less[<<a[s], a[s \div 2]>>]
               THEN up[[at |-> s \div 2, array |-> H!Swap(a, s, s \div 2)]]
               ELSE a
  BY <1>2 DEF RisesBy
<1>3. /\ h \in H!Arrays(h)
      /\ \A a \in H!Arrays(h) : a \in [1..n -> X]
      /\ \A a \in H!Arrays(h), s, k \in 1..n : H!Swap(a, s, k) \in H!Arrays(h)
  BY ArraysType
<1> DEFINE Right(s, a, b) ==
             /\ b \in [1..n -> X]
             /\ \A items : a \in Holding(n, items) => b \in Holding(n, items)
             /\ MayRise(less, n, a, s) => IsHeap(less, n, b)
           Bad == {s \in 1..n : \E a \in H!Arrays(h) : ~Right(s, a, up[[at |-> s, array |-> a]])}
<1>4. ASSUME NEW s \in Bad
      PROVE  \E k \in Bad : k < s
  <2>1. PICK a \in H!Arrays(h) : ~Right(s, a, up[[at |-> s, array |-> a]])
    OBVIOUS
  <2>2. s \in 1..n /\ a \in [1..n -> X]
    BY <1>3
  <2> DEFINE b == up[[at |-> s, array |-> a]]
             p == s \div 2
             c == H!Swap(a, s, p)
  <2>3. CASE s > 1 /\ less[<<a[s], a[p]>>]
    <3>1. p \in 1..n /\ p < s /\ s \in 2..n
      BY <2>2, <2>3
    <3>2. b = up[[at |-> p, array |-> c]] /\ c \in H!Arrays(h)
      BY <2>2, <2>3, <3>1, <1>9, <1>3
    <3>3. \A items : a \in Holding(n, items) => c \in Holding(n, items)
      BY <2>2, <3>1, SwapHolds
    <3>4. MayRise(less, n, a, s) => MayRise(less, n, c, p)
      BY <2>2, <2>3, <3>1, RiseStep
    <3> HIDE DEF p, c
    <3>5. ~Right(p, c, up[[at |-> p, array |-> c]])
      <4> SUFFICES ASSUME Right(p, c, up[[at |-> p, array |-> c]]) PROVE FALSE
        OBVIOUS
      <4> HIDE DEF b
      <4>1. Right(s, a, b)
        BY <3>2, <3>3, <3>4
      <4>2. QED
        BY <2>1, <4>1 DEF b
    <3>6. QED
      BY <3>1, <3>2, <3>5
  <2>4. CASE ~(s > 1 /\ less[<<a[s], a[p]>>])
    <3>1. b = a
      BY <2>2, <2>4, <1>9
    <3>2. MayRise(less, n, a, s) => IsHeap(less, n, a)
      <4> SUFFICES ASSUME MayRise(less, n, a, s), NEW k \in 2..n
                   PROVE  ~less[<<a[k], a[k \div 2]>>]
        BY DEF IsHeap, IsHeapFrom
      <4>1. QED
        BY <2>4 DEF MayRise
    <3>3. Right(s, a, b)
      BY <2>2, <3>1, <3>2
    <3>4. QED
      BY <2>1, <3>3
  <2>5. QED
    BY <2>3, <2>4
<1>5. Bad \in SUBSET Nat
  OBVIOUS
<1> HIDE DEF Right
<1>6. j \notin Bad
  <2> HIDE DEF Bad
  <2>1. Bad = {}
    BY <1>4, <1>5, StrongInduction
  <2>2. QED
    BY <2>1
<1>7. Right(j, h, up[[at |-> j, array |-> h]])
  BY <1>3, <1>6
<1>8. QED
  BY <1>9, <1>7 DEF Right

LEMMA BestChildType ==
  ASSUME NEW less, NEW n \in Nat, NEW X, NEW a \in [1..n -> X], NEW s \in 1..n, 2 * s <= n
  PROVE  /\ H!BestChild(less, a, s) \in 2..n
         /\ H!BestChild(less, a, s) \in 1..n
         /\ H!BestChild(less, a, s) > s
         /\ H!BestChild(less, a, s) \div 2 = s
<1>1. Len(a) = n
  BY IsSequence
<1>2. /\ 2 * s \in 2..n /\ 2 * s \in 1..n /\ 2 * s > s /\ (2 * s) \div 2 = s
      /\ 2 * s + 1 > s /\ (2 * s + 1) \div 2 = s
  OBVIOUS
<1>3. CASE 2 * s + 1 <= n /\ less[<<a[2 * s + 1], a[2 * s]>>]
  <2>1. H!BestChild(less, a, s) = 2 * s + 1
    BY <1>1, <1>3 DEF H!BestChild
  <2>2. 2 * s + 1 \in 2..n /\ 2 * s + 1 \in 1..n
    BY <1>3
  <2>3. QED
    BY <2>1, <2>2, <1>2
<1>4. CASE ~(2 * s + 1 <= n /\ less[<<a[2 * s + 1], a[2 * s]>>])
  <2>1. H!BestChild(less, a, s) = 2 * s
    BY <1>1, <1>4 DEF H!BestChild
  <2>2. QED
    BY <2>1, <1>2, <1>4
<1>5. QED
  BY <1>3, <1>4

\* No child goes before the better of the two.
LEMMA BestChildIsBest ==
  ASSUME NEW X, NEW less, Orders(less, X), NEW n \in Nat, NEW a \in [1..n -> X],
         NEW s \in 1..n, 2 * s <= n, NEW k \in 2..n, k \div 2 = s
  PROVE  ~less[<<a[k], a[H!BestChild(less, a, s)]>>]
<1>1. Len(a) = n
  BY IsSequence
<1>2. k = 2 * s \/ k = 2 * s + 1
  OBVIOUS
<1>3. k \in 1..n /\ 2 * s \in 1..n
  OBVIOUS
<1>4. a[k] \in X /\ a[2 * s] \in X
  BY <1>3
<1>5. ~less[<<a[k], a[k]>>]
  BY <1>4 DEF Orders
<1>6. CASE 2 * s + 1 <= n /\ less[<<a[2 * s + 1], a[2 * s]>>]
  <2>1. H!BestChild(less, a, s) = 2 * s + 1
    BY <1>1, <1>6 DEF H!BestChild
  <2>2. 2 * s + 1 \in 1..n /\ a[2 * s + 1] \in X
    BY <1>6
  <2>3. ~less[<<a[2 * s], a[2 * s + 1]>>]
    BY <1>4, <1>6, <2>2 DEF Orders
  <2>4. QED
    BY <1>2, <1>5, <2>1, <2>3
<1>7. CASE ~(2 * s + 1 <= n /\ less[<<a[2 * s + 1], a[2 * s]>>])
  <2>1. H!BestChild(less, a, s) = 2 * s
    BY <1>1, <1>7 DEF H!BestChild
  <2>2. ASSUME k = 2 * s + 1 PROVE ~less[<<a[2 * s + 1], a[2 * s]>>]
    <3>1. 2 * s + 1 <= n
      BY <2>2
    <3>2. QED
      BY <3>1, <1>7
  <2>3. QED
    BY <1>2, <1>5, <2>1, <2>2
<1>8. QED
  BY <1>6, <1>7

\* What down() does at each place.
SinksBy(down, less, n, h) ==
  /\ \A s \in 1..n : H!Down(less, h, s) = down[[at |-> s, array |-> h]]
  /\ \A s \in 1..n, a \in H!Arrays(h) :
       down[[at |-> s, array |-> a]] =
         IF 2 * s <= n /\ less[<<a[H!BestChild(less, a, s)], a[s]>>]
           THEN down[[at |-> H!BestChild(less, a, s),
                      array |-> H!Swap(a, s, H!BestChild(less, a, s))]]
           ELSE a

LEMMA DownUnfolds ==
  ASSUME NEW X, NEW less \in [X \X X -> BOOLEAN], NEW n \in Nat, NEW h \in [1..n -> X]
  PROVE  \E down : SinksBy(down, less, n, h)
<1> DEFINE dom == H!Places(h)
           res == H!Arrays(h)
           best(p) == H!BestChild(less, p.array, p.at)
           sinks(p) == 2 * p.at <= Len(p.array) /\ less[<<p.array[best(p)], p.array[p.at]>>]
           below(p) == [at |-> best(p), array |-> H!Swap(p.array, p.at, best(p))]
           goes == [p \in dom |-> sinks(p)]
           next == [p \in dom |-> IF sinks(p) THEN below(p) ELSE p]
           make == [q \in dom \X res |-> q[2]]
           end == [p \in dom |-> p.array]
           size == [p \in dom |-> n - p.at]
<1>1. dom = [at : 1..n, array : res]
  BY IsSequence DEF H!Places
<1> HIDE DEF dom, res
<1>2. ASSUME NEW p \in dom
      PROVE  /\ p.at \in 1..n /\ p.array \in res /\ p.array \in [1..n -> X]
             /\ Len(p.array) = n
             /\ 2 * p.at <= n => best(p) \in 1..n /\ best(p) > p.at
  <2>1. p.at \in 1..n /\ p.array \in res
    BY <1>1
  <2>2. p.array \in [1..n -> X]
    BY <2>1, ArraysType DEF res
  <2>3. Len(p.array) = n
    BY <2>2, IsSequence
  <2>4. 2 * p.at <= n => best(p) \in 1..n /\ best(p) > p.at
    BY <2>1, <2>2, BestChildType
  <2>5. QED
    BY <2>1, <2>2, <2>3, <2>4
<1> HIDE DEF best
<1>3. ASSUME NEW p \in dom
      PROVE  sinks(p) \in BOOLEAN /\ (sinks(p) => below(p) \in dom /\ below(p).at > p.at)
  <2>1. 2 * p.at <= n => p.array[p.at] \in X /\ p.array[best(p)] \in X
    BY <1>2
  <2>2. sinks(p) \in BOOLEAN
    BY <2>1, <1>2
  <2>3. sinks(p) => H!Swap(p.array, p.at, best(p)) \in res
    BY <1>2, ArraysType DEF res
  <2>4. QED
    BY <1>1, <1>2, <2>2, <2>3
<1>4. GoesDown(dom, res, goes, next, make, end, size)
  <2>1. goes \in [dom -> BOOLEAN] /\ next \in [dom -> dom]
    BY <1>3
  <2>2. make \in [dom \X res -> res] /\ end \in [dom -> res] /\ size \in [dom -> Nat]
    BY <1>2
  <2>3. ASSUME NEW p \in dom, goes[p]
        PROVE  size[next[p]] < size[p]
    <3>1. sinks(p) /\ next[p] = below(p) /\ below(p) \in dom
      BY <2>3, <1>3
    <3>2. below(p).at \in 1..n /\ p.at \in 1..n /\ below(p).at > p.at
      BY <3>1, <1>2, <1>3
    <3>3. size[p] = n - p.at /\ size[next[p]] = n - below(p).at
      BY <3>1
    <3> HIDE DEF size, next, below
    <3>4. QED
      BY <3>2, <3>3
  <2>4. QED
    BY <2>1, <2>2, <2>3 DEF GoesDown
<1>5. PICK f \in [dom -> res] :
        f = [p \in dom |-> IF goes[p] THEN make[<<p, f[next[p]]>>] ELSE end[p]]
  <2> HIDE DEF goes, next, make, end, size
  <2>1. QED
    BY <1>4, Recursion
<1>6. f = [p \in dom |-> IF sinks(p) THEN f[below(p)] ELSE p.array]
  <2>1. ASSUME NEW p \in dom
        PROVE  f[p] = IF sinks(p) THEN f[below(p)] ELSE p.array
    <3>1. f[p] = IF goes[p] THEN make[<<p, f[next[p]]>>] ELSE end[p]
      BY <1>5
    <3>2. goes[p] = sinks(p) /\ end[p] = p.array
      OBVIOUS
    <3>3. sinks(p) => next[p] = below(p) /\ make[<<p, f[next[p]]>>] = f[below(p)]
      BY <1>3
    <3>4. QED
      BY <3>1, <3>2, <3>3
  <2>2. QED
    BY <2>1
<1> DEFINE down == CHOOSE g : g = [p \in dom |-> IF sinks(p) THEN g[below(p)] ELSE p.array]
<1>7. down = [p \in dom |-> IF sinks(p) THEN down[below(p)] ELSE p.array]
  BY <1>6
<1>8. \A s : H!Down(less, h, s) = down[[at |-> s, array |-> h]]
  BY DEF H!Down, dom, best
<1> HIDE DEF down
<1>9. ASSUME NEW s \in 1..n, NEW a \in res
      PROVE  down[[at |-> s, array |-> a]] =
               IF 2 * s <= n /\ less[<<a[H!BestChild(less, a, s)], a[s]>>]
                 THEN down[[at |-> H!BestChild(less, a, s),
                            array |-> H!Swap(a, s, H!BestChild(less, a, s))]]
                 ELSE a
  <2> DEFINE p == [at |-> s, array |-> a]
  <2>1. p \in dom
    BY <1>1
  <2>2. down[p] = IF sinks(p) THEN down[below(p)] ELSE p.array
    BY <1>7, <2>1
  <2>3. Len(a) = n /\ best(p) = H!BestChild(less, a, s)
    BY <1>2, <2>1 DEF best
  <2>4. QED
    BY <2>2, <2>3
<1>10. QED
  BY <1>8, <1>9 DEF res, SinksBy

(***************************************************************************)
(* One exchange of down().                                                 *)
(***************************************************************************)
LEMMA SinkStep ==
  ASSUME NEW X, NEW less, Orders(less, X), NEW n \in Nat, NEW h \in [1..n -> X],
         NEW low \in Nat \ {0}, NEW s \in 1..n, low <= s, 2 * s <= n,
         less[<<h[H!BestChild(less, h, s)], h[s]>>], MaySink(less, n, h, s, low)
  PROVE  MaySink(less, n, H!Swap(h, s, H!BestChild(less, h, s)), H!BestChild(less, h, s), low)
<1> DEFINE j == H!BestChild(less, h, s)
           a == H!Swap(h, s, j)
<1>1. j \in 1..n /\ j \in 2..n /\ j > s /\ j \div 2 = s
  <2>1. j \in 1..n
    BY BestChildType
  <2>2. j > s
    BY BestChildType
  <2>3. j \in 2..n
    BY <2>1, <2>2
  <2>4. j = 2 * s \/ j = 2 * s + 1
    BY DEF H!BestChild
  <2> HIDE DEF j
  <2>5. QED
    BY <2>1, <2>2, <2>3, <2>4
<1>2. /\ a \in [1..n -> X]
      /\ a[s] = h[j] /\ a[j] = h[s]
      /\ \A k \in 1..n : k # j /\ k # s => a[k] = h[k]
  BY <1>1 DEF H!Swap
<1>3. \A x, y \in X : less[<<x, y>>] => ~less[<<y, x>>]
  BY DEF Orders
<1>4. /\ \A k \in 2..n : k \div 2 >= low /\ k \div 2 # s => ~less[<<h[k], h[k \div 2]>>]
      /\ \A k \in 2..n : k \div 2 = s /\ s \div 2 >= low => ~less[<<h[k], h[s \div 2]>>]
  BY DEF MaySink
<1>5. \A k \in 2..n : k \div 2 = s => ~less[<<h[k], h[j]>>]
  BY BestChildIsBest
<1> HIDE DEF j
<1>12. less[<<h[j], h[s]>>]
  BY DEF j
<1>6. ~less[<<h[s], h[j]>>]
  BY <1>1, <1>3, <1>12
<1>7. \A k \in 2..n : k \in 1..n /\ k \div 2 \in 1..n /\ k \div 2 # k /\ k \div 2 < k
  OBVIOUS
<1> HIDE DEF a
<1>8. ASSUME NEW k \in 2..n, k \div 2 >= low, k \div 2 # j
      PROVE  ~less[<<a[k], a[k \div 2]>>]
  <2>1. CASE k = j
    BY <2>1, <1>1, <1>2, <1>6
  <2>2. CASE k # j /\ k \div 2 = s
    <3>1. a[k] = h[k] /\ a[k \div 2] = h[j]
      BY <2>2, <1>2, <1>7
    <3>2. QED
      BY <2>2, <3>1, <1>5
  <2>3. CASE k = s
    <3>1. a[k] = h[j] /\ a[k \div 2] = h[s \div 2]
      BY <2>3, <1>1, <1>2, <1>7
    <3>2. ~less[<<h[j], h[s \div 2]>>]
      BY <2>3, <1>1, <1>4, <1>8
    <3>3. QED
      BY <3>1, <3>2
  <2>4. CASE k # j /\ k # s /\ k \div 2 # s
    <3>1. a[k] = h[k] /\ a[k \div 2] = h[k \div 2]
      BY <2>4, <1>2, <1>7, <1>8
    <3>2. QED
      BY <2>4, <3>1, <1>4, <1>8
  <2>5. QED
    BY <2>1, <2>2, <2>3, <2>4
<1>9. ASSUME NEW k \in 2..n, k \div 2 = j
      PROVE  ~less[<<a[k], a[j \div 2]>>]
  <2>1. k # j /\ k # s /\ j # s /\ j >= low /\ k \div 2 >= low
    BY <1>1, <1>7, <1>9
  <2>2. a[k] = h[k] /\ a[j \div 2] = h[j]
    BY <2>1, <1>1, <1>2, <1>7
  <2>3. ~less[<<h[k], h[j]>>]
    BY <2>1, <1>4, <1>9
  <2>4. QED
    BY <2>2, <2>3
<1>10. MaySink(less, n, a, j, low)
  BY <1>8, <1>9 DEF MaySink
<1>11. QED
  BY <1>10 DEF a, j

(***************************************************************************)
(* down(i): what is a heap but for an element that may have to sink        *)
(* becomes one, with the same items.                                       *)
(***************************************************************************)
LEMMA DownIsRight ==
  ASSUME NEW X, NEW less, Orders(less, X), NEW n \in Nat, NEW h \in [1..n -> X],
         NEW j \in 1..n, NEW low \in Nat \ {0}, low <= j
  PROVE  /\ H!Down(less, h, j) \in [1..n -> X]
         /\ \A items : h \in Holding(n, items) => H!Down(less, h, j) \in Holding(n, items)
         /\ MaySink(less, n, h, j, low) => IsHeapFrom(less, n, H!Down(less, h, j), low)
         /\ ~(2 * j <= n /\ less[<<h[H!BestChild(less, h, j)], h[j]>>]) => H!Down(less, h, j) = h
<1>1. less \in [X \X X -> BOOLEAN]
  BY DEF Orders
<1>2. PICK down : SinksBy(down, less, n, h)
  BY <1>1, DownUnfolds
<1>3. /\ \A s \in 1..n : H!Down(less, h, s) = down[[at |-> s, array |-> h]]
      /\ \A s \in 1..n, a \in H!Arrays(h) :
           down[[at |-> s, array |-> a]] =
             IF 2 * s <= n /\ less[<<a[H!BestChild(less, a, s)], a[s]>>]
               THEN down[[at |-> H!BestChild(less, a, s),
                          array |-> H!Swap(a, s, H!BestChild(less, a, s))]]
               ELSE a
  BY <1>2 DEF SinksBy
<1>4. /\ h \in H!Arrays(h)
      /\ \A a \in H!Arrays(h) : a \in [1..n -> X]
      /\ \A a \in H!Arrays(h), s, k \in 1..n : H!Swap(a, s, k) \in H!Arrays(h)
  BY ArraysType
<1> DEFINE Right(s, a, b) ==
             /\ b \in [1..n -> X]
             /\ \A items : a \in Holding(n, items) => b \in Holding(n, items)
             /\ MaySink(less, n, a, s, low) => IsHeapFrom(less, n, b, low)
           Bad == {d \in 0..n : \E s \in 1..n, a \in H!Arrays(h) :
                     d = n - s /\ low <= s /\ ~Right(s, a, down[[at |-> s, array |-> a]])}
<1>5. ASSUME NEW d \in Bad
      PROVE  \E e \in Bad : e < d
  <2>1. PICK s \in 1..n, a \in H!Arrays(h) :
          d = n - s /\ low <= s /\ ~Right(s, a, down[[at |-> s, array |-> a]])
    OBVIOUS
  <2>2. a \in [1..n -> X]
    BY <1>4
  <2> DEFINE b == down[[at |-> s, array |-> a]]
             k == H!BestChild(less, a, s)
             c == H!Swap(a, s, k)
  <2>3. CASE 2 * s <= n /\ less[<<a[k], a[s]>>]
    <3>1. k \in 1..n /\ k > s
      BY <2>2, <2>3, BestChildType
    <3>2. b = down[[at |-> k, array |-> c]] /\ c \in H!Arrays(h)
      BY <2>2, <2>3, <3>1, <1>3, <1>4
    <3>3. \A items : a \in Holding(n, items) => c \in Holding(n, items)
      BY <3>1, SwapHolds
    <3>4. MaySink(less, n, a, s, low) => MaySink(less, n, c, k, low)
      BY <2>1, <2>2, <2>3, SinkStep
    <3> HIDE DEF k, c
    <3>5. ~Right(k, c, down[[at |-> k, array |-> c]])
      <4> SUFFICES ASSUME Right(k, c, down[[at |-> k, array |-> c]]) PROVE FALSE
        OBVIOUS
      <4> HIDE DEF b
      <4>1. Right(s, a, b)
        BY <3>2, <3>3, <3>4
      <4>2. QED
        BY <2>1, <4>1 DEF b
    <3>6. n - k \in 0..n /\ n - k < d /\ low <= k
      BY <2>1, <3>1
    <3>7. n - k \in Bad
      <4> HIDE DEF Right
      <4>1. QED
        BY <3>1, <3>2, <3>5, <3>6
    <3>8. QED
      BY <3>6, <3>7
  <2>4. CASE ~(2 * s <= n /\ less[<<a[k], a[s]>>])
    <3>1. b = a
      BY <2>4, <1>3
    <3>2. MaySink(less, n, a, s, low) => IsHeapFrom(less, n, a, low)
      <4> SUFFICES ASSUME MaySink(less, n, a, s, low), NEW m \in 2..n, m \div 2 >= low
                   PROVE  ~less[<<a[m], a[m \div 2]>>]
        BY DEF IsHeapFrom
      <4>1. CASE m \div 2 # s
        BY <4>1 DEF MaySink
      <4>2. CASE m \div 2 = s
        <5>1. 2 * s <= n
          BY <4>2
        <5>2. ~less[<<a[k], a[s]>>] /\ k \in 1..n
          BY <5>1, <2>2, <2>4, BestChildType
        <5>3. ~less[<<a[m], a[k]>>]
          BY <2>2, <4>2, <5>1, BestChildIsBest
        <5>4. m \in 1..n /\ a[m] \in X /\ a[k] \in X /\ a[s] \in X
          BY <2>2, <5>2
        <5> HIDE DEF k
        <5>5. QED
          BY <4>2, <5>2, <5>3, <5>4 DEF Orders
      <4>3. QED
        BY <4>1, <4>2
    <3>3. Right(s, a, b)
      BY <2>2, <3>1, <3>2
    <3>4. QED
      BY <2>1, <3>3
  <2>5. QED
    BY <2>3, <2>4
<1>6. Bad \in SUBSET Nat
  OBVIOUS
<1> HIDE DEF Right
<1>7. n - j \notin Bad
  <2> HIDE DEF Bad
  <2>1. Bad = {}
    BY <1>5, <1>6, StrongInduction
  <2>2. QED
    BY <2>1
<1>8. Right(j, h, down[[at |-> j, array |-> h]])
  <2>1. n - j \in 0..n
    OBVIOUS
  <2>2. QED
    BY <1>4, <1>7, <2>1
<1>9. ~(2 * j <= n /\ less[<<h[H!BestChild(less, h, j)], h[j]>>]) => H!Down(less, h, j) = h
  BY <1>3, <1>4
<1>10. QED
  BY <1>3, <1>8, <1>9 DEF Right

(***************************************************************************)
(* What the operations begin with: an element put in the place of another, *)
(* added at the end, or replaced by the last, which is taken off.          *)
(***************************************************************************)
LEMMA Replaced ==
  ASSUME NEW n \in Nat, NEW items, NEW h \in Holding(n, items),
         NEW s \in 1..n, NEW x, x \notin items
  PROVE  /\ [h EXCEPT ![s] = x] \in Holding(n, (items \ {h[s]}) \cup {x})
         /\ \A k \in 1..n : [h EXCEPT ![s] = x][k] = IF k = s THEN x ELSE h[k]
<1> DEFINE a == [h EXCEPT ![s] = x]
           rest == (items \ {h[s]}) \cup {x}
<1>1. /\ h \in [1..n -> items]
      /\ \A k, m \in 1..n : h[k] = h[m] => k = m
      /\ \A y \in items : \E k \in 1..n : h[k] = y
  BY DEF Holding
<1>2. a = [k \in 1..n |-> a[k]] /\ \A k \in 1..n : a[k] = IF k = s THEN x ELSE h[k]
  BY <1>1
<1>3. \A k \in 1..n : h[k] \in items /\ h[k] # x
  BY <1>1
<1> HIDE DEF a
<1>4. \A k, m \in 1..n : a[k] = a[m] => k = m
  BY <1>1, <1>2, <1>3
<1>5. \A k \in 1..n : a[k] \in rest
  BY <1>1, <1>2, <1>3
<1>6. ASSUME NEW y \in rest
      PROVE  \E k \in 1..n : a[k] = y
  <2>1. CASE y = x
    BY <2>1, <1>2
  <2>2. CASE y # x
    <3>1. PICK k \in 1..n : h[k] = y
      BY <2>2, <1>1
    <3>2. k # s
      BY <2>2, <3>1
    <3>3. QED
      BY <3>1, <3>2, <1>2
  <2>3. QED
    BY <2>1, <2>2
<1>7. a \in Holding(n, rest)
  BY <1>2, <1>4, <1>5, <1>6 DEF Holding
<1>8. QED
  BY <1>2, <1>7 DEF a

LEMMA Appended ==
  ASSUME NEW n \in Nat, NEW items, NEW h \in Holding(n, items),
         NEW x, x \notin items
  PROVE  /\ Append(h, x) \in Holding(n + 1, items \cup {x})
         /\ \A k \in 1..n : Append(h, x)[k] = h[k]
<1> DEFINE a == Append(h, x)
           Y == items \cup {x}
<1>1. /\ h \in [1..n -> items]
      /\ \A k, m \in 1..n : h[k] = h[m] => k = m
      /\ \A y \in items : \E k \in 1..n : h[k] = y
  BY DEF Holding
<1>2. h \in Seq(Y) /\ Len(h) = n
  <2>1. h \in [1..n -> Y]
    BY <1>1
  <2>2. QED
    BY <2>1, IsSequence
<1>3. /\ a \in Seq(Y) /\ Len(a) = n + 1
      /\ \A k \in 1..n : a[k] = h[k]
      /\ a[n + 1] = x
  BY <1>2, AppendProperties
<1> HIDE DEF a
<1>4. a \in [1..(n + 1) -> Y]
  BY <1>3, LenProperties
<1>5. \A k \in 1..(n + 1) : k \in 1..n \/ k = n + 1
  OBVIOUS
<1>6. \A k \in 1..n : h[k] \in items /\ h[k] # x
  BY <1>1
<1>7. \A k, m \in 1..(n + 1) : a[k] = a[m] => k = m
  BY <1>1, <1>3, <1>5, <1>6
<1>8. \A k \in 1..(n + 1) : a[k] \in items \cup {x}
  BY <1>3, <1>5, <1>6
<1>9. \A y \in items \cup {x} : \E k \in 1..(n + 1) : a[k] = y
  <2>1. \A k \in 1..n : k \in 1..(n + 1)
    OBVIOUS
  <2>2. n + 1 \in 1..(n + 1)
    OBVIOUS
  <2>3. QED
    BY <2>1, <2>2, <1>1, <1>3
<1>10. a \in Holding(n + 1, items \cup {x})
  BY <1>4, <1>7, <1>8, <1>9 DEF Holding
<1>11. QED
  BY <1>3, <1>4, <1>10 DEF a

LEMMA Shortened ==
  ASSUME NEW n \in Nat \ {0}, NEW items, NEW h \in Holding(n, items)
  PROVE  /\ SubSeq(h, 1, n - 1) \in Holding(n - 1, items \ {h[n]})
         /\ \A k \in 1..(n - 1) : SubSeq(h, 1, n - 1)[k] = h[k]
<1> DEFINE a == SubSeq(h, 1, n - 1)
           Y == items
<1>1. /\ h \in [1..n -> items]
      /\ \A k, m \in 1..n : h[k] = h[m] => k = m
      /\ \A y \in items : \E k \in 1..n : h[k] = y
  BY DEF Holding
<1>2. n - 1 \in Nat /\ n - 1 \in Int /\ \A k \in 1..(n - 1) : k \in 1..n /\ k # n
  OBVIOUS
<1>3. /\ a \in Seq(Y)
      /\ Len(a) = IF 1 <= n - 1 THEN (n - 1) - 1 + 1 ELSE 0
      /\ \A k \in 1..((n - 1) - 1 + 1) : a[k] = h[1 + k - 1]
  <2>1. \A k \in 1..(n - 1) : h[k] \in Y
    BY <1>1, <1>2
  <2>2. QED
    BY <2>1, <1>2, SubSeqProperties
<1> HIDE DEF a
<1>4. Len(a) = n - 1 /\ \A k \in 1..(n - 1) : a[k] = h[k]
  <2>1. (n - 1) - 1 + 1 = n - 1
    OBVIOUS
  <2>2. \A k \in 1..(n - 1) : 1 + k - 1 = k
    OBVIOUS
  <2>3. QED
    BY <1>3, <2>1, <2>2
<1>5. a \in [1..(n - 1) -> Y]
  BY <1>3, <1>4, LenProperties
<1>6. \A k \in 1..(n - 1) : a[k] \in items \ {h[n]}
  BY <1>1, <1>2, <1>4
<1>7. \A k, m \in 1..(n - 1) : a[k] = a[m] => k = m
  BY <1>1, <1>2, <1>4
<1>8. ASSUME NEW y \in items \ {h[n]}
      PROVE  \E k \in 1..(n - 1) : a[k] = y
  <2>1. PICK k \in 1..n : h[k] = y
    BY <1>1
  <2>2. k \in 1..(n - 1)
    BY <2>1
  <2>3. QED
    BY <2>1, <2>2, <1>4
<1>9. a \in Holding(n - 1, items \ {h[n]})
  BY <1>5, <1>6, <1>7, <1>8 DEF Holding
<1>10. QED
  BY <1>4, <1>5, <1>9 DEF a

LEMMA LastMoved ==
  ASSUME NEW n \in Nat \ {0}, NEW items, NEW h \in Holding(n, items),
         NEW s \in 1..(n - 1)
  PROVE  LET a == [SubSeq(h, 1, n - 1) EXCEPT ![s] = h[n]]
         IN  /\ a \in Holding(n - 1, items \ {h[s]})
             /\ \A k \in 1..(n - 1) : a[k] = IF k = s THEN h[n] ELSE h[k]
<1> DEFINE b == SubSeq(h, 1, n - 1)
           rest == items \ {h[n]}
           a == [b EXCEPT ![s] = h[n]]
<1>1. /\ h \in [1..n -> items]
      /\ \A k, m \in 1..n : h[k] = h[m] => k = m
  BY DEF Holding
<1>2. /\ b \in Holding(n - 1, rest)
      /\ \A k \in 1..(n - 1) : b[k] = h[k]
  BY Shortened, Zenon
<1>3. n - 1 \in Nat /\ h[n] \in items /\ h[n] \notin rest
      /\ s \in 1..n /\ s # n
  BY <1>1
<1> HIDE DEF b, rest
<1>4. /\ a \in Holding(n - 1, (rest \ {b[s]}) \cup {h[n]})
      /\ \A k \in 1..(n - 1) : a[k] = IF k = s THEN h[n] ELSE b[k]
  <2> DEFINE m == n - 1
             x == h[n]
  <2>1. m \in Nat /\ b \in Holding(m, rest) /\ s \in 1..m /\ x \notin rest
    BY <1>2, <1>3
  <2> HIDE DEF m, x
  <2>2. /\ [b EXCEPT ![s] = x] \in Holding(m, (rest \ {b[s]}) \cup {x})
        /\ \A k \in 1..m : [b EXCEPT ![s] = x][k] = IF k = s THEN x ELSE b[k]
    BY <2>1, Replaced
  <2>3. QED
    BY <2>2 DEF m, x
<1>5. (rest \ {b[s]}) \cup {h[n]} = items \ {h[s]}
  BY <1>1, <1>2, <1>3 DEF rest
<1> HIDE DEF a
<1>6. /\ a \in Holding(n - 1, items \ {h[s]})
      /\ \A k \in 1..(n - 1) : a[k] = IF k = s THEN h[n] ELSE h[k]
  BY <1>2, <1>4, <1>5
<1>7. QED
  BY <1>6 DEF a, b

(***************************************************************************)
(* fix(i): what is a heap but for the element at i becomes one.            *)
(***************************************************************************)
MayMove(less, n, h, s) ==
  /\ \A k \in 2..n : k # s /\ k \div 2 # s => ~less[<<h[k], h[k \div 2]>>]
  /\ \A k \in 2..n : k \div 2 = s /\ s > 1 => ~less[<<h[k], h[s \div 2]>>]

LEMMA FixIsRight ==
  ASSUME NEW X, NEW less, Orders(less, X), NEW n \in Nat, NEW h \in [1..n -> X], NEW s \in 1..n
  PROVE  /\ \A items : h \in Holding(n, items) => H!Fix(less, h, s) \in Holding(n, items)
         /\ MayMove(less, n, h, s) => IsHeap(less, n, H!Fix(less, h, s))
<1> DEFINE down == H!Down(less, h, s)
           up == H!Up(less, h, s)
           j == H!BestChild(less, h, s)
           sinks == 2 * s <= n /\ less[<<h[j], h[s]>>]
<1>1. /\ \A items : h \in Holding(n, items) => down \in Holding(n, items)
      /\ MaySink(less, n, h, s, 1) => IsHeapFrom(less, n, down, 1)
      /\ ~sinks => down = h
  <2>1. 1 \in Nat \ {0} /\ 1 <= s
    OBVIOUS
  <2>2. QED
    BY <2>1, DownIsRight
<1>2. /\ \A items : h \in Holding(n, items) => up \in Holding(n, items)
      /\ MayRise(less, n, h, s) => IsHeap(less, n, up)
  BY UpIsRight
<1>3. H!Fix(less, h, s) = IF down = h THEN up ELSE down
  BY DEF H!Fix
<1>4. \A k \in 2..n : k \in 1..n /\ k \div 2 \in 1..n /\ h[k] \in X /\ h[k \div 2] \in X
  OBVIOUS
<1>5. ASSUME sinks
      PROVE  j \in 2..n /\ j \div 2 = s /\ j > s
  <2>1. j \in 2..n
    BY <1>5, BestChildType
  <2>2. j = 2 * s \/ j = 2 * s + 1
    BY DEF H!BestChild
  <2>3. j > s
    BY <1>5, BestChildType
  <2> HIDE DEF j
  <2>4. QED
    BY <2>1, <2>2, <2>3
<1>6. ASSUME sinks, MayMove(less, n, h, s)
      PROVE  MaySink(less, n, h, s, 1) /\ ~IsHeap(less, n, h)
  <2>1. j \in 2..n /\ j \div 2 = s /\ j > s /\ less[<<h[j], h[s]>>]
    BY <1>5, <1>6
  <2> HIDE DEF j
  <2>2. ~less[<<h[s], h[j]>>]
    BY <2>1, <1>4 DEF Orders
  <2>3. ASSUME NEW k \in 2..n, k \div 2 # s
        PROVE  ~less[<<h[k], h[k \div 2]>>]
    <3>1. CASE k # s
      BY <3>1, <2>3, <1>6 DEF MayMove
    <3>2. CASE k = s
      <4>1. ~less[<<h[j], h[s \div 2]>>]
        BY <3>2, <2>1, <1>6 DEF MayMove
      <4>2. h[s] \in X /\ h[j] \in X /\ h[s \div 2] \in X
        BY <3>2, <2>1, <1>4
      <4>3. QED
        BY <3>2, <4>1, <4>2, <2>2 DEF Orders
    <3>3. QED
      BY <3>1, <3>2
  <2>4. ASSUME NEW k \in 2..n, k \div 2 = s, s \div 2 >= 1
        PROVE  ~less[<<h[k], h[s \div 2]>>]
    <3>1. s > 1
      BY <2>4
    <3>2. QED
      BY <3>1, <2>4, <1>6 DEF MayMove
  <2>5. MaySink(less, n, h, s, 1)
    BY <2>3, <2>4 DEF MaySink
  <2>6. j \div 2 >= 1 /\ ~(~less[<<h[j], h[j \div 2]>>])
    BY <2>1
  <2>7. QED
    BY <2>1, <2>5, <2>6 DEF IsHeap, IsHeapFrom
<1>7. ASSUME ~sinks, MayMove(less, n, h, s)
      PROVE  MayRise(less, n, h, s)
  <2>1. ASSUME NEW k \in 2..n, k # s
        PROVE  ~less[<<h[k], h[k \div 2]>>]
    <3>1. CASE k \div 2 # s
      BY <3>1, <2>1, <1>7 DEF MayMove
    <3>2. CASE k \div 2 = s
      <4>1. 2 * s <= n
        BY <3>2
      <4>2. ~less[<<h[j], h[s]>>] /\ j \in 1..n
        BY <4>1, <1>7, BestChildType
      <4>3. ~less[<<h[k], h[j]>>]
        BY <3>2, <4>1, BestChildIsBest
      <4> HIDE DEF j
      <4>4. h[k] \in X /\ h[s] \in X /\ h[j] \in X
        BY <1>4, <4>2
      <4>5. QED
        BY <3>2, <4>2, <4>3, <4>4 DEF Orders
    <3>3. QED
      BY <3>1, <3>2
  <2>2. \A k \in 2..n : k \div 2 = s /\ s > 1 => ~less[<<h[k], h[s \div 2]>>]
    BY <1>7 DEF MayMove
  <2>3. QED
    BY <2>1, <2>2 DEF MayRise
<1> HIDE DEF down, up, sinks
<1>8. IsHeapFrom(less, n, down, 1) => IsHeap(less, n, down)
  BY DEF IsHeap
<1>9. QED
  BY <1>1, <1>2, <1>3, <1>6, <1>7, <1>8

(***************************************************************************)
(* The loop of init(array) and refresh(context) makes any array a heap.    *)
(***************************************************************************)
LEMMA HeapifyUnfolds ==
  ASSUME NEW X, NEW less, Orders(less, X), NEW n \in Nat, NEW h \in [1..n -> X]
  PROVE  \E f : /\ H!Heapify(less, h) = f[0]
                /\ \A s \in 0..n :
                     f[s] = IF s >= n \div 2 THEN h ELSE H!Down(less, f[s + 1], s + 1)
<1> DEFINE half == n \div 2
           dom == 0..n
           res == [1..n -> X]
           goes == [s \in dom |-> s < half]
           next == [s \in dom |-> IF s < n THEN s + 1 ELSE s]
           make == [q \in dom \X res |-> IF q[1] < n THEN H!Down(less, q[2], q[1] + 1) ELSE q[2]]
           end == [s \in dom |-> h]
           size == [s \in dom |-> n - s]
<1>1. Len(h) = n
  BY IsSequence
<1>2. \A s \in dom : s < n => s + 1 \in 1..n /\ s + 1 \in dom /\ s + 1 \in Nat \ {0}
  OBVIOUS
<1>3. ASSUME NEW a \in res, NEW s \in dom, s < n
      PROVE  H!Down(less, a, s + 1) \in res
  <2> DEFINE m == s + 1
  <2>1. m \in 1..n /\ m \in Nat \ {0} /\ m <= m
    BY <1>2, <1>3
  <2> HIDE DEF m
  <2>2. H!Down(less, a, m) \in res
    BY <2>1, DownIsRight
  <2>3. QED
    BY <2>2 DEF m
<1>4. half \in Nat /\ half <= n
  OBVIOUS
<1> HIDE DEF half
<1>12. \A s \in dom : goes[s] <=> s < half
  OBVIOUS
<1>5. GoesDown(dom, res, goes, next, make, end, size)
  <2>1. goes \in [dom -> BOOLEAN] /\ next \in [dom -> dom]
    BY <1>2
  <2>2. ASSUME NEW q \in dom \X res
        PROVE  (IF q[1] < n THEN H!Down(less, q[2], q[1] + 1) ELSE q[2]) \in res
    <3>1. q[1] \in dom /\ q[2] \in res
      OBVIOUS
    <3>2. QED
      BY <3>1, <1>3
  <2>3. make \in [dom \X res -> res]
    BY <2>2
  <2>4. end \in [dom -> res] /\ size \in [dom -> Nat]
    OBVIOUS
  <2>5. ASSUME NEW s \in dom, goes[s]
        PROVE  size[next[s]] < size[s]
    <3> HIDE DEF goes
    <3>1. s < n
      BY <2>5, <1>4, <1>12
    <3>2. next[s] = s + 1 /\ s + 1 \in dom
      BY <3>1
    <3>3. QED
      BY <3>2
  <2> HIDE DEF dom, res, goes, next, make, end, size
  <2>6. QED
    BY <2>1, <2>3, <2>4, <2>5 DEF GoesDown
<1>6. PICK f \in [dom -> res] :
        f = [s \in dom |-> IF goes[s] THEN make[<<s, f[next[s]]>>] ELSE end[s]]
  <2> HIDE DEF dom, res, goes, next, make, end, size
  <2>1. QED
    BY <1>5, Recursion
<1>7. ASSUME NEW s \in dom
      PROVE  f[s] = IF s >= half THEN h ELSE H!Down(less, f[s + 1], s + 1)
  <2>1. f[s] = IF goes[s] THEN make[<<s, f[next[s]]>>] ELSE end[s]
    BY <1>6
  <2> HIDE DEF goes
  <2>2. CASE s >= half
    <3>1. ~goes[s] /\ end[s] = h
      BY <2>2, <1>4, <1>12
    <3>2. QED
      BY <2>1, <2>2, <3>1
  <2>3. CASE ~(s >= half)
    <3>1. goes[s] /\ s < n /\ next[s] = s + 1 /\ s + 1 \in dom
      BY <2>3, <1>4, <1>12
    <3>2. f[s + 1] \in res
      BY <3>1, <1>6
    <3>3. make[<<s, f[s + 1]>>] = H!Down(less, f[s + 1], s + 1)
      BY <3>1, <3>2
    <3> HIDE DEF make, goes, next
    <3>4. QED
      BY <2>1, <2>3, <3>1, <3>3
  <2>4. QED
    BY <2>2, <2>3
<1>8. f = [s \in dom |-> IF s >= half THEN h ELSE H!Down(less, f[s + 1], s + 1)]
  <2>1. f = [s \in dom |-> f[s]]
    BY <1>6
  <2> HIDE DEF dom
  <2>2. QED
    BY <2>1, <1>7
<1> DEFINE F == CHOOSE g : g = [s \in dom |-> IF s >= half THEN h ELSE H!Down(less, g[s + 1], s + 1)]
<1>9. F = [s \in dom |-> IF s >= half THEN h ELSE H!Down(less, F[s + 1], s + 1)]
  <2> HIDE DEF dom
  <2>1. QED
    BY <1>8
<1>10. H!Heapify(less, h) = F[0]
  BY <1>1 DEF H!Heapify, half
<1> HIDE DEF F
<1>11. QED
  BY <1>9, <1>10 DEF half

LEMMA HeapifyIsRight ==
  ASSUME NEW X, NEW less, Orders(less, X), NEW n \in Nat, NEW items \in SUBSET X,
         NEW h \in Holding(n, items)
  PROVE  /\ H!Heapify(less, h) \in Holding(n, items)
         /\ IsHeap(less, n, H!Heapify(less, h))
<1>1. h \in [1..n -> X] /\ \A a : a \in Holding(n, items) => a \in [1..n -> X]
  BY DEF Holding
<1>2. PICK f : /\ H!Heapify(less, h) = f[0]
               /\ \A s \in 0..n :
                    f[s] = IF s >= n \div 2 THEN h ELSE H!Down(less, f[s + 1], s + 1)
  BY <1>1, HeapifyUnfolds
<1> DEFINE Good(s) == f[s] \in Holding(n, items) /\ IsHeapFrom(less, n, f[s], s + 1)
           Bad == {k \in Nat : k <= n /\ ~Good(n - k)}
<1>3. ASSUME NEW k \in Bad
      PROVE  \E m \in Bad : m < k
  <2> DEFINE s == n - k
  <2>1. s \in 0..n /\ k = n - s /\ ~Good(s)
    OBVIOUS
  <2> HIDE DEF s
  <2>2. CASE s >= n \div 2
    <3>1. f[s] = h
      BY <2>1, <2>2, <1>2
    <3>2. \A m \in 2..n : ~(m \div 2 >= s + 1)
      BY <2>1, <2>2
    <3>3. IsHeapFrom(less, n, h, s + 1)
      BY <3>2 DEF IsHeapFrom
    <3>4. QED
      BY <3>1, <3>3, <2>1
  <2>3. CASE ~(s >= n \div 2) /\ Good(s + 1)
    <3> DEFINE a == f[s + 1]
               j == s + 1
    <3>1. f[s] = H!Down(less, a, j)
      BY <2>1, <2>3, <1>2
    <3>2. j \in 1..n /\ j \in Nat \ {0} /\ j <= j /\ j \div 2 < j
      BY <2>1, <2>3
    <3>3. a \in Holding(n, items) /\ IsHeapFrom(less, n, a, j + 1)
      BY <2>3
    <3>4. a \in [1..n -> X]
      BY <3>3, <1>1
    <3> HIDE DEF a, j
    <3>5. MaySink(less, n, a, j, j)
      <4>1. \A m \in 2..n : m \div 2 >= j /\ m \div 2 # j => m \div 2 >= j + 1
        BY <3>2
      <4>2. ~(j \div 2 >= j)
        BY <3>2
      <4>3. QED
        BY <4>1, <4>2, <3>3 DEF MaySink, IsHeapFrom
    <3>6. /\ H!Down(less, a, j) \in Holding(n, items)
          /\ IsHeapFrom(less, n, H!Down(less, a, j), j)
      BY <3>2, <3>3, <3>4, <3>5, DownIsRight
    <3>7. Good(s)
      BY <3>1, <3>6 DEF j
    <3>8. QED
      BY <2>1, <3>7
  <2>4. CASE ~(s >= n \div 2) /\ ~Good(s + 1)
    <3>1. s + 1 \in 0..n /\ n - (s + 1) \in Nat /\ n - (n - (s + 1)) = s + 1 /\ n - (s + 1) <= n
          /\ n - (s + 1) < k
      BY <2>1, <2>4
    <3> HIDE DEF Good
    <3>2. n - (s + 1) \in Bad
      BY <2>4, <3>1
    <3>3. QED
      BY <3>1, <3>2
  <2>5. QED
    BY <2>2, <2>3, <2>4
<1> HIDE DEF Good
<1>4. Bad = {}
  <2>1. Bad \in SUBSET Nat
    OBVIOUS
  <2> HIDE DEF Bad
  <2>2. QED
    BY <1>3, <2>1, StrongInduction
<1>5. Good(0)
  <2>1. n \in Nat /\ n <= n /\ n - n = 0
    OBVIOUS
  <2>2. QED
    BY <1>4, <2>1
<1>6. QED
  BY <1>2, <1>5 DEF Good, IsHeap

(***************************************************************************)
(* An array that agrees with a heap but for one place is a heap but for    *)
(* that place.                                                             *)
(***************************************************************************)
LEMMA ChangedMayMove ==
  ASSUME NEW X, NEW less, Orders(less, X), NEW n \in Nat, NEW h \in [1..n -> X],
         IsHeap(less, n, h), NEW m \in Nat, m <= n, NEW a, NEW s \in 1..m,
         \A k \in 1..m : k # s => a[k] = h[k]
  PROVE  /\ MayMove(less, m, a, s)
         /\ s = 1 => MaySink(less, m, a, s, 1)
<1>1. \A k \in 2..m : /\ k \in 2..n /\ k \in 1..m /\ k \in 1..n
                      /\ k \div 2 \in 1..m /\ k \div 2 \in 1..n /\ k \div 2 < k /\ k \div 2 >= 1
  OBVIOUS
<1>2. \A k \in 2..n : ~less[<<h[k], h[k \div 2]>>]
  <2>1. \A k \in 2..n : k \div 2 >= 1
    OBVIOUS
  <2>2. QED
    BY <2>1 DEF IsHeap, IsHeapFrom
<1>3. ASSUME NEW k \in 2..m, k # s, k \div 2 # s
      PROVE  ~less[<<a[k], a[k \div 2]>>]
  <2>1. a[k] = h[k] /\ a[k \div 2] = h[k \div 2]
    BY <1>1, <1>3
  <2>2. QED
    BY <2>1, <1>1, <1>2
<1>4. ASSUME NEW k \in 2..m, k \div 2 = s, s > 1
      PROVE  ~less[<<a[k], a[s \div 2]>>]
  <2>1. s \in 2..m
    BY <1>4
  <2>2. s \div 2 \in 1..m /\ s \div 2 # s /\ k # s /\ s \div 2 \in 1..n /\ s \in 1..n /\ s \in 2..n
    BY <2>1, <1>1, <1>4
  <2>3. a[k] = h[k] /\ a[s \div 2] = h[s \div 2]
    BY <1>1, <2>2
  <2>4. ~less[<<h[k], h[s]>>] /\ ~less[<<h[s], h[s \div 2]>>]
    BY <1>1, <1>2, <1>4, <2>2
  <2>5. h[k] \in X /\ h[s] \in X /\ h[s \div 2] \in X
    BY <1>1, <2>2
  <2>6. QED
    BY <2>3, <2>4, <2>5 DEF Orders
<1>5. MayMove(less, m, a, s)
  BY <1>3, <1>4 DEF MayMove
<1>6. ASSUME s = 1
      PROVE  MaySink(less, m, a, s, 1)
  <2>1. \A k \in 2..m : k # s
    BY <1>6
  <2>2. ~(s \div 2 >= 1)
    BY <1>6
  <2>3. QED
    BY <2>1, <2>2, <1>3 DEF MaySink
<1>7. QED
  BY <1>5, <1>6

\* push(x)
LEMMA PushIsRight ==
  ASSUME NEW X, NEW less, Orders(less, X), NEW n \in Nat, NEW items \in SUBSET X,
         NEW h \in Holding(n, items), IsHeap(less, n, h), NEW x \in X, x \notin items
  PROVE  /\ H!Push(less, h, x) \in Holding(n + 1, items \cup {x})
         /\ IsHeap(less, n + 1, H!Push(less, h, x))
<1> DEFINE a == Append(h, x)
           m == n + 1
           more == items \cup {x}
<1>1. h \in [1..n -> X] /\ Len(h) = n
  <2>1. h \in [1..n -> X]
    BY DEF Holding
  <2>2. QED
    BY <2>1, IsSequence
<1>2. a \in Holding(m, more) /\ \A k \in 1..n : a[k] = h[k]
  <2>1. a \in Holding(n + 1, items \cup {x})
    BY Appended
  <2>2. \A k \in 1..n : a[k] = h[k]
    <3>1. h \in Seq(X) /\ Len(h) = n
      BY <1>1, IsSequence
    <3>2. QED
      BY <3>1, AppendProperties
  <2>3. QED
    BY <2>1, <2>2
<1>3. H!Push(less, h, x) = H!Up(less, a, m)
  BY <1>1 DEF H!Push
<1>4. m \in Nat /\ m \in 1..m /\ more \in SUBSET X
  OBVIOUS
<1>5. MayRise(less, m, a, m)
  <2>1. ASSUME NEW k \in 2..m, k # m
        PROVE  ~less[<<a[k], a[k \div 2]>>]
    <3>1. k \in 2..n /\ k \in 1..n /\ k \div 2 \in 1..n /\ k \div 2 >= 1
      BY <2>1
    <3> HIDE DEF a
    <3>2. a[k] = h[k] /\ a[k \div 2] = h[k \div 2]
      BY <3>1, <1>2
    <3>3. QED
      BY <3>1, <3>2 DEF IsHeap, IsHeapFrom
  <2>2. \A k \in 2..m : k \div 2 # m
    OBVIOUS
  <2>3. QED
    BY <2>1, <2>2 DEF MayRise
<1> HIDE DEF a, m, more
<1>6. a \in [1..m -> X]
  BY <1>2, <1>4 DEF Holding
<1>7. H!Up(less, a, m) \in Holding(m, more) /\ IsHeap(less, m, H!Up(less, a, m))
  BY <1>2, <1>4, <1>5, <1>6, UpIsRight
<1>8. QED
  BY <1>3, <1>7 DEF m, more

\* What down() and fix() do with a heap in which one place has changed.
LEMMA ChangedIsMended ==
  ASSUME NEW X, NEW less, Orders(less, X), NEW n \in Nat, NEW h \in [1..n -> X],
         IsHeap(less, n, h), NEW m \in Nat, m <= n, NEW rest \in SUBSET X,
         NEW a \in Holding(m, rest), NEW s \in 1..m,
         \A k \in 1..m : k # s => a[k] = h[k]
  PROVE  /\ H!Fix(less, a, s) \in Holding(m, rest) /\ IsHeap(less, m, H!Fix(less, a, s))
         /\ s = 1 => /\ H!Down(less, a, s) \in Holding(m, rest)
                     /\ IsHeap(less, m, H!Down(less, a, s))
<1>1. a \in [1..m -> X]
  BY DEF Holding
<1>2. MayMove(less, m, a, s) /\ (s = 1 => MaySink(less, m, a, s, 1))
  BY ChangedMayMove
<1>3. H!Fix(less, a, s) \in Holding(m, rest) /\ IsHeap(less, m, H!Fix(less, a, s))
  BY <1>1, <1>2, FixIsRight
<1>4. ASSUME s = 1
      PROVE  H!Down(less, a, s) \in Holding(m, rest) /\ IsHeap(less, m, H!Down(less, a, s))
  <2>1. 1 \in Nat \ {0} /\ 1 <= s
    OBVIOUS
  <2>2. /\ H!Down(less, a, s) \in Holding(m, rest)
        /\ IsHeapFrom(less, m, H!Down(less, a, s), 1)
    BY <1>1, <1>2, <1>4, <2>1, DownIsRight
  <2>3. QED
    BY <2>2 DEF IsHeap
<1>5. QED
  BY <1>3, <1>4

\* replaceBest(x) and replace(i, x)
LEMMA ReplaceIsRight ==
  ASSUME NEW X, NEW less, Orders(less, X), NEW n \in Nat, NEW items \in SUBSET X,
         NEW h \in Holding(n, items), IsHeap(less, n, h), NEW x \in X, x \notin items,
         NEW s \in 1..n
  PROVE  /\ H!Replace(less, h, s, x) \in Holding(n, (items \ {h[s]}) \cup {x})
         /\ IsHeap(less, n, H!Replace(less, h, s, x))
         /\ s = 1 => /\ H!ReplaceBest(less, h, x) \in Holding(n, (items \ {h[s]}) \cup {x})
                     /\ IsHeap(less, n, H!ReplaceBest(less, h, x))
<1> DEFINE a == [h EXCEPT ![s] = x]
           rest == (items \ {h[s]}) \cup {x}
<1>1. h \in [1..n -> X] /\ n <= n /\ rest \in SUBSET X
  BY DEF Holding
<1>2. a \in Holding(n, rest) /\ \A k \in 1..n : a[k] = IF k = s THEN x ELSE h[k]
  BY Replaced
<1>3. H!Replace(less, h, s, x) = H!Fix(less, a, s)
  BY DEF H!Replace
<1>4. s = 1 => H!ReplaceBest(less, h, x) = H!Down(less, a, s)
  BY DEF H!ReplaceBest
<1> HIDE DEF a, rest
<1>5. \A k \in 1..n : k # s => a[k] = h[k]
  BY <1>2
<1>6. /\ H!Fix(less, a, s) \in Holding(n, rest) /\ IsHeap(less, n, H!Fix(less, a, s))
      /\ s = 1 => /\ H!Down(less, a, s) \in Holding(n, rest)
                  /\ IsHeap(less, n, H!Down(less, a, s))
  BY <1>1, <1>2, <1>5, ChangedIsMended
<1>7. QED
  BY <1>3, <1>4, <1>6 DEF rest

\* removeBest() and remove(i)
LEMMA RemoveIsRight ==
  ASSUME NEW X, NEW less, Orders(less, X), NEW n \in Nat \ {0}, NEW items \in SUBSET X,
         NEW h \in Holding(n, items), IsHeap(less, n, h), NEW s \in 1..n
  PROVE  /\ H!Remove(less, h, s) \in Holding(n - 1, items \ {h[s]})
         /\ IsHeap(less, n - 1, H!Remove(less, h, s))
         /\ s = 1 => /\ H!RemoveBest(less, h) \in Holding(n - 1, items \ {h[s]})
                     /\ IsHeap(less, n - 1, H!RemoveBest(less, h))
<1> DEFINE m == n - 1
           b == SubSeq(h, 1, m)
           a == [b EXCEPT ![s] = h[n]]
           rest == items \ {h[s]}
<1>1. h \in [1..n -> X] /\ Len(h) = n
  <2>1. h \in [1..n -> X]
    BY DEF Holding
  <2>2. QED
    BY <2>1, IsSequence
<1>2. m \in Nat /\ m <= n /\ m + 1 = n /\ rest \in SUBSET X
  OBVIOUS
<1>3. CASE s = n
  <2>1. b \in Holding(m, items \ {h[n]}) /\ \A k \in 1..m : b[k] = h[k]
    BY Shortened
  <2>2. H!Remove(less, h, s) = b
    BY <1>1, <1>3 DEF H!Remove
  <2> HIDE DEF b
  <2>3. \A k \in 2..m : k \in 2..n /\ k \in 1..m /\ k \div 2 \in 1..m /\ k \div 2 >= 1
    OBVIOUS
  <2>4. IsHeap(less, m, b)
    BY <2>1, <2>3 DEF IsHeap, IsHeapFrom
  <2>5. ASSUME s = 1
        PROVE  H!RemoveBest(less, h) \in Holding(m, rest) /\ IsHeap(less, m, H!RemoveBest(less, h))
    <3>1. m = 0
      BY <2>5, <1>3
    <3>2. H!RemoveBest(less, h) = <<>>
      BY <3>1, <1>1 DEF H!RemoveBest
    <3>3. rest = {}
      <4>1. \A y \in items : \E k \in 1..n : h[k] = y
        BY DEF Holding
      <4>2. QED
        BY <4>1, <2>5, <1>3
    <3>4. <<>> \in [1..0 -> {}] /\ 1..0 = {} /\ 2..0 = {}
      OBVIOUS
    <3>5. <<>> \in Holding(0, {})
      BY <3>4 DEF Holding
    <3>6. IsHeap(less, 0, <<>>)
      BY <3>4 DEF IsHeap, IsHeapFrom
    <3>7. QED
      BY <3>1, <3>2, <3>3, <3>5, <3>6
  <2>6. QED
    BY <2>1, <2>2, <2>4, <2>5, <1>3
<1>4. CASE s # n
  <2>1. s \in 1..m /\ s \in 1..(n - 1)
    BY <1>4
  <2>2. a \in Holding(m, rest) /\ \A k \in 1..m : a[k] = IF k = s THEN h[n] ELSE h[k]
    BY <2>1, LastMoved
  <2>3. H!Remove(less, h, s) = H!Fix(less, a, s)
    BY <1>1, <1>2, <1>4 DEF H!Remove
  <2>4. s = 1 => H!RemoveBest(less, h) = H!Down(less, a, s)
    <3>1. m # 0
      BY <2>1
    <3>2. QED
      BY <3>1, <1>1, <1>2 DEF H!RemoveBest
  <2> HIDE DEF a, b, rest, m
  <2>5. \A k \in 1..m : k # s => a[k] = h[k]
    BY <2>2
  <2>6. /\ H!Fix(less, a, s) \in Holding(m, rest) /\ IsHeap(less, m, H!Fix(less, a, s))
        /\ s = 1 => /\ H!Down(less, a, s) \in Holding(m, rest)
                    /\ IsHeap(less, m, H!Down(less, a, s))
    <3>1. n \in Nat
      OBVIOUS
    <3>2. QED
      BY <3>1, <1>1, <1>2, <2>1, <2>2, <2>5, ChangedIsMended
  <2>7. QED
    BY <2>3, <2>4, <2>6 DEF rest, m
<1>5. QED
  BY <1>3, <1>4

\* peek(): no element goes before the root.
LEMMA RootIsBest ==
  ASSUME NEW X, NEW less, Orders(less, X), NEW n \in Nat, NEW h \in [1..n -> X],
         IsHeap(less, n, h), NEW s \in 1..n
  PROVE  ~less[<<h[s], h[1]>>]
<1> DEFINE Bad == {k \in Nat : k \in 1..n /\ less[<<h[k], h[1]>>]}
<1>1. ASSUME NEW k \in Bad
      PROVE  \E m \in Bad : m < k
  <2>1. k \in 1..n /\ less[<<h[k], h[1]>>] /\ h[k] \in X /\ 1 \in 1..n /\ h[1] \in X
    BY <1>1
  <2>2. k # 1
    BY <2>1 DEF Orders
  <2> DEFINE m == k \div 2
  <2>3. k \in 2..n /\ m \in 1..n /\ m \in Nat /\ m >= 1 /\ m < k
    BY <2>1, <2>2
  <2>4. ~less[<<h[k], h[m]>>]
    BY <2>3 DEF IsHeap, IsHeapFrom
  <2> HIDE DEF m
  <2>5. less[<<h[m], h[1]>>]
    BY <2>1, <2>3, <2>4 DEF Orders
  <2>6. QED
    BY <2>3, <2>5
<1>2. Bad \in SUBSET Nat
  OBVIOUS
<1> HIDE DEF Bad
<1>3. Bad = {}
  BY <1>1, <1>2, StrongInduction
<1>4. s \in Nat /\ s \notin Bad
  BY <1>3
<1>5. less[<<h[s], h[1]>>] => s \in Bad
  BY <1>4 DEF Bad
<1>6. QED
  BY <1>4, <1>5

(***************************************************************************)
(* Removing the best over and over: the recursion of DrainsInOrder ends.   *)
(***************************************************************************)
IsDrain(f, less) ==
  f = [h \in Seq(Elements) |->
         IF h = <<>> THEN <<>> ELSE <<H!Peek(h)>> \o f[H!RemoveBest(less, h)]]

LEMMA DrainExists ==
  ASSUME NEW less, Orders(less, Elements)
  PROVE  \E f \in [Seq(Elements) -> Seq(Elements)] : IsDrain(f, less)
<1> DEFINE dom == Seq(Elements)
           goes == [h \in dom |-> h # <<>>]
           next == [h \in dom |-> IF h # <<>> THEN H!RemoveBest(less, h) ELSE h]
           make == [q \in dom \X dom |-> IF q[1] # <<>> THEN <<q[1][1]>> \o q[2] ELSE q[2]]
           end == [h \in dom |-> <<>>]
           size == [h \in dom |-> Len(h)]
<1>1. ASSUME NEW h \in dom, h # <<>>
      PROVE  H!RemoveBest(less, h) \in dom /\ Len(H!RemoveBest(less, h)) < Len(h)
  <2> DEFINE n == Len(h) - 1
             b == SubSeq(h, 1, n)
             a == [b EXCEPT ![1] = h[n + 1]]
  <2>1. Len(h) \in Nat /\ h \in [1..Len(h) -> Elements]
    BY LenProperties
  <2>2. Len(h) # 0
    BY <1>1, EmptySeq
  <2>3. n \in Nat /\ n + 1 = Len(h) /\ n < Len(h)
    BY <2>1, <2>2
  <2>4. CASE n = 0
    <3>1. H!RemoveBest(less, h) = <<>>
      BY <2>4 DEF H!RemoveBest
    <3>2. <<>> \in dom /\ Len(<<>>) = 0
      BY EmptySeq
    <3>3. QED
      BY <3>1, <3>2, <2>3, <2>4
  <2>5. CASE n # 0
    <3>1. H!RemoveBest(less, h) = H!Down(less, a, 1)
      BY <2>5 DEF H!RemoveBest
    <3> HIDE DEF n
    <3>2. n + 1 \in 1..Len(h) /\ 1 \in 1..n /\ 1 \in Nat \ {0} /\ 1 <= 1 /\ 1 <= n
          /\ n - 1 + 1 = n /\ \A k \in 1..n : k \in 1..Len(h) /\ 1 + k - 1 = k
      BY <2>3, <2>5
    <3>3. /\ b \in dom
          /\ Len(b) = IF 1 <= n THEN n - 1 + 1 ELSE 0
      <4>1. \A k \in 1..n : h[k] \in Elements
        BY <2>1, <3>2
      <4>2. 1 \in Int /\ n \in Int
        BY <2>3
      <4>3. QED
        BY <4>1, <4>2, SubSeqProperties
    <3>4. b \in [1..n -> Elements]
      BY <3>2, <3>3, LenProperties
    <3> HIDE DEF b
    <3>5. a \in [1..n -> Elements]
      BY <2>1, <3>2, <3>4
    <3> HIDE DEF a
    <3>6. H!Down(less, a, 1) \in [1..n -> Elements]
      BY <2>3, <3>2, <3>5, DownIsRight
    <3>7. H!Down(less, a, 1) \in dom /\ Len(H!Down(less, a, 1)) = n
      BY <2>3, <3>6, IsSequence
    <3>8. QED
      BY <3>1, <3>7, <2>3
  <2>6. QED
    BY <2>4, <2>5
<1>2. ASSUME NEW h \in dom, h # <<>>
      PROVE  h[1] \in Elements
  <2>1. Len(h) \in Nat /\ h \in [1..Len(h) -> Elements] /\ Len(h) # 0
    BY <1>2, LenProperties, EmptySeq
  <2>2. QED
    BY <2>1
<1>3. \A h \in dom : goes[h] <=> h # <<>>
  OBVIOUS
<1>4. GoesDown(dom, dom, goes, next, make, end, size)
  <2>1. goes \in [dom -> BOOLEAN] /\ next \in [dom -> dom]
    BY <1>1
  <2>2. ASSUME NEW q \in dom \X dom
        PROVE  (IF q[1] # <<>> THEN <<q[1][1]>> \o q[2] ELSE q[2]) \in dom
    <3>1. q[1] \in dom /\ q[2] \in dom
      OBVIOUS
    <3>2. ASSUME q[1] # <<>>
          PROVE  <<q[1][1]>> \o q[2] \in dom
      <4>1. <<q[1][1]>> \in dom
        BY <1>2, <3>1, <3>2
      <4>2. QED
        BY <3>1, <4>1, ConcatProperties
    <3>3. QED
      BY <3>1, <3>2
  <2>3. make \in [dom \X dom -> dom]
    BY <2>2
  <2>4. end \in [dom -> dom] /\ size \in [dom -> Nat]
    <3>1. <<>> \in dom
      BY EmptySeq
    <3>2. \A h \in dom : Len(h) \in Nat
      BY LenProperties
    <3>3. QED
      BY <3>1, <3>2
  <2> HIDE DEF goes
  <2>5. ASSUME NEW h \in dom, goes[h]
        PROVE  size[next[h]] < size[h]
    <3>1. h # <<>>
      BY <1>3, <2>5
    <3>2. next[h] = H!RemoveBest(less, h) /\ next[h] \in dom
      BY <1>1, <3>1
    <3>3. size[next[h]] = Len(H!RemoveBest(less, h)) /\ size[h] = Len(h)
      BY <3>2
    <3>4. QED
      BY <1>1, <3>1, <3>3
  <2> HIDE DEF dom, next, make, end, size
  <2>6. QED
    BY <2>1, <2>3, <2>4, <2>5 DEF GoesDown
<1>5. PICK f \in [dom -> dom] :
        f = [h \in dom |-> IF goes[h] THEN make[<<h, f[next[h]]>>] ELSE end[h]]
  <2> HIDE DEF dom, goes, next, make, end, size
  <2>1. QED
    BY <1>4, Recursion
<1>6. ASSUME NEW h \in dom
      PROVE  f[h] = IF h = <<>> THEN <<>> ELSE <<H!Peek(h)>> \o f[H!RemoveBest(less, h)]
  <2>1. f[h] = IF goes[h] THEN make[<<h, f[next[h]]>>] ELSE end[h]
    BY <1>5
  <2> HIDE DEF goes
  <2>2. CASE h = <<>>
    <3>1. ~goes[h] /\ end[h] = <<>>
      BY <1>3, <2>2
    <3>2. QED
      BY <2>1, <2>2, <3>1
  <2>3. CASE h # <<>>
    <3>1. goes[h] /\ next[h] = H!RemoveBest(less, h) /\ H!RemoveBest(less, h) \in dom
      BY <1>1, <1>3, <2>3
    <3>2. f[H!RemoveBest(less, h)] \in dom
      BY <3>1, <1>5
    <3>3. make[<<h, f[H!RemoveBest(less, h)]>>] = <<h[1]>> \o f[H!RemoveBest(less, h)]
      BY <3>2, <2>3
    <3> HIDE DEF make, next
    <3>4. QED
      BY <2>1, <2>3, <3>1, <3>3 DEF H!Peek
  <2>4. QED
    BY <2>2, <2>3
<1>7. f = [h \in dom |-> f[h]]
  BY <1>5
<1>8. IsDrain(f, less)
  BY <1>6, <1>7 DEF IsDrain
<1>9. QED
  BY <1>5, <1>8

LEMMA DrainSorts ==
  ASSUME NEW less, Orders(less, Elements), NEW f, IsDrain(f, less),
         NEW n \in Nat, NEW items \in SUBSET Elements,
         NEW h \in Holding(n, items), IsHeap(less, n, h)
  PROVE  \A s, j \in DOMAIN f[h] : s < j => ~less[<<f[h][j], f[h][s]>>]
<1> DEFINE Sorts(m) ==
             \A some \in SUBSET Elements : \A a \in Holding(m, some) :
               IsHeap(less, m, a) =>
                 /\ f[a] \in Seq(Elements)
                 /\ \A k \in DOMAIN f[a] : f[a][k] \in some
                 /\ \A s, j \in DOMAIN f[a] : s < j => ~less[<<f[a][j], f[a][s]>>]
           Bad == {m \in Nat : ~Sorts(m)}
<1>1. ASSUME NEW m \in Nat, m = 0 \/ Sorts(m - 1)
      PROVE  Sorts(m)
  <2> SUFFICES ASSUME NEW some \in SUBSET Elements, NEW a \in Holding(m, some),
                      IsHeap(less, m, a)
               PROVE  /\ f[a] \in Seq(Elements)
                      /\ \A k \in DOMAIN f[a] : f[a][k] \in some
                      /\ \A s, j \in DOMAIN f[a] : s < j => ~less[<<f[a][j], f[a][s]>>]
    OBVIOUS
  <2>1. a \in [1..m -> some] /\ a \in [1..m -> Elements]
    BY DEF Holding
  <2>2. a \in Seq(Elements) /\ Len(a) = m
    BY <2>1, IsSequence
  <2>3. f[a] = IF a = <<>> THEN <<>> ELSE <<H!Peek(a)>> \o f[H!RemoveBest(less, a)]
    BY <2>2 DEF IsDrain
  <2>4. CASE m = 0
    <3>1. a = <<>>
      BY <2>2, <2>4, EmptySeq
    <3>2. f[a] \in Seq(Elements) /\ DOMAIN f[a] = {}
      BY <2>3, <3>1, EmptySeq
    <3>3. QED
      BY <3>2
  <2>5. CASE m # 0
    <3> DEFINE r == H!RemoveBest(less, a)
               rest == f[r]
               out == f[a]
    <3>1. m \in Nat \ {0} /\ 1 \in 1..m /\ a # <<>> /\ a[1] \in some /\ m - 1 \in Nat
          /\ some \ {a[1]} \in SUBSET Elements
      BY <2>1, <2>2, <2>5
    <3>2. r \in Holding(m - 1, some \ {a[1]}) /\ IsHeap(less, m - 1, r)
      BY <3>1, RemoveIsRight
    <3> HIDE DEF r
    <3>3. /\ rest \in Seq(Elements)
          /\ \A k \in DOMAIN rest : rest[k] \in some \ {a[1]}
          /\ \A s, j \in DOMAIN rest : s < j => ~less[<<rest[j], rest[s]>>]
      BY <1>1, <2>5, <3>1, <3>2
    <3>5. rest \in Seq(Elements) /\ Len(rest) \in Nat /\ DOMAIN rest = 1..Len(rest)
      BY <3>3, LenProperties
    <3>6. out = <<a[1]>> \o rest
      BY <2>3, <3>1 DEF r, H!Peek
    <3> HIDE DEF rest, out
    <3>7. /\ DOMAIN out = 1..(Len(rest) + 1)
          /\ out[1] = a[1] /\ out \in Seq(Elements)
          /\ \A k \in 2..(Len(rest) + 1) : k - 1 \in DOMAIN rest /\ out[k] = rest[k - 1]
      <4> DEFINE one == <<a[1]>>
      <4>1. one \in Seq(Elements) /\ Len(one) = 1 /\ one[1] = a[1]
        BY <3>1
      <4> HIDE DEF one
      <4>2. /\ out \in Seq(Elements)
            /\ Len(out) = 1 + Len(rest)
            /\ \A k \in 1..(1 + Len(rest)) : out[k] = IF k <= 1 THEN one[k] ELSE rest[k - 1]
        BY <4>1, <3>5, <3>6, ConcatProperties DEF one
      <4>3. DOMAIN out = 1..Len(out)
        BY <4>2, LenProperties
      <4>4. QED
        BY <4>1, <4>2, <4>3, <3>5
    <3>8. \A k \in DOMAIN out : k = 1 \/ k \in 2..(Len(rest) + 1)
      BY <3>5, <3>7
    <3>9. \A k \in DOMAIN out : out[k] \in some
      BY <3>1, <3>3, <3>7, <3>8
    <3>10. ASSUME NEW s \in DOMAIN out, NEW j \in DOMAIN out, s < j
           PROVE  ~less[<<out[j], out[s]>>]
      <4>1. j \in 2..(Len(rest) + 1) /\ j - 1 \in DOMAIN rest /\ out[j] = rest[j - 1]
        <5>1. j # 1
          BY <3>5, <3>7, <3>10
        <5>2. QED
          BY <5>1, <3>7, <3>8
      <4>2. CASE s = 1
        <5>1. out[j] \in some /\ out[s] = a[1]
          BY <3>7, <3>9, <4>2
        <5>2. PICK k \in 1..m : a[k] = out[j]
          BY <5>1 DEF Holding
        <5>3. ~less[<<a[k], a[1]>>]
          BY <2>1, RootIsBest
        <5>4. QED
          BY <5>1, <5>2, <5>3
      <4>3. CASE s # 1
        <5>1. s - 1 \in DOMAIN rest /\ out[s] = rest[s - 1]
          BY <3>7, <3>8, <4>3
        <5>2. s - 1 < j - 1
          BY <3>5, <3>7, <3>10
        <5>3. QED
          BY <3>3, <4>1, <5>1, <5>2
      <4>4. QED
        BY <4>2, <4>3
    <3>11. QED
      BY <3>7, <3>9, <3>10 DEF out
  <2>6. QED
    BY <2>4, <2>5
<1> HIDE DEF Sorts
<1>2. ASSUME NEW m \in Bad
      PROVE  \E k \in Bad : k < m
  <2>1. m \in Nat /\ ~Sorts(m)
    OBVIOUS
  <2>2. m # 0 /\ ~Sorts(m - 1)
    BY <1>1, <2>1
  <2>3. m - 1 \in Nat /\ m - 1 < m
    BY <2>1, <2>2
  <2>4. m - 1 \in Bad
    BY <2>2, <2>3
  <2>5. QED
    BY <2>3, <2>4
<1>3. Bad \in SUBSET Nat
  OBVIOUS
<1>4. Sorts(n)
  <2>1. Bad = {}
    <3> HIDE DEF Bad
    <3>1. QED
      BY <1>2, <1>3, StrongInduction
  <2>2. QED
    BY <2>1
<1>5. QED
  BY <1>4 DEF Sorts

-----------------------------------------------------------------------------

(***************************************************************************)
(* The comparator of a context, and the invariant.                         *)
(***************************************************************************)
LEMMA LessOrders ==
  ASSUME NEW c \in Contexts
  PROVE  Orders(H!LessIn(c), Elements)
<1> DEFINE less == H!LessIn(c)
<1>1. \A x \in Elements : price[c][x] \in Int
  BY HeapAssumption
<1>2. \A p \in Elements \X Elements : less[p] <=> price[c][p[1]] > price[c][p[2]]
  BY DEF H!LessIn
<1>3. ASSUME NEW x \in Elements, NEW y \in Elements
      PROVE  less[<<x, y>>] <=> price[c][x] > price[c][y]
  <2> HIDE DEF less
  <2>1. <<x, y>> \in Elements \X Elements
    OBVIOUS
  <2>2. QED
    BY <2>1, <1>2
<1>4. less \in [Elements \X Elements -> BOOLEAN]
  BY DEF H!LessIn
<1> HIDE DEF less
<1>5. \A x, y \in Elements : less[<<x, y>>] => ~less[<<y, x>>]
  BY <1>1, <1>3
<1>6. \A x, y, z \in Elements : ~less[<<x, y>>] /\ ~less[<<y, z>>] => ~less[<<x, z>>]
  BY <1>1, <1>3
<1>7. Orders(less, Elements)
  BY <1>4, <1>5, <1>6 DEF Orders
<1>8. QED
  BY <1>7 DEF less

HeapOK(n) == heap \in Holding(n, members) /\ IsHeap(H!LessIn(context), n, heap)

HeapInv ==
  /\ context \in Contexts
  /\ members \in SUBSET Elements
  /\ \E n \in Nat : HeapOK(n)

LEMMA HeapInit ==
  ASSUME H!Init
  PROVE  HeapInv
<1>1. heap = <<>> /\ members = {} /\ context \in Contexts
  BY DEF H!Init
<1>2. <<>> \in [1..0 -> {}] /\ 1..0 = {} /\ 2..0 = {}
  OBVIOUS
<1>3. HeapOK(0)
  BY <1>1, <1>2 DEF HeapOK, Holding, IsHeap, IsHeapFrom
<1>4. QED
  BY <1>1, <1>3 DEF HeapInv

LEMMA HeapStep ==
  ASSUME HeapInv, H!Next
  PROVE  HeapInv'
<1> DEFINE less == H!LessIn(context)
<1>1. context \in Contexts /\ members \in SUBSET Elements
  BY DEF HeapInv
<1>2. PICK n \in Nat : heap \in Holding(n, members) /\ IsHeap(less, n, heap)
  BY DEF HeapInv, HeapOK
<1>3. Orders(less, Elements)
  BY <1>1, LessOrders
<1>4. H!Less = less
  BY DEF H!Less
<1> HIDE DEF less
<1>5. heap \in [1..n -> Elements] /\ Len(heap) = n /\ DOMAIN heap = 1..n
  <2>1. heap \in [1..n -> Elements]
    BY <1>1, <1>2 DEF Holding
  <2>2. QED
    BY <2>1, IsSequence
<1>6. heap # <<>> => n \in Nat \ {0} /\ 1 \in 1..n
  <2>1. n = 0 => heap = <<>>
    <3>1. heap \in Seq(Elements)
      BY <1>5, IsSequence
    <3>2. QED
      BY <3>1, <1>5, EmptySeq
  <2>2. QED
    BY <2>1
<1>7. ASSUME context' = context, members' \in SUBSET Elements, NEW m \in Nat,
             heap' \in Holding(m, members'), IsHeap(less, m, heap')
      PROVE  HeapInv'
  <2>1. H!LessIn(context)' = less
    BY <1>7 DEF less, H!LessIn
  <2>2. HeapOK(m)'
    BY <1>7, <2>1 DEF HeapOK, Holding, IsHeap, IsHeapFrom
  <2>3. QED
    BY <1>1, <1>7, <2>2 DEF HeapInv
<1>8. CASE H!DoRemoveBest
  <2>1. /\ heap # <<>> /\ heap' = H!RemoveBest(less, heap)
        /\ members' = members \ {heap[1]} /\ context' = context
    BY <1>4, <1>8 DEF H!DoRemoveBest, H!Peek
  <2>2. /\ H!RemoveBest(less, heap) \in Holding(n - 1, members \ {heap[1]})
        /\ IsHeap(less, n - 1, H!RemoveBest(less, heap))
    BY <1>1, <1>2, <1>3, <1>6, <2>1, RemoveIsRight
  <2>3. n - 1 \in Nat /\ members' \in SUBSET Elements
    BY <1>1, <1>6, <2>1
  <2>4. QED
    BY <1>7, <2>1, <2>2, <2>3
<1>9. CASE \E x \in Elements : H!DoPush(x)
  <2>1. PICK x \in Elements : H!DoPush(x)
    BY <1>9
  <2>2. /\ x \notin members /\ heap' = H!Push(less, heap, x)
        /\ members' = members \cup {x} /\ context' = context
    BY <1>4, <2>1 DEF H!DoPush
  <2>3. /\ H!Push(less, heap, x) \in Holding(n + 1, members \cup {x})
        /\ IsHeap(less, n + 1, H!Push(less, heap, x))
    BY <1>1, <1>2, <1>3, <2>2, PushIsRight
  <2>4. n + 1 \in Nat /\ members' \in SUBSET Elements
    BY <1>1, <2>2
  <2>5. QED
    BY <1>7, <2>2, <2>3, <2>4
<1>10. CASE \E x \in Elements : H!DoReplaceBest(x)
  <2>1. PICK x \in Elements : H!DoReplaceBest(x)
    BY <1>10
  <2>2. /\ heap # <<>> /\ x \notin members /\ heap' = H!ReplaceBest(less, heap, x)
        /\ members' = (members \ {heap[1]}) \cup {x} /\ context' = context
    BY <1>4, <2>1 DEF H!DoReplaceBest, H!Peek
  <2>3. /\ H!ReplaceBest(less, heap, x) \in Holding(n, (members \ {heap[1]}) \cup {x})
        /\ IsHeap(less, n, H!ReplaceBest(less, heap, x))
    BY <1>1, <1>2, <1>3, <1>6, <2>2, ReplaceIsRight
  <2>4. members' \in SUBSET Elements
    BY <1>1, <2>2
  <2>5. QED
    BY <1>7, <2>2, <2>3, <2>4
<1>11. CASE \E s \in DOMAIN heap : H!DoRemove(s)
  <2>1. PICK s \in 1..n : H!DoRemove(s)
    BY <1>5, <1>11
  <2>2. /\ heap' = H!Remove(less, heap, s)
        /\ members' = members \ {heap[s]} /\ context' = context
    BY <1>4, <2>1 DEF H!DoRemove
  <2>3. n \in Nat \ {0} /\ n - 1 \in Nat
    OBVIOUS
  <2>4. /\ H!Remove(less, heap, s) \in Holding(n - 1, members \ {heap[s]})
        /\ IsHeap(less, n - 1, H!Remove(less, heap, s))
    BY <1>1, <1>2, <1>3, <2>3, RemoveIsRight
  <2>5. members' \in SUBSET Elements
    BY <1>1, <2>2
  <2>6. QED
    BY <1>7, <2>2, <2>3, <2>4, <2>5
<1>12. CASE \E s \in DOMAIN heap, x \in Elements : H!DoReplace(s, x)
  <2>1. PICK s \in 1..n, x \in Elements : H!DoReplace(s, x)
    BY <1>5, <1>12
  <2>2. /\ x \notin members /\ heap' = H!Replace(less, heap, s, x)
        /\ members' = (members \ {heap[s]}) \cup {x} /\ context' = context
    BY <1>4, <2>1 DEF H!DoReplace
  <2>3. /\ H!Replace(less, heap, s, x) \in Holding(n, (members \ {heap[s]}) \cup {x})
        /\ IsHeap(less, n, H!Replace(less, heap, s, x))
    BY <1>1, <1>2, <1>3, <2>2, ReplaceIsRight
  <2>4. members' \in SUBSET Elements
    BY <1>1, <2>2
  <2>5. QED
    BY <1>7, <2>2, <2>3, <2>4
<1>13. CASE \E c \in Contexts : H!DoRefresh(c)
  <2>1. PICK c \in Contexts : H!DoRefresh(c)
    BY <1>13
  <2>2. context' = c /\ heap' = H!Heapify(H!LessIn(c), heap) /\ members' = members
    BY <2>1 DEF H!DoRefresh, H!Refreshed
  <2>3. /\ H!Heapify(H!LessIn(c), heap) \in Holding(n, members)
        /\ IsHeap(H!LessIn(c), n, H!Heapify(H!LessIn(c), heap))
    BY <1>1, <1>2, LessOrders, HeapifyIsRight
  <2>4. H!LessIn(context)' = H!LessIn(c)
    BY <2>2 DEF H!LessIn
  <2>5. HeapOK(n)'
    BY <2>2, <2>3, <2>4 DEF HeapOK, Holding, IsHeap, IsHeapFrom
  <2>6. QED
    BY <1>1, <2>2, <2>5 DEF HeapInv
<1>14. QED
  BY <1>8, <1>9, <1>10, <1>11, <1>12, <1>13 DEF H!Next

(***************************************************************************)
(* The invariant says what the heap's callers rely on.                     *)
(***************************************************************************)
LEMMA HeapTells ==
  ASSUME HeapInv
  PROVE  HeapIsRight
<1> DEFINE less == H!LessIn(context)
<1>1. context \in Contexts /\ members \in SUBSET Elements
  BY DEF HeapInv
<1>2. PICK n \in Nat : heap \in Holding(n, members) /\ IsHeap(less, n, heap)
  BY DEF HeapInv, HeapOK
<1>3. Orders(less, Elements)
  BY <1>1, LessOrders
<1>4. H!Less = less
  BY DEF H!Less
<1> HIDE DEF less
<1>5. heap \in [1..n -> members] /\ heap \in [1..n -> Elements]
  BY <1>1, <1>2 DEF Holding
<1>6. /\ \A s, j \in 1..n : heap[s] = heap[j] => s = j
      /\ \A x \in members : \E s \in 1..n : heap[s] = x
  BY <1>2 DEF Holding
<1>7. heap \in Seq(Elements) /\ Len(heap) = n /\ DOMAIN heap = 1..n
  BY <1>5, IsSequence
<1>8. H!PeekIsBest
  <2>1. ASSUME NEW x \in members
        PROVE  ~less[<<x, heap[1]>>]
    <3>1. PICK s \in 1..n : heap[s] = x
      BY <1>6
    <3>2. ~less[<<heap[s], heap[1]>>]
      BY <1>2, <1>3, <1>5, RootIsBest
    <3>3. QED
      BY <3>1, <3>2
  <2>2. QED
    BY <2>1, <1>4 DEF H!PeekIsBest, H!Peek
<1>9. H!HoldsExactlyMembers
  <2>1. {heap[s] : s \in DOMAIN heap} = members
    BY <1>5, <1>6, <1>7
  <2>2. heap \in Bijection(1..n, members)
    BY <1>5, <1>6 DEF Bijection, Injection, Surjection, IsInjective
  <2>3. Cardinality(members) = n
    BY <2>2, FS_CountingElements DEF ExistsBijection
  <2>4. H!Cardinality(members) = Cardinality(members)
    BY Zenon DEF H!Cardinality, Cardinality
  <2>5. QED
    BY <2>1, <2>3, <2>4, <1>7 DEF H!HoldsExactlyMembers
<1>10. H!DrainsInOrder
  <2> DEFINE f == CHOOSE g : g = [h \in Seq(Elements) |->
                      IF h = <<>> THEN <<>>
                      ELSE <<H!Peek(h)>> \o g[H!RemoveBest(H!Less, h)]]
  <2>1. \E g : IsDrain(g, H!Less)
    BY <1>3, <1>4, DrainExists
  <2>2. IsDrain(f, H!Less)
    BY <2>1 DEF IsDrain
  <2>3. H!DrainsInOrder <=> \A s, j \in DOMAIN f[heap] : s < j => ~H!Less[<<f[heap][j], f[heap][s]>>]
    BY DEF H!DrainsInOrder
  <2> HIDE DEF f
  <2>4. \A s, j \in DOMAIN f[heap] : s < j => ~less[<<f[heap][j], f[heap][s]>>]
    BY <2>2, <1>1, <1>2, <1>3, <1>4, DrainSorts
  <2>5. QED
    BY <2>3, <2>4, <1>4
<1>11. QED
  BY <1>8, <1>9, <1>10 DEF HeapIsRight, H!HeapIsRight

LEMMA HeapMoves ==
  ASSUME [MCNext]_allVars
  PROVE  H!Next \/ UNCHANGED heapVars
BY DEF MCNext, SmallNext, allVars, smallVars

(***************************************************************************)
(* For any number of elements, contexts and priorities, with ties: after   *)
(* every sequence of calls, peek() returns an element of the highest       *)
(* priority, the array holds exactly the members, each once, and removing  *)
(* the best over and over gives them in the order of their priority.       *)
(***************************************************************************)
THEOREM HeapSorts == MCSpec => []HeapIsRight
<1>1. MCInit => HeapInv
  BY HeapInit DEF MCInit
<1>2. ASSUME HeapInv, [MCNext]_allVars
      PROVE  HeapInv'
  <2>1. CASE H!Next
    BY <2>1, <1>2, HeapStep
  <2>2. CASE UNCHANGED heapVars
    BY <2>2, <1>2 DEF HeapInv, HeapOK, Holding, IsHeap, IsHeapFrom, H!LessIn, heapVars
  <2>3. QED
    BY <2>1, <2>2, <1>2, HeapMoves
<1>3. HeapInv => HeapIsRight
  BY HeapTells
<1>4. QED
  BY <1>1, <1>2, <1>3, PTL DEF MCSpec

-----------------------------------------------------------------------------

(***************************************************************************)
(* The rate limiter.                                                       *)
(***************************************************************************)
W == R!windowSizeMs

Between(some, from, to) == {s \in some : from <= s[1] /\ s[1] < to}

CountersOK ==
  /\ counters \in [DOMAIN counters -> [value : Nat, updatedAt : Nat]]
  /\ \A w \in DOMAIN counters :
       /\ w \in Nat
       /\ w <= counters[w].updatedAt
       /\ counters[w].updatedAt < w + W
       /\ counters[w].updatedAt <= now

SentOK ==
  /\ IsFiniteSet(sent)
  /\ \A s \in sent :
       /\ s[1] \in Nat /\ s[2] \in Nat
       /\ s[1] <= now
       /\ s[1] = now => s[2] < R!SentIn(now, now + 1)

LimitOK == requestLimit \in R!Limits

(***************************************************************************)
(* A request is let through when the two windows together are far enough   *)
(* below the limit of that time.                                           *)
(***************************************************************************)
Few(p, c) ==
  /\ \E l \in R!Limits : c <= l
  /\ \E l \in R!Limits : p <= l
  /\ \E l \in R!Limits : p + c < 2 * l

(***************************************************************************)
(* The inductive invariant: a counter was last changed within its window,  *)
(* which is why dropping what has not changed for three windows spares the *)
(* two that are read; and both windows together hold less than twice a     *)
(* limit.                                                                  *)
(***************************************************************************)
LimiterInv ==
  /\ now \in Nat
  /\ CountersOK
  /\ SentOK
  /\ LimitOK
  /\ R!currCount = R!SentIn(R!currentWindow, R!currentWindow + W)
  /\ R!prevCount = R!SentIn(R!currentWindow - W, R!currentWindow)
  /\ Few(R!prevCount, R!currCount)

-----------------------------------------------------------------------------

LEMMA Window == W \in Nat /\ W >= 1 /\ 2 * W <= WINDOW_SECONDS
  BY LimiterAssumption DEF W, R!windowSizeMs

\* Multiplication by a number keeps the order.
LEMMA Times ==
  ASSUME NEW a \in Int, NEW b \in Int, NEW w \in Nat, a <= b
  PROVE  a * w <= b * w
<1>1. PICK d \in Nat : b = a + d
  <2>1. b - a \in Nat /\ b = a + (b - a)
    OBVIOUS
  <2>2. QED
    BY <2>1
<1>2. b * w = a * w + d * w
  BY <1>1
<1>3. d * w \in Nat /\ a * w \in Int
  OBVIOUS
<1>4. QED
  BY <1>2, <1>3

LEMMA Divided ==
  ASSUME NEW n \in Nat
  PROVE  /\ n \div W \in Nat
         /\ n % W \in 0..(W - 1)
         /\ n = ((n \div W) * W) + (n % W)
  BY Window

(***************************************************************************)
(* timeTruncate: the window of a time, and of the next.                    *)
(***************************************************************************)
LEMMA Truncated ==
  ASSUME NEW n \in Nat
  PROVE  /\ n - (n % W) \in Nat
         /\ n - (n % W) <= n
         /\ n < n - (n % W) + W
  BY Window, Divided

LEMMA NextTruncated ==
  ASSUME NEW n \in Nat
  PROVE  \/ (n + 1) - ((n + 1) % W) = n - (n % W)
         \/ /\ (n + 1) - ((n + 1) % W) = n - (n % W) + W
            /\ n + 1 = n - (n % W) + W
<1> DEFINE q == n \div W
           k == (n + 1) \div W
           r == n % W
           s == (n + 1) % W
<1>1. /\ q \in Nat /\ k \in Nat /\ r \in 0..(W - 1) /\ s \in 0..(W - 1)
      /\ n = q * W + r /\ n + 1 = k * W + s
  BY Divided
<1> HIDE DEF q, k, r, s
<1>2. W \in Nat /\ W >= 1
  BY Window
<1>3. q * W \in Nat /\ k * W \in Nat
  BY <1>1, <1>2
<1>4. (q + 1) * W = q * W + W /\ (k + 1) * W = k * W + W /\ (q + 2) * W = q * W + W + W
  BY <1>1, <1>2
<1>5. ~(k + 1 <= q)
  <2> SUFFICES ASSUME k + 1 <= q PROVE FALSE
    OBVIOUS
  <2>1. (k + 1) * W <= q * W
    BY <1>1, <1>2, Times
  <2>2. QED
    BY <1>1, <1>2, <1>3, <1>4, <2>1
<1>6. ~(q + 2 <= k)
  <2> SUFFICES ASSUME q + 2 <= k PROVE FALSE
    OBVIOUS
  <2>1. (q + 2) * W <= k * W
    BY <1>1, <1>2, Times
  <2>2. QED
    BY <1>1, <1>2, <1>3, <1>4, <2>1
<1>7. k = q \/ k = q + 1
  BY <1>1, <1>5, <1>6
<1>8. n - r = q * W /\ (n + 1) - s = k * W
  BY <1>1, <1>3
<1>9. k = q + 1 => k * W = q * W + W
  BY <1>4
<1>10. \/ (n + 1) - s = n - r
       \/ /\ (n + 1) - s = n - r + W
          /\ n + 1 = n - r + W
  <2>1. CASE k = q
    BY <2>1, <1>8
  <2>2. CASE k = q + 1
    <3>1. (n + 1) - s = n - r + W
      BY <2>2, <1>8, <1>9
    <3>2. n + 1 = n - r + W + s
      BY <3>1, <1>1, <1>2
    <3>3. s = 0
      BY <3>2, <1>1, <1>2
    <3>4. QED
      BY <3>1, <3>2, <3>3, <1>1, <1>2
  <2>3. QED
    BY <1>7, <2>1, <2>2
<1>11. QED
  BY <1>10 DEF r, s

(***************************************************************************)
(* Every limit is a number of requests, and our own is at least two        *)
(* windows' worth.                                                         *)
(***************************************************************************)
LEMMA LimitTypes ==
  /\ \A l \in R!Limits : l \in Nat /\ l >= 1
  /\ \E l \in R!Limits : l >= 2 * W
<1>1. W \in Nat /\ W >= 1 /\ 2 * W <= WINDOW_SECONDS
  BY Window
<1>2. ASSUME NEW a \in Nat \ {0}, NEW w \in Nat
      PROVE  a * w \in Nat /\ a * w >= w
  <2>1. 1 * w <= a * w
    BY Times
  <2>2. QED
    BY <2>1
<1>3. /\ requestsPerSecond * WINDOW_SECONDS \in Nat
      /\ requestsPerSecond * WINDOW_SECONDS >= WINDOW_SECONDS
  BY <1>2, LimiterAssumption
<1>4. \A a \in AllowedRps : a * W \in Nat /\ a * W >= W
  BY <1>1, <1>2, LimiterAssumption
<1>5. QED
  BY <1>1, <1>3, <1>4, LimiterAssumption DEF R!Limits, W

-----------------------------------------------------------------------------

LEMMA SentIs ==
  ASSUME NEW from, NEW to
  PROVE  R!SentIn(from, to) = Cardinality(Between(sent, from, to))
<1>1. R!Cardinality(Between(sent, from, to)) = Cardinality(Between(sent, from, to))
  BY Zenon DEF R!Cardinality, Cardinality
<1>2. QED
  BY <1>1 DEF R!SentIn, Between

LEMMA SentThenIs ==
  ASSUME NEW from, NEW to
  PROVE  R!SentIn(from, to)' = Cardinality(Between(sent', from', to'))
<1>1. R!Cardinality(Between(sent', from', to')) = Cardinality(Between(sent', from', to'))
  BY Zenon DEF R!Cardinality, Cardinality
<1>2. QED
  BY <1>1 DEF R!SentIn, Between

LEMMA BetweenFinite ==
  ASSUME NEW some, IsFiniteSet(some), NEW from, NEW to
  PROVE  /\ IsFiniteSet(Between(some, from, to))
         /\ Cardinality(Between(some, from, to)) \in Nat
<1>1. Between(some, from, to) \in SUBSET some
  BY DEF Between
<1>2. IsFiniteSet(Between(some, from, to))
  BY <1>1, FS_Subset
<1>3. QED
  BY <1>2, FS_CardinalityType

LEMMA SentCounted ==
  ASSUME IsFiniteSet(sent), NEW from, NEW to
  PROVE  R!SentIn(from, to) \in Nat
BY SentIs, BetweenFinite

LEMMA LimiterInit == R!Init => LimiterInv
<1> SUFFICES ASSUME R!Init PROVE LimiterInv
  OBVIOUS
<1>1. W \in Nat /\ W >= 1
  BY Window
<1>2. now = 0 /\ now \in Nat /\ counters = [w \in {} |-> 0] /\ sent = {}
      /\ requestLimit = requestsPerSecond * WINDOW_SECONDS
  BY DEF R!Init
<1>3. CountersOK
  BY <1>2 DEF CountersOK
<1>4. SentOK
  BY <1>2, FS_EmptySet DEF SentOK
<1>5. LimitOK
  BY <1>2 DEF LimitOK, R!Limits
<1>6. \A from, to : R!SentIn(from, to) = 0
  <2>1. \A from, to : Between(sent, from, to) = {}
    BY <1>2 DEF Between
  <2>2. QED
    BY <2>1, SentIs, FS_EmptySet
<1>7. R!currCount = 0 /\ R!prevCount = 0
  BY <1>2 DEF R!currCount, R!prevCount, R!Count
<1>8. Few(R!prevCount, R!currCount)
  <2>1. PICK l \in R!Limits : l \in Nat /\ l >= 1
    BY LimitTypes
  <2>2. 0 <= l /\ 0 + 0 < 2 * l
    BY <2>1
  <2>3. QED
    BY <1>7, <2>1, <2>2 DEF Few
<1>9. QED
  BY <1>2, <1>3, <1>4, <1>5, <1>6, <1>7, <1>8 DEF LimiterInv

-----------------------------------------------------------------------------

(***************************************************************************)
(* status(): what may be sent leaves room for one more below the limit;    *)
(* and when it takes the last of it, the window before was nearly empty    *)
(* or nearly over.                                                         *)
(***************************************************************************)
LEMMA Room ==
  ASSUME NEW p \in Nat, NEW c \in Nat, NEW l \in Nat, NEW w \in Nat \ {0},
         NEW o \in 0..(w - 1), p * (w - o) + c * w <= l * w, p # 0
  PROVE  /\ c + 1 <= l
         /\ c + 1 = l => p <= w
<1>1. p >= 1 /\ w - o \in Nat /\ w - o >= 1
  OBVIOUS
<1>2. p * (w - o) >= p
  <2>1. 1 * p <= (w - o) * p
    BY <1>1, Times
  <2>2. (w - o) * p = p * (w - o)
    BY <1>1
  <2>3. QED
    BY <2>1, <2>2
<1>3. c * w \in Nat /\ l * w \in Nat /\ p * (w - o) \in Nat
  BY <1>1
<1>4. c + 1 <= l
  <2> SUFFICES ASSUME ~(c + 1 <= l) PROVE FALSE
    OBVIOUS
  <2>1. l <= c
    OBVIOUS
  <2>2. l * w <= c * w
    BY <2>1, Times
  <2>3. QED
    BY <1>1, <1>2, <1>3, <2>2
<1>5. ASSUME c + 1 = l PROVE p <= w
  <2>1. l * w = c * w + w
    BY <1>5
  <2>2. p * (w - o) <= w
    BY <2>1, <1>3
  <2>3. QED
    BY <2>2, <1>2, <1>3
<1>6. QED
  BY <1>4, <1>5

LEMMA SentHasRoom ==
  ASSUME LimiterInv, ~R!MustWait,
         NEW p \in Nat, NEW c \in Nat, p = R!prevCount, c = R!currCount
  PROVE  /\ c + 1 <= requestLimit
         /\ p # 0 /\ c + 1 = requestLimit => p <= W
<1> DEFINE l == requestLimit
           o == now - R!currentWindow
<1>1. /\ W \in Nat \ {0} /\ l \in Nat /\ l > 0
  BY Window, LimitTypes DEF LimiterInv, LimitOK
<1>2. now \in Nat /\ R!currentWindow \in Nat /\ o \in 0..(W - 1)
  <2>1. now \in Nat
    BY DEF LimiterInv
  <2>2. R!currentWindow = now - (now % W)
    BY DEF R!currentWindow, W
  <2>3. QED
    BY <2>1, <2>2, Truncated, Window
<1>3. /\ R!Over <=> p * (W - o) + c * W + W > l * W
  BY DEF R!Over, R!Rate, W
<1>4. R!NextIsLater <=> (p = 0 \/ W * (p + (c + 1) - (l + 1)) > o * p)
  BY <1>1 DEF R!NextIsLater, W
<1> HIDE DEF l, o
<1>5. CASE p = 0
  <2>1. ~R!Over
    BY <1>4, <1>5 DEF R!MustWait
  <2>2. (c + 1) * W <= l * W
    <3>1. p * (W - o) = 0
      BY <1>1, <1>2, <1>5
    <3>2. p * (W - o) + c * W + W <= l * W
      BY <2>1, <1>1, <1>2, <1>3
    <3>3. (c + 1) * W = c * W + W
      BY <1>1
    <3>4. QED
      BY <3>1, <3>2, <3>3, <1>1
  <2>3. ~(l <= c)
    <3> SUFFICES ASSUME l <= c PROVE FALSE
      OBVIOUS
    <3>1. l * W <= c * W /\ (c + 1) * W = c * W + W /\ l * W \in Nat /\ c * W \in Nat
      BY <1>1, Times
    <3>2. QED
      BY <3>1, <2>2, <1>1
  <2>4. QED
    BY <2>3, <1>1, <1>5 DEF l
<1>6. CASE p # 0
  <2>1. p * (W - o) = p * W - o * p
    BY <1>1, <1>2
  <2>2. W * (p + (c + 1) - (l + 1)) = p * W + c * W - l * W
    BY <1>1
  <2>3. p * W \in Nat /\ o * p \in Nat /\ c * W \in Nat /\ l * W \in Nat
    BY <1>1, <1>2
  <2>4. ~R!Over \/ ~R!NextIsLater
    BY DEF R!MustWait
  <2>5. CASE ~R!Over
    <3>1. ~(p * (W - o) + c * W + W > l * W)
      BY <2>5, <1>3
    <3>2. p * (W - o) \in Int
      BY <1>1, <1>2
    <3>3. p * (W - o) + c * W <= l * W
      BY <3>1, <3>2, <2>3, <1>1
    <3>4. QED
      BY <3>3, <1>1, <1>2, <1>6, Room DEF l
  <2>6. CASE ~R!NextIsLater
    <3>1. ~(W * (p + (c + 1) - (l + 1)) > o * p)
      BY <2>6, <1>4
    <3>2. p * (W - o) + c * W <= l * W
      BY <3>1, <2>1, <2>2, <2>3
    <3>3. QED
      BY <3>2, <1>1, <1>2, <1>6, Room DEF l
  <2>7. QED
    BY <2>4, <2>5, <2>6
<1>7. QED
  BY <1>5, <1>6

(***************************************************************************)
(* One more of them: the two windows still hold less than twice a limit.   *)
(***************************************************************************)
LEMMA FewMore ==
  ASSUME NEW p \in Nat, NEW c \in Nat, Few(p, c), requestLimit \in R!Limits,
         c + 1 <= requestLimit, p # 0 /\ c + 1 = requestLimit => p <= W
  PROVE  Few(p, c + 1)
<1>1. PICK a \in R!Limits : p <= a
  BY DEF Few
<1>2. PICK b \in R!Limits : b >= 2 * W
  BY LimitTypes
<1>3. a \in Nat /\ b \in Nat /\ requestLimit \in Nat /\ requestLimit >= 1 /\ W \in Nat /\ W >= 1
  BY LimitTypes, Window
<1>4. \E l \in R!Limits : p + (c + 1) < 2 * l
  <2>1. CASE p < requestLimit
    <3>1. p + (c + 1) < 2 * requestLimit
      BY <2>1, <1>3
    <3>2. QED
      BY <3>1
  <2>2. CASE c + 1 < a
    <3>1. p + (c + 1) < 2 * a
      BY <2>2, <1>1, <1>3
    <3>2. QED
      BY <3>1
  <2>3. CASE ~(p < requestLimit) /\ ~(c + 1 < a)
    <3>1. p <= c + 1 /\ c + 1 = requestLimit /\ p # 0
      BY <2>3, <1>1, <1>3
    <3>2. p <= W /\ p + (c + 1) < 2 * b
      BY <3>1, <1>2, <1>3, <2>3
    <3>3. QED
      BY <3>2
  <2>4. QED
    BY <2>1, <2>2, <2>3
<1>5. QED
  BY <1>1, <1>4 DEF Few

-----------------------------------------------------------------------------

\* The windows of a state, as numbers.
LEMMA Windows ==
  ASSUME LimiterInv
  PROVE  /\ R!currentWindow \in Nat
         /\ R!currentWindow <= now /\ now < R!currentWindow + W
         /\ W \in Nat /\ W >= 1
         /\ R!currCount \in Nat /\ R!prevCount \in Nat
<1>1. now \in Nat
  BY DEF LimiterInv
<1>2. R!currentWindow = now - (now % W)
  BY DEF R!currentWindow, W
<1>3. IsFiniteSet(sent)
  BY DEF LimiterInv, SentOK
<1>4. R!currCount \in Nat /\ R!prevCount \in Nat
  BY <1>3, SentCounted DEF LimiterInv
<1>5. QED
  BY <1>1, <1>2, <1>4, Truncated, Window

(***************************************************************************)
(* evict(): the two windows that are read are kept.                        *)
(***************************************************************************)
LEMMA EvictionSpares ==
  ASSUME LimiterInv, NEW w \in DOMAIN counters, w >= R!currentWindow - W
  PROVE  w \in DOMAIN R!Evicted
<1>1. /\ counters[w].updatedAt \in Nat /\ w \in Nat /\ w <= counters[w].updatedAt
      /\ now \in Nat
  BY DEF LimiterInv, CountersOK
<1>2. R!currentWindow \in Nat /\ now < R!currentWindow + W /\ W \in Nat /\ W >= 1
  BY Windows
<1>3. now - counters[w].updatedAt < W * 3
  BY <1>1, <1>2
<1>4. QED
  BY <1>3 DEF R!Evicted, W

(***************************************************************************)
(* increment(): the count of the window goes up by one, that of the window *)
(* before stays.                                                           *)
(***************************************************************************)
LEMMA IncrementStep ==
  ASSUME LimiterInv, R!Increment, now' = now
  PROVE  /\ CountersOK'
         /\ R!currCount' = R!currCount + 1
         /\ R!prevCount' = R!prevCount
<1> DEFINE evicts == lastEvict = -1 \/ now - lastEvict >= R!windowSizeMs * 3
           kept == IF evicts THEN R!Evicted ELSE counters
           cw == R!currentWindow
           counted == [value |-> (IF cw \in DOMAIN kept THEN kept[cw].value ELSE 0) + 1,
                       updatedAt |-> now]
<1>1. counters' = [w \in DOMAIN kept \cup {cw} |-> IF w = cw THEN counted ELSE kept[w]]
  BY DEF R!Increment
<1>2. /\ cw \in Nat /\ cw <= now /\ now < cw + W /\ W \in Nat /\ W >= 1 /\ now \in Nat
  BY Windows DEF LimiterInv
<1>3. DOMAIN kept \subseteq DOMAIN counters /\ \A w \in DOMAIN kept : kept[w] = counters[w]
  BY DEF R!Evicted
<1>4. \A w \in DOMAIN counters : w >= cw - W => w \in DOMAIN kept
  BY EvictionSpares
<1>5. \A w \in DOMAIN counters :
        /\ counters[w] \in [value : Nat, updatedAt : Nat]
        /\ w \in Nat
        /\ w <= counters[w].updatedAt
        /\ counters[w].updatedAt < w + W
        /\ counters[w].updatedAt <= now
  BY DEF LimiterInv, CountersOK
<1>6. counted.value = R!currCount + 1 /\ counted.updatedAt = now
  <2>1. cw \in DOMAIN counters <=> cw \in DOMAIN kept
    BY <1>2, <1>3, <1>4, <1>5
  <2>2. R!currCount = IF cw \in DOMAIN counters THEN counters[cw].value ELSE 0
    BY DEF R!currCount, R!Count
  <2>3. QED
    BY <2>1, <2>2, <1>3
<1>7. counted \in [value : Nat, updatedAt : Nat]
  BY <1>2, <1>6, Windows
<1>8. R!currentWindow' = cw /\ W' = W /\ (R!windowSizeMs)' = R!windowSizeMs
  BY DEF R!currentWindow, W, R!windowSizeMs
<1> HIDE DEF kept, counted, cw
<1>9. DOMAIN counters' = DOMAIN kept \cup {cw} /\ counters'[cw] = counted
      /\ \A w \in DOMAIN kept : w # cw => counters'[w] = counters[w]
  BY <1>1, <1>3
<1>10. CountersOK'
  <2>1. counters' = [w \in DOMAIN counters' |-> counters'[w]]
    BY <1>1
  <2>2. ASSUME NEW w \in DOMAIN counters'
        PROVE  /\ counters'[w] \in [value : Nat, updatedAt : Nat]
               /\ w \in Nat
               /\ w <= counters'[w].updatedAt
               /\ counters'[w].updatedAt < w + W
               /\ counters'[w].updatedAt <= now
    <3>1. CASE w = cw
      BY <3>1, <1>2, <1>6, <1>7, <1>9
    <3>2. CASE w # cw
      BY <3>2, <1>3, <1>5, <1>9
    <3>3. QED
      BY <3>1, <3>2
  <2>3. counters' \in [DOMAIN counters' -> [value : Nat, updatedAt : Nat]]
    BY <2>1, <2>2
  <2>4. QED
    BY <2>2, <2>3, <1>8 DEF CountersOK
<1>11. R!currCount' = R!currCount + 1
  <2>1. R!currCount' = IF cw \in DOMAIN counters' THEN counters'[cw].value ELSE 0
    BY <1>8 DEF R!currCount, R!Count, cw
  <2>2. QED
    BY <2>1, <1>6, <1>9
<1>12. R!prevCount' = R!prevCount
  <2>1. R!prevCount' = IF cw - W \in DOMAIN counters' THEN counters'[cw - W].value ELSE 0
    BY <1>8 DEF R!prevCount, R!Count, cw, W
  <2>2. R!prevCount = IF cw - W \in DOMAIN counters THEN counters[cw - W].value ELSE 0
    BY DEF R!prevCount, R!Count, cw, W
  <2>3. cw - W # cw
    BY <1>2
  <2>4. cw - W \in DOMAIN counters <=> cw - W \in DOMAIN counters'
    BY <2>3, <1>2, <1>3, <1>4, <1>9
  <2>5. cw - W \in DOMAIN counters => counters'[cw - W] = counters[cw - W]
    BY <2>3, <2>4, <1>9
  <2>6. QED
    BY <2>1, <2>2, <2>4, <2>5
<1>13. QED
  BY <1>10, <1>11, <1>12

LEMMA SendStep ==
  ASSUME LimiterInv, R!Send
  PROVE  LimiterInv'
<1> DEFINE r == <<now, R!SentIn(now, now + 1)>>
           cw == R!currentWindow
<1>1. /\ now' = now /\ requestLimit' = requestLimit /\ sent' = sent \cup {r}
      /\ ~R!MustWait /\ R!Increment
  BY DEF R!Send
<1>2. /\ CountersOK' /\ R!currCount' = R!currCount + 1 /\ R!prevCount' = R!prevCount
  BY <1>1, IncrementStep
<1>3. /\ cw \in Nat /\ cw <= now /\ now < cw + W /\ W \in Nat /\ W >= 1 /\ now \in Nat
      /\ R!currCount \in Nat /\ R!prevCount \in Nat
  BY Windows DEF LimiterInv
<1>4. cw' = cw /\ W' = W
  BY <1>1 DEF R!currentWindow, W, R!windowSizeMs
<1>5. /\ IsFiniteSet(sent)
      /\ \A s \in sent :
           /\ s[1] \in Nat /\ s[2] \in Nat
           /\ s[1] <= now
           /\ s[1] = now => s[2] < R!SentIn(now, now + 1)
  BY DEF LimiterInv, SentOK
<1>6. R!SentIn(now, now + 1) \in Nat
  BY <1>5, SentCounted
<1>7. r \notin sent /\ r[1] = now /\ r[2] = R!SentIn(now, now + 1)
  BY <1>5, <1>6
<1>8. IsFiniteSet(sent')
  BY <1>1, <1>5, FS_AddElement
<1> HIDE DEF r, cw
<1>9. ASSUME NEW a \in Int, NEW b \in Int
      PROVE  Cardinality(Between(sent', a, b))
               = R!SentIn(a, b) + (IF a <= now /\ now < b THEN 1 ELSE 0)
  <2>1. /\ R!SentIn(a, b) = Cardinality(Between(sent, a, b))
        /\ IsFiniteSet(Between(sent, a, b))
        /\ R!SentIn(a, b) \in Nat
    BY <1>5, SentIs, BetweenFinite
  <2>2. CASE a <= now /\ now < b
    <3>1. Between(sent', a, b) = Between(sent, a, b) \cup {r}
      BY <1>1, <1>7, <2>2 DEF Between
    <3>2. r \notin Between(sent, a, b)
      BY <1>7 DEF Between
    <3>3. Cardinality(Between(sent, a, b) \cup {r}) = Cardinality(Between(sent, a, b)) + 1
      BY <2>1, <3>2, FS_AddElement
    <3>4. QED
      BY <2>1, <2>2, <3>1, <3>3
  <2>3. CASE ~(a <= now /\ now < b)
    <3>1. Between(sent', a, b) = Between(sent, a, b)
      BY <1>1, <1>7, <2>3 DEF Between
    <3>2. QED
      BY <2>1, <2>3, <3>1
  <2>4. QED
    BY <2>2, <2>3
<1>10. SentOK'
  <2>1. R!SentIn(now, now + 1)' = R!SentIn(now, now + 1) + 1
    <3>1. now \in Int /\ now + 1 \in Int /\ now <= now /\ now < now + 1
      BY <1>3
    <3>2. Cardinality(Between(sent', now, now + 1)) = R!SentIn(now, now + 1) + 1
      BY <3>1, <1>9
    <3>3. R!SentIn(now, now + 1)' = Cardinality(Between(sent', now', now' + 1))
      BY SentThenIs
    <3>4. QED
      BY <3>2, <3>3, <1>1
  <2>2. \A s \in sent' :
          /\ s[1] \in Nat /\ s[2] \in Nat
          /\ s[1] <= now
          /\ s[1] = now => s[2] < R!SentIn(now, now + 1)'
    <3> SUFFICES ASSUME NEW s \in sent'
                 PROVE  /\ s[1] \in Nat /\ s[2] \in Nat
                        /\ s[1] <= now
                        /\ s[1] = now => s[2] < R!SentIn(now, now + 1) + 1
      BY <2>1
    <3>1. CASE s = r
      BY <3>1, <1>3, <1>6, <1>7
    <3>2. CASE s \in sent
      BY <3>2, <1>5, <1>6
    <3>3. QED
      BY <1>1, <3>1, <3>2
  <2>3. QED
    BY <1>1, <1>8, <2>2 DEF SentOK
<1>11. R!currCount' = R!SentIn(R!currentWindow, R!currentWindow + W)'
  <2>1. Cardinality(Between(sent', cw, cw + W)) = R!SentIn(cw, cw + W) + 1
    BY <1>3, <1>9
  <2>2. R!currCount = R!SentIn(cw, cw + W)
    BY DEF LimiterInv, cw
  <2>3. R!SentIn(R!currentWindow, R!currentWindow + W)' = Cardinality(Between(sent', cw', cw' + W'))
    BY SentThenIs DEF cw
  <2>4. QED
    BY <1>2, <1>4, <2>1, <2>2, <2>3
<1>12. R!prevCount' = R!SentIn(R!currentWindow - W, R!currentWindow)'
  <2>1. Cardinality(Between(sent', cw - W, cw)) = R!SentIn(cw - W, cw)
    <3>1. cw - W \in Int /\ cw \in Int /\ ~(cw - W <= now /\ now < cw)
      BY <1>3
    <3>2. Cardinality(Between(sent', cw - W, cw)) = R!SentIn(cw - W, cw) + 0
      BY <3>1, <1>9
    <3>3. R!SentIn(cw - W, cw) \in Nat
      BY <1>5, SentCounted
    <3>4. QED
      BY <3>2, <3>3
  <2>2. R!prevCount = R!SentIn(cw - W, cw)
    BY DEF LimiterInv, cw
  <2>3. R!SentIn(R!currentWindow - W, R!currentWindow)' = Cardinality(Between(sent', cw' - W', cw'))
    BY SentThenIs DEF cw
  <2>4. QED
    BY <1>2, <1>4, <2>1, <2>2, <2>3
<1>13. Few(R!prevCount, R!currCount)'
  <2>1. /\ R!currCount + 1 <= requestLimit
        /\ R!prevCount # 0 /\ R!currCount + 1 = requestLimit => R!prevCount <= W
    BY <1>1, <1>3, SentHasRoom
  <2>2. Few(R!prevCount, R!currCount + 1)
    BY <2>1, <1>3, FewMore DEF LimiterInv, LimitOK
  <2>3. QED
    BY <2>2, <1>2 DEF Few, R!Limits
<1>14. LimitOK'
  BY <1>1 DEF LimiterInv, LimitOK, R!Limits, R!windowSizeMs
<1>15. QED
  BY <1>1, <1>2, <1>3, <1>10, <1>11, <1>12, <1>13, <1>14 DEF LimiterInv

(***************************************************************************)
(* Time passes: a new window has no counter yet, for no counter is ahead   *)
(* of its time, and the window it was is the one before.                   *)
(***************************************************************************)
LEMMA TickStep ==
  ASSUME LimiterInv, R!Tick
  PROVE  LimiterInv'
<1> DEFINE cw == R!currentWindow
<1>1. /\ now' = now + 1 /\ requestLimit' = requestLimit /\ counters' = counters
      /\ sent' = {s \in sent : s[1] >= R!currentWindow' - R!windowSizeMs}
  BY DEF R!Tick
<1>2. /\ cw \in Nat /\ cw <= now /\ now < cw + W /\ W \in Nat /\ W >= 1 /\ now \in Nat
      /\ R!currCount \in Nat /\ R!prevCount \in Nat
  BY Windows DEF LimiterInv
<1>3. W' = W /\ R!windowSizeMs = W
  BY DEF W, R!windowSizeMs
<1>4. cw' = cw \/ (cw' = cw + W /\ now + 1 = cw + W)
  <2>1. cw = now - (now % W) /\ cw' = (now + 1) - ((now + 1) % W)
    BY <1>1, <1>3 DEF R!currentWindow, W, R!windowSizeMs
  <2>2. QED
    BY <1>2, <2>1, NextTruncated
<1>5. /\ IsFiniteSet(sent)
      /\ \A s \in sent : s[1] \in Nat /\ s[2] \in Nat /\ s[1] <= now
  BY DEF LimiterInv, SentOK
<1>6. sent' \in SUBSET sent /\ IsFiniteSet(sent')
  <2>1. sent' \in SUBSET sent
    BY <1>1
  <2>2. QED
    BY <2>1, <1>5, FS_Subset
<1>7. /\ counters \in [DOMAIN counters -> [value : Nat, updatedAt : Nat]]
      /\ \A w \in DOMAIN counters :
           /\ w \in Nat
           /\ w <= counters[w].updatedAt
           /\ counters[w].updatedAt < w + W
           /\ counters[w].updatedAt <= now
           /\ counters[w].updatedAt \in Nat
  BY DEF LimiterInv, CountersOK
<1>8. /\ R!currCount = R!SentIn(cw, cw + W)
      /\ R!prevCount = R!SentIn(cw - W, cw)
      /\ Few(R!prevCount, R!currCount)
  BY DEF LimiterInv
<1>9. /\ R!currCount = IF cw \in DOMAIN counters THEN counters[cw].value ELSE 0
      /\ R!prevCount = IF cw - W \in DOMAIN counters THEN counters[cw - W].value ELSE 0
      /\ R!currCount' = IF cw' \in DOMAIN counters THEN counters[cw'].value ELSE 0
      /\ R!prevCount' = IF cw' - W \in DOMAIN counters THEN counters[cw' - W].value ELSE 0
  BY <1>1, <1>3 DEF R!currCount, R!prevCount, R!Count
<1>10. /\ R!SentIn(R!currentWindow, R!currentWindow + W)' = Cardinality(Between(sent', cw', cw' + W))
       /\ R!SentIn(R!currentWindow - W, R!currentWindow)' = Cardinality(Between(sent', cw' - W, cw'))
  BY <1>3, SentThenIs
<1> HIDE DEF cw
<1>11. CountersOK'
  <2>1. \A w \in DOMAIN counters : counters[w].updatedAt <= now + 1
    BY <1>2, <1>7
  <2>2. QED
    BY <1>1, <1>3, <1>7, <2>1 DEF CountersOK
<1>12. SentOK'
  <2>1. \A s \in sent' : s[1] \in Nat /\ s[2] \in Nat /\ s[1] <= now + 1 /\ s[1] # now + 1
    BY <1>2, <1>5, <1>6
  <2>2. QED
    BY <1>1, <1>6, <2>1 DEF SentOK
<1>13. LimitOK'
  BY <1>1 DEF LimiterInv, LimitOK, R!Limits, R!windowSizeMs
<1>14. /\ R!currCount' = R!SentIn(R!currentWindow, R!currentWindow + W)'
       /\ R!prevCount' = R!SentIn(R!currentWindow - W, R!currentWindow)'
       /\ Few(R!prevCount', R!currCount')
  <2>1. CASE cw' = cw
    <3>1. /\ Between(sent', cw, cw + W) = Between(sent, cw, cw + W)
          /\ Between(sent', cw - W, cw) = Between(sent, cw - W, cw)
      <4>1. sent' = {s \in sent : s[1] >= cw - W}
        BY <1>1, <1>3, <2>1 DEF cw
      <4>2. QED
        BY <4>1, <1>2, <1>5 DEF Between
    <3>2. R!currCount' = R!currCount /\ R!prevCount' = R!prevCount
      BY <1>9, <2>1
    <3>3. /\ R!SentIn(cw, cw + W) = Cardinality(Between(sent, cw, cw + W))
          /\ R!SentIn(cw - W, cw) = Cardinality(Between(sent, cw - W, cw))
      BY SentIs
    <3>4. QED
      BY <1>8, <1>10, <2>1, <3>1, <3>2, <3>3
  <2>2. CASE cw' = cw + W /\ now + 1 = cw + W
    <3>1. sent' = {s \in sent : s[1] >= cw}
      BY <1>1, <1>2, <1>3, <2>2 DEF cw
    <3>2. /\ Between(sent', cw + W, cw + W + W) = {}
          /\ Between(sent', cw, cw + W) = Between(sent, cw, cw + W)
      BY <3>1, <1>2, <1>5, <2>2 DEF Between
    <3>3. R!SentIn(cw, cw + W) = Cardinality(Between(sent, cw, cw + W))
      BY SentIs
    <3>4. cw + W \notin DOMAIN counters
      BY <1>2, <1>7, <2>2
    <3>5. cw' - W = cw
      BY <1>2, <2>2
    <3>6. R!currCount' = 0 /\ R!prevCount' = R!currCount
      BY <1>9, <2>2, <3>4, <3>5
    <3>7. Few(R!currCount, 0)
      <4>1. PICK l \in R!Limits : R!currCount <= l
        BY <1>8 DEF Few
      <4>2. l \in Nat /\ l >= 1
        BY LimitTypes
      <4>3. 0 <= l /\ R!currCount + 0 < 2 * l
        BY <4>1, <4>2, <1>2
      <4>4. QED
        BY <4>1, <4>3 DEF Few
    <3>8. QED
      BY <1>8, <1>10, <2>2, <3>2, <3>3, <3>5, <3>6, <3>7, FS_EmptySet
  <2>3. QED
    BY <1>4, <2>1, <2>2
<1>15. Few(R!prevCount, R!currCount)'
  BY <1>14 DEF Few, R!Limits, R!windowSizeMs
<1>16. QED
  BY <1>1, <1>2, <1>11, <1>12, <1>13, <1>14, <1>15 DEF LimiterInv

(***************************************************************************)
(* What neither sends nor waits leaves the windows alone.                  *)
(***************************************************************************)
LEMMA LimiterKept ==
  ASSUME LimiterInv, now' = now, counters' = counters, sent' = sent, requestLimit' \in R!Limits
  PROVE  LimiterInv'
<1>1. R!windowSizeMs' = R!windowSizeMs /\ W' = W /\ R!currentWindow' = R!currentWindow
      /\ R!Limits' = R!Limits
  BY DEF W, R!windowSizeMs, R!currentWindow, R!Limits
<1>2. R!currCount' = R!currCount /\ R!prevCount' = R!prevCount
  BY <1>1 DEF R!currCount, R!prevCount, R!Count
<1>3. \A a, b : Cardinality(Between(sent', a, b)) = R!SentIn(a, b)
  BY SentIs
<1>4. /\ R!SentIn(R!currentWindow, R!currentWindow + W)'
           = R!SentIn(R!currentWindow, R!currentWindow + W)
      /\ R!SentIn(R!currentWindow - W, R!currentWindow)'
           = R!SentIn(R!currentWindow - W, R!currentWindow)
      /\ R!SentIn(now, now + 1)' = R!SentIn(now, now + 1)
  BY <1>1, <1>3, SentThenIs
<1>5. CountersOK' /\ SentOK' /\ LimitOK'
  BY <1>1, <1>4 DEF LimiterInv, CountersOK, SentOK, LimitOK
<1>6. Few(R!prevCount, R!currCount)'
  BY <1>1, <1>2 DEF LimiterInv, Few
<1>7. QED
  BY <1>1, <1>2, <1>4, <1>5, <1>6 DEF LimiterInv

LEMMA LimiterStep ==
  ASSUME LimiterInv, R!Next \/ UNCHANGED limiterVars
  PROVE  LimiterInv'
<1>1. CASE R!Send
  BY <1>1, SendStep
<1>2. CASE R!Answer
  BY <1>2, LimiterKept DEF R!Answer, LimiterInv, LimitOK
<1>3. CASE R!Refuse
  <2>1. requestLimit' \in R!Limits
    BY <1>3 DEF R!Refuse, R!Limits
  <2>2. QED
    BY <1>3, <2>1, LimiterKept DEF R!Refuse
<1>4. CASE R!Tick
  BY <1>4, TickStep
<1>5. CASE UNCHANGED limiterVars
  BY <1>5, LimiterKept DEF limiterVars, LimiterInv, LimitOK
<1>6. QED
  BY <1>1, <1>2, <1>3, <1>4, <1>5 DEF R!Next

LEMMA LimiterTells ==
  ASSUME LimiterInv
  PROVE  WindowsAreCounted
<1> DEFINE cw == R!currentWindow
           from == now - W + 1
<1>1. /\ cw \in Nat /\ cw <= now /\ now < cw + W /\ W \in Nat /\ W >= 1 /\ now \in Nat
      /\ R!currCount \in Nat /\ R!prevCount \in Nat
  BY Windows DEF LimiterInv
<1>2. R!windowSizeMs = W
  BY DEF W
<1>3. IsFiniteSet(sent) /\ \A s \in sent : s[1] \in Nat
  BY DEF LimiterInv, SentOK
<1>4. R!currCount = R!SentIn(cw, cw + W) /\ R!prevCount = R!SentIn(cw - W, cw)
  BY DEF LimiterInv
<1> HIDE DEF cw, from
<1>5. R!SentIn(from, now + 1) <= R!prevCount + R!currCount
  <2> DEFINE old1 == Between(sent, cw - W, cw)
             new1 == Between(sent, cw, cw + W)
             both == Between(sent, from, now + 1)
  <2>1. /\ IsFiniteSet(old1) /\ IsFiniteSet(new1) /\ IsFiniteSet(both)
        /\ Cardinality(old1) \in Nat /\ Cardinality(new1) \in Nat /\ Cardinality(both) \in Nat
    BY <1>3, BetweenFinite
  <2>2. /\ R!SentIn(from, now + 1) = Cardinality(both)
        /\ R!prevCount = Cardinality(old1) /\ R!currCount = Cardinality(new1)
    BY <1>4, SentIs
  <2>3. both \in SUBSET (old1 \cup new1)
    BY <1>1, <1>3 DEF Between, from
  <2> HIDE DEF old1, new1, both
  <2>4. IsFiniteSet(old1 \cup new1)
    BY <2>1, FS_Union
  <2>5. Cardinality(both) <= Cardinality(old1 \cup new1)
    BY <2>3, <2>4, FS_Subset
  <2>6. /\ Cardinality(old1 \cup new1)
             = Cardinality(old1) + Cardinality(new1) - Cardinality(old1 \cap new1)
        /\ Cardinality(old1 \cap new1) \in Nat
    <3>1. old1 \cap new1 \in SUBSET old1
      OBVIOUS
    <3>2. Cardinality(old1 \cap new1) \in Nat
      BY <2>1, <3>1, FS_Subset, FS_CardinalityType
    <3>3. QED
      BY <2>1, <3>2, FS_Union
  <2>7. Cardinality(old1 \cup new1) \in Nat
    BY <2>4, FS_CardinalityType
  <2>8. QED
    BY <2>1, <2>2, <2>5, <2>6, <2>7
<1>6. R!SentIn(from, now + 1) \in Nat
  BY <1>3, SentCounted
<1>7. PICK l \in R!Limits : R!prevCount + R!currCount < 2 * l
  BY DEF LimiterInv, Few
<1>8. R!SentIn(from, now + 1) < 2 * l
  BY <1>1, <1>5, <1>6, <1>7, LimitTypes
<1>9. \E k \in R!Limits : R!currCount <= k
  BY DEF LimiterInv, Few
<1>10. QED
  BY <1>2, <1>4, <1>8, <1>9 DEF WindowsAreCounted, R!WindowsAreCounted, cw, from

-----------------------------------------------------------------------------

(***************************************************************************)
(* Each part moves alone.                                                  *)
(***************************************************************************)
LEMMA OneMoves ==
  ASSUME [MCNext]_allVars
  PROVE  /\ [Next]_vars
         /\ R!Next \/ UNCHANGED limiterVars
BY DEF MCNext, SmallNext, allVars, smallVars

(***************************************************************************)
(* For every rate, every size of the window and every limit and wait that  *)
(* a refusal names: the counters know every request of this window and the *)
(* last, although old ones are dropped; and so no window holds more than a *)
(* limit, nor any stretch as long twice as many.                           *)
(***************************************************************************)
THEOREM WindowsCounted == MCSpec => []WindowsAreCounted
<1>1. MCInit => LimiterInv
  BY LimiterInit DEF MCInit
<1>2. LimiterInv /\ [MCNext]_allVars => LimiterInv'
  BY LimiterStep, OneMoves
<1>3. LimiterInv => WindowsAreCounted
  BY LimiterTells
<1>4. QED
  BY <1>1, <1>2, <1>3, PTL DEF MCSpec

=============================================================================
