--------------------------- MODULE FilecoinProofs ---------------------------
(***************************************************************************)
(* For any number of messages, accounts, tipsets, calls and restarts, and   *)
(* whatever nonces clients have signed: no push of FilecoinChain is lost or *)
(* comes twice, the tipsets form a chain, a nonce that push() has chosen is *)
(* above those before it in the pool, and nothing is mined once stop() has  *)
(* returned; for any gas, prices and funds, a message that FilecoinMessages *)
(* puts into the pool is paid for and signed; for any clients and accounts, *)
(* the list of FilecoinWallet is of its keys, and it keeps the money.       *)
(***************************************************************************)
EXTENDS MCFilecoin, SequenceTheorems, FiniteSetTheorems, WellFoundedInduction, TLAPS

\* Whether e is in the sequence s, and whether nothing is in it twice.
In(e, s) == \E i \in DOMAIN s : s[i] = e

Once(s) == \A i, j \in DOMAIN s : s[i] = s[j] => i = j

Callers == Messages \cup Miners

Tipsets == [parent : Nat, messages : Seq(Messages)]

States == {"idle", "waiting", "signing", "sent", "refused", "pushed", "lost", "called", "taking",
           "mining", "mined", "done", "fired", "enabling"}

TypeInv ==
  /\ blockTime \in {0, 1} /\ enabled \in BOOLEAN /\ switched \in Nat
  /\ miningLock \in Seq(Miners \cup {"stop"})
  /\ poolLock \in Seq(Callers \cup {"stop"})
  /\ timeoutLock \in Seq(Intervals \cup {"stop", "disable"})
  /\ pool \in Seq(Messages)
  /\ nonces \in [Accounts -> Nat]
  /\ nonceOf \in [Messages -> Nat \cup {None}] /\ signed \subseteq Messages
  /\ pc \in [Callers -> States]
  /\ mining \in Batches \cup {None}
  /\ increments \subseteq [of : Messages, read : Nat \cup {None}]
  /\ tipsets \in Seq(Tipsets)
  /\ latest \in Nat /\ latestKey \in Nat
  /\ armed \subseteq Intervals /\ miningTimeout \in Intervals \cup {None}
  /\ gone \subseteq Messages
  /\ stopping \in {"no", "mining", "pool", "timeout", "stopped"}

(***************************************************************************)
(* Whoever takes the pool or mines has the lock of the mining, and so has   *)
(* stop() once it waits for the lock of the pool.  No call is made again    *)
(* while it goes on: a timer runs only while its interval does nothing, and *)
(* a push mines once, when its message gets into the pool.                  *)
(***************************************************************************)
LockInv ==
  /\ \A p \in Miners : pc[p] \in {"taking", "mining"} => Holds(miningLock, p)
  /\ stopping \in {"pool", "timeout", "stopped"} => Holds(miningLock, "stop")
  /\ \A i \in armed : pc[i] = "idle"
  /\ \A m \in Messages : pc[MineOf[m]] # "idle" => pc[m] = "pushed"

(***************************************************************************)
(* A batch is being mined just while one of the callers mines; its tipset   *)
(* is the next, or has been put as the latest but not under the key.        *)
(***************************************************************************)
Unput == mining # None /\ latest = mining.parent

TipsetInv ==
  /\ mining # None <=> \E p \in Miners : pc[p] = "mining"
  /\ mining = None \/ Unput => latestKey = latest
  /\ mining # None /\ ~Unput =>
       /\ latest = mining.parent + 1
       /\ latestKey = mining.parent
       /\ mining.left = <<>>
       /\ tipsets[latest].messages = mining.done
  /\ latest <= Len(tipsets)
  /\ \A h \in 1 .. latest : tipsets[h].parent = h - 1

(***************************************************************************)
(* The one that signs has the lock of the pool, and its nonce is above      *)
(* those of its account in the pool, also those that clients have chosen.   *)
(***************************************************************************)
NonceInv ==
  /\ PoolNoncesIncrease
  /\ \A m \in Messages : pc[m] \in {"signing", "sent", "pushed"} => nonceOf[m] \in Nat
  /\ \A m \in Messages : /\ pc[m] \in {"idle", "waiting", "signing"} => m \notin signed
                         /\ pc[m] = "sent" => m \in signed
  /\ \A m \in Messages : pc[m] = "signing" =>
       /\ Holds(poolLock, m)
       /\ \A i \in DOMAIN pool : From[pool[i]] = From[m] => nonceOf[pool[i]] < nonceOf[m]

(***************************************************************************)
(* Where the messages are: those that have been pushed, and only those, are *)
(* in one place each.  What a tipset above the latest has, which a restart  *)
(* has found, counts as lost.                                              *)
(***************************************************************************)
InBatch(m) == Unput /\ (In(m, mining.left) \/ In(m, mining.done))

InTipset(m, h) == In(m, tipsets[h].messages)

InChain(m) == \E h \in 1 .. latest : InTipset(m, h)

PlaceInv ==
  /\ Once(pool)
  /\ Unput => /\ Once(mining.left) /\ Once(mining.done)
              /\ \A m \in Messages : ~(In(m, mining.left) /\ In(m, mining.done))
  /\ \A m \in Messages :
       /\ pc[m] = "pushed" <=> In(m, pool) \/ InBatch(m) \/ InChain(m) \/ m \in gone
       /\ In(m, pool) => ~InBatch(m) /\ ~InChain(m) /\ m \notin gone
       /\ InBatch(m) => ~InChain(m) /\ m \notin gone
       /\ InChain(m) => m \notin gone
       /\ \A h, k \in 1 .. latest : InTipset(m, h) /\ InTipset(m, k) => h = k
       /\ \A h \in (latest + 1) .. Len(tipsets) : InTipset(m, h) => m \in gone

IInv == TypeInv /\ LockInv /\ TipsetInv /\ NonceInv /\ PlaceInv

-----------------------------------------------------------------------------

(***************************************************************************)
(* The operators on sequences, by the elements they leave.                 *)
(***************************************************************************)
LEMMA LengthAndDomain ==
  ASSUME NEW S, NEW s \in Seq(S)
  PROVE  /\ Len(s) \in Nat /\ DOMAIN s = 1..Len(s)
         /\ s = <<>> <=> Len(s) = 0
         /\ \A i \in 1..Len(s) : s[i] \in S
  BY LenProperties, EmptySeq, ElementOfSeq

LEMMA AppendIs ==
  ASSUME NEW S, NEW s \in Seq(S), NEW e \in S
  PROVE  /\ Append(s, e) \in Seq(S)
         /\ DOMAIN Append(s, e) = 1..(Len(s) + 1)
         /\ Append(s, e) # <<>>
         /\ \A i \in 1..(Len(s) + 1) :
              Append(s, e)[i] = IF i = Len(s) + 1 THEN e ELSE s[i]
<1>1. Len(s) \in Nat /\ Append(s, e) \in Seq(S)
  BY LengthAndDomain, AppendProperties
<1>2. QED
  BY <1>1, LenProperties, AppendProperties

LEMMA TailIs ==
  ASSUME NEW S, NEW s \in Seq(S), s # <<>>
  PROVE  /\ Head(s) = s[1] /\ Head(s) \in S /\ Len(s) \in Nat /\ Len(s) >= 1
         /\ DOMAIN s = 1..Len(s)
         /\ Tail(s) \in Seq(S)
         /\ DOMAIN Tail(s) = 1..(Len(s) - 1)
         /\ \A i \in 1..(Len(s) - 1) : Tail(s)[i] = s[i + 1]
<1>1. Len(s) \in Nat /\ Len(s) >= 1 /\ DOMAIN s = 1..Len(s)
  BY LengthAndDomain
<1>2. Tail(s) \in Seq(S) /\ Len(Tail(s)) = Len(s) - 1 /\ Head(s) \in S
  BY HeadTailProperties
<1>3. \A i \in 1..(Len(s) - 1) : Tail(s)[i] = s[i + 1]
  BY <1>2, HeadTailProperties
<1>4. DOMAIN Tail(s) = 1..(Len(s) - 1)
  BY <1>2, LenProperties
<1>5. Head(s) = s[1]
  OBVIOUS
<1>6. QED
  BY <1>1, <1>2, <1>3, <1>4, <1>5

LEMMA PrefixIs ==
  ASSUME NEW S, NEW s \in Seq(S), NEW n \in Nat, n <= Len(s)
  PROVE  /\ SubSeq(s, 1, n) \in Seq(S)
         /\ Len(SubSeq(s, 1, n)) = n
         /\ \A i \in 1..n : SubSeq(s, 1, n)[i] = s[i]
<1>1. Len(s) \in Nat /\ \A i \in 1..n : s[i] \in S
  BY LengthAndDomain
<1>2. /\ SubSeq(s, 1, n) \in Seq(S)
      /\ Len(SubSeq(s, 1, n)) = IF 1 <= n THEN (n - 1) + 1 ELSE 0
      /\ \A i \in 1..((n - 1) + 1) : SubSeq(s, 1, n)[i] = s[(1 + i) - 1]
  BY <1>1, SubSeqProperties
<1>3. Len(SubSeq(s, 1, n)) = n /\ (n - 1) + 1 = n /\ \A i \in 1..n : (1 + i) - 1 = i
  BY <1>2
<1>4. QED
  BY <1>2, <1>3

LEMMA EmptyPlaces == Once(<<>>) /\ \A e : ~In(e, <<>>)
  BY DEF In, Once

LEMMA AppendPlaces ==
  ASSUME NEW S, NEW s \in Seq(S), NEW e \in S
  PROVE  /\ \A x : In(x, Append(s, e)) <=> In(x, s) \/ x = e
         /\ Once(s) /\ ~In(e, s) => Once(Append(s, e))
<1>1. Len(s) \in Nat /\ DOMAIN s = 1..Len(s)
  BY LengthAndDomain
<1>2. /\ DOMAIN Append(s, e) = 1..(Len(s) + 1)
      /\ \A i \in 1..(Len(s) + 1) : Append(s, e)[i] = IF i = Len(s) + 1 THEN e ELSE s[i]
  BY AppendIs
<1>3. QED
  BY <1>1, <1>2 DEF In, Once

LEMMA TailPlaces ==
  ASSUME NEW S, NEW s \in Seq(S), s # <<>>
  PROVE  /\ \A x : In(x, s) <=> x = Head(s) \/ In(x, Tail(s))
         /\ Once(s) => Once(Tail(s)) /\ ~In(Head(s), Tail(s))
<1>1. /\ Head(s) = s[1] /\ Len(s) \in Nat /\ Len(s) >= 1
      /\ DOMAIN s = 1..Len(s) /\ DOMAIN Tail(s) = 1..(Len(s) - 1)
      /\ \A i \in 1..(Len(s) - 1) : Tail(s)[i] = s[i + 1]
  BY TailIs
<1>2. \A i \in DOMAIN s : i = 1 \/ (i - 1 \in DOMAIN Tail(s) /\ Tail(s)[i - 1] = s[i])
  BY <1>1
<1>3. \A i \in DOMAIN Tail(s) : i + 1 \in DOMAIN s /\ Tail(s)[i] = s[i + 1]
  BY <1>1
<1>4. 1 \in DOMAIN s
  BY <1>1
<1>5. \A x : In(x, s) <=> x = Head(s) \/ In(x, Tail(s))
  <2>1. ASSUME NEW x, In(x, s)
        PROVE  x = Head(s) \/ In(x, Tail(s))
    BY <1>1, <1>2, <2>1 DEF In
  <2>2. ASSUME NEW x, x = Head(s) \/ In(x, Tail(s))
        PROVE  In(x, s)
    BY <1>1, <1>3, <1>4, <2>2 DEF In
  <2>3. QED
    BY <2>1, <2>2
<1>6. ASSUME Once(s)
      PROVE  Once(Tail(s)) /\ ~In(Head(s), Tail(s))
  <2>1. Once(Tail(s))
    BY <1>1, <1>3, <1>6 DEF Once
  <2>2. ~In(Head(s), Tail(s))
    <3>1. \A i \in DOMAIN Tail(s) : i + 1 # 1
      BY <1>1
    <3>2. QED
      BY <1>1, <1>3, <1>4, <1>6, <3>1 DEF Once, In
  <2>3. QED
    BY <2>1, <2>2
<1>7. QED
  BY <1>5, <1>6

\* Whoever has a lock keeps it when another waits for it.
LEMMA StillHolds ==
  ASSUME NEW S, NEW lock \in Seq(S), NEW e \in S, NEW p, Holds(lock, p)
  PROVE  Holds(Append(lock, e), p)
<1>1. lock # <<>> /\ Head(lock) = p
  BY DEF Holds
<1>2. Append(lock, e) \in Seq(S) /\ Append(lock, e) # <<>>
  BY AppendIs
<1>3. Head(Append(lock, e)) = Append(lock, e)[1] /\ Head(lock) = lock[1]
      /\ Len(lock) \in Nat /\ Len(lock) >= 1
  BY <1>1, <1>2, TailIs
<1>4. Append(lock, e)[1] = lock[1]
  BY <1>3, AppendIs
<1>5. QED
  BY <1>1, <1>2, <1>3, <1>4 DEF Holds

LEMMA ToSetPlaces ==
  ASSUME NEW e, NEW s
  PROVE  e \in ToSet(s) <=> In(e, s)
  BY DEF ToSet, In

LEMMA ContainsPlaces ==
  ASSUME NEW S, NEW s \in Seq(S), NEW e
  PROVE  Contains(s, e) <=> In(e, s)
  BY LengthAndDomain DEF Contains, In

(***************************************************************************)
(* Types.                                                                  *)
(***************************************************************************)
LEMMA Names ==
  /\ Messages \subseteq Callers /\ Miners \subseteq Callers
  /\ Intervals \subseteq Miners /\ Mines \subseteq Miners
  /\ \A m \in Messages : /\ From[m] \in Accounts
                         /\ MineOf[m] \in Miners /\ MineOf[m] \notin Intervals
                         /\ MineOf[m] \notin Mines
                         /\ m \notin Miners /\ m # MineOf[m]
  /\ \A m, n \in Messages : MineOf[m] = MineOf[n] => m = n
  /\ \A p \in Miners : p \notin Messages /\ p # "stop"
  /\ \A p \in Mines : p \notin Intervals
  /\ \A p \in Messages : p # "stop"
  /\ None \notin Nat /\ None \notin Batches
  /\ Signable \subseteq Messages /\ GivenNonces \subseteq Nat
BY CallersAssumption DEF Callers, Miners, AutoMines, Accounts

\* The least length of which there is no greatest value yet would be one too long.
LEMMA Greatest ==
  ASSUME NEW n \in Nat, NEW D, D \subseteq 1..n, D # {}, NEW f, \A i \in D : f[i] \in Nat
  PROVE  \E g \in D : \A i \in D : f[i] <= f[g]
<1> DEFINE Upto(k) == {i \in D : i <= k}
           Has(k) == \E g \in Upto(k) : \A i \in Upto(k) : f[i] <= f[g]
           T == {k \in 0..n : Upto(k) # {} /\ ~Has(k)}
<1>0. \A i \in D : i \in 1..n /\ i \in Nat /\ 1 <= i /\ i <= n
  OBVIOUS
<1>1. CASE T = {}
  <2>1. \A i \in D : i \in Upto(n)
    BY <1>0
  <2>2. n \in 0..n /\ n \notin T
    BY <1>1
  <2>3. PICK g \in Upto(n) : \A i \in Upto(n) : f[i] <= f[g]
    <3>1. PICK d \in D : TRUE
      OBVIOUS
    <3>2. d \in Upto(n)
      BY <2>1
    <3>3. QED
      BY <2>2, <3>2
  <2>4. QED
    BY <2>1, <2>3
<1>2. CASE T # {}
  <2>1. T \subseteq Nat
    OBVIOUS
  <2>2. PICK k \in T : \A y \in T : ~(y < k)
    <3> HIDE DEF T
    <3>1. \E k \in T : \A y \in T : ~(<<y, k>> \in OpToRel(<, Nat))
      BY <1>2, <2>1, NatLessThanWellFounded, WFMin
    <3>2. QED
      BY <2>1, <3>1 DEF OpToRel
  <2>3. k \in 0..n /\ k \in Nat /\ Upto(k) # {} /\ ~Has(k)
    BY <2>2
  <2>4. k - 1 \in 0..n /\ k - 1 \notin T
    <3>1. k >= 1
      <4>1. PICK i \in Upto(k) : TRUE
        BY <2>3
      <4>2. QED
        BY <1>0, <2>3, <4>1
    <3>2. k - 1 \in 0..n /\ k - 1 < k
      BY <2>3, <3>1
    <3> HIDE DEF T
    <3>3. QED
      BY <2>2, <3>2
  <2>5. \A i \in D : i <= k <=> i <= k - 1 \/ i = k
    BY <1>0, <2>3
  <2>6. CASE Upto(k - 1) = {}
    <3>1. \A i \in Upto(k) : i = k
      <4>1. ASSUME NEW i \in Upto(k), i # k
            PROVE  i \in Upto(k - 1)
        BY <2>5, <4>1
      <4>2. QED
        BY <2>6, <4>1
    <3>2. k \in Upto(k) /\ f[k] <= f[k]
      <4>1. PICK i \in Upto(k) : TRUE
        BY <2>3
      <4>2. k \in Upto(k) /\ f[k] \in Nat
        BY <3>1, <4>1
      <4>3. QED
        BY <4>2
    <3>3. QED
      BY <2>3, <3>1, <3>2
  <2>7. CASE Upto(k - 1) # {}
    <3>1. PICK g \in Upto(k - 1) : \A i \in Upto(k - 1) : f[i] <= f[g]
      BY <2>4, <2>7
    <3>2. g \in Upto(k)
      BY <2>5, <3>1
    <3>3. k \in D /\ f[g] < f[k]
      <4>1. \A i \in Upto(k) : i \in Upto(k - 1) \/ i = k
        BY <2>5
      <4>2. PICK i \in Upto(k) : ~(f[i] <= f[g])
        BY <2>3, <3>2
      <4>3. i = k
        BY <3>1, <4>1, <4>2
      <4>4. QED
        BY <3>1, <4>2, <4>3
    <3>4. \A i \in Upto(k) : f[i] <= f[k]
      <4>1. \A i \in Upto(k - 1) : f[i] <= f[k]
        BY <3>1, <3>3
      <4>2. QED
        BY <2>5, <3>3, <4>1
    <3>5. k \in Upto(k)
      BY <2>3, <3>3
    <3>6. QED
      BY <2>3, <3>4, <3>5
  <2>8. QED
    BY <2>6, <2>7
<1>3. QED
  BY <1>1, <1>2

LEMMA NextNonceIs ==
  ASSUME TypeInv, NEW a \in Accounts, \A i \in DOMAIN pool : nonceOf[pool[i]] \in Nat
  PROVE  /\ NextNonce(a) \in Nat
         /\ \A i \in DOMAIN pool : From[pool[i]] = a => nonceOf[pool[i]] < NextNonce(a)
<1> DEFINE D == {j \in DOMAIN pool : From[pool[j]] = a}
           S == PooledNonces(a) \cup {nonces[a]}
           f == [i \in DOMAIN pool |-> nonceOf[pool[i]]]
<1>1. Len(pool) \in Nat /\ DOMAIN pool = 1..Len(pool) /\ nonces[a] \in Nat
  BY LengthAndDomain DEF TypeInv
<1>2. CASE D = {}
  <2>1. PooledNonces(a) = {}
    BY <1>2 DEF PooledNonces
  <2>2. NextNonce(a) = nonces[a]
    BY <2>1 DEF NextNonce
  <2>3. QED
    BY <1>1, <1>2, <2>2
<1>3. CASE D # {}
  <2>1. PICK g \in D : \A i \in D : nonceOf[pool[i]] <= nonceOf[pool[g]]
    <3>1. \A i \in D : f[i] = nonceOf[pool[i]] /\ f[i] \in Nat
      OBVIOUS
    <3>2. D \subseteq 1..Len(pool)
      BY <1>1
    <3> HIDE DEF f, D
    <3>3. \E g \in D : \A i \in D : f[i] <= f[g]
      BY <1>1, <1>3, <3>1, <3>2, Greatest
    <3>4. QED
      BY <3>1, <3>3
  <2>3. S \subseteq Nat /\ S # {}
    BY <1>1 DEF PooledNonces
  <2>4. PICK x \in S : \A y \in S : x >= y
    <3>1. nonceOf[pool[g]] \in S /\ nonceOf[pool[g]] \in Nat
      BY <2>1 DEF PooledNonces
    <3>2. \A y \in PooledNonces(a) : nonceOf[pool[g]] >= y
      BY <2>1, <3>1 DEF PooledNonces
    <3>3. CASE nonceOf[pool[g]] >= nonces[a]
      BY <3>1, <3>2, <3>3
    <3>4. CASE ~(nonceOf[pool[g]] >= nonces[a])
      <4>1. \A y \in S : nonces[a] >= y
        BY <1>1, <2>3, <3>1, <3>2, <3>4
      <4>2. QED
        BY <4>1
    <3>5. QED
      BY <3>3, <3>4
  <2>5. Max(S) \in S /\ \A y \in S : Max(S) >= y
    BY <2>4 DEF Max
  <2>6. PooledNonces(a) # {}
    BY <1>3 DEF PooledNonces
  <2>7. NextNonce(a) = Max(S) + 1
    BY <2>6 DEF NextNonce
  <2>8. \A i \in D : nonceOf[pool[i]] \in S
    BY DEF PooledNonces
  <2>9. QED
    BY <2>3, <2>5, <2>7, <2>8
<1>4. QED
  BY <1>2, <1>3

LEMMA StoredIs ==
  ASSUME TypeInv, latest <= Len(tipsets), NEW t \in Tipsets
  PROVE  /\ Stored(latest + 1, t) \in Seq(Tipsets)
         /\ Len(Stored(latest + 1, t)) = latest + 1
         /\ \A h \in 1 .. (latest + 1) :
              Stored(latest + 1, t)[h] = IF h = latest + 1 THEN t ELSE tipsets[h]
<1> DEFINE below == SubSeq(tipsets, 1, latest)
<1>1. latest \in Nat /\ tipsets \in Seq(Tipsets)
  BY DEF TypeInv
<1>2. /\ below \in Seq(Tipsets) /\ Len(below) = latest
      /\ \A h \in 1 .. latest : below[h] = tipsets[h]
  BY <1>1, PrefixIs
<1>3. <<t>> \in Seq(Tipsets) /\ Len(<<t>>) = 1 /\ <<t>>[1] = t
  OBVIOUS
<1>4. /\ below \o <<t>> \in Seq(Tipsets)
      /\ Len(below \o <<t>>) = latest + 1
      /\ \A h \in 1 .. (latest + 1) :
           (below \o <<t>>)[h] = IF h <= latest THEN below[h] ELSE <<t>>[h - latest]
  <2> HIDE DEF below
  <2>1. QED
    BY <1>1, <1>2, <1>3, ConcatProperties
<1>5. Stored(latest + 1, t) = below \o <<t>>
  BY <1>1 DEF Stored
<1> HIDE DEF below
<1>6. \A h \in 1 .. (latest + 1) :
        \/ h = latest + 1 /\ ~(h <= latest) /\ <<t>>[h - latest] = t
        \/ h # latest + 1 /\ h \in 1 .. latest /\ h <= latest
  BY <1>1
<1>7. \A h \in 1 .. (latest + 1) :
        (below \o <<t>>)[h] = IF h = latest + 1 THEN t ELSE tipsets[h]
  BY <1>2, <1>4, <1>6
<1>8. QED
  BY <1>4, <1>5, <1>7

LEMMA PooledHaveNonces ==
  ASSUME IInv
  PROVE  \A i \in DOMAIN pool : pool[i] \in Messages /\ nonceOf[pool[i]] \in Nat
<1>1. \A i \in DOMAIN pool : pool[i] \in Messages /\ In(pool[i], pool)
  BY LengthAndDomain DEF IInv, TypeInv, In
<1>2. QED
  BY <1>1 DEF IInv, PlaceInv, NonceInv

\* Who mines has the batch and the first place at the lock of the mining.
LEMMA Mining ==
  ASSUME IInv, NEW p \in Miners, pc[p] = "mining"
  PROVE  /\ mining \in Batches /\ mining # None
         /\ mining.left \in Seq(Messages) /\ mining.done \in Seq(Messages)
         /\ mining.read \in Nat \cup {None} /\ mining.parent \in Nat
         /\ Holds(miningLock, p)
<1>1. mining # None /\ mining \in Batches /\ Holds(miningLock, p)
  BY DEF IInv, TypeInv, TipsetInv, LockInv
<1>2. QED
  BY <1>1 DEF Batches

\* What is left of a batch, and what is done, after each of its steps.
LEMMA ReadSenderIs ==
  ASSUME IInv, NEW p \in Miners, ReadSender(p)
  PROVE  /\ mining' \in Batches
         /\ mining'.left = mining.left /\ mining'.done = mining.done
         /\ mining'.parent = mining.parent
<1>1. /\ mining \in Batches /\ mining.left \in Seq(Messages)
      /\ Head(mining.left) \in Messages
  BY Mining, TailIs DEF ReadSender
<1>2. nonces[From[Head(mining.left)]] \in Nat
  BY <1>1, Names DEF IInv, TypeInv
<1>3. QED
  BY <1>1, <1>2 DEF ReadSender, Batches

LEMMA LeaveOutIs ==
  ASSUME IInv, NEW p \in Miners, LeaveOut(p)
  PROVE  /\ mining' \in Batches /\ Head(mining.left) \in Messages
         /\ mining'.left = Tail(mining.left) /\ mining'.done = mining.done
         /\ mining'.parent = mining.parent
<1>1. /\ mining \in Batches /\ Head(mining.left) \in Messages
      /\ Tail(mining.left) \in Seq(Messages)
  BY Mining, TailIs DEF LeaveOut
<1>2. QED
  BY <1>1 DEF LeaveOut, Batches

LEMMA ExecuteIs ==
  ASSUME IInv, NEW p \in Miners, Execute(p)
  PROVE  /\ mining' \in Batches /\ Head(mining.left) \in Messages /\ mining.read \in Nat
         /\ mining'.left = Tail(mining.left)
         /\ mining'.done = Append(mining.done, Head(mining.left))
         /\ mining'.parent = mining.parent
<1>1. /\ mining \in Batches /\ Head(mining.left) \in Messages /\ mining.read \in Nat
      /\ Tail(mining.left) \in Seq(Messages) /\ mining.done \in Seq(Messages)
  BY Mining, TailIs DEF Execute
<1>2. Append(mining.done, Head(mining.left)) \in Seq(Messages)
  BY <1>1, AppendIs
<1>3. QED
  BY <1>1, <1>2 DEF Execute, Batches

LEMMA TypeInit == Init => TypeInv
<1> SUFFICES ASSUME Init
             PROVE  TypeInv
  OBVIOUS
<1>2. Intervals # {}
  BY CallersAssumption
<1>3. armed \subseteq Intervals /\ miningTimeout \in Intervals \cup {None}
  BY <1>2 DEF Init
<1>4. pc \in [Callers -> States]
  BY DEF Init, Callers, States
<1>5. QED
  BY <1>3, <1>4 DEF Init, TypeInv

LEMMA TypeNext == IInv /\ [Next]_vars => TypeInv'
<1> SUFFICES ASSUME IInv, [Next]_vars
             PROVE  TypeInv'
  OBVIOUS
<1>2. TypeInv /\ TipsetInv
  BY DEF IInv
<1> USE <1>2, Names
<1>3. ASSUME NEW m \in Messages, Push(m)
      PROVE  TypeInv'
  <2>1. poolLock' \in Seq(Callers \cup {"stop"})
    BY <1>3, AppendIs DEF Push, TypeInv
  <2>2. pc' \in [Callers -> States]
    BY <1>3 DEF Push, TypeInv, States
  <2>3. QED
    BY <1>3, <2>1, <2>2 DEF Push, TypeInv, messageVars, tipsetVars, timerVars
<1>4. ASSUME NEW m \in Messages, GetNonce(m)
      PROVE  TypeInv'
  <2>1. NextNonce(From[m]) \in Nat
    BY PooledHaveNonces, NextNonceIs DEF IInv
  <2>2. nonceOf' \in [Messages -> Nat \cup {None}]
    BY <1>4, <2>1 DEF GetNonce, TypeInv
  <2>3. pc' \in [Callers -> States]
    BY <1>4 DEF GetNonce, TypeInv, States
  <2>4. QED
    BY <1>4, <2>2, <2>3 DEF GetNonce, TypeInv, locks, tipsetVars, timerVars
<1>5. ASSUME NEW m \in Messages, Refuse(m)
      PROVE  TypeInv'
  <2>1. poolLock' \in Seq(Callers \cup {"stop"})
    BY <1>5, TailIs DEF Refuse, Released, Holds, TypeInv
  <2>2. pc' \in [Callers -> States]
    BY <1>5 DEF Refuse, TypeInv, States
  <2>3. QED
    BY <1>5, <2>1, <2>2 DEF Refuse, TypeInv, messageVars, tipsetVars, timerVars
<1>6. ASSUME NEW m \in Messages, PushSigned(m)
      PROVE  TypeInv'
  <2>1. Holds(poolLock, m)
    BY <1>6 DEF PushSigned
  <2>2. poolLock' \in Seq(Callers \cup {"stop"})
    BY <1>6, <2>1, TailIs DEF PushSigned, Holds, TypeInv
  <2>3. pool' \in Seq(Messages)
    BY <1>6, AppendIs DEF PushSigned, TypeInv
  <2>4. pc' \in [Callers -> States] /\ miningLock' \in Seq(Miners \cup {"stop"})
    <3>1. CASE enabled /\ blockTime = 0
      <4>1. pc' = [pc EXCEPT ![m] = "pushed", ![MineOf[m]] = "called"]
            /\ miningLock' = Append(miningLock, MineOf[m])
        BY <1>6, <3>1 DEF PushSigned, CallMine
      <4>2. miningLock' \in Seq(Miners \cup {"stop"})
        BY <4>1, AppendIs DEF TypeInv
      <4>3. QED
        BY <4>1, <4>2 DEF TypeInv, States
    <3>2. CASE ~(enabled /\ blockTime = 0)
      <4>1. pc' = [pc EXCEPT ![m] = "pushed"] /\ miningLock' = miningLock
        BY <1>6, <3>2 DEF PushSigned
      <4>2. QED
        BY <4>1 DEF TypeInv, States
    <3>3. QED
      BY <3>1, <3>2
  <2>5. QED
    BY <1>6, <2>2, <2>3, <2>4 DEF PushSigned, TypeInv, tipsetVars, timerVars
<1>7. CASE MpoolClear
  <2>1. pool' \in Seq(Messages) /\ gone' \subseteq Messages
    BY <1>7, LengthAndDomain DEF MpoolClear, ToSet, TypeInv
  <2>2. QED
    BY <1>7, <2>1 DEF MpoolClear, TypeInv, locks, tipsetVars, timerVars
<1>8. ASSUME NEW p \in Mines, MineTipset(p)
      PROVE  TypeInv'
  <2>1. miningLock' \in Seq(Miners \cup {"stop"})
    BY <1>8, AppendIs DEF MineTipset, CallMine, TypeInv
  <2>2. pc' \in [Callers -> States]
    BY <1>8 DEF MineTipset, TypeInv, States
  <2>3. QED
    BY <1>8, <2>1, <2>2 DEF MineTipset, TypeInv, messageVars, tipsetVars, timerVars
<1>9. ASSUME NEW p \in Miners, StartMining(p)
      PROVE  TypeInv'
  <2>1. poolLock' \in Seq(Callers \cup {"stop"})
    BY <1>9, AppendIs DEF StartMining, TypeInv
  <2>2. pc' \in [Callers -> States]
    BY <1>9 DEF StartMining, TypeInv, States
  <2>3. QED
    BY <1>9, <2>1, <2>2 DEF StartMining, TypeInv, messageVars, tipsetVars, timerVars
<1>10. ASSUME NEW p \in Miners, TakePool(p)
       PROVE  TypeInv'
  <2>1. poolLock' \in Seq(Callers \cup {"stop"})
    BY <1>10, TailIs DEF TakePool, Holds, TypeInv
  <2>2. pc' \in [Callers -> States]
    BY <1>10 DEF TakePool, TypeInv, States
  <2>3. mining' \in Batches /\ pool' \in Seq(Messages)
    BY <1>10 DEF TakePool, Emptied, TypeInv, Batches
  <2>4. QED
    BY <1>10, <2>1, <2>2, <2>3 DEF TakePool, TypeInv, timerVars
<1>11. ASSUME NEW p \in Miners, ReadSender(p)
       PROVE  TypeInv'
  BY <1>11, ReadSenderIs DEF ReadSender, TypeInv, locks, messageVars, timerVars
<1>12. ASSUME NEW p \in Miners, LeaveOut(p)
       PROVE  TypeInv'
  <2>1. gone' \subseteq Messages
    BY <1>12, LeaveOutIs DEF LeaveOut, TypeInv
  <2>2. QED
    BY <1>12, <2>1, LeaveOutIs DEF LeaveOut, TypeInv, locks, timerVars
<1>13. ASSUME NEW p \in Miners, Execute(p)
       PROVE  TypeInv'
  <2>1. nonces' \in [Accounts -> Nat]
    BY <1>13, ExecuteIs DEF Execute, TypeInv
  <2>2. increments' \subseteq [of : Messages, read : Nat \cup {None}]
    BY <1>13, ExecuteIs DEF Execute, TypeInv
  <2>3. QED
    BY <1>13, <2>1, <2>2, ExecuteIs DEF Execute, TypeInv, locks, timerVars
<1>14. ASSUME NEW i \in increments, IncrementReads(i) \/ IncrementWrites(i)
       PROVE  TypeInv'
  <2>1. i \in [of : Messages, read : Nat \cup {None}] /\ nonces[From[i.of]] \in Nat
    BY DEF TypeInv
  <2>2. increments' \subseteq [of : Messages, read : Nat \cup {None}]
    <3>1. [i EXCEPT !.read = nonces[From[i.of]]] \in [of : Messages, read : Nat \cup {None}]
      BY <2>1
    <3>2. increments' \subseteq increments \cup {[i EXCEPT !.read = nonces[From[i.of]]]}
      <4>1. CASE IncrementReads(i)
        BY <4>1 DEF IncrementReads
      <4>2. CASE IncrementWrites(i)
        BY <4>2 DEF IncrementWrites
      <4>3. QED
        BY <1>14, <4>1, <4>2
    <3>3. increments \subseteq [of : Messages, read : Nat \cup {None}]
      BY DEF TypeInv
    <3>4. QED
      BY <3>1, <3>2, <3>3, Zenon
  <2>3. nonces' \in [Accounts -> Nat]
    <3>1. CASE IncrementReads(i)
      BY <3>1 DEF IncrementReads, TypeInv
    <3>2. CASE IncrementWrites(i)
      <4>1. i.read + 1 \in Nat /\ nonces' = [nonces EXCEPT ![From[i.of]] = i.read + 1]
        BY <2>1, <3>2 DEF IncrementWrites
      <4>2. QED
        BY <4>1 DEF TypeInv
    <3>3. QED
      BY <1>14, <3>1, <3>2
  <2>4. QED
    BY <1>14, <2>2, <2>3 DEF IncrementReads, IncrementWrites, TypeInv, locks, tipsetVars,
                              timerVars
<1>15. ASSUME NEW p \in Miners, PutTipset(p)
       PROVE  TypeInv'
  <2>1. [parent |-> mining.parent, messages |-> mining.done] \in Tipsets
        /\ mining.parent = latest
    BY <1>15, Mining DEF PutTipset, Tipsets
  <2>2. tipsets' \in Seq(Tipsets) /\ latest' \in Nat
    BY <1>15, <2>1, StoredIs DEF PutTipset, TypeInv, TipsetInv
  <2>3. QED
    BY <1>15, <2>2 DEF PutTipset, TypeInv, locks, messageVars, timerVars
<1>16. ASSUME NEW p \in Miners, PutLatest(p)
       PROVE  TypeInv'
  <2>1. miningLock' \in Seq(Miners \cup {"stop"})
    BY <1>16, Mining, TailIs DEF PutLatest, Holds, TypeInv
  <2>2. pc' \in [Callers -> States]
    BY <1>16 DEF PutLatest, Ended, TypeInv, States
  <2>3. QED
    BY <1>16, <2>1, <2>2 DEF PutLatest, TypeInv, messageVars, timerVars
<1>17. ASSUME NEW i \in Intervals, Fire(i)
       PROVE  TypeInv'
  <2>1. timeoutLock' \in Seq(Intervals \cup {"stop", "disable"})
    BY <1>17, AppendIs DEF Fire, TypeInv
  <2>2. pc' \in [Callers -> States]
    BY <1>17 DEF Fire, TypeInv, States
  <2>3. QED
    BY <1>17, <2>1, <2>2 DEF Fire, TypeInv, messageVars, tipsetVars
<1>18. ASSUME NEW i \in Intervals, IntervalMines(i)
       PROVE  TypeInv'
  <2>1. miningLock' \in Seq(Miners \cup {"stop"})
    BY <1>18, AppendIs DEF IntervalMines, CallMine, TypeInv
  <2>2. pc' \in [Callers -> States]
    BY <1>18 DEF IntervalMines, TypeInv, States
  <2>3. QED
    BY <1>18, <2>1, <2>2 DEF IntervalMines, TypeInv, messageVars, tipsetVars, timerVars
<1>19. ASSUME NEW i \in Intervals, Rearm(i)
       PROVE  TypeInv'
  <2>1. timeoutLock' \in Seq(Intervals \cup {"stop", "disable"})
    BY <1>19, TailIs DEF Rearm, Holds, TypeInv
  <2>2. pc' \in [Callers -> States]
    BY <1>19 DEF Rearm, TypeInv, States
  <2>3. QED
    BY <1>19, <2>1, <2>2 DEF Rearm, TypeInv, messageVars, tipsetVars
<1>20. ASSUME NEW i \in Intervals, EnableMiner(i)
       PROVE  TypeInv'
  <2>1. timeoutLock' \in Seq(Intervals \cup {"stop", "disable"}) /\ pc' \in [Callers -> States]
    <3>1. CASE blockTime > 0
      <4>1. timeoutLock' = Append(timeoutLock, i) /\ pc' = [pc EXCEPT ![i] = "enabling"]
        BY <1>20, <3>1 DEF EnableMiner
      <4>2. timeoutLock' \in Seq(Intervals \cup {"stop", "disable"})
        BY <4>1, AppendIs DEF TypeInv
      <4>3. QED
        BY <4>1, <4>2 DEF TypeInv, States
    <3>2. CASE ~(blockTime > 0)
      BY <1>20, <3>2 DEF EnableMiner, TypeInv
    <3>3. QED
      BY <3>1, <3>2
  <2>2. QED
    BY <1>20, <2>1 DEF EnableMiner, TypeInv, messageVars, tipsetVars
<1>21. CASE DisableMiner
  <2>1. timeoutLock' \in Seq(Intervals \cup {"stop", "disable"})
    <3>1. timeoutLock' = Append(timeoutLock, "disable")
      BY <1>21 DEF DisableMiner
    <3>2. QED
      BY <3>1, AppendIs DEF TypeInv
  <2>2. enabled' \in BOOLEAN
    BY <1>21 DEF DisableMiner
  <2>3. switched' \in Nat
    BY <1>21 DEF DisableMiner, TypeInv
  <2>4. QED
    BY <1>21, <2>1, <2>2, <2>3 DEF DisableMiner, TypeInv, messageVars, tipsetVars
<1>22. CASE Disabled
  <2>1. timeoutLock' \in Seq(Intervals \cup {"stop", "disable"})
    BY <1>22, TailIs DEF Disabled, Holds, TypeInv
  <2>2. QED
    BY <1>22, <2>1 DEF Disabled, TypeInv, messageVars, tipsetVars
<1>23. CASE Stop
  <2>1. miningLock' \in Seq(Miners \cup {"stop"})
    BY <1>23, AppendIs DEF Stop, TypeInv
  <2>2. QED
    BY <1>23, <2>1 DEF Stop, TypeInv, messageVars, tipsetVars, timerVars
<1>24. CASE StopLocksPool
  <2>1. poolLock' \in Seq(Callers \cup {"stop"})
    BY <1>24, AppendIs DEF StopLocksPool, TypeInv
  <2>2. QED
    BY <1>24, <2>1 DEF StopLocksPool, TypeInv, messageVars, tipsetVars, timerVars
<1>25. CASE StopLocksTimeout
  <2>1. timeoutLock' \in Seq(Intervals \cup {"stop", "disable"})
    BY <1>25, AppendIs DEF StopLocksTimeout, TypeInv
  <2>2. QED
    BY <1>25, <2>1 DEF StopLocksTimeout, TypeInv, messageVars, tipsetVars, timerVars
<1>26. CASE Stopped
  BY <1>26 DEF Stopped, TypeInv, locks, messageVars, tipsetVars
<1>27. CASE Restart
  <2>1. Intervals # {}
    BY CallersAssumption
  <2>2. armed' \subseteq Intervals /\ miningTimeout' \in Intervals \cup {None}
    BY <1>27, <2>1 DEF Restart
  <2>3. pc' \in [Callers -> States]
    BY <1>27 DEF Restart, TypeInv, Callers, States
  <2>4. \A h \in latestKey + 1 .. Len(tipsets) :
          h \in DOMAIN tipsets /\ ToSet(tipsets[h].messages) \subseteq Messages
    <3>1. \A h \in latestKey + 1 .. Len(tipsets) :
            h \in DOMAIN tipsets /\ tipsets[h] \in Tipsets
      BY LengthAndDomain DEF TypeInv
    <3>2. QED
      BY <3>1, LengthAndDomain DEF ToSet, Tipsets
  <2>5. mining # None => ToSet(mining.left) \cup ToSet(mining.done) \subseteq Messages
    BY LengthAndDomain DEF TypeInv, Batches, ToSet
  <2>6. ToSet(pool) \subseteq Messages
    BY LengthAndDomain DEF TypeInv, ToSet
  <2>7. gone' \subseteq Messages
    BY <1>27, <2>4, <2>5, <2>6 DEF Restart, TypeInv
  <2>8. switched' \in Nat
    BY <1>27 DEF Restart, TypeInv
  <2>9. QED
    BY <1>27, <2>2, <2>3, <2>7, <2>8 DEF Restart, TypeInv
<1>28. CASE UNCHANGED vars
  BY <1>28 DEF vars, TypeInv, locks, messageVars, tipsetVars, timerVars
<1>29. ASSUME NEW m \in Messages, MpoolPush(m)
       PROVE  TypeInv'
  <2>1. poolLock' \in Seq(Callers \cup {"stop"})
    BY <1>29, AppendIs DEF MpoolPush, TypeInv
  <2>2. pc' \in [Callers -> States]
    BY <1>29 DEF MpoolPush, TypeInv, States
  <2>3. nonceOf' \in [Messages -> Nat \cup {None}] /\ signed' \subseteq Messages
    BY <1>29 DEF MpoolPush, TypeInv
  <2>4. QED
    BY <1>29, <2>1, <2>2, <2>3 DEF MpoolPush, TypeInv, tipsetVars, timerVars
<1>30. ASSUME NEW m \in Messages, RefuseSigned(m)
       PROVE  TypeInv'
  <2>1. pc' \in [Callers -> States]
    BY <1>30 DEF RefuseSigned, TypeInv, States
  <2>2. QED
    BY <1>30, <2>1 DEF RefuseSigned, TypeInv, locks, messageVars, tipsetVars, timerVars
<1>31. QED
  BY <1>3, <1>4, <1>5, <1>6, <1>7, <1>8, <1>9, <1>10, <1>11, <1>12, <1>13, <1>14,
     <1>15, <1>16, <1>17, <1>18, <1>19, <1>20, <1>21, <1>22, <1>23, <1>24, <1>25, <1>26,
     <1>27, <1>28, <1>29, <1>30 DEF Next, Mine

(***************************************************************************)
(* The locks.                                                              *)
(***************************************************************************)
LEMMA LockInit == Init => LockInv
<1> SUFFICES ASSUME Init
             PROVE  LockInv
  OBVIOUS
<1>1. stopping = "no" /\ \A p \in Callers : pc[p] = "idle"
  BY DEF Init, Callers
<1>2. armed \subseteq Intervals
  BY CallersAssumption DEF Init
<1>3. QED
  BY <1>1, <1>2, Names DEF LockInv

LEMMA LockNext == IInv /\ [Next]_vars => LockInv'
<1> SUFFICES ASSUME IInv, [Next]_vars
             PROVE  LockInv'
  OBVIOUS
<1>1. /\ LockInv /\ TypeInv
      /\ pc \in [Callers -> States] /\ armed \subseteq Intervals
      /\ miningLock \in Seq(Miners \cup {"stop"})
  BY DEF IInv, TypeInv
<1> USE <1>1, Names
<1>2. ASSUME NEW p \in Miners, NEW q \in Miners, Holds(miningLock, p),
             pc[q] \in {"taking", "mining"}
      PROVE  q = p
  BY <1>2 DEF LockInv, Holds
<1>3. ASSUME NEW p \in Miners, Holds(miningLock, p)
      PROVE  stopping \notin {"pool", "timeout", "stopped"}
  BY <1>3 DEF LockInv, Holds
<1>4. ASSUME UNCHANGED <<miningLock, pc, stopping>>, armed' \subseteq armed
      PROVE  LockInv'
  BY <1>4 DEF LockInv, Holds
<1>5. ASSUME NEW m \in Messages,
             Push(m) \/ GetNonce(m) \/ Refuse(m) \/ MpoolPush(m) \/ RefuseSigned(m)
      PROVE  LockInv'
  <2>1. /\ pc[m] \in {"idle", "waiting", "signing"}
        /\ \E s \in {"waiting", "signing", "sent", "refused"} : pc' = [pc EXCEPT ![m] = s]
        /\ UNCHANGED <<miningLock, stopping, armed>>
    BY <1>5 DEF Push, GetNonce, Refuse, MpoolPush, RefuseSigned, locks, timerVars
  <2>2. \A q \in Callers : q = m \/ pc'[q] = pc[q]
    BY <2>1
  <2>3. pc[MineOf[m]] = "idle"
    BY <2>1 DEF LockInv
  <2>4. QED
    BY <2>1, <2>2, <2>3 DEF LockInv, Holds
<1>6. ASSUME NEW m \in Messages, PushSigned(m)
      PROVE  LockInv'
  <2>1. pc[m] \in {"signing", "sent"} /\ UNCHANGED <<stopping, armed>>
    BY <1>6 DEF PushSigned, timerVars
  <2>2. CASE enabled /\ blockTime = 0
    <3>1. /\ pc' = [pc EXCEPT ![m] = "pushed", ![MineOf[m]] = "called"]
          /\ miningLock' = Append(miningLock, MineOf[m])
      BY <1>6, <2>2 DEF PushSigned, CallMine
    <3>2. /\ pc'[m] = "pushed" /\ pc'[MineOf[m]] = "called"
          /\ \A q \in Callers : q \in {m, MineOf[m]} \/ pc'[q] = pc[q]
      BY <3>1
    <3>3. \A p : Holds(miningLock, p) => Holds(miningLock', p)
      BY <3>1, StillHolds
    <3>4. QED
      BY <2>1, <3>2, <3>3 DEF LockInv
  <2>3. CASE ~(enabled /\ blockTime = 0)
    <3>1. pc' = [pc EXCEPT ![m] = "pushed"] /\ miningLock' = miningLock
      BY <1>6, <2>3 DEF PushSigned
    <3>2. QED
      BY <2>1, <3>1 DEF LockInv, Holds
  <2>4. QED
    BY <2>2, <2>3
<1>7. ASSUME NEW p \in Mines \cup Intervals, MineTipset(p) \/ IntervalMines(p),
             p \in Mines \/ pc[p] = "fired"
      PROVE  LockInv'
  <2>1. /\ pc' = [pc EXCEPT ![p] = "called"] /\ miningLock' = Append(miningLock, p)
        /\ UNCHANGED <<stopping, armed>>
    BY <1>7 DEF MineTipset, IntervalMines, CallMine, timerVars
  <2>2. \A q : Holds(miningLock, q) => Holds(miningLock', q)
    BY <2>1, StillHolds
  <2>3. \A q \in Callers : q = p \/ pc'[q] = pc[q]
    BY <2>1
  <2>4. pc'[p] = "called" /\ p \notin armed /\ p \notin Messages
    BY <1>7, <2>1 DEF LockInv
  <2>5. \A m \in Messages : p # MineOf[m]
    OBVIOUS
  <2>6. QED
    BY <2>1, <2>2, <2>3, <2>4, <2>5 DEF LockInv
<1>8. ASSUME NEW p \in Miners, StartMining(p) \/ TakePool(p)
      PROVE  LockInv'
  <2>1. /\ pc[p] \in {"called", "taking"}
        /\ \E s \in {"taking", "mining"} : pc' = [pc EXCEPT ![p] = s]
        /\ UNCHANGED <<miningLock, stopping, armed>>
    BY <1>8 DEF StartMining, TakePool, timerVars
  <2>2. Holds(miningLock, p)
    BY <1>8 DEF StartMining, TakePool, LockInv
  <2>3. \A q \in Callers : q = p \/ pc'[q] = pc[q]
    BY <2>1
  <2>4. QED
    BY <2>1, <2>2, <2>3 DEF LockInv, Holds
<1>9. ASSUME NEW p \in Miners, PutLatest(p)
      PROVE  LockInv'
  <2>1. /\ pc[p] = "mining" /\ pc' = [pc EXCEPT ![p] = Ended(p)]
        /\ UNCHANGED <<stopping, armed>>
    BY <1>9 DEF PutLatest, timerVars
  <2>2. Holds(miningLock, p)
    BY <2>1 DEF LockInv
  <2>3. pc'[p] \in {"mined", "done"} /\ \A q \in Callers : q = p \/ pc'[q] = pc[q]
    BY <2>1 DEF Ended
  <2>4. \A q \in Miners : pc'[q] \notin {"taking", "mining"}
    BY <1>2, <2>2, <2>3
  <2>5. stopping \notin {"pool", "timeout", "stopped"}
    BY <1>3, <2>2
  <2>6. p \notin armed
    BY <2>1 DEF LockInv
  <2>7. \A m \in Messages : p = MineOf[m] => pc[m] = "pushed"
    BY <2>1 DEF LockInv
  <2>8. QED
    BY <2>1, <2>3, <2>4, <2>5, <2>6, <2>7 DEF LockInv
<1>10. ASSUME NEW i \in Intervals, Fire(i)
       PROVE  LockInv'
  <2>1. /\ pc' = [pc EXCEPT ![i] = "fired"] /\ armed' = armed \ {i}
        /\ UNCHANGED <<miningLock, stopping>>
    BY <1>10 DEF Fire
  <2>2. \A q \in Callers : q = i \/ pc'[q] = pc[q]
    BY <2>1
  <2>3. QED
    BY <2>1, <2>2 DEF LockInv, Holds
<1>11. ASSUME NEW i \in Intervals, Rearm(i)
       PROVE  LockInv'
  <2>1. /\ pc' = [pc EXCEPT ![i] = "idle"] /\ armed' = armed \cup {i}
        /\ UNCHANGED <<miningLock, stopping>>
    BY <1>11 DEF Rearm
  <2>2. pc'[i] = "idle" /\ \A q \in Callers : q = i \/ pc'[q] = pc[q]
    BY <2>1
  <2>3. QED
    BY <2>1, <2>2 DEF LockInv, Holds
<1>12. ASSUME NEW i \in Intervals, EnableMiner(i)
       PROVE  LockInv'
  <2>1. UNCHANGED <<miningLock, stopping, armed>>
    BY <1>12 DEF EnableMiner
  <2>2. CASE blockTime > 0
    <3>1. pc' = [pc EXCEPT ![i] = "enabling"] /\ i \notin armed
      BY <1>12, <2>2 DEF EnableMiner
    <3>2. pc'[i] = "enabling" /\ \A q \in Callers : q = i \/ pc'[q] = pc[q]
      BY <3>1
    <3>3. QED
      BY <2>1, <3>1, <3>2 DEF LockInv, Holds
  <2>3. CASE ~(blockTime > 0)
    BY <1>4, <1>12, <2>1, <2>3 DEF EnableMiner
  <2>4. QED
    BY <2>2, <2>3
<1>13. CASE Stop
  <2>1. /\ miningLock' = Append(miningLock, "stop") /\ stopping' = "mining"
        /\ UNCHANGED <<pc, armed>>
    BY <1>13 DEF Stop, timerVars
  <2>2. \A q : Holds(miningLock, q) => Holds(miningLock', q)
    BY <2>1, StillHolds
  <2>3. QED
    BY <2>1, <2>2 DEF LockInv
<1>14. CASE StopLocksPool \/ StopLocksTimeout \/ Stopped
  <2>1. UNCHANGED <<miningLock, pc>> /\ armed' \subseteq armed
    BY <1>14 DEF StopLocksPool, StopLocksTimeout, Stopped, locks, timerVars
  <2>2. Holds(miningLock, "stop")
    BY <1>14 DEF StopLocksPool, StopLocksTimeout, Stopped, LockInv
  <2>3. QED
    BY <2>1, <2>2 DEF LockInv, Holds
<1>15. CASE Restart
  <2>1. stopping' = "no" /\ armed' \subseteq Intervals
    BY <1>15, CallersAssumption DEF Restart
  <2>2. \A p \in Callers : pc'[p] = IF p \in Intervals \/ pc[p] = "idle" THEN "idle" ELSE
              IF pc[p] \in {"pushed", "refused", "done"} THEN pc[p] ELSE "lost"
    BY <1>15 DEF Restart, Callers
  <2>3. \A m \in Messages : pc[MineOf[m]] # "idle" => pc'[m] = "pushed"
    BY <2>2 DEF LockInv
  <2>4. \A m \in Messages : pc'[MineOf[m]] # "idle" => pc[MineOf[m]] # "idle"
    BY <2>2
  <2>5. \A p \in Callers : pc'[p] \notin {"taking", "mining"}
    BY <2>2
  <2>6. \A i \in Intervals : pc'[i] = "idle"
    BY <2>2
  <2>7. QED
    BY <2>1, <2>3, <2>4, <2>5, <2>6 DEF LockInv
<1>16. ASSUME NEW p \in Miners, ReadSender(p) \/ LeaveOut(p) \/ Execute(p) \/ PutTipset(p)
       PROVE  LockInv'
  BY <1>4, <1>16 DEF ReadSender, LeaveOut, Execute, PutTipset, locks, timerVars
<1>17. ASSUME NEW i \in increments, IncrementReads(i) \/ IncrementWrites(i)
       PROVE  LockInv'
  BY <1>4, <1>17 DEF IncrementReads, IncrementWrites, locks, timerVars
<1>18. CASE MpoolClear \/ DisableMiner \/ Disabled \/ UNCHANGED vars
  BY <1>4, <1>18 DEF MpoolClear, DisableMiner, Disabled, vars, locks, timerVars
<1>19. ASSUME NEW i \in Intervals, IntervalMines(i)
       PROVE  LockInv'
  BY <1>7, <1>19 DEF IntervalMines
<1>20. ASSUME NEW p \in Mines, MineTipset(p)
       PROVE  LockInv'
  BY <1>7, <1>20
<1>21. QED
  BY <1>5, <1>6, <1>8, <1>9, <1>10, <1>11, <1>12, <1>13, <1>14, <1>15, <1>16, <1>17, <1>18,
     <1>19, <1>20 DEF Next, Mine

(***************************************************************************)
(* The tipsets.                                                            *)
(***************************************************************************)
LEMMA TipsetInit == Init => TipsetInv
<1> SUFFICES ASSUME Init
             PROVE  TipsetInv
  OBVIOUS
<1>1. /\ mining = None /\ tipsets = <<>> /\ latest = 0 /\ latestKey = 0
      /\ \A p \in Miners : pc[p] # "mining"
  BY DEF Init
<1>2. Len(tipsets) = 0 /\ 1 .. latest = {}
  BY <1>1
<1>3. QED
  BY <1>1, <1>2 DEF TipsetInv, Unput

\* The key is never above the latest, nor more than one below it.
LEMMA KeyIsClose ==
  ASSUME TypeInv, TipsetInv
  PROVE  latestKey \in {latest - 1, latest} /\ latestKey <= latest
<1>1. latest \in Nat /\ latestKey \in Nat
  BY DEF TypeInv
<1>2. mining # None => mining.parent \in Nat
  BY DEF TypeInv, Batches
<1>3. CASE mining = None \/ Unput
  BY <1>1, <1>3 DEF TipsetInv
<1>4. CASE mining # None /\ ~Unput
  BY <1>1, <1>2, <1>4 DEF TipsetInv
<1>5. QED
  BY <1>3, <1>4

\* Only one takes the pool or mines at a time.
LEMMA OneMines ==
  ASSUME IInv, NEW p \in Miners, NEW q \in Miners,
         pc[p] \in {"taking", "mining"}, pc[q] \in {"taking", "mining"}
  PROVE  p = q
  BY DEF IInv, LockInv, Holds

\* Whoever takes the pool finds no batch, and whoever has messages left has an unput one.
LEMMA Batch ==
  ASSUME IInv, NEW p \in Miners
  PROVE  /\ pc[p] = "taking" => mining = None
         /\ pc[p] = "mining" /\ mining.left # <<>> => Unput
         /\ pc[p] = "mining" /\ latest = mining.parent => Unput
<1>1. TipsetInv
  BY DEF IInv
<1>2. ASSUME pc[p] = "taking"
      PROVE  mining = None
  <2>1. \A q \in Miners : pc[q] # "mining"
    BY <1>2, OneMines
  <2>2. QED
    BY <1>1, <2>1 DEF TipsetInv
<1>3. pc[p] = "mining" => mining # None
  BY <1>1 DEF TipsetInv
<1>4. QED
  BY <1>1, <1>2, <1>3 DEF TipsetInv, Unput

LEMMA TipsetNext == IInv /\ [Next]_vars => TipsetInv'
<1> SUFFICES ASSUME IInv, [Next]_vars
             PROVE  TipsetInv'
  OBVIOUS
<1>1. /\ TipsetInv /\ TypeInv /\ LockInv
      /\ pc \in [Callers -> States] /\ latest \in Nat /\ latestKey \in Nat
      /\ tipsets \in Seq(Tipsets) /\ Len(tipsets) \in Nat
  BY LengthAndDomain DEF IInv, TypeInv
<1> USE <1>1, Names
<1>2. ASSUME UNCHANGED tipsetVars, \A p \in Miners : pc'[p] = "mining" <=> pc[p] = "mining"
      PROVE  TipsetInv'
  BY <1>2 DEF TipsetInv, Unput, tipsetVars
<1>3. ASSUME NEW p \in Callers, NEW s \in States \ {"mining"}, pc[p] # "mining",
             pc' = [pc EXCEPT ![p] = s], UNCHANGED tipsetVars
      PROVE  TipsetInv'
  <2>1. \A q \in Callers : pc'[q] = IF q = p THEN s ELSE pc[q]
    BY <1>3
  <2>2. QED
    BY <1>2, <1>3, <2>1
<1>4. ASSUME UNCHANGED tipsetVars, pc' = pc
      PROVE  TipsetInv'
  BY <1>2, <1>4
<1>5. ASSUME NEW m \in Messages,
             Push(m) \/ GetNonce(m) \/ Refuse(m) \/ MpoolPush(m) \/ RefuseSigned(m)
      PROVE  TipsetInv'
  <2>1. /\ pc[m] # "mining" /\ UNCHANGED tipsetVars
        /\ \E s \in States \ {"mining"} : pc' = [pc EXCEPT ![m] = s]
    BY <1>5 DEF Push, GetNonce, Refuse, MpoolPush, RefuseSigned, States
  <2>2. QED
    BY <1>3, <2>1
<1>6. ASSUME NEW m \in Messages, PushSigned(m)
      PROVE  TipsetInv'
  <2>1. UNCHANGED tipsetVars /\ pc[m] \in {"signing", "sent"}
    BY <1>6 DEF PushSigned
  <2>2. CASE enabled /\ blockTime = 0
    <3>1. pc' = [pc EXCEPT ![m] = "pushed", ![MineOf[m]] = "called"]
      BY <1>6, <2>2 DEF PushSigned
    <3>2. pc[MineOf[m]] = "idle"
      BY <2>1 DEF LockInv
    <3>3. \A p \in Miners : pc'[p] = IF p = MineOf[m] THEN "called" ELSE pc[p]
      BY <3>1
    <3>4. QED
      BY <1>2, <2>1, <3>2, <3>3
  <2>3. CASE ~(enabled /\ blockTime = 0)
    <3>1. pc' = [pc EXCEPT ![m] = "pushed"]
      BY <1>6, <2>3 DEF PushSigned
    <3>2. \A p \in Miners : pc'[p] = pc[p]
      BY <3>1
    <3>3. QED
      BY <1>2, <2>1, <3>2
  <2>4. QED
    BY <2>2, <2>3
<1>7. ASSUME NEW p \in Mines, MineTipset(p)
      PROVE  TipsetInv'
  BY <1>3, <1>7 DEF MineTipset, States
<1>8. ASSUME NEW p \in Miners, StartMining(p)
      PROVE  TipsetInv'
  BY <1>3, <1>8 DEF StartMining, States
<1>9. ASSUME NEW p \in Miners, TakePool(p)
      PROVE  TipsetInv'
  <2>1. /\ mining' = [left |-> pool, done |-> <<>>, read |-> None, parent |-> latest]
        /\ UNCHANGED <<tipsets, latest, latestKey>>
        /\ pc' = [pc EXCEPT ![p] = "mining"]
    BY <1>9 DEF TakePool
  <2>2. mining' \in Batches
    BY <2>1 DEF TypeInv, Batches
  <2>3. mining = None
    BY <1>9, Batch DEF TakePool
  <2>4. pc'[p] = "mining"
    BY <2>1
  <2>5. Unput' /\ latestKey = latest
    BY <2>1, <2>2, <2>3 DEF Unput, TipsetInv
  <2>6. QED
    BY <2>1, <2>2, <2>4, <2>5 DEF TipsetInv
<1>10. ASSUME NEW p \in Miners, ReadSender(p) \/ LeaveOut(p) \/ Execute(p)
       PROVE  TipsetInv'
  <2>1. /\ pc[p] = "mining" /\ mining.left # <<>>
        /\ UNCHANGED <<tipsets, latest, latestKey, pc>>
    BY <1>10 DEF ReadSender, LeaveOut, Execute
  <2>2. mining \in Batches /\ mining # None /\ Unput
    BY <2>1, Mining, Batch
  <2>3. mining'.parent = mining.parent /\ mining' \in Batches
    BY <1>10, ReadSenderIs, LeaveOutIs, ExecuteIs
  <2>4. Unput' /\ latestKey = latest
    BY <2>1, <2>2, <2>3 DEF Unput, TipsetInv
  <2>5. QED
    BY <2>1, <2>2, <2>3, <2>4 DEF TipsetInv
<1>11. ASSUME NEW p \in Miners, PutTipset(p)
       PROVE  TipsetInv'
  <2> DEFINE t == [parent |-> mining.parent, messages |-> mining.done]
  <2>1. /\ pc[p] = "mining" /\ mining.left = <<>> /\ latest = mining.parent
        /\ tipsets' = Stored(latest + 1, t) /\ latest' = latest + 1
        /\ UNCHANGED <<mining, latestKey, pc>>
    BY <1>11 DEF PutTipset
  <2>2. mining # None /\ Unput /\ t \in Tipsets
    BY <2>1, Mining, Batch DEF Tipsets
  <2>3. /\ Len(tipsets') = latest + 1
        /\ \A h \in 1 .. (latest + 1) :
             tipsets'[h] = IF h = latest + 1 THEN t ELSE tipsets[h]
    BY <2>1, <2>2, StoredIs DEF TipsetInv
  <2>4. ~Unput' /\ latestKey = latest
    BY <2>1, <2>2 DEF Unput, TipsetInv
  <2>5. latest + 1 \in 1 .. (latest + 1) /\ tipsets'[latest'].messages = mining.done
    BY <2>1, <2>3
  <2>6. \A h \in 1 .. latest' : tipsets'[h].parent = h - 1
    <3>1. ASSUME NEW h \in 1 .. latest'
          PROVE  tipsets'[h].parent = h - 1
      <4>1. CASE h = latest + 1
        BY <2>1, <2>3, <2>5, <4>1
      <4>2. CASE h # latest + 1
        <5>1. h \in 1 .. latest /\ h \in 1 .. (latest + 1)
          BY <2>1, <4>2
        <5>2. QED
          BY <2>3, <4>2, <5>1 DEF TipsetInv
      <4>3. QED
        BY <4>1, <4>2
    <3>2. QED
      BY <3>1
  <2>7. /\ latest' = mining'.parent + 1 /\ latestKey' = mining'.parent
        /\ mining' # None /\ mining'.left = <<>>
        /\ tipsets'[latest'].messages = mining'.done /\ latest' <= Len(tipsets')
    <3> HIDE DEF t
    <3>1. QED
      BY <2>1, <2>2, <2>3, <2>4, <2>5
  <2>8. QED
    BY <2>1, <2>2, <2>4, <2>6, <2>7 DEF TipsetInv
<1>12. ASSUME NEW p \in Miners, PutLatest(p)
       PROVE  TipsetInv'
  <2>1. /\ pc[p] = "mining" /\ mining' = None /\ latestKey' = latest
        /\ UNCHANGED <<tipsets, latest>> /\ pc' = [pc EXCEPT ![p] = Ended(p)]
    BY <1>12 DEF PutLatest
  <2>2. \A q \in Miners : pc'[q] = IF q = p THEN Ended(p) ELSE pc[q]
    BY <2>1
  <2>3. \A q \in Miners : pc'[q] # "mining"
    BY <2>1, <2>2, OneMines DEF Ended
  <2>4. QED
    BY <2>1, <2>3 DEF TipsetInv
<1>13. ASSUME NEW i \in Intervals, Fire(i) \/ IntervalMines(i) \/ Rearm(i)
       PROVE  TipsetInv'
  <2>1. pc[i] # "mining"
    BY <1>13 DEF Fire, IntervalMines, Rearm, LockInv
  <2>2. UNCHANGED tipsetVars /\ \E s \in States \ {"mining"} : pc' = [pc EXCEPT ![i] = s]
    BY <1>13 DEF Fire, IntervalMines, Rearm, States
  <2>3. QED
    BY <1>3, <2>1, <2>2
<1>14. ASSUME NEW i \in Intervals, EnableMiner(i)
       PROVE  TipsetInv'
  <2>1. UNCHANGED tipsetVars
    BY <1>14 DEF EnableMiner
  <2>2. CASE blockTime > 0
    BY <1>3, <1>14, <2>1, <2>2 DEF EnableMiner, States
  <2>3. CASE ~(blockTime > 0)
    BY <1>4, <1>14, <2>1, <2>3 DEF EnableMiner
  <2>4. QED
    BY <2>2, <2>3
<1>15. CASE Restart
  <2>1. mining' = None /\ latest' = latestKey /\ UNCHANGED <<tipsets, latestKey>>
    BY <1>15 DEF Restart
  <2>2. \A p \in Callers : pc'[p] = IF p \in Intervals \/ pc[p] = "idle" THEN "idle" ELSE
              IF pc[p] \in {"pushed", "refused", "done"} THEN pc[p] ELSE "lost"
    BY <1>15 DEF Restart, Callers
  <2>3. \A p \in Miners : pc'[p] # "mining"
    BY <2>2
  <2>4. latestKey <= latest /\ latestKey <= Len(tipsets)
    BY KeyIsClose DEF TipsetInv
  <2>5. \A h \in 1 .. latestKey : h \in 1 .. latest
    BY <2>4
  <2>6. QED
    BY <2>1, <2>3, <2>4, <2>5 DEF TipsetInv, Unput
<1>16. CASE MpoolClear \/ DisableMiner \/ Disabled \/ UNCHANGED vars
  BY <1>4, <1>16 DEF MpoolClear, DisableMiner, Disabled, vars
<1>17. CASE Stop \/ StopLocksPool \/ StopLocksTimeout \/ Stopped
  BY <1>4, <1>17 DEF Stop, StopLocksPool, StopLocksTimeout, Stopped
<1>18. ASSUME NEW i \in increments, IncrementReads(i) \/ IncrementWrites(i)
       PROVE  TipsetInv'
  BY <1>4, <1>18 DEF IncrementReads, IncrementWrites
<1>19. QED
  BY <1>5, <1>6, <1>7, <1>8, <1>9, <1>10, <1>11, <1>12, <1>13, <1>14, <1>15, <1>16, <1>17,
     <1>18 DEF Next, Mine

(***************************************************************************)
(* The nonces.                                                             *)
(***************************************************************************)
LEMMA NonceInit == Init => NonceInv
<1> SUFFICES ASSUME Init
             PROVE  NonceInv
  OBVIOUS
<1>1. pool = <<>> /\ signed = {} /\ \A m \in Messages : pc[m] = "idle"
  BY DEF Init
<1>2. QED
  BY <1>1 DEF NonceInv, PoolNoncesIncrease

LEMMA NonceNext == IInv /\ [Next]_vars => NonceInv'
<1> SUFFICES ASSUME IInv, [Next]_vars
             PROVE  NonceInv'
  OBVIOUS
<1>1. /\ NonceInv /\ TypeInv
      /\ pc \in [Callers -> States] /\ nonceOf \in [Messages -> Nat \cup {None}]
      /\ signed \subseteq Messages
      /\ pool \in Seq(Messages) /\ poolLock \in Seq(Callers \cup {"stop"})
      /\ Len(pool) \in Nat /\ DOMAIN pool = 1..Len(pool)
      /\ \A i \in DOMAIN pool : pool[i] \in Messages
  BY LengthAndDomain DEF IInv, TypeInv
<1> USE <1>1, Names
<1>2. ASSUME UNCHANGED <<pool, nonceOf, signed>>,
             \A m \in Messages : pc'[m] \in {"signing", "sent", "pushed"} => pc'[m] = pc[m],
             \A m \in Messages : pc'[m] \in {"idle", "waiting"} => pc[m] \in {"idle", "waiting"},
             \A m \in Messages : pc'[m] = "signing" => Holds(poolLock', m)
      PROVE  NonceInv'
  BY <1>2 DEF NonceInv, PoolNoncesIncrease
<1>3. ASSUME UNCHANGED <<pool, nonceOf, signed>>,
             \A m \in Messages : pc'[m] \in {"signing", "sent", "pushed"} => pc'[m] = pc[m],
             \A m \in Messages : pc'[m] \in {"idle", "waiting"} => pc[m] \in {"idle", "waiting"},
             \/ poolLock' = poolLock
             \/ \E q \in Callers \cup {"stop"} : poolLock' = Append(poolLock, q)
      PROVE  NonceInv'
  <2>1. \A q : Holds(poolLock, q) => Holds(poolLock', q)
    BY <1>3, StillHolds DEF Holds
  <2>2. QED
    BY <1>2, <1>3, <2>1 DEF NonceInv
<1>4. ASSUME NEW p \in Callers, Holds(poolLock, p),
             NEW m \in Messages, pc[m] = "signing"
      PROVE  m = p
  BY <1>4 DEF NonceInv, Holds
<1>5. ASSUME NEW m \in Messages, Push(m)
      PROVE  NonceInv'
  BY <1>3, <1>5 DEF Push, messageVars
<1>6. ASSUME NEW m \in Messages, GetNonce(m)
      PROVE  NonceInv'
  <2>1. /\ pc[m] = "waiting" /\ Holds(poolLock, m) /\ UNCHANGED <<pool, poolLock, signed>>
        /\ nonceOf' = [nonceOf EXCEPT ![m] = NextNonce(From[m])]
        /\ pc' = [pc EXCEPT ![m] = "signing"]
    BY <1>6 DEF GetNonce, locks
  <2>2. /\ NextNonce(From[m]) \in Nat
        /\ \A i \in DOMAIN pool :
             From[pool[i]] = From[m] => nonceOf[pool[i]] < NextNonce(From[m])
    BY PooledHaveNonces, NextNonceIs
  <2>3. \A i \in DOMAIN pool : pool[i] # m
    BY <2>1 DEF IInv, PlaceInv, In
  <2>4. /\ nonceOf'[m] = NextNonce(From[m])
        /\ \A n \in Messages : n # m => nonceOf'[n] = nonceOf[n] /\ pc'[n] = pc[n]
    BY <2>1
  <2>5. \A i \in DOMAIN pool : nonceOf'[pool[i]] = nonceOf[pool[i]]
    BY <2>3, <2>4
  <2>6. PoolNoncesIncrease'
    BY <2>1, <2>5 DEF NonceInv, PoolNoncesIncrease
  <2>7. \A n \in Messages :
          /\ pc'[n] \in {"signing", "sent", "pushed"} => nonceOf'[n] \in Nat
          /\ pc'[n] \in {"idle", "waiting", "signing"} => n \notin signed'
          /\ pc'[n] = "sent" => n \in signed'
    BY <2>1, <2>2, <2>4 DEF NonceInv
  <2>8. \A n \in Messages : n # m => pc'[n] # "signing"
    BY <1>4, <2>1, <2>4
  <2>9. \A n \in Messages : pc'[n] = "signing" =>
          /\ Holds(poolLock', n)
          /\ \A i \in DOMAIN pool' :
               From[pool'[i]] = From[n] => nonceOf'[pool'[i]] < nonceOf'[n]
    BY <2>1, <2>2, <2>4, <2>5, <2>8
  <2>10. QED
    BY <2>6, <2>7, <2>9 DEF NonceInv
<1>7. ASSUME NEW m \in Messages, Refuse(m)
      PROVE  NonceInv'
  <2>1. /\ Holds(poolLock, m) /\ UNCHANGED <<pool, nonceOf, signed>>
        /\ pc' = [pc EXCEPT ![m] = "refused"]
    BY <1>7 DEF Refuse, messageVars
  <2>2. \A n \in Messages : pc'[n] = IF n = m THEN "refused" ELSE pc[n]
    BY <2>1
  <2>3. QED
    BY <1>2, <1>4, <2>1, <2>2
<1>8. ASSUME NEW m \in Messages, PushSigned(m)
      PROVE  NonceInv'
  <2>1. /\ pc[m] \in {"signing", "sent"} /\ Holds(poolLock, m)
        /\ pool' = Append(pool, m) /\ UNCHANGED <<nonceOf, signed>>
    BY <1>8 DEF PushSigned
  <2>2. /\ nonceOf[m] \in Nat
        /\ m \notin signed => \A i \in DOMAIN pool :
             From[pool[i]] = From[m] => nonceOf[pool[i]] < nonceOf[m]
    BY <2>1 DEF NonceInv
  <2>3. \A n \in Messages : n # m => pc'[n] = pc[n]
    <3>1. CASE enabled /\ blockTime = 0
      BY <1>8, <3>1 DEF PushSigned
    <3>2. CASE ~(enabled /\ blockTime = 0)
      BY <1>8, <3>2 DEF PushSigned
    <3>3. QED
      BY <3>1, <3>2
  <2>4. pc'[m] = "pushed"
    <3>1. CASE enabled /\ blockTime = 0
      BY <1>8, <3>1 DEF PushSigned
    <3>2. CASE ~(enabled /\ blockTime = 0)
      BY <1>8, <3>2 DEF PushSigned
    <3>3. QED
      BY <3>1, <3>2
  <2>5. \A n \in Messages : pc'[n] # "signing"
    BY <1>4, <2>1, <2>3, <2>4
  <2>6. /\ DOMAIN pool' = 1..(Len(pool) + 1)
        /\ \A i \in 1..(Len(pool) + 1) : pool'[i] = IF i = Len(pool) + 1 THEN m ELSE pool[i]
    BY <2>1, AppendIs
  <2>7. PoolNoncesIncrease'
    <3>1. ASSUME NEW i \in DOMAIN pool', NEW j \in DOMAIN pool', i < j,
                 From[pool'[i]] = From[pool'[j]], pool'[j] \notin signed
          PROVE  nonceOf[pool'[i]] < nonceOf[pool'[j]]
      <4>1. i \in DOMAIN pool /\ pool'[i] = pool[i]
        BY <2>6, <3>1
      <4>2. CASE j = Len(pool) + 1
        BY <2>2, <2>6, <3>1, <4>1, <4>2
      <4>3. CASE j # Len(pool) + 1
        <5>1. j \in DOMAIN pool /\ pool'[j] = pool[j]
          BY <2>6, <4>3
        <5>2. QED
          BY <3>1, <4>1, <5>1 DEF NonceInv, PoolNoncesIncrease
      <4>4. QED
        BY <4>2, <4>3
    <3>2. QED
      BY <2>1, <3>1 DEF PoolNoncesIncrease
  <2>8. \A n \in Messages :
          /\ pc'[n] \in {"signing", "sent", "pushed"} => nonceOf'[n] \in Nat
          /\ pc'[n] \in {"idle", "waiting", "signing"} => n \notin signed'
          /\ pc'[n] = "sent" => n \in signed'
    BY <2>1, <2>2, <2>3, <2>4 DEF NonceInv
  <2>9. QED
    BY <2>5, <2>7, <2>8 DEF NonceInv
<1>9. CASE MpoolClear
  <2>1. pool' = <<>> /\ UNCHANGED <<nonceOf, signed, pc, poolLock>>
    BY <1>9 DEF MpoolClear, locks
  <2>2. QED
    BY <2>1 DEF NonceInv, PoolNoncesIncrease, Holds
<1>10. ASSUME NEW p \in Miners, TakePool(p)
       PROVE  NonceInv'
  <2>1. /\ Holds(poolLock, p) /\ pool' = <<>> /\ UNCHANGED <<nonceOf, signed>>
        /\ pc' = [pc EXCEPT ![p] = "mining"]
    BY <1>10 DEF TakePool, Emptied
  <2>2. \A m \in Messages : pc'[m] = pc[m] /\ pc[m] # "signing"
    BY <1>4, <2>1
  <2>3. QED
    BY <2>1, <2>2 DEF NonceInv, PoolNoncesIncrease
<1>11. ASSUME NEW p \in Miners, MineTipset(p) \/ StartMining(p) \/ PutLatest(p)
       PROVE  NonceInv'
  <2>1. /\ UNCHANGED <<pool, nonceOf, signed>> /\ \E s \in States : pc' = [pc EXCEPT ![p] = s]
        /\ poolLock' = poolLock \/ poolLock' = Append(poolLock, p)
    BY <1>11 DEF MineTipset, StartMining, PutLatest, messageVars, Ended, States
  <2>2. \A m \in Messages : pc'[m] = pc[m]
    BY <2>1
  <2>3. QED
    BY <1>3, <2>1, <2>2
<1>12. ASSUME NEW p \in Miners, ReadSender(p) \/ LeaveOut(p) \/ Execute(p) \/ PutTipset(p)
       PROVE  NonceInv'
  BY <1>3, <1>12 DEF ReadSender, LeaveOut, Execute, PutTipset, locks, messageVars
<1>13. ASSUME NEW i \in increments, IncrementReads(i) \/ IncrementWrites(i)
       PROVE  NonceInv'
  BY <1>3, <1>13 DEF IncrementReads, IncrementWrites, locks
<1>14. ASSUME NEW i \in Intervals, Fire(i) \/ IntervalMines(i) \/ Rearm(i)
       PROVE  NonceInv'
  <2>1. /\ UNCHANGED <<pool, nonceOf, signed, poolLock>>
        /\ \E s \in States : pc' = [pc EXCEPT ![i] = s]
    BY <1>14 DEF Fire, IntervalMines, Rearm, messageVars, States
  <2>2. \A m \in Messages : pc'[m] = pc[m]
    BY <2>1
  <2>3. QED
    BY <1>3, <2>1, <2>2
<1>15. ASSUME NEW i \in Intervals, EnableMiner(i)
       PROVE  NonceInv'
  <2>1. UNCHANGED <<pool, nonceOf, signed, poolLock>>
    BY <1>15 DEF EnableMiner, messageVars
  <2>2. pc' = pc \/ pc' = [pc EXCEPT ![i] = "enabling"]
    BY <1>15 DEF EnableMiner
  <2>3. \A m \in Messages : pc'[m] = pc[m]
    BY <2>2
  <2>4. QED
    BY <1>3, <2>1, <2>3
<1>16. CASE DisableMiner \/ Disabled \/ UNCHANGED vars
  BY <1>3, <1>16 DEF DisableMiner, Disabled, vars, locks, messageVars
<1>17. CASE Stop \/ StopLocksPool \/ StopLocksTimeout \/ Stopped
  BY <1>3, <1>17 DEF Stop, StopLocksPool, StopLocksTimeout, Stopped, locks, messageVars
<1>18. CASE Restart
  <2>1. pool' = <<>> /\ UNCHANGED <<nonceOf, signed>>
    BY <1>18 DEF Restart
  <2>2. \A p \in Callers : pc'[p] = IF p \in Intervals \/ pc[p] = "idle" THEN "idle" ELSE
              IF pc[p] \in {"pushed", "refused", "done"} THEN pc[p] ELSE "lost"
    BY <1>18 DEF Restart, Callers
  <2>3. \A m \in Messages : /\ pc'[m] \notin {"waiting", "signing", "sent"}
                            /\ pc'[m] = "pushed" => pc[m] = "pushed"
                            /\ pc'[m] = "idle" => pc[m] = "idle"
    BY <2>2
  <2>4. PoolNoncesIncrease'
    BY <2>1 DEF PoolNoncesIncrease
  <2>5. \A m \in Messages : pc[m] = "pushed" => nonceOf[m] \in Nat
    BY DEF NonceInv
  <2>6. \A m \in Messages :
          /\ pc'[m] \in {"signing", "sent", "pushed"} => nonceOf'[m] \in Nat
          /\ pc'[m] \in {"idle", "waiting", "signing"} => m \notin signed'
    BY <2>1, <2>3, <2>5 DEF NonceInv
  <2>7. \A m \in Messages : pc'[m] \notin {"signing", "sent"}
    BY <2>3
  <2>8. QED
    BY <2>4, <2>6, <2>7 DEF NonceInv
<1>19. ASSUME NEW m \in Messages, MpoolPush(m)
       PROVE  NonceInv'
  <2>1. PICK n \in GivenNonces : nonceOf' = [nonceOf EXCEPT ![m] = n]
    BY <1>19 DEF MpoolPush
  <2>2. /\ pc[m] = "idle" /\ pc' = [pc EXCEPT ![m] = "sent"] /\ UNCHANGED pool
        /\ signed' = signed \cup {m} /\ poolLock' = Append(poolLock, m)
    BY <1>19 DEF MpoolPush
  <2>3. \A i \in DOMAIN pool : pool[i] # m
    BY <2>2 DEF IInv, PlaceInv, In
  <2>4. /\ nonceOf'[m] \in Nat /\ pc'[m] = "sent" /\ m \in signed'
        /\ \A o \in Messages : o # m =>
             /\ nonceOf'[o] = nonceOf[o] /\ pc'[o] = pc[o]
             /\ o \in signed' <=> o \in signed
    BY <2>1, <2>2
  <2>5. \A i \in DOMAIN pool :
          nonceOf'[pool[i]] = nonceOf[pool[i]] /\ (pool[i] \in signed' <=> pool[i] \in signed)
    BY <2>3, <2>4
  <2>6. PoolNoncesIncrease'
    BY <2>2, <2>5 DEF NonceInv, PoolNoncesIncrease
  <2>7. \A o \in Messages :
          /\ pc'[o] \in {"signing", "sent", "pushed"} => nonceOf'[o] \in Nat
          /\ pc'[o] \in {"idle", "waiting", "signing"} => o \notin signed'
          /\ pc'[o] = "sent" => o \in signed'
    BY <2>4 DEF NonceInv
  <2>8. \A q : Holds(poolLock, q) => Holds(poolLock', q)
    BY <2>2, StillHolds
  <2>9. \A o \in Messages : pc'[o] = "signing" =>
          /\ Holds(poolLock', o)
          /\ \A i \in DOMAIN pool' :
               From[pool'[i]] = From[o] => nonceOf'[pool'[i]] < nonceOf'[o]
    <3>1. ASSUME NEW o \in Messages, pc'[o] = "signing"
          PROVE  o # m /\ pc[o] = "signing" /\ nonceOf'[o] = nonceOf[o]
      BY <2>4, <3>1
    <3>2. QED
      BY <2>2, <2>5, <2>8, <3>1 DEF NonceInv
  <2>10. QED
    BY <2>6, <2>7, <2>9 DEF NonceInv
<1>20. ASSUME NEW m \in Messages, RefuseSigned(m)
       PROVE  NonceInv'
  BY <1>3, <1>20 DEF RefuseSigned, locks, messageVars
<1>21. QED
  BY <1>5, <1>6, <1>7, <1>8, <1>9, <1>10, <1>11, <1>12, <1>13, <1>14, <1>15, <1>16, <1>17,
     <1>18, <1>19, <1>20 DEF Next, Mine

(***************************************************************************)
(* The places of the messages.                                             *)
(***************************************************************************)
LEMMA PlaceInit == Init => PlaceInv
<1> SUFFICES ASSUME Init
             PROVE  PlaceInv
  OBVIOUS
<1>1. /\ pool = <<>> /\ mining = None /\ gone = {} /\ tipsets = <<>> /\ latest = 0
      /\ \A m \in Messages : pc[m] = "idle"
  BY DEF Init
<1>2. 1 .. latest = {} /\ (latest + 1) .. Len(tipsets) = {}
  BY <1>1
<1>3. QED
  BY <1>1, <1>2, EmptyPlaces DEF PlaceInv, InBatch, InChain, Unput

\* A restart loses what is in the pool, in the batch and in the tipsets above the key.
LEMMA RestartPlaces ==
  ASSUME IInv, Restart
  PROVE  PlaceInv'
<1>1. /\ PlaceInv /\ TypeInv /\ TipsetInv
      /\ pc \in [Callers -> States] /\ latest \in Nat /\ latestKey \in Nat
      /\ Len(tipsets) \in Nat /\ latest <= Len(tipsets)
      /\ latestKey \in {latest - 1, latest} /\ latestKey <= latest
  BY KeyIsClose, LengthAndDomain DEF IInv, TypeInv, TipsetInv
<1>2. /\ pool' = <<>> /\ mining' = None /\ latest' = latestKey /\ UNCHANGED tipsets
      /\ gone' = gone \cup ToSet(pool)
             \cup (IF mining = None THEN {} ELSE ToSet(mining.left) \cup ToSet(mining.done))
             \cup UNION {ToSet(tipsets[h].messages) : h \in latestKey + 1 .. Len(tipsets)}
  BY DEF Restart
<1> DEFINE Batched(m) == mining # None /\ (In(m, mining.left) \/ In(m, mining.done))
           Above(m) == \E h \in latestKey + 1 .. Len(tipsets) : InTipset(m, h)
<1>3. \A m : m \in gone' <=> m \in gone \/ In(m, pool) \/ Batched(m) \/ Above(m)
  BY <1>2, ToSetPlaces DEF InTipset
<1> HIDE DEF Batched, Above
<1>4. \A m \in Messages : pc'[m] = "pushed" <=> pc[m] = "pushed"
  <2>1. \A m \in Messages : m \in Messages \cup Miners /\ m \notin Intervals
    BY Names
  <2>2. \A m \in Messages :
          pc'[m] = IF pc[m] = "idle" THEN "idle" ELSE
                   IF pc[m] \in {"pushed", "refused", "done"} THEN pc[m] ELSE "lost"
    BY <2>1 DEF Restart
  <2>3. QED
    BY <2>2
<1>5. \A m : ~InBatch(m)' /\ ~In(m, pool')
  BY <1>2, EmptyPlaces DEF InBatch, Unput
<1>6. /\ \A h \in 1 .. latest : h \in 1 .. latestKey \/ h \in latestKey + 1 .. Len(tipsets)
      /\ \A h \in 1 .. latestKey : h \in 1 .. latest
      /\ \A h \in latestKey + 1 .. Len(tipsets) :
           /\ h \notin 1 .. latestKey
           /\ h \in 1 .. latest \/ h \in (latest + 1) .. Len(tipsets)
  BY <1>1
<1>7. \A m \in Messages : Batched(m) => InBatch(m) \/ (InTipset(m, latest) /\ Above(m))
  <2>1. ASSUME NEW m \in Messages, Batched(m), ~Unput
        PROVE  InTipset(m, latest) /\ Above(m)
    <3>1. /\ mining # None /\ mining.left = <<>> /\ tipsets[latest].messages = mining.done
          /\ latest = mining.parent + 1 /\ latestKey = mining.parent
      BY <1>1, <2>1 DEF TipsetInv, Batched
    <3>2. In(m, mining.done)
      BY <2>1, <3>1, EmptyPlaces DEF Batched
    <3>3. latest \in latestKey + 1 .. Len(tipsets)
      BY <1>1, <3>1
    <3>4. QED
      BY <3>1, <3>2, <3>3 DEF InTipset, Above
  <2>2. QED
    BY <2>1 DEF Batched, InBatch
<1>8. \A m \in Messages : Above(m) => InChain(m) \/ m \in gone
  BY <1>1, <1>6 DEF Above, InChain, PlaceInv
<1>9. \A m \in Messages : InChain(m) <=> InChain(m)' \/ (InChain(m) /\ Above(m))
  BY <1>2, <1>6 DEF InChain, InTipset, Above
<1>10. \A m \in Messages : InChain(m)' => InChain(m) /\ ~Above(m)
  <2>1. ASSUME NEW m \in Messages, NEW h \in 1 .. latestKey, InTipset(m, h)
        PROVE  InChain(m) /\ ~Above(m)
    <3>1. InChain(m) /\ m \notin gone
      BY <1>1, <1>6, <2>1 DEF InChain, PlaceInv
    <3>2. ASSUME NEW k \in latestKey + 1 .. Len(tipsets), InTipset(m, k)
          PROVE  FALSE
      <4>1. CASE k \in 1 .. latest
        BY <1>1, <1>6, <2>1, <3>2, <4>1 DEF PlaceInv
      <4>2. CASE k \in (latest + 1) .. Len(tipsets)
        BY <1>1, <3>1, <3>2, <4>2 DEF PlaceInv
      <4>3. QED
        BY <1>6, <4>1, <4>2
    <3>3. QED
      BY <3>1, <3>2 DEF Above
  <2>2. QED
    BY <1>2, <2>1 DEF InChain, InTipset
<1>11. \A m \in Messages :
         pc[m] = "pushed" <=> In(m, pool) \/ InBatch(m) \/ InChain(m) \/ m \in gone
  BY <1>1 DEF PlaceInv
<1>12. \A m \in Messages : InBatch(m) => Batched(m)
  BY DEF InBatch, Batched, Unput
<1>13. \A m \in Messages : pc'[m] = "pushed" <=> InChain(m)' \/ m \in gone'
  BY <1>3, <1>4, <1>7, <1>8, <1>9, <1>10, <1>11, <1>12
<1>14. \A m \in Messages : InChain(m)' => m \notin gone'
  BY <1>1, <1>3, <1>7, <1>10 DEF PlaceInv
<1>15. \A m \in Messages : \A h, k \in 1 .. latest' :
         InTipset(m, h)' /\ InTipset(m, k)' => h = k
  BY <1>1, <1>2, <1>6 DEF PlaceInv, InTipset
<1>16. \A m \in Messages : \A h \in (latest' + 1) .. Len(tipsets') :
         InTipset(m, h)' => m \in gone'
  BY <1>2, <1>3 DEF InTipset, Above
<1>17. Once(pool') /\ ~Unput'
  BY <1>2, EmptyPlaces DEF Unput
<1>18. QED
  BY <1>5, <1>13, <1>14, <1>15, <1>16, <1>17 DEF PlaceInv

LEMMA PlaceNext == IInv /\ [Next]_vars => PlaceInv'
<1> SUFFICES ASSUME IInv, [Next]_vars
             PROVE  PlaceInv'
  OBVIOUS
<1>1. /\ PlaceInv /\ TypeInv /\ TipsetInv
      /\ pc \in [Callers -> States] /\ pool \in Seq(Messages)
      /\ latest \in Nat /\ latestKey \in Nat
      /\ tipsets \in Seq(Tipsets) /\ Len(tipsets) \in Nat
  BY LengthAndDomain DEF IInv, TypeInv
<1> USE <1>1, Names
<1>2. ASSUME UNCHANGED <<pool, gone, mining, tipsets, latest>>,
             \A m \in Messages : pc'[m] = "pushed" <=> pc[m] = "pushed"
      PROVE  PlaceInv'
  BY <1>2 DEF PlaceInv, InBatch, InChain, InTipset, Unput
<1>3. ASSUME NEW p \in Callers, NEW s \in States \ {"pushed"},
             p \in Messages => pc[p] # "pushed",
             UNCHANGED <<pool, gone, mining, tipsets, latest>>, pc' = [pc EXCEPT ![p] = s]
      PROVE  PlaceInv'
  <2>1. \A m \in Messages : pc'[m] = IF m = p THEN s ELSE pc[m]
    BY <1>3
  <2>2. QED
    BY <1>2, <1>3, <2>1
<1>4. ASSUME UNCHANGED <<pool, gone, mining, tipsets, latest, pc>>
      PROVE  PlaceInv'
  BY <1>2, <1>4
<1>5. ASSUME NEW m \in Messages,
             Push(m) \/ GetNonce(m) \/ Refuse(m) \/ MpoolPush(m) \/ RefuseSigned(m)
      PROVE  PlaceInv'
  <2>1. /\ pc[m] # "pushed" /\ UNCHANGED <<pool, gone, mining, tipsets, latest>>
        /\ \E s \in States \ {"pushed"} : pc' = [pc EXCEPT ![m] = s]
    BY <1>5 DEF Push, GetNonce, Refuse, MpoolPush, RefuseSigned, States, messageVars,
                tipsetVars
  <2>2. QED
    BY <1>3, <2>1
<1>6. ASSUME NEW m \in Messages, PushSigned(m)
      PROVE  PlaceInv'
  <2>1. /\ pc[m] \in {"signing", "sent"} /\ pool' = Append(pool, m)
        /\ UNCHANGED <<gone, mining, tipsets, latest>>
    BY <1>6 DEF PushSigned, tipsetVars
  <2>2. \A n \in Messages : pc'[n] = IF n = m THEN "pushed" ELSE pc[n]
    <3>1. CASE enabled /\ blockTime = 0
      BY <1>6, <3>1 DEF PushSigned
    <3>2. CASE ~(enabled /\ blockTime = 0)
      BY <1>6, <3>2 DEF PushSigned
    <3>3. QED
      BY <3>1, <3>2
  <2>3. ~In(m, pool) /\ ~InBatch(m) /\ ~InChain(m) /\ m \notin gone
    BY <2>1 DEF PlaceInv
  <2>4. Once(pool') /\ \A n : In(n, pool') <=> In(n, pool) \/ n = m
    BY <2>1, <2>3, AppendPlaces DEF PlaceInv
  <2>5. Unput' = Unput /\ \A n : InBatch(n)' = InBatch(n) /\ InChain(n)' = InChain(n)
    BY <2>1 DEF Unput, InBatch, InChain, InTipset
  <2>6. QED
    BY <2>1, <2>2, <2>3, <2>4, <2>5 DEF PlaceInv, InTipset
<1>7. CASE MpoolClear
  <2>1. /\ pool' = <<>> /\ gone' = gone \cup ToSet(pool)
        /\ UNCHANGED <<mining, tipsets, latest, pc>>
    BY <1>7 DEF MpoolClear, tipsetVars
  <2>2. \A m : m \in gone' <=> m \in gone \/ In(m, pool)
    BY <2>1, ToSetPlaces
  <2>3. Once(pool') /\ \A m : ~In(m, pool')
    BY <2>1, EmptyPlaces
  <2>4. Unput' = Unput /\ \A m : InBatch(m)' = InBatch(m) /\ InChain(m)' = InChain(m)
    BY <2>1 DEF Unput, InBatch, InChain, InTipset
  <2>5. QED
    BY <2>1, <2>2, <2>3, <2>4 DEF PlaceInv, InTipset
<1>8. ASSUME NEW p \in Miners, TakePool(p)
      PROVE  PlaceInv'
  <2>1. /\ mining' = [left |-> pool, done |-> <<>>, read |-> None, parent |-> latest]
        /\ pool' = <<>> /\ UNCHANGED <<gone, tipsets, latest>>
        /\ pc' = [pc EXCEPT ![p] = "mining"]
    BY <1>8 DEF TakePool, Emptied
  <2>2. mining = None
    BY <1>8, Batch DEF TakePool
  <2>3. mining' \in Batches
    BY <2>1 DEF Batches
  <2>4. Unput' /\ mining'.left = pool /\ mining'.done = <<>>
    BY <2>1, <2>3 DEF Unput
  <2>5. \A m : ~InBatch(m) /\ (InBatch(m)' <=> In(m, pool)) /\ InChain(m)' = InChain(m)
    BY <2>1, <2>2, <2>4, EmptyPlaces DEF InBatch, Unput, InChain, InTipset
  <2>6. \A m \in Messages : pc'[m] = pc[m]
    BY <2>1
  <2>7. Once(mining'.left) /\ Once(mining'.done) /\ Once(pool')
        /\ \A m : ~In(m, pool') /\ ~In(m, mining'.done)
    BY <2>1, <2>4, EmptyPlaces DEF PlaceInv
  <2>8. QED
    BY <2>1, <2>5, <2>6, <2>7 DEF PlaceInv, InTipset
<1>9. ASSUME NEW p \in Miners, ReadSender(p)
      PROVE  PlaceInv'
  <2>1. /\ UNCHANGED <<pool, gone, tipsets, latest, pc>> /\ mining # None /\ mining' # None
        /\ mining'.left = mining.left /\ mining'.done = mining.done
        /\ mining'.parent = mining.parent
    BY <1>9, ReadSenderIs, Mining DEF ReadSender, messageVars
  <2>2. Unput' = Unput /\ \A m : InBatch(m)' = InBatch(m) /\ InChain(m)' = InChain(m)
    BY <2>1 DEF Unput, InBatch, InChain, InTipset
  <2>3. QED
    BY <2>1, <2>2 DEF PlaceInv, InTipset
<1>10. ASSUME NEW p \in Miners, LeaveOut(p) \/ Execute(p)
       PROVE  PlaceInv'
  <2>0. PICK first \in Messages : first = Head(mining.left)
    BY <1>10, LeaveOutIs, ExecuteIs
  <2>1. /\ UNCHANGED <<pool, tipsets, latest, pc>> /\ pc[p] = "mining" /\ mining.left # <<>>
        /\ \/ gone' = gone \cup {first} /\ mining'.done = mining.done
           \/ gone' = gone /\ mining'.done = Append(mining.done, first)
    BY <1>10, <2>0, LeaveOutIs, ExecuteIs DEF LeaveOut, Execute
  <2>2. /\ mining' # None
        /\ mining'.left = Tail(mining.left) /\ mining'.parent = mining.parent
    BY <1>10, LeaveOutIs, ExecuteIs
  <2>3. /\ Unput /\ Unput' /\ mining.left \in Seq(Messages) /\ mining.done \in Seq(Messages)
    BY <2>1, <2>2, Mining, Batch DEF Unput
  <2>4. /\ \A m : In(m, mining.left) <=> m = first \/ In(m, mining'.left)
        /\ Once(mining'.left) /\ ~In(first, mining'.left)
    BY <2>0, <2>1, <2>2, <2>3, TailPlaces DEF PlaceInv
  <2>5. ~In(first, mining.done) /\ Once(mining.done)
    BY <2>2, <2>3, <2>4 DEF PlaceInv
  <2>6. \A m : InChain(m)' = InChain(m)
    BY <2>1 DEF InChain, InTipset
  <2>7. CASE gone' = gone \cup {first} /\ mining'.done = mining.done
    <3>1. \A m : InBatch(m) <=> InBatch(m)' \/ m = first
      BY <2>3, <2>4, <2>7 DEF InBatch
    <3>2. ~InBatch(first)'
      BY <2>4, <2>5, <2>7 DEF InBatch
    <3>3. QED
      BY <2>1, <2>2, <2>3, <2>4, <2>5, <2>6, <2>7, <3>1, <3>2 DEF PlaceInv, InTipset
  <2>8. CASE gone' = gone /\ mining'.done = Append(mining.done, first)
    <3>1. Once(mining'.done) /\ \A m : In(m, mining'.done) <=> In(m, mining.done) \/ m = first
      BY <2>2, <2>3, <2>5, <2>8, AppendPlaces
    <3>2. \A m : InBatch(m)' <=> InBatch(m)
      BY <2>3, <2>4, <3>1 DEF InBatch
    <3>3. \A m \in Messages : ~(In(m, mining'.left) /\ In(m, mining'.done))
      BY <2>3, <2>4, <3>1 DEF PlaceInv
    <3>4. QED
      BY <2>1, <2>3, <2>4, <2>6, <2>8, <3>1, <3>2, <3>3 DEF PlaceInv, InTipset
  <2>9. QED
    BY <2>1, <2>7, <2>8
<1>11. ASSUME NEW p \in Miners, PutTipset(p)
       PROVE  PlaceInv'
  <2> DEFINE t == [parent |-> mining.parent, messages |-> mining.done]
  <2>1. /\ pc[p] = "mining" /\ mining.left = <<>> /\ latest = mining.parent
        /\ tipsets' = Stored(latest + 1, t) /\ latest' = latest + 1
        /\ UNCHANGED <<mining, pool, gone, pc>>
    BY <1>11 DEF PutTipset, messageVars
  <2>2. Unput /\ ~Unput' /\ t \in Tipsets /\ t.messages = mining.done
    BY <2>1, Mining, Batch DEF Tipsets, Unput
  <2>3. /\ Len(tipsets') = latest + 1
        /\ \A h \in 1 .. (latest + 1) :
             tipsets'[h] = IF h = latest + 1 THEN t ELSE tipsets[h]
    BY <2>1, <2>2, StoredIs DEF TipsetInv
  <2> HIDE DEF t
  <2>4. \A h \in 1 .. (latest + 1) : h = latest + 1 \/ h \in 1 .. latest
    OBVIOUS
  <2>5. /\ latest + 1 \in 1 .. (latest + 1) /\ latest + 1 \notin 1 .. latest
        /\ \A h \in 1 .. latest : h \in 1 .. (latest + 1)
        /\ (latest' + 1) .. Len(tipsets') = {}
    BY <2>1, <2>3
  <2>6. \A m : \A h \in 1 .. (latest + 1) :
          InTipset(m, h)' <=> IF h = latest + 1 THEN In(m, mining.done) ELSE InTipset(m, h)
    BY <2>2, <2>3, <2>5 DEF InTipset
  <2>7. \A m : InBatch(m) <=> In(m, mining.done)
    BY <2>1, <2>2, EmptyPlaces DEF InBatch
  <2>8. \A m : ~InBatch(m)' /\ (InChain(m)' <=> InChain(m) \/ InBatch(m))
    <3>1. \A m : InChain(m)' <=> \E h \in 1 .. (latest + 1) : InTipset(m, h)'
      BY <2>1 DEF InChain
    <3>2. \A m : InChain(m)' <=> InChain(m) \/ In(m, mining.done)
      BY <2>4, <2>5, <2>6, <3>1 DEF InChain
    <3>3. QED
      BY <2>2, <2>7, <3>2 DEF InBatch
  <2>9. \A m \in Messages : \A h, k \in 1 .. latest' :
          InTipset(m, h)' /\ InTipset(m, k)' => h = k
    <3>1. ASSUME NEW m \in Messages, NEW h \in 1 .. (latest + 1), NEW k \in 1 .. (latest + 1),
                 InTipset(m, h)', InTipset(m, k)'
          PROVE  h = k
      <4>1. CASE In(m, mining.done)
        <5>1. \A i \in 1 .. latest : ~InTipset(m, i)
          BY <2>7, <4>1 DEF PlaceInv, InChain
        <5>2. QED
          BY <2>4, <2>5, <2>6, <3>1, <5>1
      <4>2. CASE ~In(m, mining.done)
        BY <2>4, <2>5, <2>6, <3>1, <4>2 DEF PlaceInv
      <4>3. QED
        BY <4>1, <4>2
    <3>2. QED
      BY <2>1, <3>1
  <2>10. QED
    BY <2>1, <2>2, <2>5, <2>8, <2>9 DEF PlaceInv
<1>12. ASSUME NEW p \in Miners, PutLatest(p)
       PROVE  PlaceInv'
  <2>1. /\ mining' = None /\ latest = mining.parent + 1 /\ pc[p] = "mining"
        /\ UNCHANGED <<pool, gone, tipsets, latest>> /\ pc' = [pc EXCEPT ![p] = Ended(p)]
    BY <1>12 DEF PutLatest, messageVars
  <2>2. ~Unput /\ ~Unput'
    BY <2>1, Mining DEF Unput
  <2>3. \A m \in Messages : pc'[m] = pc[m]
    BY <2>1
  <2>4. \A m : ~InBatch(m) /\ ~InBatch(m)' /\ InChain(m)' = InChain(m)
    BY <2>1, <2>2 DEF InBatch, InChain, InTipset
  <2>5. QED
    BY <2>1, <2>2, <2>3, <2>4 DEF PlaceInv, InTipset
<1>13. ASSUME NEW p \in Miners, MineTipset(p) \/ StartMining(p)
       PROVE  PlaceInv'
  BY <1>3, <1>13 DEF MineTipset, StartMining, States, messageVars, tipsetVars
<1>14. ASSUME NEW i \in Intervals, Fire(i) \/ IntervalMines(i) \/ Rearm(i)
       PROVE  PlaceInv'
  <2>1. /\ UNCHANGED <<pool, gone, mining, tipsets, latest>>
        /\ \E s \in States \ {"pushed"} : pc' = [pc EXCEPT ![i] = s]
    BY <1>14 DEF Fire, IntervalMines, Rearm, States, messageVars, tipsetVars
  <2>2. QED
    BY <1>3, <2>1
<1>15. ASSUME NEW i \in Intervals, EnableMiner(i)
       PROVE  PlaceInv'
  <2>1. UNCHANGED <<pool, gone, mining, tipsets, latest>>
    BY <1>15 DEF EnableMiner, messageVars, tipsetVars
  <2>2. pc' = pc \/ pc' = [pc EXCEPT ![i] = "enabling"]
    BY <1>15 DEF EnableMiner
  <2>3. \A m \in Messages : pc'[m] = pc[m]
    BY <2>2
  <2>4. QED
    BY <1>2, <2>1, <2>3
<1>16. CASE DisableMiner \/ Disabled \/ UNCHANGED vars
  BY <1>4, <1>16 DEF DisableMiner, Disabled, vars, messageVars, tipsetVars
<1>17. CASE Stop \/ StopLocksPool \/ StopLocksTimeout \/ Stopped
  BY <1>4, <1>17 DEF Stop, StopLocksPool, StopLocksTimeout, Stopped, messageVars, tipsetVars
<1>18. ASSUME NEW i \in increments, IncrementReads(i) \/ IncrementWrites(i)
       PROVE  PlaceInv'
  BY <1>4, <1>18 DEF IncrementReads, IncrementWrites, tipsetVars
<1>19. CASE Restart
  BY <1>19, RestartPlaces
<1>20. QED
  BY <1>5, <1>6, <1>7, <1>8, <1>9, <1>10, <1>11, <1>12, <1>13, <1>14, <1>15, <1>16, <1>17,
     <1>18, <1>19 DEF Next, Mine

(***************************************************************************)
(* The inductive invariant holds in every reachable state.                 *)
(***************************************************************************)
THEOREM Invariance == Spec => []IInv
<1>1. Init => IInv
  BY TypeInit, LockInit, TipsetInit, NonceInit, PlaceInit DEF IInv
<1>2. IInv /\ [Next]_vars => IInv'
  BY TypeNext, LockNext, TipsetNext, NonceNext, PlaceNext DEF IInv
<1>3. QED
  BY <1>1, <1>2, PTL DEF Spec

(***************************************************************************)
(* Counting the places of a message.                                       *)
(***************************************************************************)
LEMMA SizeOfOne ==
  ASSUME NEW D, \A i, j \in D : i = j
  PROVE  Cardinality(D) = IF D = {} THEN 0 ELSE 1
<1>1. CASE D = {}
  BY <1>1, FS_EmptySet
<1>2. CASE D # {}
  <2>1. PICK d \in D : TRUE
    BY <1>2
  <2>2. D = {d}
    BY <2>1
  <2>3. QED
    BY <1>2, <2>2, FS_Singleton
<1>3. QED
  BY <1>1, <1>2

LEMMA OnceCounts ==
  ASSUME NEW s, Once(s), NEW e
  PROVE  Cardinality({i \in DOMAIN s : s[i] = e}) = IF In(e, s) THEN 1 ELSE 0
<1> DEFINE D == {i \in DOMAIN s : s[i] = e}
<1>1. \A i, j \in D : i = j
  BY DEF Once
<1>2. D = {} <=> ~In(e, s)
  BY DEF In
<1> HIDE DEF D
<1>3. Cardinality(D) = IF In(e, s) THEN 1 ELSE 0
  BY <1>1, <1>2, SizeOfOne
<1>4. QED
  BY <1>3 DEF D

LEMMA ConcatPlaces ==
  ASSUME NEW S, NEW s \in Seq(S), NEW t \in Seq(S), Once(s), Once(t),
         \A e \in S : ~(In(e, s) /\ In(e, t))
  PROVE  Once(s \o t) /\ \A e : In(e, s \o t) <=> In(e, s) \/ In(e, t)
<1>1. /\ Len(s) \in Nat /\ DOMAIN s = 1..Len(s) /\ \A i \in 1..Len(s) : s[i] \in S
      /\ Len(t) \in Nat /\ DOMAIN t = 1..Len(t) /\ \A i \in 1..Len(t) : t[i] \in S
  BY LengthAndDomain
<1>2. /\ s \o t \in Seq(S) /\ Len(s \o t) = Len(s) + Len(t)
      /\ \A i \in 1..(Len(s) + Len(t)) :
           (s \o t)[i] = IF i <= Len(s) THEN s[i] ELSE t[i - Len(s)]
  BY ConcatProperties
<1>3. DOMAIN (s \o t) = 1..(Len(s) + Len(t))
  BY <1>2, LengthAndDomain
<1>4. \A i \in DOMAIN (s \o t) :
        \/ i <= Len(s) /\ i \in DOMAIN s /\ (s \o t)[i] = s[i]
        \/ i > Len(s) /\ i - Len(s) \in DOMAIN t /\ (s \o t)[i] = t[i - Len(s)]
  BY <1>1, <1>2, <1>3
<1>5. /\ \A i \in DOMAIN s : i \in DOMAIN (s \o t) /\ (s \o t)[i] = s[i]
      /\ \A i \in DOMAIN t : i + Len(s) \in DOMAIN (s \o t) /\ (s \o t)[i + Len(s)] = t[i]
  BY <1>1, <1>2, <1>3
<1>6. \A e : In(e, s \o t) <=> In(e, s) \/ In(e, t)
  BY <1>4, <1>5 DEF In
<1>7. ASSUME NEW i \in DOMAIN (s \o t), NEW j \in DOMAIN (s \o t), (s \o t)[i] = (s \o t)[j]
      PROVE  i = j
  <2>1. i \in Int /\ j \in Int
    BY <1>3
  <2>2. CASE i <= Len(s) /\ j <= Len(s)
    BY <1>4, <1>7, <2>1, <2>2, <1>1 DEF Once
  <2>3. CASE i > Len(s) /\ j > Len(s)
    <3>1. /\ i - Len(s) \in DOMAIN t /\ j - Len(s) \in DOMAIN t
          /\ t[i - Len(s)] = t[j - Len(s)]
      BY <1>1, <1>4, <1>7, <2>1, <2>3
    <3>2. i - Len(s) = j - Len(s)
      BY <3>1 DEF Once
    <3>3. QED
      BY <1>1, <2>1, <3>2
  <2>4. \A k, l \in DOMAIN (s \o t) : k <= Len(s) /\ l > Len(s) => (s \o t)[k] # (s \o t)[l]
    BY <1>1, <1>3, <1>4 DEF In
  <2>5. QED
    BY <1>1, <1>7, <2>1, <2>2, <2>3, <2>4
<1>8. QED
  BY <1>6, <1>7 DEF Once

LEMMA PlacesAreOne ==
  ASSUME IInv, NEW m \in Messages, Pushed(m)
  PROVE  Places(m) = 1
<1>1. PlaceInv /\ TypeInv /\ latest \in Nat /\ latest <= Len(tipsets)
  BY DEF IInv, TypeInv, TipsetInv
<1> DEFINE joined == mining.left \o mining.done
           D == {h \in 1 .. latest : Contains(tipsets[h].messages, m)}
           inPool == Cardinality({i \in DOMAIN pool : pool[i] = m})
           inBatch == IF mining = None \/ latest # mining.parent THEN 0
                      ELSE Cardinality({i \in DOMAIN joined : joined[i] = m})
           inChain == Cardinality(D)
<1>2. inPool = IF In(m, pool) THEN 1 ELSE 0
  BY <1>1, OnceCounts DEF PlaceInv
<1>3. inBatch = IF InBatch(m) THEN 1 ELSE 0
  <2>1. CASE Unput
    <3>1. /\ mining.left \in Seq(Messages) /\ mining.done \in Seq(Messages)
          /\ mining # None /\ latest = mining.parent
      BY <1>1, <2>1 DEF TypeInv, Batches, Unput
    <3>2. Once(joined) /\ \A e : In(e, joined) <=> In(e, mining.left) \/ In(e, mining.done)
      BY <1>1, <2>1, <3>1, ConcatPlaces DEF PlaceInv
    <3>3. Cardinality({i \in DOMAIN joined : joined[i] = m}) = IF In(m, joined) THEN 1 ELSE 0
      BY <3>2, OnceCounts
    <3>4. InBatch(m) <=> In(m, joined)
      BY <2>1, <3>2 DEF InBatch
    <3>5. inBatch = Cardinality({i \in DOMAIN joined : joined[i] = m})
      BY <3>1
    <3> HIDE DEF joined, inBatch
    <3>6. QED
      BY <3>3, <3>4, <3>5
  <2>2. CASE ~Unput
    BY <2>2 DEF Unput, InBatch
  <2>3. QED
    BY <2>1, <2>2
<1>4. inChain = IF InChain(m) THEN 1 ELSE 0
  <2>1. \A h \in 1 .. latest : tipsets[h].messages \in Seq(Messages)
    <3>1. \A h \in 1 .. latest : h \in 1 .. Len(tipsets)
      BY <1>1, LengthAndDomain DEF TypeInv
    <3>2. \A h \in 1 .. Len(tipsets) : tipsets[h] \in Tipsets
      BY <1>1, LengthAndDomain DEF TypeInv
    <3>3. QED
      BY <3>1, <3>2 DEF Tipsets
  <2>2. D = {h \in 1 .. latest : InTipset(m, h)}
    BY <2>1, ContainsPlaces DEF InTipset
  <2>3. \A h, k \in D : h = k
    BY <1>1, <2>2 DEF PlaceInv
  <2>4. D = {} <=> ~InChain(m)
    BY <2>2 DEF InChain
  <2> HIDE DEF D
  <2>5. QED
    BY <2>3, <2>4, SizeOfOne
<1>5. Places(m) = inPool + inBatch + inChain + (IF m \in gone THEN 1 ELSE 0)
  BY DEF Places
<1> HIDE DEF inPool, inBatch, inChain
<1>6. /\ In(m, pool) \/ InBatch(m) \/ InChain(m) \/ m \in gone
      /\ In(m, pool) => ~InBatch(m) /\ ~InChain(m) /\ m \notin gone
      /\ InBatch(m) => ~InChain(m) /\ m \notin gone
      /\ InChain(m) => m \notin gone
  BY <1>1 DEF PlaceInv, Pushed
<1>7. QED
  BY <1>2, <1>3, <1>4, <1>5, <1>6

(***************************************************************************)
(* The message of every accepted push, of push() or MpoolPush, is in one    *)
(* place, whatever was mined, cleared, left out or lost; the tipsets form a *)
(* chain up to the latest; and a nonce that push() has chosen is above those*)
(* of its account before it in the pool, also where clients have chosen     *)
(* these (blockchain.ts:323-495, 530-706, api.ts:387-437).                  *)
(***************************************************************************)
THEOREM MessagesSound == Spec => []MessagesAreSound
<1>1. ASSUME IInv
      PROVE  MessagesAreSound
  <2>1. MessagesKept
    BY <1>1, PlacesAreOne DEF MessagesKept
  <2>2. TipsetsAreAChain
    BY <1>1, KeyIsClose DEF IInv, TipsetInv, TipsetsAreAChain
  <2>3. PoolNoncesIncrease
    BY <1>1 DEF IInv, NonceInv
  <2>4. QED
    BY <2>1, <2>2, <2>3 DEF MessagesAreSound
<1>2. QED
  BY <1>1, Invariance, PTL

(***************************************************************************)
(* No tipset is put once stop() has returned: it has the lock of the mining *)
(* and keeps it (blockchain.ts:237-259, 530-538).                           *)
(***************************************************************************)
THEOREM QuietAfterStop == Spec => QuietOnceStopped
<1>1. ASSUME IInv, [Next]_vars, stopping = "stopped"
      PROVE  tipsets' = tipsets
  <2>1. ASSUME NEW p \in Miners, PutTipset(p)
        PROVE  FALSE
    <3>1. Holds(miningLock, p) /\ Holds(miningLock, "stop")
      BY <1>1, <2>1, Mining DEF IInv, LockInv, PutTipset
    <3>2. QED
      BY <3>1, Names DEF Holds
  <2>2. ASSUME NEW p \in Miners,
               \/ StartMining(p) \/ TakePool(p) \/ ReadSender(p) \/ LeaveOut(p)
               \/ Execute(p) \/ PutLatest(p) \/ MineTipset(p)
        PROVE  tipsets' = tipsets
    BY <2>2 DEF StartMining, TakePool, ReadSender, LeaveOut, Execute, PutLatest, MineTipset,
                tipsetVars
  <2>3. ASSUME NEW m \in Messages,
               \/ Push(m) \/ GetNonce(m) \/ Refuse(m) \/ PushSigned(m)
               \/ MpoolPush(m) \/ RefuseSigned(m)
        PROVE  tipsets' = tipsets
    BY <2>3 DEF Push, GetNonce, Refuse, PushSigned, MpoolPush, RefuseSigned, tipsetVars
  <2>4. ASSUME NEW i \in increments, IncrementReads(i) \/ IncrementWrites(i)
        PROVE  tipsets' = tipsets
    BY <2>4 DEF IncrementReads, IncrementWrites, tipsetVars
  <2>5. ASSUME NEW i \in Intervals,
               Fire(i) \/ IntervalMines(i) \/ Rearm(i) \/ EnableMiner(i)
        PROVE  tipsets' = tipsets
    BY <2>5 DEF Fire, IntervalMines, Rearm, EnableMiner, tipsetVars
  <2>6. CASE \/ MpoolClear \/ DisableMiner \/ Disabled \/ Stop \/ StopLocksPool
             \/ StopLocksTimeout \/ Stopped \/ Restart \/ UNCHANGED vars
    BY <2>6 DEF MpoolClear, DisableMiner, Disabled, Stop, StopLocksPool, StopLocksTimeout,
                Stopped, Restart, vars, tipsetVars
  <2>7. QED
    BY <1>1, <2>1, <2>2, <2>3, <2>4, <2>5, <2>6, Names DEF Next, Mine
<1>2. IInv /\ [Next]_vars => [stopping = "stopped" => tipsets' = tipsets]_vars
  BY <1>1
<1>3. QED
  BY <1>2, Invariance, PTL DEF Spec, QuietOnceStopped

-----------------------------------------------------------------------------
\* A message on its way to the pool.

MessageType ==
  [version : Nat, to : Sending!Addresses, from : Sending!Addresses, nonce : Nat, value : Nat,
   gasLimit : Nat, gasFeeCap : Nat, gasPremium : Nat, method : Nat, params : Nat]

\* The message as push() fills it in, and why it may be refused.
Filled == Sending!FillGasInformation(asked, maxFee)

Refusable ==
  \/ asked.method # 0 \/ asked.nonce # 0
  \/ Sending!InvalidProtocol(asked.from) \/ Sending!InvalidProtocol(asked.to)
  \/ funds < Sending!Required(Filled) + pending
  \/ ~Sending!CheckMessage(Sending!Remade(Filled), Sending!SignMessage(Filled, "bls"))

PushInv ==
  /\ asked \in MessageType /\ maxFee \in Nat /\ funds \in Nat /\ pending \in Nat
  /\ way \in {"push", "signed"}
  /\ pushStage \in {"called", "filled", "paid", "signed", "pooled", "refused"}
  /\ pushStage = "called" => message = asked
  /\ pushStage \in {"filled", "paid"} => way = "push"
  /\ pushStage \in {"signed", "pooled"} => signature.by = message.from
  /\ pushStage = "pooled" => Sending!CheckMessage(message, signature)
  /\ way = "push" =>
       /\ pushStage \in {"filled", "paid"} => message = Filled
       /\ pushStage \in {"paid", "signed", "pooled"} => funds >= Sending!Required(Filled) + pending
       /\ pushStage \in {"signed", "pooled"} =>
            /\ message = Sending!Remade(Filled)
            /\ signature = Sending!SignMessage(Filled, "bls")
       /\ pushStage = "refused" => Refusable

LEMMA FilledIs ==
  ASSUME asked \in MessageType, maxFee \in Nat
  PROVE  /\ Filled \in MessageType
         /\ Filled.value = asked.value /\ Filled.from = asked.from /\ Filled.params = asked.params
         /\ Filled.gasPremium <= Filled.gasFeeCap => 
              /\ Filled.gasLimit * Filled.gasPremium <= Filled.gasLimit * Filled.gasFeeCap
              /\ maxFee # 0 => Filled.gasLimit * Filled.gasPremium <= maxFee
<1> DEFINE m == Sending!WithGas(asked)
           cap == maxFee \div m.gasLimit
<1>1. m \in MessageType /\ m.value = asked.value /\ m.from = asked.from /\ m.params = asked.params
  <2>1. MessageGas \in Nat /\ SendBase \in Nat /\ TransferGas \in Nat /\ DefaultPremium \in Nat
    BY PushAssumption
  <2> DEFINE premium == Sending!Or(asked.gasPremium, DefaultPremium)
             limit == Sending!Or(asked.gasLimit, Sending!GasForMessage(asked))
             fee == Sending!Or(asked.gasFeeCap, premium)
  <2>2. Sending!GasForMessage(asked) \in Nat
    BY <2>1 DEF Sending!GasForMessage, Sending!GasForMethodInvocation
  <2>3. premium \in Nat
    BY <2>1 DEF Sending!Or, MessageType
  <2>4. limit \in Nat
    BY <2>2 DEF Sending!Or, MessageType
  <2>5. fee \in Nat
    BY <2>3 DEF Sending!Or, MessageType
  <2>6. m = [asked EXCEPT !.gasLimit = limit, !.gasPremium = premium, !.gasFeeCap = fee]
    BY DEF Sending!WithGas
  <2> HIDE DEF premium, limit, fee, m
  <2>7. QED
    BY <2>3, <2>4, <2>5, <2>6 DEF MessageType
<1>2. \A a, b, n \in Nat : a <= b => n * a <= n * b
  OBVIOUS
<1>3. CASE maxFee = 0 \/ m.gasLimit * m.gasFeeCap <= maxFee
  <2>1. Filled = m
    BY <1>3 DEF Filled, Sending!FillGasInformation, Sending!Capped
  <2>2. m.gasLimit \in Nat /\ m.gasPremium \in Nat /\ m.gasFeeCap \in Nat
    BY <1>1 DEF MessageType
  <2>3. m.gasPremium <= m.gasFeeCap => m.gasLimit * m.gasPremium <= m.gasLimit * m.gasFeeCap
    BY <1>2, <2>2
  <2>4. m.gasLimit * m.gasPremium \in Nat /\ m.gasLimit * m.gasFeeCap \in Nat
    BY <2>2
  <2> HIDE DEF m
  <2>5. QED
    BY <1>1, <1>3, <2>1, <2>3, <2>4
<1>4. CASE ~(maxFee = 0 \/ m.gasLimit * m.gasFeeCap <= maxFee)
  <2>1. Filled = [m EXCEPT !.gasFeeCap = cap, !.gasPremium = Sending!Least(cap, m.gasPremium)]
    BY <1>4 DEF Filled, Sending!FillGasInformation, Sending!Capped
  <2>2. m.gasLimit \in Nat /\ m.gasPremium \in Nat /\ m.gasFeeCap \in Nat
    BY <1>1 DEF MessageType
  <2> HIDE DEF m
  <2>3. m.gasLimit # 0
    <3>1. \A a \in Nat : 0 * a = 0
      OBVIOUS
    <3>2. QED
      BY <1>4, <2>2, <3>1
  <2>4. \A n \in Nat, k \in Nat \ {0} : n \div k \in Nat /\ k * (n \div k) <= n
    OBVIOUS
  <2>5. cap \in Nat /\ m.gasLimit * cap <= maxFee
    BY <2>2, <2>3, <2>4
  <2> DEFINE low == Sending!Least(cap, m.gasPremium)
  <2>6. low \in Nat /\ low <= cap
    BY <2>2, <2>5 DEF Sending!Least
  <2>7. m.gasLimit * low <= m.gasLimit * cap /\ m.gasLimit * low \in Nat /\ m.gasLimit * cap \in Nat
    BY <1>2, <2>2, <2>5, <2>6
  <2> HIDE DEF cap, low
  <2>8. /\ Filled.gasLimit = m.gasLimit /\ Filled.gasPremium = low /\ Filled.gasFeeCap = cap
        /\ Filled.value = m.value /\ Filled.from = m.from /\ Filled.params = m.params
        /\ Filled \in MessageType
    BY <1>1, <2>1, <2>5, <2>6 DEF MessageType, low
  <2>9. QED
    BY <1>1, <2>5, <2>7, <2>8
<1>5. QED
  BY <1>3, <1>4

LEMMA SentAreTyped == Sending!ClientMessages \subseteq MessageType
<1>1. Sending!Plain \in MessageType
  BY DEF MessageType, Sending!Plain, Sending!Addresses
<1>2. ASSUME NEW k \in {"version", "nonce", "method"}
      PROVE  [Sending!Plain EXCEPT ![k] = 1] \in MessageType
  <2>1. [Sending!Plain EXCEPT !["version"] = 1] \in MessageType
    BY <1>1 DEF MessageType
  <2>2. [Sending!Plain EXCEPT !["nonce"] = 1] \in MessageType
    BY <1>1 DEF MessageType
  <2>3. [Sending!Plain EXCEPT !["method"] = 1] \in MessageType
    BY <1>1 DEF MessageType
  <2>4. QED
    BY <2>1, <2>2, <2>3
<1>3. ASSUME NEW p \in Sending!Addresses \X Sending!Addresses
      PROVE  [Sending!Plain EXCEPT !.from = p[1], !.to = p[2]] \in MessageType
  <2>1. p[1] \in Sending!Addresses /\ p[2] \in Sending!Addresses
    OBVIOUS
  <2>2. QED
    BY <1>1, <2>1 DEF MessageType
<1>4. [version : {0}, to : {Sending!BLS}, from : {Sending!BLS}, nonce : {0}, value : Amounts,
       gasLimit : Amounts, gasFeeCap : Amounts, gasPremium : Amounts, method : {0},
       params : {0, 1}] \subseteq MessageType
  BY PushAssumption DEF MessageType, Sending!Addresses
<1>5. QED
  BY <1>2, <1>3, <1>4 DEF Sending!ClientMessages

LEMMA PushInit == MCInit => PushInv
<1> SUFFICES ASSUME MCInit PROVE PushInv
  OBVIOUS
<1>1. Sending!Init
  BY DEF MCInit
<1>2. asked \in MessageType
  BY <1>1, SentAreTyped DEF Sending!Init
<1>3. maxFee \in Nat /\ funds \in Nat /\ pending \in Nat
  BY <1>1, PushAssumption DEF Sending!Init
<1>4. QED
  BY <1>1, <1>2, <1>3 DEF Sending!Init, PushInv

LEMMA PushNext == PushInv /\ Sending!Next => PushInv'
<1> SUFFICES ASSUME PushInv, Sending!Next PROVE PushInv'
  OBVIOUS
<1>0. /\ UNCHANGED <<way, asked, maxFee, funds, pending>>
      /\ Filled' = Filled /\ Refusable' = Refusable
  <2>1. UNCHANGED <<way, asked, maxFee, funds, pending>>
    BY DEF Sending!Next, Sending!Push, Sending!CheckFunds, Sending!Sign, Sending!WalletSignMessage,
       Sending!PushSigned
  <2>2. QED
    BY <2>1 DEF Filled, Refusable
<1> USE DEF Sending!Refused
<1>1. CASE Sending!Push
  <2>1. /\ pushStage = "called" /\ message = asked /\ way = "push"
    BY <1>1 DEF Sending!Push, PushInv
  <2>2. CASE pushStage' = "refused"
    <3>1. Refusable
      BY <1>1, <2>1, <2>2 DEF Sending!Push, Refusable
    <3>2. QED
      BY <1>0, <2>1, <2>2, <3>1 DEF PushInv
  <2>3. CASE pushStage' # "refused"
    <3>1. pushStage' = "filled" /\ message' = Filled
      BY <1>1, <2>1, <2>3 DEF Sending!Push, Filled
    <3>2. QED
      BY <1>0, <2>1, <3>1 DEF PushInv
  <2>4. QED
    BY <2>2, <2>3
<1>2. CASE Sending!CheckFunds
  <2>1. /\ pushStage = "filled" /\ way = "push" /\ message = Filled
        /\ UNCHANGED <<message, signature>>
    BY <1>2 DEF Sending!CheckFunds, PushInv
  <2>2. Filled \in MessageType
    BY FilledIs DEF PushInv
  <2>3. Sending!Required(Filled) \in Nat
    BY <2>2 DEF MessageType, Sending!Required
  <2>4. \/ pushStage' = "refused" /\ funds < Sending!Required(Filled) + pending
        \/ pushStage' = "paid" /\ ~(funds < Sending!Required(Filled) + pending)
    BY <1>2, <2>1 DEF Sending!CheckFunds
  <2>5. pushStage' = "refused" => Refusable
    BY <2>4 DEF Refusable
  <2>6. pushStage' = "paid" => funds >= Sending!Required(Filled) + pending
    BY <2>3, <2>4 DEF PushInv
  <2>7. QED
    BY <1>0, <2>1, <2>4, <2>5, <2>6 DEF PushInv
<1>3. CASE Sending!Sign
  <2>1. /\ pushStage = "paid" /\ pushStage' = "signed" /\ message = Filled /\ way = "push"
        /\ signature' = Sending!SignMessage(Filled, "bls") /\ message' = Sending!Remade(Filled)
    BY <1>3 DEF Sending!Sign, PushInv
  <2>2. Filled \in MessageType
    BY FilledIs DEF PushInv
  <2>3. signature'.by = message'.from
    BY <2>1, <2>2 DEF Sending!SignMessage, Sending!Remade, MessageType
  <2>4. QED
    BY <1>0, <2>1, <2>3 DEF PushInv
<1>4. CASE Sending!WalletSignMessage
  <2>1. way = "signed" /\ message = asked
    BY <1>4 DEF Sending!WalletSignMessage, PushInv
  <2>2. CASE pushStage' = "refused"
    BY <1>0, <2>1, <2>2 DEF PushInv
  <2>3. CASE pushStage' # "refused"
    <3>1. /\ pushStage' = "signed" /\ message' = Sending!Remade(asked)
          /\ signature' = Sending!SignMessage(asked, Sending!ParseProtocol(asked.from))
      BY <1>4, <2>1, <2>3 DEF Sending!WalletSignMessage
    <3>2. signature'.by = message'.from
      BY <3>1 DEF Sending!SignMessage, Sending!Remade, MessageType, PushInv
    <3>3. QED
      BY <1>0, <2>1, <3>1, <3>2 DEF PushInv
  <2>4. QED
    BY <2>2, <2>3
<1>5. CASE Sending!PushSigned
  <2>1. pushStage = "signed" /\ UNCHANGED <<message, signature>>
    BY <1>5 DEF Sending!PushSigned
  <2>2. \/ pushStage' = "pooled" /\ Sending!CheckMessage(message, signature)
        \/ pushStage' = "refused" /\ ~Sending!CheckMessage(message, signature)
    BY <1>5 DEF Sending!PushSigned
  <2>3. pushStage' = "pooled" => Sending!CheckMessage(message, signature)'
    BY <2>1, <2>2
  <2>4. pushStage' = "refused" /\ way = "push" => Refusable
    BY <2>1, <2>2 DEF PushInv, Refusable
  <2>5. QED
    BY <1>0, <2>1, <2>2, <2>3, <2>4 DEF PushInv
<1>6. QED
  BY <1>1, <1>2, <1>3, <1>4, <1>5 DEF Sending!Next

LEMMA PushStays ==
  ASSUME PushInv, UNCHANGED pushVars
  PROVE  PushInv'
<1>1. /\ UNCHANGED <<way, asked, maxFee, funds, pending, message, signature, pushStage>>
      /\ Filled' = Filled /\ Refusable' = Refusable
  BY DEF pushVars, Filled, Refusable
<1>2. QED
  BY <1>1 DEF PushInv

LEMMA PushSuffices == PushInv => Sending!PushIsSound
<1> SUFFICES ASSUME PushInv PROVE Sending!PushIsSound
  OBVIOUS
<1>1. /\ Filled \in MessageType
      /\ Filled.value = asked.value /\ Filled.from = asked.from /\ Filled.params = asked.params
      /\ Filled.gasPremium <= Filled.gasFeeCap =>
           /\ Filled.gasLimit * Filled.gasPremium <= Filled.gasLimit * Filled.gasFeeCap
           /\ maxFee # 0 => Filled.gasLimit * Filled.gasPremium <= maxFee
  BY FilledIs DEF PushInv
<1>2. Sending!PushedIsPaidFor
  <2> SUFFICES ASSUME way = "push", pushStage = "pooled"
               PROVE  /\ Sending!MinerFee(message) + message.value + pending <= funds
                      /\ maxFee # 0 => Sending!MinerFee(message) <= maxFee
    BY DEF Sending!PushedIsPaidFor
  <2>1. /\ message = Sending!Remade(Filled) /\ Sending!CheckMessage(message, signature)
        /\ funds >= Sending!Required(Filled) + pending
    BY DEF PushInv
  <2>2. /\ message.gasLimit = Filled.gasLimit /\ message.gasPremium = Filled.gasPremium
        /\ message.gasFeeCap = Filled.gasFeeCap /\ message.value = Filled.value
    BY <1>1, <2>1 DEF Sending!Remade, MessageType
  <2>3. Filled.gasPremium <= Filled.gasFeeCap
    BY <2>1, <2>2 DEF Sending!CheckMessage, Sending!ValidForBlockInclusion
  <2> DEFINE fee == Filled.gasLimit * Filled.gasPremium
             most == Filled.gasLimit * Filled.gasFeeCap
  <2>4. fee \in Nat /\ most \in Nat /\ Filled.value \in Nat
    BY <1>1 DEF MessageType
  <2>5. fee <= most /\ (maxFee # 0 => fee <= maxFee)
    BY <1>1, <2>3
  <2>6. Sending!Required(Filled) = most + Filled.value
    <3>1. Filled.gasFeeCap * Filled.gasLimit = most
      BY <1>1 DEF MessageType
    <3>2. QED
      BY <3>1 DEF Sending!Required
  <2>7. Sending!MinerFee(message) = fee
    BY <2>2 DEF Sending!MinerFee
  <2> HIDE DEF fee, most
  <2>8. QED
    BY <2>1, <2>2, <2>4, <2>5, <2>6, <2>7 DEF PushInv
<1>3. Sending!PooledIsSigned
  <2> SUFFICES ASSUME pushStage = "pooled"
               PROVE  /\ signature.by = message.from
                      /\ Sending!ParseProtocol(message.from) = "bls" => signature.content = message
    BY DEF Sending!PooledIsSigned
  <2>1. signature.by = message.from /\ Sending!CheckMessage(message, signature)
    BY DEF PushInv
  <2>2. Sending!VerifySignature(message.from, message, signature)
    BY <2>1 DEF Sending!CheckMessage, Sending!VerifyMessageSignature
  <2>3. QED
    BY <2>1, <2>2 DEF Sending!VerifySignature
<1>4. Sending!OrdinaryIsPooled
  <2> SUFFICES ASSUME pushStage = "refused", Sending!Ordinary(Sending!BLS, {0})
               PROVE  FALSE
    BY DEF Sending!OrdinaryIsPooled
  <2> DEFINE v == asked.value
  <2>1. /\ v \in Nat /\ v <= TotalFilecoin /\ way = "push" /\ maxFee = 0
        /\ asked.from = "bls" /\ asked.to = "bls" /\ asked.nonce = 0 /\ asked.method = 0
        /\ asked.version = 0 /\ asked.gasLimit = 0 /\ asked.gasFeeCap = 0 /\ asked.gasPremium = 0
        /\ asked.params = 0
        /\ funds >= Sending!Required(Sending!WithGas(asked)) + pending
    BY DEF PushInv, MessageType, Sending!Ordinary, Sending!Plain, Sending!BLS
  <2>2. Filled = Sending!WithGas(asked)
    BY <2>1 DEF Filled, Sending!FillGasInformation, Sending!Capped
  <2>3. /\ Filled.gasLimit = Sending!GasForMessage(asked)
        /\ Filled.gasPremium = DefaultPremium /\ Filled.gasFeeCap = DefaultPremium
        /\ Filled.to = "bls" /\ Filled.version = 0 /\ Filled.from = "bls" /\ Filled.value = v
        /\ Filled.params = 0
    <3>1. Filled.gasLimit = Sending!GasForMessage(asked)
      BY <2>1, <2>2 DEF Sending!WithGas, Sending!Or, PushInv, MessageType
    <3>2. Sending!Or(asked.gasPremium, DefaultPremium) = DefaultPremium
      BY <2>1 DEF Sending!Or
    <3>3. Sending!Or(asked.gasFeeCap, DefaultPremium) = DefaultPremium
      BY <2>1 DEF Sending!Or
    <3>4. QED
      BY <2>1, <2>2, <3>1, <3>2, <3>3 DEF Sending!WithGas, PushInv, MessageType
  <2>4. Filled.gasLimit <= BlockGasLimit
    BY <2>1, <2>3, PushAssumption DEF Sending!GasForMessage, Sending!GasForMethodInvocation
  <2>5. Sending!Remade(Filled) = Filled
    BY <1>1, <2>3 DEF Sending!Remade, MessageType
  <2>6. Sending!CheckMessage(Filled, Sending!SignMessage(Filled, "bls"))
    <3>1. Sending!ValidForBlockInclusion(Filled)
      BY <2>1, <2>3, <2>4, PushAssumption DEF Sending!ValidForBlockInclusion
    <3>2. Filled.gasFeeCap >= MinimumBaseFee
      BY <2>3, PushAssumption
    <3>3. Sending!VerifyMessageSignature(Filled, Sending!SignMessage(Filled, "bls"))
      BY <2>3 DEF Sending!VerifyMessageSignature, Sending!SignMessage, Sending!TooShort,
         Sending!Secp, Sending!ParseProtocol, Sending!BLS, Sending!VerifySignature
    <3>4. QED
      BY <3>1, <3>2, <3>3 DEF Sending!CheckMessage
  <2>7. ~Sending!InvalidProtocol(asked.from) /\ ~Sending!InvalidProtocol(asked.to)
    BY <2>1 DEF Sending!InvalidProtocol, Sending!ParseProtocol, Sending!BLS
  <2>8. Sending!Required(Filled) \in Nat
    BY <1>1 DEF MessageType, Sending!Required
  <2>9. Refusable
    BY <2>1 DEF PushInv
  <2>10. QED
    BY <2>1, <2>2, <2>5, <2>6, <2>7, <2>8, <2>9 DEF Refusable, PushInv
<1>5. QED
  BY <1>2, <1>3, <1>4 DEF Sending!PushIsSound

-----------------------------------------------------------------------------
\* Induction.

LEMMA LeastElement ==
  ASSUME NEW A \in SUBSET Nat, A # {}
  PROVE  \E n \in A : \A k \in A : n <= k
<1>1. PICK m \in A : TRUE
  OBVIOUS
<1> DEFINE U == 0..m
           Segments == {0..n : n \in A \cap U}
<1>2. IsFiniteSet(U)
  BY FS_Interval
<1>3. IsWellFoundedOn(StrictSubsetOrdering(U), SUBSET U)
  BY <1>2, FS_StrictSubsetOrderingWellFounded, FS_FiniteSubsetsOfFinite
<1>4. Segments \subseteq SUBSET U /\ Segments # {}
  BY <1>1
<1>5. PICK x \in Segments : \A y \in Segments : ~ (<<y, x>> \in StrictSubsetOrdering(U))
  BY <1>3, <1>4, WFMin
<1>6. PICK n \in A \cap U : x = 0..n
  OBVIOUS
<1>7. ASSUME NEW k \in A, k < n
      PROVE  FALSE
  <2>1. k \in A \cap U /\ 0..k \in Segments
    BY <1>6, <1>7
  <2>2. 0..k \subseteq 0..n /\ 0..k # 0..n
    BY <1>6, <1>7
  <2>3. <<0..k, 0..n>> \in StrictSubsetOrdering(U)
    BY <1>4, <1>6, <2>1, <2>2 DEF StrictSubsetOrdering
  <2>4. QED
    BY <1>5, <1>6, <2>1, <2>3
<1>8. QED
  BY <1>6, <1>7

LEMMA StrongInduction ==
  ASSUME NEW Bad \in SUBSET Nat, \A n \in Bad : \E k \in Bad : k < n
  PROVE  Bad = {}
<1> SUFFICES ASSUME Bad # {} PROVE FALSE
  OBVIOUS
<1>1. PICK n \in Bad : \A k \in Bad : n <= k
  BY LeastElement
<1>2. PICK k \in Bad : k < n
  OBVIOUS
<1>3. QED
  BY <1>1, <1>2

-----------------------------------------------------------------------------
\* Sequences.

Entries(s) == {s[i] : i \in DOMAIN s}
NoneTwice(s) == \A i, j \in DOMAIN s : s[i] = s[j] => i = j

LEMMA SequenceNames ==
  ASSUME NEW s
  PROVE  Wallet!ToSet(s) = Entries(s) /\ Wallet!IsInjective(s) = NoneTwice(s)
  BY DEF Wallet!ToSet, Entries, Wallet!IsInjective, NoneTwice

LEMMA Appended ==
  ASSUME NEW T, NEW s \in Seq(T), NEW e \in T
  PROVE  /\ Append(s, e) \in Seq(T) /\ Append(s, e) # <<>>
         /\ Len(Append(s, e)) = Len(s) + 1
         /\ DOMAIN Append(s, e) = DOMAIN s \cup {Len(s) + 1}
         /\ Len(s) + 1 \notin DOMAIN s
         /\ \A i \in DOMAIN s : Append(s, e)[i] = s[i]
         /\ Append(s, e)[Len(s) + 1] = e
         /\ Entries(Append(s, e)) = Entries(s) \cup {e}
         /\ NoneTwice(s) /\ e \notin Entries(s) => NoneTwice(Append(s, e))
<1>1. /\ Append(s, e) \in Seq(T) /\ Append(s, e) # <<>>
      /\ Len(Append(s, e)) = Len(s) + 1
      /\ DOMAIN Append(s, e) = DOMAIN s \cup {Len(s) + 1}
      /\ Len(s) + 1 \notin DOMAIN s
      /\ \A i \in DOMAIN s : Append(s, e)[i] = s[i]
      /\ Append(s, e)[Len(s) + 1] = e
  OBVIOUS
<1>2. QED
  BY <1>1 DEF Entries, NoneTwice

LEMMA Tailed ==
  ASSUME NEW T, NEW s \in Seq(T), s # <<>>
  PROVE  /\ Tail(s) \in Seq(T) /\ Len(Tail(s)) = Len(s) - 1 /\ Len(s) \in Nat \ {0}
         /\ Head(s) = s[1] /\ s[1] \in T /\ 1 \in DOMAIN s
         /\ DOMAIN Tail(s) = 1 .. (Len(s) - 1) /\ DOMAIN s = 1 .. Len(s)
         /\ \A i \in DOMAIN Tail(s) : i + 1 \in DOMAIN s /\ Tail(s)[i] = s[i + 1]
         /\ \A i \in DOMAIN s : i # 1 => i - 1 \in DOMAIN Tail(s) /\ Tail(s)[i - 1] = s[i]
  OBVIOUS

LEMMA Widened ==
  ASSUME NEW T, NEW U, T \subseteq U
  PROVE  Seq(T) \subseteq Seq(U)
<1> SUFFICES ASSUME NEW s \in Seq(T) PROVE s \in Seq(U)
  OBVIOUS
<1>1. Len(s) \in Nat /\ s \in [1 .. Len(s) -> T]
  OBVIOUS
<1>2. s \in [1 .. Len(s) -> U]
  BY <1>1
<1>3. QED
  BY <1>1, <1>2, SeqDef

LEMMA Joined ==
  ASSUME NEW T, NEW s \in Seq(T), NEW d \in T, NEW e \in T
  PROVE  /\ s \o <<d>> \o <<>> = Append(s, d)
         /\ s \o <<d>> \o <<e>> = Append(Append(s, d), e)
         /\ s \o <<d, e>> = Append(Append(s, d), e)
  OBVIOUS

(***************************************************************************)
(* A list without an address: the recursive function that it is defined by *)
(* exists; what it has at n is of the first n of the list.                 *)
(***************************************************************************)
LEMMA WithoutIs ==
  ASSUME NEW T, NEW s \in Seq(T), NEW a, NoneTwice(s)
  PROVE  LET rest == Wallet!Without(s, a)
         IN rest \in Seq(T) /\ NoneTwice(rest) /\ Entries(rest) = Entries(s) \ {a}
<1> DEFINE L == Len(s)
           step(f, n) == IF n = 0 THEN <<>>
                         ELSE IF s[n] = a THEN f[n - 1] ELSE Append(f[n - 1], s[n])
           Solved(f, m) == \A n \in 0 .. m : f[n] = step(f, n)
           Unsolved == {m \in Nat : ~ \E f : Solved(f, m)}
           chosen == CHOOSE f : f = [n \in 0 .. L |-> step(f, n)]
           Upto(n) == {s[i] : i \in 1 .. n} \ {a}
           Right(n) == chosen[n] \in Seq(T) /\ Entries(chosen[n]) = Upto(n) /\ NoneTwice(chosen[n])
           Wrong == {n \in Nat : n <= L /\ ~Right(n)}
<1>1. L \in Nat /\ DOMAIN s = 1 .. L
  BY LenProperties
<1>2. ASSUME NEW m \in Unsolved
      PROVE  \E k \in Unsolved : k < m
  <2>1. CASE m = 0
    <3>1. Solved([n \in 0 .. 0 |-> <<>>], 0)
      OBVIOUS
    <3>2. QED
      BY <2>1, <3>1
  <2>2. CASE m # 0
    <3>1. m - 1 \in Nat /\ m - 1 < m
      BY <2>2
    <3>2. SUFFICES ASSUME m - 1 \notin Unsolved
                   PROVE  FALSE
      BY <3>1
    <3>3. PICK f : Solved(f, m - 1)
      BY <3>1, <3>2
    <3> DEFINE g == [n \in 0 .. m |-> IF n = m THEN step(f, m) ELSE f[n]]
    <3>4. \A n \in 0 .. (m - 1) : g[n] = f[n]
      BY <3>1
    <3>5. g[m] = step(f, m)
      OBVIOUS
    <3>6. ASSUME NEW n \in 0 .. m
          PROVE  g[n] = step(g, n)
      <4>1. CASE n = m
        <5>1. g[m - 1] = f[m - 1]
          BY <3>1, <3>4
        <5> HIDE DEF g
        <5>2. QED
          BY <4>1, <5>1, <3>5, <2>2
      <4>2. CASE n # m
        <5>1. n \in 0 .. (m - 1)
          BY <4>2
        <5>2. f[n] = step(f, n)
          BY <5>1, <3>3
        <5>3. n # 0 => g[n - 1] = f[n - 1]
          BY <5>1, <3>4
        <5>4. g[n] = f[n]
          BY <5>1, <3>4
        <5> HIDE DEF g
        <5>5. QED
          BY <5>2, <5>3, <5>4
      <4>3. QED
        BY <4>1, <4>2
    <3>7. Solved(g, m)
      BY <3>6
    <3> HIDE DEF g
    <3>8. QED
      BY <3>7
  <2>3. QED
    BY <2>1, <2>2
<1>3. Unsolved = {}
  <2>1. Unsolved \in SUBSET Nat
    OBVIOUS
  <2> HIDE DEF Unsolved
  <2>2. QED
    BY <1>2, <2>1, StrongInduction
<1>4. PICK f : Solved(f, L)
  BY <1>1, <1>3
<1>5. \E h : h = [n \in 0 .. L |-> step(h, n)]
  <2> DEFINE h == [n \in 0 .. L |-> f[n]]
  <2>1. \A n \in 0 .. L : n # 0 => h[n - 1] = f[n - 1]
    BY <1>1
  <2>2. \A n \in 0 .. L : f[n] = step(h, n)
    <3> HIDE DEF h
    <3> QED BY <1>4, <2>1
  <2>3. h = [n \in 0 .. L |-> f[n]]
    OBVIOUS
  <2> HIDE DEF h, step
  <2>4. h = [n \in 0 .. L |-> step(h, n)]
    BY <2>2, <2>3
  <2>5. QED
    BY <2>4
<1>6. chosen = [n \in 0 .. L |-> step(chosen, n)]
  BY <1>5, Zenon
<1>7. Wallet!Without(s, a) = chosen[L]
  BY DEF Wallet!Without
<1> HIDE DEF chosen
<1>8. \A n \in 0 .. L : chosen[n] = step(chosen, n)
  BY <1>6
<1>9. ASSUME NEW n \in Wrong
      PROVE  \E k \in Wrong : k < n
  <2>1. n \in 0 .. L /\ chosen[n] = step(chosen, n)
    BY <1>1, <1>8
  <2>2. CASE n = 0
    <3>1. chosen[n] = <<>>
      BY <2>1, <2>2
    <3>2. Entries(<<>>) = {} /\ Upto(0) = {} /\ NoneTwice(<<>>)
      BY DEF Entries, NoneTwice
    <3>3. <<>> \in Seq(T)
      OBVIOUS
    <3>4. Right(n)
      <4> HIDE DEF Upto
      <4> QED BY <2>2, <3>1, <3>2, <3>3
    <3>5. QED
      BY <3>4
  <2>3. CASE n # 0
    <3>1. n - 1 \in 0 .. L /\ n - 1 < n /\ n \in 1 .. L
      BY <1>1, <2>1, <2>3
    <3>2. SUFFICES ASSUME n - 1 \notin Wrong
                   PROVE  FALSE
      BY <3>1
    <3>3. Right(n - 1)
      BY <3>1, <3>2
    <3>4. {s[i] : i \in 1 .. n} = {s[i] : i \in 1 .. (n - 1)} \cup {s[n]}
      BY <3>1
    <3>5. s[n] \in T /\ s[n] \notin {s[i] : i \in 1 .. (n - 1)}
      BY <1>1, <3>1 DEF NoneTwice
    <3>6. CASE s[n] = a
      <4>1. chosen[n] = chosen[n - 1]
        BY <2>1, <2>3, <3>6
      <4>2. Upto(n) = Upto(n - 1)
        BY <3>4, <3>6
      <4> HIDE DEF Upto
      <4>3. QED
        BY <3>3, <4>1, <4>2
    <3>7. CASE s[n] # a
      <4> DEFINE before == chosen[n - 1]
      <4>1. chosen[n] = Append(before, s[n])
        BY <2>1, <2>3, <3>7
      <4>2. Upto(n) = Upto(n - 1) \cup {s[n]} /\ s[n] \notin Upto(n - 1)
        BY <3>4, <3>5, <3>7
      <4> HIDE DEF Upto
      <4>3. before \in Seq(T) /\ Entries(before) = Upto(n - 1) /\ NoneTwice(before)
        BY <3>3
      <4> HIDE DEF before
      <4>4. Right(n)
        BY <4>1, <4>2, <4>3, <3>5, Appended
      <4>5. QED
        BY <4>4
    <3>8. QED
      BY <3>6, <3>7
  <2>4. QED
    BY <2>2, <2>3
<1>10. Wrong = {}
  <2>1. Wrong \in SUBSET Nat
    OBVIOUS
  <2> HIDE DEF Wrong
  <2>2. QED
    BY <1>9, <2>1, StrongInduction
<1>11. Right(L)
  <2> HIDE DEF Right
  <2> QED BY <1>1, <1>10
<1>12. Upto(L) = Entries(s) \ {a}
  BY <1>1 DEF Entries
<1> HIDE DEF Upto
<1>13. QED
  BY <1>7, <1>11, <1>12

-----------------------------------------------------------------------------
\* Sums.

\* g gives for each subset of set the sum of the values of f.
Sums(g, f, set) ==
  g = [s \in SUBSET set |->
         IF s = {} THEN 0
         ELSE LET x == CHOOSE x \in s : TRUE IN f[x] + g[s \ {x}]]

(***************************************************************************)
(* There are such sums.  By induction, for the sets of fewer than n.       *)
(***************************************************************************)
LEMMA SumsExist ==
  ASSUME NEW set, IsFiniteSet(set), NEW f
  PROVE  \E g : Sums(g, f, set)
<1> DEFINE pick(s) == CHOOSE x \in s : TRUE
           step(g, s) == IF s = {} THEN 0 ELSE f[pick(s)] + g[s \ {pick(s)}]
           Small(n) == {s \in SUBSET set : Cardinality(s) < n}
           Good(g, n) == \A s \in Small(n) : g[s] = step(g, s)
           Bad == {n \in Nat : ~ \E g : Good(g, n)}
<1>1. ASSUME NEW s \in SUBSET set
      PROVE  /\ IsFiniteSet(s) /\ Cardinality(s) \in Nat
             /\ s # {} => /\ pick(s) \in s /\ s \ {pick(s)} \in SUBSET set
                          /\ Cardinality(s \ {pick(s)}) = Cardinality(s) - 1
  <2>1. IsFiniteSet(s) /\ Cardinality(s) \in Nat
    BY FS_Subset, FS_CardinalityType
  <2>2. s # {} => pick(s) \in s
    OBVIOUS
  <2> HIDE DEF pick
  <2>3. s # {} => Cardinality(s \ {pick(s)}) = Cardinality(s) - 1
    BY <2>1, <2>2, FS_RemoveElement
  <2>4. QED
    BY <2>1, <2>2, <2>3
<1> HIDE DEF pick
<1>2. ASSUME NEW n \in Bad
      PROVE  \E k \in Bad : k < n
  <2>1. CASE n = 0
    <3>1. Small(0) = {}
      <4>1. ASSUME NEW s \in SUBSET set
            PROVE  ~(Cardinality(s) < 0)
        <5>1. Cardinality(s) \in Nat
          BY <1>1
        <5>2. QED
          BY <5>1
      <4>2. QED
        BY <4>1
    <3>2. Good(0, 0)
      <4> HIDE DEF Small
      <4> QED BY <3>1
    <3>3. QED
      BY <2>1, <3>2
  <2>2. CASE n # 0
    <3>1. n - 1 \in Nat /\ n - 1 < n
      BY <2>2
    <3>2. SUFFICES ASSUME n - 1 \notin Bad
                   PROVE  FALSE
      BY <3>1
    <3>3. PICK g : Good(g, n - 1)
      BY <3>1, <3>2
    <3> DEFINE h == [s \in SUBSET set |-> step(g, s)]
    <3>4. \A s \in Small(n - 1) : h[s] = g[s]
      BY <3>3
    <3>5. ASSUME NEW s \in Small(n)
          PROVE  h[s] = step(h, s)
      <4>1. h[s] = step(g, s) /\ s \in SUBSET set
        OBVIOUS
      <4>2. s # {} => s \ {pick(s)} \in Small(n - 1)
        BY <1>1, <3>1
      <4>3. s # {} => h[s \ {pick(s)}] = g[s \ {pick(s)}]
        <5> HIDE DEF h, Small
        <5> QED BY <3>4, <4>2
      <4> HIDE DEF h
      <4>4. QED
        BY <4>1, <4>3
    <3>6. Good(h, n)
      <4> HIDE DEF h, Small
      <4> QED BY <3>5
    <3> HIDE DEF h
    <3>7. QED
      BY <3>6
  <2>3. QED
    BY <2>1, <2>2
<1>3. Bad = {}
  <2>1. Bad \in SUBSET Nat
    OBVIOUS
  <2> HIDE DEF Bad
  <2>2. QED
    BY <1>2, <2>1, StrongInduction
<1> DEFINE n == Cardinality(set) + 1
<1>4. n \in Nat /\ \A s \in SUBSET set : s \in Small(n)
  <2>1. Cardinality(set) \in Nat
    BY FS_CardinalityType
  <2>2. \A s \in SUBSET set : Cardinality(s) <= Cardinality(set)
    BY FS_Subset
  <2>3. \A s \in SUBSET set : Cardinality(s) \in Nat
    BY <1>1
  <2>4. QED
    BY <2>1, <2>2, <2>3
<1> HIDE DEF n
<1>5. PICK g : Good(g, n)
  BY <1>3, <1>4
<1>6. \A s \in SUBSET set : g[s] = step(g, s)
  <2> HIDE DEF Small
  <2> QED BY <1>4, <1>5
<1> DEFINE h == [s \in SUBSET set |-> g[s]]
<1>7. \A s \in SUBSET set : h[s] = g[s]
  OBVIOUS
<1>8. \A s \in SUBSET set : s # {} => h[s \ {pick(s)}] = g[s \ {pick(s)}]
  BY <1>1
<1>9. h = [s \in SUBSET set |-> step(h, s)]
  <2>1. \A s \in SUBSET set : g[s] = step(h, s)
    <3> HIDE DEF h
    <3> QED BY <1>6, <1>8
  <2>2. QED
    BY <2>1
<1>10. Sums(h, f, set)
  <2> HIDE DEF h
  <2> QED BY <1>9 DEF Sums, pick
<1>11. QED
  BY <1>10

(***************************************************************************)
(* Of two functions, of which one is more by d in those that are in more,  *)
(* the sums differ by d for each of them.                                  *)
(***************************************************************************)
LEMMA SumsDiffer ==
  ASSUME NEW set, IsFiniteSet(set), NEW f \in [set -> Int], NEW k \in [set -> Int],
         NEW more \in SUBSET set, NEW d \in Int,
         \A x \in set : k[x] = f[x] + (IF x \in more THEN d ELSE 0),
         NEW g, Sums(g, f, set), NEW h, Sums(h, k, set)
  PROVE  g[set] \in Int /\ h[set] = g[set] + d * Cardinality(more)
<1> DEFINE pick(s) == CHOOSE x \in s : TRUE
           Right(s) == g[s] \in Int /\ h[s] = g[s] + d * Cardinality(s \cap more)
           Wrong == {n \in Nat : \E s \in SUBSET set : Cardinality(s) = n /\ ~Right(s)}
<1>1. ASSUME NEW s \in SUBSET set
      PROVE  /\ IsFiniteSet(s) /\ Cardinality(s) \in Nat
             /\ s # {} => /\ pick(s) \in s /\ s \ {pick(s)} \in SUBSET set
                          /\ Cardinality(s \ {pick(s)}) = Cardinality(s) - 1
  <2>1. IsFiniteSet(s) /\ Cardinality(s) \in Nat
    BY FS_Subset, FS_CardinalityType
  <2>2. s # {} => pick(s) \in s
    OBVIOUS
  <2> HIDE DEF pick
  <2>3. s # {} => Cardinality(s \ {pick(s)}) = Cardinality(s) - 1
    BY <2>1, <2>2, FS_RemoveElement
  <2>4. QED
    BY <2>1, <2>2, <2>3
<1>2. ASSUME NEW s \in SUBSET set
      PROVE  /\ s = {} => g[s] = 0 /\ h[s] = 0
             /\ s # {} => /\ g[s] = f[pick(s)] + g[s \ {pick(s)}]
                          /\ h[s] = k[pick(s)] + h[s \ {pick(s)}]
  <2>1. g[s] = IF s = {} THEN 0 ELSE f[pick(s)] + g[s \ {pick(s)}]
    BY DEF Sums
  <2>2. h[s] = IF s = {} THEN 0 ELSE k[pick(s)] + h[s \ {pick(s)}]
    BY DEF Sums
  <2> HIDE DEF pick
  <2>3. QED
    BY <2>1, <2>2
<1> HIDE DEF pick
<1>3. ASSUME NEW n \in Wrong
      PROVE  \E j \in Wrong : j < n
  <2>1. PICK s \in SUBSET set : Cardinality(s) = n /\ ~Right(s)
    OBVIOUS
  <2>2. CASE s = {}
    <3>1. s \cap more = {} /\ Cardinality({}) = 0
      BY <2>2, FS_EmptySet
    <3>2. d * 0 = 0
      OBVIOUS
    <3>3. g[s] = 0 /\ h[s] = 0 /\ Cardinality(s \cap more) = 0
      BY <1>2, <2>2, <3>1
    <3>4. Right(s)
      BY <3>2, <3>3
    <3>5. QED
      BY <2>1, <3>4
  <2>3. CASE s # {}
    <3> DEFINE x == pick(s)
               t == s \ {x}
    <3>1. /\ x \in s /\ x \in set /\ t \in SUBSET set /\ Cardinality(t) = n - 1
          /\ n - 1 \in Nat /\ n - 1 < n
      <4>1. Cardinality(t) \in Nat /\ Cardinality(s) \in Nat
        BY <1>1, <2>3
      <4>2. QED
        BY <1>1, <2>1, <2>3, <4>1
    <3>2. SUFFICES ASSUME n - 1 \notin Wrong
                   PROVE  FALSE
      BY <3>1
    <3>3. Right(t)
      <4> HIDE DEF t, x, Right
      <4> QED BY <3>1, <3>2
    <3>4. g[s] = f[x] + g[t] /\ h[s] = k[x] + h[t]
      BY <1>2, <2>3
    <3> DEFINE a == Cardinality(t \cap more)
               b == Cardinality(s \cap more)
    <3>5. /\ a \in Nat /\ b \in Nat
          /\ b = IF x \in more THEN a + 1 ELSE a
      <4>1. IsFiniteSet(t \cap more) /\ IsFiniteSet(s \cap more) /\ a \in Nat /\ b \in Nat
        BY <1>1, <3>1, FS_Subset, FS_CardinalityType
      <4>2. CASE x \in more
        <5>1. s \cap more = (t \cap more) \cup {x} /\ x \notin t \cap more
          BY <3>1, <4>2
        <5> HIDE DEF t, x
        <5>2. QED
          BY <4>1, <4>2, <5>1, FS_AddElement
      <4>3. CASE x \notin more
        <5>1. s \cap more = t \cap more
          BY <4>3
        <5> HIDE DEF t, x
        <5>2. QED
          BY <4>1, <4>3, <5>1
      <4>4. QED
        BY <4>2, <4>3
    <3>6. f[x] \in Int /\ k[x] = f[x] + (IF x \in more THEN d ELSE 0) /\ d * (a + 1) = d * a + d
          /\ d * a \in Int
      BY <3>1, <3>5
    <3>7. g[t] \in Int /\ h[t] = g[t] + d * a
      BY <3>3
    <3> HIDE DEF a, x, t
    <3>8. g[s] \in Int /\ h[s] = g[s] + d * b
      <4>1. CASE x \in more
        BY <3>4, <3>5, <3>6, <3>7, <4>1
      <4>2. CASE x \notin more
        BY <3>4, <3>5, <3>6, <3>7, <4>2
      <4>3. QED
        BY <4>1, <4>2
    <3>9. QED
      BY <2>1, <3>8
  <2>4. QED
    BY <2>2, <2>3
<1>4. Wrong = {}
  <2>1. Wrong \in SUBSET Nat
    OBVIOUS
  <2> HIDE DEF Wrong
  <2>2. QED
    BY <1>3, <2>1, StrongInduction
<1>5. Right(set)
  <2>1. Cardinality(set) \in Nat
    BY FS_CardinalityType
  <2> HIDE DEF Right
  <2>2. QED
    BY <1>4, <2>1
<1>6. set \cap more = more
  OBVIOUS
<1>7. QED
  BY <1>5, <1>6

-----------------------------------------------------------------------------
\* The money.

Balances == [a \in Wallet!Addresses |-> Wallet!Balance(a)]

MoneyIsSum == \E g : Sums(g, Balances, Wallet!Addresses) /\ Wallet!Money = g[Wallet!Addresses]

LEMMA AddressesAre ==
  /\ Wallet!Addresses = 0 .. MaxDrawn
  /\ IsFiniteSet(Wallet!Addresses)
<1>1. Wallet!Addresses = 0 .. MaxDrawn
  BY DEF Wallet!Addresses, Wallet!Foreign
<1>2. MaxDrawn \in Int /\ 0 \in Int
  BY WalletAssumption
<1>3. QED
  BY <1>1, <1>2, FS_Interval

LEMMA MoneyIs == MoneyIsSum
<1> DEFINE A == Wallet!Addresses
           picked(g, s) == IF s = {} THEN 0
                           ELSE LET x == CHOOSE x \in s : TRUE
                                IN Wallet!Balance(x) + g[s \ {x}]
           summed(g, s) == IF s = {} THEN 0
                           ELSE LET x == CHOOSE x \in s : TRUE
                                IN Balances[x] + g[s \ {x}]
           iter == CHOOSE g : g = [s \in SUBSET A |-> picked(g, s)]
<1>1. ASSUME NEW g
      PROVE  [s \in SUBSET A |-> picked(g, s)] = [s \in SUBSET A |-> summed(g, s)]
  <2>1. ASSUME NEW s \in SUBSET A
        PROVE  picked(g, s) = summed(g, s)
    <3> DEFINE x == CHOOSE x \in s : TRUE
    <3>1. s # {} => x \in A
      OBVIOUS
    <3> HIDE DEF x
    <3>2. s # {} => Balances[x] = Wallet!Balance(x)
      BY <3>1 DEF Balances
    <3> USE DEF x
    <3>3. QED
      BY <3>2
  <2> HIDE DEF picked, summed
  <2>2. QED
    BY <2>1
<1>2. PICK g : Sums(g, Balances, A)
  BY SumsExist, AddressesAre
<1>3. g = [s \in SUBSET A |-> summed(g, s)]
  BY <1>2 DEF Sums
<1>4. \E h : h = [s \in SUBSET A |-> picked(h, s)]
  <2> HIDE DEF picked, summed
  <2> QED BY <1>1, <1>3
<1>5. iter = [s \in SUBSET A |-> picked(iter, s)]
  <2> HIDE DEF picked
  <2> QED BY <1>4
<1>6. Wallet!Money = iter[A]
  BY DEF Wallet!Money, Wallet!MapThenSumSet, Wallet!MapThenFoldSet
<1> HIDE DEF iter
<1>7. iter = [s \in SUBSET A |-> summed(iter, s)]
  <2> HIDE DEF picked, summed
  <2> QED BY <1>1, <1>5
<1>8. Sums(iter, Balances, A)
  BY <1>7 DEF Sums
<1>9. QED
  BY <1>6, <1>8 DEF MoneyIsSum

-----------------------------------------------------------------------------
\* What is written.

KeysAfter(w, k) ==
  IF w.key = None THEN k
  ELSE IF w.key.has THEN k \cup {w.key.address} ELSE k \ {w.key.address}

ListAfter(w, l) == IF w.list = None THEN l ELSE w.list

(***************************************************************************)
(* Writing ws, one after the other, makes k1 and l1 of the keys k0 and of  *)
(* the list l0; an account is written when the list is that of the keys.   *)
(***************************************************************************)
Leads(k0, l0, ws, k1, l1) ==
  \E K, L :
    /\ K[1] = k0 /\ L[1] = l0
    /\ K[Len(ws) + 1] = k1 /\ L[Len(ws) + 1] = l1
    /\ \A i \in DOMAIN ws :
         /\ K[i + 1] = KeysAfter(ws[i], K[i])
         /\ L[i + 1] = ListAfter(ws[i], L[i])
         /\ ws[i].record # None => K[i] = Entries(L[i])

LEMMA LeadsNowhere ==
  ASSUME NEW k0, NEW l0, NEW k1, NEW l1
  PROVE  Leads(k0, l0, <<>>, k1, l1) <=> k0 = k1 /\ l0 = l1
<1>1. Leads(k0, l0, <<>>, k1, l1) => k0 = k1 /\ l0 = l1
  BY DEF Leads
<1>2. ASSUME k0 = k1, l0 = l1 PROVE Leads(k0, l0, <<>>, k1, l1)
  <2> DEFINE K == <<k0>>
             L == <<l0>>
  <2>1. K[1] = k0 /\ L[1] = l0 /\ Len(<<>>) + 1 = 1 /\ DOMAIN <<>> = {}
    OBVIOUS
  <2> HIDE DEF K, L
  <2>2. QED
    BY <1>2, <2>1 DEF Leads
<1>3. QED
  BY <1>1, <1>2

LEMMA LeadsOn ==
  ASSUME NEW T, NEW ws \in Seq(T), NEW w \in T, NEW k0, NEW l0, NEW k1, NEW l1,
         Leads(k0, l0, ws, k1, l1), w.record # None => k1 = Entries(l1)
  PROVE  Leads(k0, l0, Append(ws, w), KeysAfter(w, k1), ListAfter(w, l1))
<1> DEFINE n == Len(ws)
           more == Append(ws, w)
<1>1. PICK K, L :
        /\ K[1] = k0 /\ L[1] = l0
        /\ K[n + 1] = k1 /\ L[n + 1] = l1
        /\ \A i \in DOMAIN ws :
             /\ K[i + 1] = KeysAfter(ws[i], K[i])
             /\ L[i + 1] = ListAfter(ws[i], L[i])
             /\ ws[i].record # None => K[i] = Entries(L[i])
  BY DEF Leads
<1> DEFINE K2 == [i \in 1 .. (n + 2) |-> IF i = n + 2 THEN KeysAfter(w, k1) ELSE K[i]]
           L2 == [i \in 1 .. (n + 2) |-> IF i = n + 2 THEN ListAfter(w, l1) ELSE L[i]]
<1>2. n \in Nat /\ DOMAIN ws = 1 .. n
  OBVIOUS
<1>3. /\ \A i \in 1 .. (n + 1) : K2[i] = K[i] /\ L2[i] = L[i]
      /\ K2[n + 2] = KeysAfter(w, k1) /\ L2[n + 2] = ListAfter(w, l1)
  BY <1>2
<1>4. /\ Len(more) = n + 1 /\ DOMAIN more = 1 .. (n + 1)
      /\ \A i \in 1 .. n : more[i] = ws[i]
      /\ more[n + 1] = w
  OBVIOUS
<1> HIDE DEF n, more, K2, L2
<1>5. K2[1] = k0 /\ L2[1] = l0
  BY <1>1, <1>2, <1>3
<1>6. (n + 1) + 1 = n + 2
  BY <1>2
<1>7. ASSUME NEW i \in DOMAIN more
      PROVE  /\ K2[i + 1] = KeysAfter(more[i], K2[i])
             /\ L2[i + 1] = ListAfter(more[i], L2[i])
             /\ more[i].record # None => K2[i] = Entries(L2[i])
  <2>1. CASE i = n + 1
    <3>1. K2[i] = k1 /\ L2[i] = l1 /\ more[i] = w
      BY <1>1, <1>2, <1>3, <1>4, <2>1
    <3>2. QED
      BY <1>3, <1>6, <2>1, <3>1
  <2>2. CASE i # n + 1
    <3>1. i \in 1 .. n /\ i \in 1 .. (n + 1) /\ i + 1 \in 1 .. (n + 1)
      BY <1>2, <1>4, <2>2
    <3>2. QED
      BY <1>1, <1>2, <1>3, <1>4, <3>1
  <2>3. QED
    BY <2>1, <2>2
<1>8. K2[Len(more) + 1] = KeysAfter(w, k1) /\ L2[Len(more) + 1] = ListAfter(w, l1)
  BY <1>3, <1>4, <1>6
<1>9. Leads(k0, l0, more, KeysAfter(w, k1), ListAfter(w, l1))
  BY <1>5, <1>7, <1>8 DEF Leads
<1>10. QED
  BY <1>9 DEF more

LEMMA LeadsFromNext ==
  ASSUME NEW T, NEW ws \in Seq(T), ws # <<>>, NEW k0, NEW l0, NEW k1, NEW l1,
         Leads(k0, l0, ws, k1, l1)
  PROVE  Leads(KeysAfter(Head(ws), k0), ListAfter(Head(ws), l0), Tail(ws), k1, l1)
<1> DEFINE n == Len(ws)
           rest == Tail(ws)
<1>1. PICK K, L :
        /\ K[1] = k0 /\ L[1] = l0
        /\ K[n + 1] = k1 /\ L[n + 1] = l1
        /\ \A i \in DOMAIN ws :
             /\ K[i + 1] = KeysAfter(ws[i], K[i])
             /\ L[i + 1] = ListAfter(ws[i], L[i])
             /\ ws[i].record # None => K[i] = Entries(L[i])
  BY DEF Leads
<1> DEFINE K2 == [i \in 1 .. n |-> K[i + 1]]
           L2 == [i \in 1 .. n |-> L[i + 1]]
<1>2. /\ n \in Nat \ {0} /\ DOMAIN ws = 1 .. n
      /\ Len(rest) = n - 1 /\ DOMAIN rest = 1 .. (n - 1)
      /\ \A i \in 1 .. (n - 1) : rest[i] = ws[i + 1]
      /\ Head(ws) = ws[1]
  BY Tailed
<1>3. \A i \in 1 .. n : K2[i] = K[i + 1] /\ L2[i] = L[i + 1]
  OBVIOUS
<1> HIDE DEF n, rest, K2, L2
<1>4. K2[1] = KeysAfter(Head(ws), k0) /\ L2[1] = ListAfter(Head(ws), l0)
  <2>1. 1 \in 1 .. n
    BY <1>2
  <2>2. K2[1] = K[1 + 1] /\ L2[1] = L[1 + 1]
    BY <1>3, <2>1
  <2>3. QED
    BY <1>1, <1>2, <2>1, <2>2
<1>5. (n - 1) + 1 = n /\ n \in 1 .. n
  BY <1>2
<1>6. K2[n] = k1 /\ L2[n] = l1
  BY <1>1, <1>3, <1>5
<1>7. ASSUME NEW i \in DOMAIN rest
      PROVE  /\ K2[i + 1] = KeysAfter(rest[i], K2[i])
             /\ L2[i + 1] = ListAfter(rest[i], L2[i])
             /\ rest[i].record # None => K2[i] = Entries(L2[i])
  <2>1. i \in 1 .. (n - 1) /\ i \in 1 .. n /\ i + 1 \in 1 .. n
    BY <1>2
  <2>2. QED
    BY <1>1, <1>2, <1>3, <2>1
<1>8. QED
  BY <1>2, <1>4, <1>5, <1>6, <1>7 DEF Leads, rest

LEMMA LeadsFromKeys ==
  ASSUME NEW T, NEW ws \in Seq(T), NEW k0, NEW l0, NEW l1,
         Leads(k0, l0, ws, Entries(l1), l1),
         \A i \in DOMAIN ws : ws[i].record # None
  PROVE  k0 = Entries(l0)
<1>1. CASE ws = <<>>
  BY <1>1, LeadsNowhere
<1>2. CASE ws # <<>>
  <2>1. 1 \in DOMAIN ws
    BY <1>2
  <2>2. QED
    BY <2>1 DEF Leads
<1>3. QED
  BY <1>1, <1>2

-----------------------------------------------------------------------------
\* The invariant of the wallet.

\* The addresses there can have been by now; with a seed the random keys start again.
Born == IF Seeded THEN Wallet!Addresses ELSE 0 .. drawn

AccountType(B) == [address : B, balance : Nat, read : Nat \cup {None}, key : BOOLEAN]
KeyType(B) == [address : B, has : BOOLEAN]
WriteType(B) ==
  [by : Clients \cup {None}, record : AccountType(B) \cup {None},
   key : KeyType(B) \cup {None}, list : Seq(B) \cup {None}]

Uses == {"get", "nonce", "transfer"}
CallType(B) ==
  [do : {"nothing", "new", "delete", "default"} \cup Uses,
   need : Seq(B), got : Seq(AccountType(B)), reading : AccountType(B) \cup {None},
   puts : Seq(AccountType(B)), waits : BOOLEAN]

\* No list has an address twice, and no account has been made of a key not drawn.
WalletType ==
  /\ drawn \in 0 .. MaxDrawn /\ minted \in Nat /\ stale \in BOOLEAN /\ torn \in BOOLEAN
  /\ records \in [Wallet!Addresses -> Nat \cup {None}]
  /\ \A a \in Wallet!Addresses \ Born : records[a] = None
  /\ keys \subseteq Wallet!Addresses
  /\ storedList \in Seq(Born) /\ NoneTwice(storedList)
  /\ list \in Seq(Born) /\ NoneTwice(list)
  /\ writes \in Seq(WriteType(Born))
  /\ \A i \in DOMAIN writes : writes[i].list # None => NoneTwice(writes[i].list)
  /\ calls \in [Clients -> CallType(Born)]

\* Whatever is not written yet, the keys and the list then are as they are to be.
KeyInv == ~torn => Leads(keys, storedList, writes, Entries(list), list)

(***************************************************************************)
(* What an account that is put adds to what it was when it was read.       *)
(***************************************************************************)
Worth(balance) == IF balance = None THEN 0 ELSE balance
Gain(account) == account.balance - Worth(account.read)
Added(w) == IF w.record = None THEN 0 ELSE Gain(w.record)

(***************************************************************************)
(* A call k has what it needs before it puts anything.  Of a transfer the  *)
(* first account is to lose, the second to gain the amount.                *)
(***************************************************************************)
Gathers(k) == k.need # <<>> \/ k.got # <<>>

CallIsRight(k) ==
  /\ k.reading # None => k.need # <<>> /\ Gain(k.reading) = 0
  /\ Gathers(k) => k.do \in Uses /\ k.puts = <<>> /\ (k.waits => k.reading # None)
  /\ \A i \in DOMAIN k.got : Gain(k.got[i]) = 0
  /\ k.do # "transfer" => \A i \in DOMAIN k.puts : Gain(k.puts[i]) = 0
  /\ k.do = "transfer" =>
       /\ Gathers(k) => Len(k.need) + Len(k.got) = 2
       /\ Len(k.puts) \in 0 .. 2
       /\ Len(k.puts) = 2 => /\ ~k.waits
                             /\ Gain(k.puts[1]) = 0 - Amount /\ Gain(k.puts[2]) = Amount
       /\ Len(k.puts) = 1 => Gain(k.puts[1]) = Amount

\* What the write a call waits for adds.
Pays(k) == k.do = "transfer" /\ ~Gathers(k)

Owed(k) ==
  IF ~Pays(k) THEN 0
  ELSE IF Len(k.puts) = 1 THEN 0 - Amount ELSE IF Len(k.puts) = 0 THEN Amount ELSE 0

\* Of the calls ks, each waits just while one of the writes ws is its own.
WritesAreRight(ws, ks) ==
  /\ \A i \in DOMAIN ws : ws[i].record # None => ws[i].by \in Clients
  /\ \A i \in DOMAIN ws : ws[i].by \in Clients => Added(ws[i]) = Owed(ks[ws[i].by])
  /\ \A i, j \in DOMAIN ws : ws[i].by \in Clients /\ ws[i].by = ws[j].by => i = j
  /\ \A c \in Clients : ks[c].waits <=> \E i \in DOMAIN ws : ws[i].by = c

CallInv ==
  /\ \A c \in Clients : CallIsRight(calls[c])
  /\ WritesAreRight(writes, calls)

(***************************************************************************)
(* Of a call that is halfway one account of a transfer is written and the  *)
(* other is not; what is missing is with these calls.                      *)
(***************************************************************************)
Halfway(k) == Pays(k) /\ Len(k.puts) = IF k.waits THEN 0 ELSE 1

MoneyInv ==
  ~Seeded /\ ~stale /\ ~torn =>
    Wallet!Money + Amount * Cardinality({c \in Clients : Halfway(calls[c])}) = minted

WalletInv == WalletType /\ KeyInv /\ CallInv /\ MoneyInv

LEMMA BornIs ==
  ASSUME drawn \in 0 .. MaxDrawn
  PROVE  Born \subseteq Wallet!Addresses /\ Born \subseteq Nat /\ 0 \in Born
  BY AddressesAre, WalletAssumption DEF Born

LEMMA NumbersAre ==
  TotalAccounts \in Nat /\ MaxDrawn \in Nat /\ DefaultBalance \in Nat /\ Amount \in Nat
  BY WalletAssumption

\* None is none of the things it stands for the lack of.
LEMMA NoneIs ==
  ASSUME NEW B \in SUBSET Nat
  PROVE  /\ None \notin Clients /\ None \notin Nat
         /\ None \notin AccountType(B) /\ None \notin KeyType(B) /\ None \notin Seq(B)
<1>1. None \notin Clients /\ None \notin Nat
  BY WalletAssumption
<1>2. AccountType(B) \subseteq AccountType(Nat) /\ KeyType(B) \subseteq KeyType(Nat)
  BY DEF AccountType, KeyType
<1>3. None \notin AccountType(Nat) /\ None \notin KeyType(Nat)
  BY WalletAssumption DEF AccountType, KeyType
<1>4. Seq(B) \subseteq Seq(Nat)
  BY Widened
<1>5. None \notin Seq(Nat)
  BY WalletAssumption
<1>6. QED
  BY <1>1, <1>2, <1>3, <1>4, <1>5

LEMMA TypesGrow ==
  ASSUME NEW B, NEW C, B \subseteq C
  PROVE  /\ Seq(B) \subseteq Seq(C)
         /\ WriteType(B) \subseteq WriteType(C) /\ Seq(WriteType(B)) \subseteq Seq(WriteType(C))
         /\ CallType(B) \subseteq CallType(C)
<1>1. Seq(B) \subseteq Seq(C)
  BY Widened
<1>2. AccountType(B) \subseteq AccountType(C) /\ KeyType(B) \subseteq KeyType(C)
  BY DEF AccountType, KeyType
<1>3. Seq(AccountType(B)) \subseteq Seq(AccountType(C))
  BY <1>2, Widened
<1>4. WriteType(B) \subseteq WriteType(C)
  BY <1>1, <1>2 DEF WriteType
<1>5. Seq(WriteType(B)) \subseteq Seq(WriteType(C))
  BY <1>4, Widened
<1>6. CallType(B) \subseteq CallType(C)
  BY <1>1, <1>2, <1>3 DEF CallType
<1>7. QED
  BY <1>1, <1>4, <1>5, <1>6

(***************************************************************************)
(* What each step of a call does to the call: the others stay.             *)
(***************************************************************************)
OthersStay(c, B) ==
  calls' \in [Clients -> CallType(B)] /\ \A d \in Clients \ {c} : calls'[d] = calls[d]

LEMMA CallIs ==
  ASSUME WalletType, NEW c \in Clients
  PROVE  /\ calls[c] \in CallType(Born)
         /\ calls[c].need \in Seq(Born) /\ calls[c].got \in Seq(AccountType(Born))
         /\ calls[c].puts \in Seq(AccountType(Born))
         /\ calls[c].reading \in AccountType(Born) \cup {None}
         /\ calls[c].waits \in BOOLEAN
  BY DEF WalletType, CallType

LEMMA CallChanges ==
  ASSUME WalletType, NEW c \in Clients, NEW B, Born \subseteq B, NEW k \in CallType(B),
         calls' = [calls EXCEPT ![c] = k]
  PROVE  OthersStay(c, B) /\ calls'[c] = k
  BY TypesGrow DEF WalletType, OthersStay

LEMMA GainIs ==
  ASSUME NEW account \in AccountType(Born)
  PROVE  /\ Gain(account) \in Int
         /\ Gain(account) = account.balance - (IF account.read = None THEN 0 ELSE account.read)
  BY DEF AccountType, Gain, Worth

LEMMA BeginsIs ==
  ASSUME WalletType, NEW c \in Clients, Wallet!Begins(c)
  PROVE  /\ calls[c].do = "nothing" /\ calls[c].need = <<>> /\ calls[c].got = <<>>
         /\ calls[c].reading = None /\ calls[c].puts = <<>> /\ calls[c].waits = FALSE
         /\ calls[c] = Wallet!Idle
  BY DEF Wallet!Begins, Wallet!Idle

LEMMA GetRecordIs ==
  ASSUME WalletType, NEW c \in Clients, Wallet!GetRecord(c)
  PROVE  LET a == Head(calls[c].need) IN
         /\ OthersStay(c, Born)
         /\ calls[c].need # <<>> /\ a \in Born /\ calls[c].reading = None
         /\ calls'[c].do = calls[c].do /\ calls'[c].need = calls[c].need
         /\ calls'[c].got = calls[c].got /\ calls'[c].puts = calls[c].puts
         /\ calls'[c].reading \in AccountType(Born) /\ Gain(calls'[c].reading) = 0
         /\ UNCHANGED <<records, keys, storedList, drawn, minted, stale, torn>>
         /\ \/ calls'[c].waits = FALSE /\ UNCHANGED <<list, writes>>
            \/ /\ calls'[c].waits = TRUE
               /\ Wallet!PutAccount(c, Wallet!AccountOf(a, 0, None, FALSE))
<1> DEFINE k == calls[c]
           a == Head(k.need)
           isNew == records[a] = None
           account == Wallet!AccountOf(a, IF isNew THEN 0 ELSE records[a],
                                       IF isNew THEN 0 ELSE records[a], FALSE)
           l == [k EXCEPT !.reading = account, !.waits = isNew]
<1>1. k \in CallType(Born) /\ k.need # <<>> /\ k.reading = None /\ a \in Born
  BY CallIs DEF Wallet!GetRecord
<1>2. records[a] \in Nat \cup {None}
  BY <1>1, BornIs DEF WalletType
<1>3. account \in AccountType(Born)
  BY <1>1, <1>2 DEF AccountType, Wallet!AccountOf
<1>4. Gain(account) = 0
  BY <1>2, NoneIs DEF Gain, Worth, Wallet!AccountOf
<1>5. calls' = [calls EXCEPT ![c] = l]
  BY DEF Wallet!GetRecord
<1>6. /\ UNCHANGED <<records, keys, storedList, drawn, minted, stale, torn>>
      /\ IF isNew THEN Wallet!PutAccount(c, Wallet!AccountOf(a, 0, None, FALSE))
         ELSE UNCHANGED <<list, writes>>
  BY DEF Wallet!GetRecord, Wallet!database, Wallet!history
<1>7. isNew \in BOOLEAN
  OBVIOUS
<1> HIDE DEF account, isNew
<1>8. /\ l \in CallType(Born) /\ l.do = k.do /\ l.need = k.need /\ l.got = k.got
      /\ l.puts = k.puts /\ l.reading = account /\ l.waits = isNew
  BY <1>1, <1>3, <1>7 DEF CallType
<1> HIDE DEF l
<1>9. OthersStay(c, Born) /\ calls'[c] = l
  BY <1>5, <1>8, CallChanges
<1>10. QED
  BY <1>1, <1>3, <1>4, <1>6, <1>7, <1>8, <1>9

LEMMA GetPrivateKeyIs ==
  ASSUME WalletType, NEW c \in Clients, Wallet!GetPrivateKey(c), calls[c].need # <<>>
  PROVE  \E account \in AccountType(Born) :
         /\ OthersStay(c, Born)
         /\ calls[c].reading # None /\ calls[c].waits = FALSE
         /\ calls'[c].do = calls[c].do /\ calls'[c].need = Tail(calls[c].need)
         /\ calls'[c].got = Append(calls[c].got, account) /\ calls'[c].puts = calls[c].puts
         /\ calls'[c].reading = None /\ calls'[c].waits = FALSE
         /\ Gain(account) = Gain(calls[c].reading)
         /\ UNCHANGED <<records, keys, storedList, list, writes, drawn, minted, stale, torn>>
<1> DEFINE k == calls[c]
           r == k.reading
           account == [r EXCEPT !.key = r.key \/ r.address \in keys]
           l == [k EXCEPT !.need = Tail(k.need), !.reading = None, !.got = Append(k.got, account)]
<1>1. /\ k \in CallType(Born) /\ r # None /\ k.waits = FALSE
      /\ r \in AccountType(Born)
  BY CallIs DEF Wallet!GetPrivateKey
<1>2. account \in AccountType(Born) /\ account.balance = r.balance /\ account.read = r.read
  BY <1>1 DEF AccountType
<1>3. Gain(account) = Gain(r)
  BY <1>2 DEF Gain
<1>4. calls' = [calls EXCEPT ![c] = l]
  BY DEF Wallet!GetPrivateKey
<1>5. UNCHANGED <<records, keys, storedList, list, writes, drawn, minted, stale, torn>>
  BY DEF Wallet!GetPrivateKey, Wallet!database, Wallet!history
<1> HIDE DEF account
<1>6. Tail(k.need) \in Seq(Born) /\ Append(k.got, account) \in Seq(AccountType(Born))
  BY <1>2, CallIs
<1>7. /\ l \in CallType(Born) /\ l.do = k.do /\ l.need = Tail(k.need)
      /\ l.got = Append(k.got, account)
      /\ l.puts = k.puts /\ l.reading = None /\ l.waits = FALSE
  BY <1>1, <1>6 DEF CallType
<1> HIDE DEF l
<1>8. OthersStay(c, Born) /\ calls'[c] = l
  BY <1>4, <1>7, CallChanges
<1>9. QED
  BY <1>1, <1>2, <1>3, <1>5, <1>7, <1>8

LEMMA PerformIs ==
  ASSUME WalletType, NEW c \in Clients, CallIsRight(calls[c]), Wallet!Perform(c)
  PROVE  LET puts == calls'[c].puts IN
         /\ OthersStay(c, Born)
         /\ calls[c].got # <<>> /\ calls[c].need = <<>> /\ calls[c].reading = None
         /\ calls'[c].do = calls[c].do /\ calls'[c].need = <<>>
         /\ calls'[c].got = <<>> /\ puts \in Seq(AccountType(Born))
         /\ calls'[c].reading = None /\ calls'[c].waits = FALSE /\ calls[c].waits = FALSE
         /\ calls[c].do # "transfer" => \A i \in DOMAIN puts : Gain(puts[i]) = 0
         /\ calls[c].do = "transfer" =>
              \/ puts = <<>>
              \/ Len(puts) = 2 /\ Gain(puts[1]) = 0 - Amount /\ Gain(puts[2]) = Amount
         /\ UNCHANGED <<records, keys, storedList, list, writes, drawn, minted, stale, torn>>
<1> DEFINE k == calls[c]
           new == CASE k.do = "get" -> <<>>
                    [] k.do = "nonce" -> k.got
                    [] k.do = "transfer" -> Wallet!Transfer(k.got)
           l == [k EXCEPT !.got = <<>>, !.puts = new]
<1>1. /\ k \in CallType(Born) /\ k.got # <<>> /\ k.need = <<>> /\ k.reading = None
      /\ k.do \in Uses /\ k.waits = FALSE
      /\ k.got \in Seq(AccountType(Born))
      /\ \A i \in DOMAIN k.got : Gain(k.got[i]) = 0
      /\ k.do = "transfer" => Len(k.need) + Len(k.got) = 2
  BY CallIs DEF Wallet!Perform, CallIsRight, Gathers
<1>2. /\ new \in Seq(AccountType(Born))
      /\ k.do # "transfer" => \A i \in DOMAIN new : Gain(new[i]) = 0
      /\ k.do = "transfer" =>
           \/ new = <<>>
           \/ Len(new) = 2 /\ Gain(new[1]) = 0 - Amount /\ Gain(new[2]) = Amount
  <2>1. CASE k.do = "get"
    BY <2>1
  <2>2. CASE k.do = "nonce"
    BY <1>1, <2>2
  <2>3. CASE k.do = "transfer"
    <3> DEFINE from == k.got[1]
               to == k.got[2]
    <3>1. Len(k.got) = 2
      BY <1>1, <2>3
    <3>2. 1 \in DOMAIN k.got /\ 2 \in DOMAIN k.got
      BY <1>1, <3>1
    <3>3. from \in AccountType(Born) /\ to \in AccountType(Born) /\ Gain(from) = 0 /\ Gain(to) = 0
      BY <1>1, <3>2
    <3>4. new = Wallet!Transfer(k.got)
      BY <2>3
    <3>5. CASE from.balance < Amount
      BY <2>3, <3>4, <3>5 DEF Wallet!Transfer
    <3>6. CASE ~(from.balance < Amount)
      <4> DEFINE less == [from EXCEPT !.balance = from.balance - Amount]
                 more == [to EXCEPT !.balance = to.balance + Amount]
      <4>1. new = <<less, more>>
        BY <3>4, <3>6 DEF Wallet!Transfer
      <4>2. /\ less \in AccountType(Born) /\ more \in AccountType(Born)
            /\ less.balance = from.balance - Amount /\ less.read = from.read
            /\ more.balance = to.balance + Amount /\ more.read = to.read
        BY <3>3, <3>6, NumbersAre DEF AccountType
      <4>3. Gain(less) = 0 - Amount /\ Gain(more) = Amount
        <5>1. /\ from.balance \in Nat /\ Worth(from.read) \in Nat
              /\ to.balance \in Nat /\ Worth(to.read) \in Nat
          BY <3>3 DEF AccountType, Worth
        <5>2. QED
          BY <3>3, <4>2, <5>1, NumbersAre DEF Gain
      <4> HIDE DEF less, more, new
      <4>4. QED
        BY <2>3, <4>1, <4>2, <4>3
    <3>7. QED
      BY <3>5, <3>6
  <2>4. QED
    BY <1>1, <2>1, <2>2, <2>3 DEF Uses
<1>3. calls' = [calls EXCEPT ![c].got = <<>>, ![c].puts = new]
  BY Zenon DEF Wallet!Perform
<1>4. UNCHANGED <<records, keys, storedList, list, writes, drawn, minted, stale, torn>>
  BY DEF Wallet!Perform, Wallet!database, Wallet!history
<1> HIDE DEF new
<1>5. calls' = [calls EXCEPT ![c] = l]
  BY <1>3
<1>6. <<>> \in Seq(AccountType(Born))
  OBVIOUS
<1>7. /\ l \in CallType(Born) /\ l.do = k.do /\ l.need = <<>> /\ l.got = <<>> /\ l.puts = new
      /\ l.reading = None /\ l.waits = FALSE
  <2>1. k \in CallType(Born) /\ new \in Seq(AccountType(Born))
    BY <1>1, <1>2
  <2>2. l \in CallType(Born) /\ l.do = k.do /\ l.need = k.need /\ l.got = <<>> /\ l.puts = new
        /\ l.reading = k.reading /\ l.waits = k.waits
    BY <2>1, <1>6 DEF CallType
  <2> HIDE DEF l
  <2>3. QED
    BY <1>1, <2>2
<1> HIDE DEF l
<1>8. OthersStay(c, Born) /\ calls'[c] = l
  BY <1>5, <1>7, CallChanges
<1>9. QED
  BY <1>1, <1>2, <1>4, <1>7, <1>8

LEMMA PutIs ==
  ASSUME WalletType, NEW c \in Clients, Wallet!Put(c)
  PROVE  /\ OthersStay(c, Born)
         /\ calls[c].puts # <<>> /\ calls[c].waits = FALSE
         /\ calls'[c].do = calls[c].do /\ calls'[c].need = calls[c].need
         /\ calls'[c].got = calls[c].got /\ calls'[c].puts = Tail(calls[c].puts)
         /\ calls'[c].reading = calls[c].reading /\ calls'[c].waits = TRUE
         /\ Wallet!PutAccount(c, Head(calls[c].puts))
         /\ Head(calls[c].puts) \in AccountType(Born)
         /\ UNCHANGED <<records, keys, storedList, drawn, minted, stale, torn>>
<1> DEFINE k == calls[c]
           l == [k EXCEPT !.puts = Tail(k.puts), !.waits = TRUE]
<1>1. /\ k \in CallType(Born) /\ k.puts # <<>> /\ k.waits = FALSE
      /\ k.puts \in Seq(AccountType(Born))
  BY CallIs DEF Wallet!Put
<1>2. Head(k.puts) \in AccountType(Born) /\ Tail(k.puts) \in Seq(AccountType(Born))
  BY <1>1
<1>3. calls' = [calls EXCEPT ![c] = l] /\ Wallet!PutAccount(c, Head(calls[c].puts))
  BY DEF Wallet!Put
<1>4. UNCHANGED <<records, keys, storedList, drawn, minted, stale, torn>>
  BY DEF Wallet!Put, Wallet!database, Wallet!history
<1>5. /\ l \in CallType(Born) /\ l.do = k.do /\ l.need = k.need /\ l.got = k.got
      /\ l.puts = Tail(k.puts) /\ l.reading = k.reading /\ l.waits = TRUE
  BY <1>1, <1>2 DEF CallType
<1> HIDE DEF l
<1>6. OthersStay(c, Born) /\ calls'[c] = l
  BY <1>3, <1>5, CallChanges
<1>7. QED
  BY <1>1, <1>2, <1>3, <1>4, <1>5, <1>6

\* The list and what is written of it, when an account is put.
LEMMA PutAccountIs ==
  ASSUME WalletType, NEW c \in Clients, NEW account \in AccountType(Born),
         Wallet!PutAccount(c, account)
  PROVE  \E w \in WriteType(Born) :
           /\ writes' = Append(writes, w)
           /\ w.by = c /\ w.record = account /\ w.record # None
           /\ w.list # None => NoneTwice(w.list)
           /\ list' \in Seq(Born) /\ NoneTwice(list')
           /\ list' = ListAfter(w, list) /\ Entries(list') = KeysAfter(w, Entries(list))
<1> DEFINE a == account.address
           key == IF account.key THEN [address |-> a, has |-> TRUE] ELSE None
           new == IF list' = list THEN None ELSE list'
           w == Wallet!WriteOf(c, account, key, new)
<1>0. /\ writes' = Append(writes, w) /\ list \in Seq(Born) /\ NoneTwice(list)
      /\ list' = IF account.key THEN Wallet!Listed(a) ELSE list
      /\ a \in Born /\ Born \subseteq Nat
  BY BornIs DEF Wallet!PutAccount, WalletType, AccountType
<1>1. /\ Wallet!Listed(a) \in Seq(Born) /\ NoneTwice(Wallet!Listed(a))
      /\ Entries(Wallet!Listed(a)) = Entries(list) \cup {a}
  <2>1. Wallet!Contains(list, a) <=> a \in Entries(list)
    BY <1>0 DEF Wallet!Contains, Entries
  <2>2. QED
    BY <1>0, <2>1, Appended DEF Wallet!Listed
<1>2. list' \in Seq(Born) /\ NoneTwice(list')
  BY <1>0, <1>1
<1>3. None \notin AccountType(Born) /\ None \notin KeyType(Born) /\ None \notin Seq(Born)
  BY <1>0, NoneIs
<1>4. key \in KeyType(Born) \cup {None} /\ (account.key => key # None /\ key.has /\ key.address = a)
  <2>1. CASE account.key
    <3>1. key = [address |-> a, has |-> TRUE]
      BY <2>1
    <3> HIDE DEF key
    <3>2. key \in KeyType(Born)
      BY <1>0, <3>1 DEF KeyType
    <3>3. key.has = TRUE /\ key.address = a
      BY <3>1
    <3>4. QED
      BY <1>3, <3>2, <3>3
  <2>2. CASE ~account.key
    BY <2>2
  <2>3. QED
    BY <2>1, <2>2
<1>5. new \in Seq(Born) \cup {None} /\ (new # None => new = list') /\ (new = None <=> list' = list)
  BY <1>2, <1>3
<1>6. ~account.key => key = None
  OBVIOUS
<1> HIDE DEF key, new
<1>7. w \in WriteType(Born) /\ w.by = c /\ w.record = account /\ w.key = key /\ w.list = new
  BY <1>4, <1>5 DEF WriteType, Wallet!WriteOf
<1> HIDE DEF w
<1>8. list' = ListAfter(w, list)
  BY <1>5, <1>7 DEF ListAfter
<1>9. Entries(list') = KeysAfter(w, Entries(list))
  BY <1>0, <1>1, <1>4, <1>6, <1>7 DEF KeysAfter
<1>10. account # None
  BY <1>3
<1>11. QED
  BY <1>0, <1>2, <1>5, <1>7, <1>8, <1>9, <1>10

LEMMA MoneyIsNext == MoneyIsSum'
  BY MoneyIs, PTL

LEMMA BalancesAre ==
  ASSUME WalletType
  PROVE  /\ Balances \in [Wallet!Addresses -> Int]
         /\ \A a \in Wallet!Addresses : Balances[a] = Worth(records[a])
  BY DEF WalletType, Balances, Wallet!Balance, Worth

LEMMA BalancesAreNext ==
  ASSUME WalletType'
  PROVE  /\ Balances' \in [Wallet!Addresses -> Int]
         /\ \A a \in Wallet!Addresses : Balances'[a] = Worth(records'[a])
  BY DEF WalletType, Balances, Wallet!Balance, Worth

\* Some of the balances grow by d.
LEMMA MoneyGrows ==
  ASSUME WalletType, WalletType', NEW more \in SUBSET Wallet!Addresses, NEW d \in Int,
         \A a \in Wallet!Addresses :
           Worth(records'[a]) = Worth(records[a]) + (IF a \in more THEN d ELSE 0)
  PROVE  Wallet!Money \in Int /\ Wallet!Money' = Wallet!Money + d * Cardinality(more)
<1> DEFINE A == Wallet!Addresses
<1>1. PICK g : Sums(g, Balances, A) /\ Wallet!Money = g[A]
  BY MoneyIs DEF MoneyIsSum
<1>2. PICK h : Sums(h, Balances', A) /\ Wallet!Money' = h[A]
  <2>1. \E h : Sums(h, Balances', A) /\ Wallet!Money' = h[A]
    BY MoneyIsNext DEF MoneyIsSum, Sums, Wallet!Addresses, Wallet!Foreign
  <2>2. QED
    BY <2>1
<1>3. IsFiniteSet(A)
  BY AddressesAre
<1>4. Balances \in [A -> Int] /\ Balances' \in [A -> Int]
  BY BalancesAre, BalancesAreNext
<1>5. \A a \in A : Balances'[a] = Balances[a] + (IF a \in more THEN d ELSE 0)
  BY BalancesAre, BalancesAreNext
<1>6. PICK f, k : f = Balances /\ k = Balances'
  OBVIOUS
<1>7. /\ f \in [A -> Int] /\ k \in [A -> Int] /\ Cardinality(more) \in Int
      /\ \A a \in A : k[a] = f[a] + (IF a \in more THEN d ELSE 0)
      /\ Sums(g, f, A) /\ Sums(h, k, A)
  <2>1. Cardinality(more) \in Int
    BY <1>3, FS_Subset, FS_CardinalityType
  <2>2. QED
    BY <1>1, <1>2, <1>4, <1>5, <1>6, <2>1
<1> HIDE DEF A
<1>8. more \in SUBSET A
  BY DEF A
<1>9. g[A] \in Int /\ h[A] = g[A] + d * Cardinality(more)
  BY <1>3, <1>7, <1>8, SumsDiffer
<1>10. QED
  BY <1>1, <1>2, <1>9

LEMMA MoneyStays ==
  ASSUME WalletType, WalletType', UNCHANGED records
  PROVE  Wallet!Money \in Int /\ Wallet!Money' = Wallet!Money
<1>1. Wallet!Money \in Int /\ Wallet!Money' = Wallet!Money + 0 * Cardinality({})
  <2>1. ASSUME NEW a \in Wallet!Addresses
        PROVE  Worth(records'[a]) = Worth(records[a]) + (IF a \in {} THEN 0 ELSE 0)
    <3>1. records[a] \in Nat \cup {None} /\ None \notin Nat
      BY NoneIs, BornIs DEF WalletType
    <3>2. QED
      BY <3>1 DEF Worth
  <2>2. QED
    BY <2>1, MoneyGrows
<1>2. Cardinality({}) = 0
  BY FS_EmptySet
<1>3. QED
  BY <1>1, <1>2

LEMMA MoneyIsInt ==
  ASSUME WalletType
  PROVE  Wallet!Money \in Int
<1>1. PICK f, g : f = Balances /\ Sums(g, f, Wallet!Addresses) /\ Wallet!Money = g[Wallet!Addresses]
  BY MoneyIs DEF MoneyIsSum
<1>2. f \in [Wallet!Addresses -> Int] /\ IsFiniteSet(Wallet!Addresses)
  BY <1>1, BalancesAre, AddressesAre
<1> DEFINE A == Wallet!Addresses
<1>3. \A a \in A : f[a] = f[a] + (IF a \in {} THEN 0 ELSE 0)
  BY <1>2
<1>4. Sums(g, f, A) /\ f \in [A -> Int] /\ IsFiniteSet(A) /\ Wallet!Money = g[A]
  BY <1>1, <1>2
<1> HIDE DEF A
<1>5. {} \in SUBSET A /\ 0 \in Int
  OBVIOUS
<1>6. g[A] \in Int
  BY <1>3, <1>4, <1>5, SumsDiffer
<1>7. QED
  BY <1>4, <1>6

\* The sum of no balances, then that of those of the first accounts.
LEMMA MoneyAtFirst ==
  ASSUME WalletType, NEW born \in SUBSET Wallet!Addresses,
         records = [a \in Wallet!Addresses |-> IF a \in born THEN DefaultBalance ELSE None]
  PROVE  Wallet!Money = DefaultBalance * Cardinality(born)
<1> DEFINE A == Wallet!Addresses
           zero == [a \in A |-> 0]
           g == [s \in SUBSET A |-> 0]
<1>1. IsFiniteSet(A)
  BY AddressesAre
<1>2. Sums(g, zero, A)
  <2>1. ASSUME NEW s \in SUBSET A
        PROVE  0 = IF s = {} THEN 0
                   ELSE LET x == CHOOSE x \in s : TRUE IN zero[x] + g[s \ {x}]
    <3> DEFINE x == CHOOSE x \in s : TRUE
    <3>1. s # {} => x \in A /\ s \ {x} \in SUBSET A
      OBVIOUS
    <3> HIDE DEF x
    <3>2. s # {} => zero[x] = 0 /\ g[s \ {x}] = 0
      BY <3>1
    <3> HIDE DEF zero, g
    <3>3. s # {} => zero[x] + g[s \ {x}] = 0
      BY <3>2
    <3>4. QED
      BY <3>3 DEF x
  <2>2. QED
    BY <2>1 DEF Sums
<1>3. PICK h : Sums(h, Balances, A) /\ Wallet!Money = h[A]
  BY MoneyIs DEF MoneyIsSum
<1>4. zero \in [A -> Int] /\ Balances \in [A -> Int] /\ DefaultBalance \in Int
  BY BalancesAre, NumbersAre
<1>5. \A a \in A : Balances[a] = zero[a] + (IF a \in born THEN DefaultBalance ELSE 0)
  <2>1. None \notin Nat
    BY NoneIs
  <2>2. ASSUME NEW a \in A
        PROVE  Worth(records[a]) = IF a \in born THEN DefaultBalance ELSE 0
    BY <2>1, NumbersAre DEF Worth
  <2>3. QED
    BY <2>2, BalancesAre, NumbersAre
<1>6. g[A] = 0
  OBVIOUS
<1> HIDE DEF A, zero, g
<1>7. h[A] = g[A] + DefaultBalance * Cardinality(born)
  BY <1>1, <1>2, <1>3, <1>4, <1>5, SumsDiffer DEF A
<1>8. IsFiniteSet(born) /\ Cardinality(born) \in Int
  BY <1>1, FS_Subset, FS_CardinalityType DEF A
<1>9. QED
  BY <1>3, <1>4, <1>6, <1>7, <1>8

-----------------------------------------------------------------------------
\* What has been given to the database.

Queued(B, ws, ks) ==
  /\ ws \in Seq(WriteType(B))
  /\ \A i \in DOMAIN ws : ws[i].list # None => NoneTwice(ws[i].list)
  /\ WritesAreRight(ws, ks)

\* A write that no call waits for.
LEMMA OneMore ==
  ASSUME NEW B, NEW ws, NEW ks, Queued(B, ws, ks), None \notin Clients,
         NEW w \in WriteType(B), w.by = None, w.record = None, w.list # None => NoneTwice(w.list)
  PROVE  Queued(B, Append(ws, w), ks)
<1> DEFINE more == Append(ws, w)
<1>1. /\ more \in Seq(WriteType(B))
      /\ DOMAIN more = DOMAIN ws \cup {Len(ws) + 1}
      /\ \A i \in DOMAIN ws : more[i] = ws[i]
      /\ more[Len(ws) + 1] = w
  BY Appended DEF Queued
<1> HIDE DEF more
<1>2. \A i \in DOMAIN more : more[i].list # None => NoneTwice(more[i].list)
  BY <1>1 DEF Queued
<1>3. \A i \in DOMAIN more : more[i].by \in Clients => i \in DOMAIN ws
  BY <1>1
<1>4. WritesAreRight(more, ks)
  <2>1. \A i \in DOMAIN more : more[i].record # None => more[i].by \in Clients
    BY <1>1 DEF Queued, WritesAreRight
  <2>2. \A i \in DOMAIN more : more[i].by \in Clients => Added(more[i]) = Owed(ks[more[i].by])
    BY <1>1, <1>3 DEF Queued, WritesAreRight
  <2>3. \A i, j \in DOMAIN more : more[i].by \in Clients /\ more[i].by = more[j].by => i = j
    BY <1>1, <1>3 DEF Queued, WritesAreRight
  <2>4. \A c \in Clients : ks[c].waits <=> \E i \in DOMAIN more : more[i].by = c
    BY <1>1, <1>3 DEF Queued, WritesAreRight
  <2>5. QED
    BY <2>1, <2>2, <2>3, <2>4 DEF WritesAreRight
<1>5. QED
  BY <1>1, <1>2, <1>4 DEF Queued, more

\* The write of a call that waits from now on.
LEMMA ItsOwn ==
  ASSUME NEW B, NEW ws, NEW ks, Queued(B, ws, ks), None \notin Clients, NEW c \in Clients,
         NEW w \in WriteType(B), w.by = c, w.list # None => NoneTwice(w.list),
         NEW ls, \A d \in Clients \ {c} : ls[d] = ks[d],
         ks[c].waits = FALSE, ls[c].waits = TRUE, Added(w) = Owed(ls[c])
  PROVE  Queued(B, Append(ws, w), ls)
<1> DEFINE more == Append(ws, w)
<1>1. /\ more \in Seq(WriteType(B))
      /\ DOMAIN more = DOMAIN ws \cup {Len(ws) + 1}
      /\ \A i \in DOMAIN ws : more[i] = ws[i]
      /\ more[Len(ws) + 1] = w
  BY Appended DEF Queued
<1> HIDE DEF more
<1>2. \A i \in DOMAIN more : more[i].list # None => NoneTwice(more[i].list)
  BY <1>1 DEF Queued
<1>3. \A i \in DOMAIN ws : ws[i].by # c
  BY DEF Queued, WritesAreRight
<1>4. WritesAreRight(more, ls)
  <2>1. \A i \in DOMAIN more : more[i].record # None => more[i].by \in Clients
    BY <1>1 DEF Queued, WritesAreRight
  <2>2. \A i \in DOMAIN more : more[i].by \in Clients => Added(more[i]) = Owed(ls[more[i].by])
    <3>1. ASSUME NEW i \in DOMAIN ws, ws[i].by \in Clients
          PROVE  Added(more[i]) = Owed(ls[more[i].by])
      <4>1. more[i] = ws[i] /\ ls[ws[i].by] = ks[ws[i].by]
        BY <1>1, <1>3, <3>1
      <4>2. Added(ws[i]) = Owed(ks[ws[i].by])
        BY <3>1 DEF Queued, WritesAreRight
      <4>3. QED
        BY <4>1, <4>2
    <3>2. Added(more[Len(ws) + 1]) = Owed(ls[more[Len(ws) + 1].by])
      BY <1>1
    <3>3. QED
      BY <1>1, <3>1, <3>2
  <2>3. \A i, j \in DOMAIN more : more[i].by \in Clients /\ more[i].by = more[j].by => i = j
    BY <1>1, <1>3 DEF Queued, WritesAreRight
  <2>4. \A d \in Clients : ls[d].waits <=> \E i \in DOMAIN more : more[i].by = d
    <3>1. CASE Clients = {c}
      BY <1>1, <3>1
    <3>2. ASSUME NEW d \in Clients, d # c
          PROVE  ls[d].waits <=> \E i \in DOMAIN more : more[i].by = d
      BY <1>1, <3>2 DEF Queued, WritesAreRight
    <3>3. ls[c].waits <=> \E i \in DOMAIN more : more[i].by = c
      BY <1>1
    <3>4. QED
      BY <3>2, <3>3
  <2>5. QED
    BY <2>1, <2>2, <2>3, <2>4 DEF WritesAreRight
<1>5. QED
  BY <1>1, <1>2, <1>4 DEF Queued, more

\* A call that waits neither before nor after.
LEMMA NoneOfIts ==
  ASSUME NEW B, NEW ws, NEW ks, Queued(B, ws, ks), NEW c \in Clients,
         NEW ls, \A d \in Clients \ {c} : ls[d] = ks[d],
         ks[c].waits = FALSE, ls[c].waits = FALSE
  PROVE  Queued(B, ws, ls)
<1>1. \A i \in DOMAIN ws : ws[i].by # c
  BY DEF Queued, WritesAreRight
<1>2. \A i \in DOMAIN ws : ws[i].by \in Clients => Added(ws[i]) = Owed(ls[ws[i].by])
  <2>1. ASSUME NEW i \in DOMAIN ws, ws[i].by \in Clients
        PROVE  Added(ws[i]) = Owed(ls[ws[i].by])
    <3>1. ls[ws[i].by] = ks[ws[i].by]
      BY <1>1, <2>1
    <3>2. Added(ws[i]) = Owed(ks[ws[i].by])
      BY <2>1 DEF Queued, WritesAreRight
    <3>3. QED
      BY <3>1, <3>2
  <2>2. QED
    BY <2>1
<1>3. \A d \in Clients : ls[d].waits <=> \E i \in DOMAIN ws : ws[i].by = d
  BY <1>1 DEF Queued, WritesAreRight
<1>4. WritesAreRight(ws, ls)
  BY <1>2, <1>3 DEF Queued, WritesAreRight
<1>5. QED
  BY <1>4 DEF Queued

\* The first write is done: its call, if there is one, no longer waits.
LEMMA OneLess ==
  ASSUME NEW B, NEW ws, NEW ks, Queued(B, ws, ks), ws # <<>>, None \notin Clients,
         NEW ls,
         \A c \in Clients : IF c = Head(ws).by THEN ls[c].waits = FALSE
                            ELSE ls[c] = ks[c]
  PROVE  Queued(B, Tail(ws), ls)
<1> DEFINE rest == Tail(ws)
<1>1. /\ rest \in Seq(WriteType(B)) /\ Head(ws) = ws[1] /\ 1 \in DOMAIN ws
      /\ \A i \in DOMAIN rest : i + 1 \in DOMAIN ws /\ rest[i] = ws[i + 1] /\ i + 1 # 1
      /\ \A i \in DOMAIN ws : i # 1 => i - 1 \in DOMAIN rest /\ rest[i - 1] = ws[i]
      /\ \A i, j \in DOMAIN rest : i + 1 = j + 1 => i = j
  <2>1. ws \in Seq(WriteType(B))
    BY DEF Queued
  <2>2. Len(ws) \in Nat \ {0} /\ DOMAIN rest = 1 .. (Len(ws) - 1)
    BY <2>1, Tailed
  <2>3. /\ \A i \in DOMAIN rest : i + 1 # 1
        /\ \A i, j \in DOMAIN rest : i + 1 = j + 1 => i = j
    BY <2>2
  <2>4. QED
    BY <2>1, <2>3, Tailed
<1> HIDE DEF rest
<1>2. \A i \in DOMAIN rest : rest[i].list # None => NoneTwice(rest[i].list)
  BY <1>1 DEF Queued
<1>3. \A i \in DOMAIN rest : rest[i].by \in Clients => rest[i].by # Head(ws).by
  BY <1>1 DEF Queued, WritesAreRight
<1>4. \A i \in DOMAIN rest : rest[i].record # None => rest[i].by \in Clients
  BY <1>1 DEF Queued, WritesAreRight
<1>5. \A i \in DOMAIN rest : rest[i].by \in Clients => Added(rest[i]) = Owed(ls[rest[i].by])
  <2>1. ASSUME NEW i \in DOMAIN rest, rest[i].by \in Clients
        PROVE  Added(rest[i]) = Owed(ls[rest[i].by])
    <3>1. ls[rest[i].by] = ks[rest[i].by]
      BY <1>3, <2>1
    <3>2. Added(rest[i]) = Owed(ks[rest[i].by])
      BY <1>1, <2>1 DEF Queued, WritesAreRight
    <3>3. QED
      BY <3>1, <3>2
  <2>2. QED
    BY <2>1
<1>6. ASSUME NEW i \in DOMAIN rest, NEW j \in DOMAIN rest,
             rest[i].by \in Clients, rest[i].by = rest[j].by
      PROVE  i = j
  <2>1. /\ i + 1 \in DOMAIN ws /\ rest[i] = ws[i + 1]
        /\ j + 1 \in DOMAIN ws /\ rest[j] = ws[j + 1]
    BY <1>1
  <2>2. i + 1 = j + 1
    BY <1>6, <2>1 DEF Queued, WritesAreRight
  <2>3. QED
    BY <1>1, <2>2
<1>7. \A c \in Clients : ls[c].waits <=> \E i \in DOMAIN rest : rest[i].by = c
  <2>1. ASSUME NEW c \in Clients, c = Head(ws).by
        PROVE  ls[c].waits <=> \E i \in DOMAIN rest : rest[i].by = c
    BY <1>3, <2>1
  <2>2. ASSUME NEW c \in Clients, c # Head(ws).by
        PROVE  ls[c].waits <=> \E i \in DOMAIN rest : rest[i].by = c
    <3>1. ls[c] = ks[c] /\ (ks[c].waits <=> \E i \in DOMAIN ws : ws[i].by = c)
      BY <2>2 DEF Queued, WritesAreRight
    <3>2. ASSUME NEW i \in DOMAIN ws, ws[i].by = c
          PROVE  \E j \in DOMAIN rest : rest[j].by = c
      <4>1. i - 1 \in DOMAIN rest /\ rest[i - 1] = ws[i]
        BY <1>1, <2>2, <3>2
      <4>2. QED
        BY <3>2, <4>1
    <3>3. ASSUME NEW i \in DOMAIN rest, rest[i].by = c
          PROVE  \E j \in DOMAIN ws : ws[j].by = c
      <4>1. i + 1 \in DOMAIN ws /\ rest[i] = ws[i + 1]
        BY <1>1
      <4>2. QED
        BY <3>3, <4>1
    <3>4. QED
      BY <3>1, <3>2, <3>3
  <2>3. QED
    BY <2>1, <2>2
<1>8. QED
  BY <1>1, <1>2, <1>4, <1>5, <1>6, <1>7 DEF Queued, WritesAreRight, rest

-----------------------------------------------------------------------------
\* The steps that write nothing into the database yet.

LEMMA BornGrows ==
  ASSUME WalletType, drawn' \in drawn .. MaxDrawn
  PROVE  /\ Born \subseteq Born' /\ Born' \subseteq Wallet!Addresses /\ Born' \subseteq Nat
         /\ drawn' \in 0 .. MaxDrawn /\ drawn' \in Born'
<1>1. drawn \in 0 .. MaxDrawn
  BY DEF WalletType
<1>2. drawn' \in 0 .. MaxDrawn /\ MaxDrawn \in Nat
  BY <1>1, NumbersAre
<1>3. Wallet!Addresses = 0 .. MaxDrawn
  BY AddressesAre
<1>4. QED
  BY <1>1, <1>2, <1>3 DEF Born

LEMMA StepKeeps ==
  ASSUME WalletInv, drawn' \in drawn .. MaxDrawn,
         calls' \in [Clients -> CallType(Born')],
         \A d \in Clients : CallIsRight(calls'[d]),
         \A d \in Clients : Halfway(calls'[d]) <=> Halfway(calls[d]),
         UNCHANGED <<records, keys, storedList, minted, stale, torn>>,
         list' \in Seq(Born'), NoneTwice(list'), Queued(Born', writes', calls'),
         Leads(keys, storedList, writes, Entries(list), list) =>
           Leads(keys, storedList, writes', Entries(list'), list')
  PROVE  WalletInv'
<1>1. WalletType /\ KeyInv /\ CallInv /\ MoneyInv
  BY DEF WalletInv
<1>2. /\ Born \subseteq Born' /\ Born' \subseteq Wallet!Addresses /\ drawn' \in 0 .. MaxDrawn
      /\ Seq(Born) \subseteq Seq(Born')
  BY <1>1, BornGrows, TypesGrow
<1>3. WalletType'
  <2>1. \A a \in Wallet!Addresses \ Born' : records'[a] = None
    BY <1>1, <1>2 DEF WalletType
  <2>2. /\ minted' \in Nat /\ stale' \in BOOLEAN /\ torn' \in BOOLEAN
        /\ records' \in [Wallet!Addresses -> Nat \cup {None}]
        /\ keys' \subseteq Wallet!Addresses
        /\ storedList' \in Seq(Born') /\ NoneTwice(storedList')
    BY <1>1, <1>2 DEF WalletType
  <2>3. /\ writes' \in Seq(WriteType(Born'))
        /\ \A i \in DOMAIN writes' : writes'[i].list # None => NoneTwice(writes'[i].list)
    BY DEF Queued
  <2>4. QED
    BY <1>2, <2>1, <2>2, <2>3 DEF WalletType
<1>4. KeyInv'
  BY <1>1 DEF KeyInv
<1>5. CallInv'
  BY DEF CallInv, Queued
<1>6. MoneyInv'
  <2>1. {c \in Clients : Halfway(calls'[c])} = {c \in Clients : Halfway(calls[c])}
    OBVIOUS
  <2>2. Wallet!Money' = Wallet!Money
    BY <1>1, <1>3, MoneyStays
  <2>3. QED
    BY <1>1, <2>1, <2>2 DEF MoneyInv
<1>7. QED
  BY <1>3, <1>4, <1>5, <1>6 DEF WalletInv

LEMMA InvIs ==
  ASSUME WalletInv
  PROVE  /\ WalletType /\ KeyInv /\ CallInv /\ MoneyInv
         /\ list \in Seq(Born) /\ NoneTwice(list) /\ drawn \in drawn .. MaxDrawn
         /\ Queued(Born, writes, calls) /\ None \notin Clients
         /\ \A c \in Clients : CallIsRight(calls[c])
<1>1. WalletType /\ KeyInv /\ CallInv /\ MoneyInv
  BY DEF WalletInv
<1>2. list \in Seq(Born) /\ NoneTwice(list) /\ drawn \in drawn .. MaxDrawn
  BY <1>1, NumbersAre DEF WalletType
<1>3. Queued(Born, writes, calls)
  BY <1>1 DEF Queued, WalletType, CallInv
<1>4. QED
  BY <1>1, <1>2, <1>3, NoneIs DEF CallInv

LEMMA QueuesGrow ==
  ASSUME NEW B, NEW C, B \subseteq C, NEW ws, NEW ks, Queued(B, ws, ks)
  PROVE  Queued(C, ws, ks)
  BY TypesGrow DEF Queued

\* One call goes on, and writes nothing.
LEMMA QuietStep ==
  ASSUME WalletInv, NEW c \in Clients, drawn' \in drawn .. MaxDrawn, OthersStay(c, Born'),
         UNCHANGED <<records, keys, storedList, list, writes, minted, stale, torn>>,
         calls[c].waits = FALSE, calls'[c].waits = FALSE, CallIsRight(calls'[c]),
         ~Halfway(calls[c]), ~Halfway(calls'[c])
  PROVE  WalletInv'
<1>1. calls' \in [Clients -> CallType(Born')] /\ \A d \in Clients \ {c} : calls'[d] = calls[d]
  BY DEF OthersStay
<1>2. Born \subseteq Born' /\ Seq(Born) \subseteq Seq(Born')
  BY InvIs, BornGrows, TypesGrow
<1>3. Queued(Born, writes, calls')
  BY <1>1, InvIs, NoneOfIts
<1>4. Queued(Born', writes', calls')
  BY <1>2, <1>3, QueuesGrow
<1>5. list' \in Seq(Born') /\ NoneTwice(list')
  BY <1>2, InvIs
<1>6. \A d \in Clients : CallIsRight(calls'[d])
  BY <1>1, InvIs
<1>7. \A d \in Clients : Halfway(calls'[d]) <=> Halfway(calls[d])
  BY <1>1
<1>8. QED
  BY <1>1, <1>4, <1>5, <1>6, <1>7, StepKeeps

\* One call goes on, and gives the database ws to write.
LEMMA WriteStep ==
  ASSUME WalletInv, NEW c \in Clients, UNCHANGED drawn, OthersStay(c, Born),
         UNCHANGED <<records, keys, storedList, minted, stale, torn>>,
         CallIsRight(calls'[c]), Halfway(calls'[c]) <=> Halfway(calls[c]),
         list' \in Seq(Born), NoneTwice(list'), Queued(Born, writes', calls'),
         Leads(keys, storedList, writes, Entries(list), list) =>
           Leads(keys, storedList, writes', Entries(list'), list')
  PROVE  WalletInv'
<1>1. calls' \in [Clients -> CallType(Born)] /\ \A d \in Clients \ {c} : calls'[d] = calls[d]
  BY DEF OthersStay
<1>2. Born' = Born /\ drawn' \in drawn .. MaxDrawn
  BY InvIs DEF Born
<1>3. \A d \in Clients : CallIsRight(calls'[d])
  BY <1>1, InvIs
<1>4. \A d \in Clients : Halfway(calls'[d]) <=> Halfway(calls[d])
  BY <1>1
<1>5. QED
  BY <1>1, <1>2, <1>3, <1>4, StepKeeps

LEMMA KnownAre ==
  ASSUME WalletType
  PROVE  Wallet!Known \subseteq Born /\ 0 \in Born /\ Wallet!Foreign = 0
<1>1. 0 \in Born /\ Wallet!Foreign = 0
  BY BornIs DEF WalletType, Wallet!Foreign
<1>2. Wallet!ToSet(list) = Entries(list) /\ list \in Seq(Born)
  BY SequenceNames DEF WalletType
<1>3. Entries(list) \subseteq Born
  BY <1>2 DEF Entries
<1>4. \A a \in Wallet!Addresses : records[a] # None => a \in Born
  BY DEF WalletType
<1>5. QED
  BY <1>1, <1>2, <1>3, <1>4 DEF Wallet!Known

LEMMA NewKeeps ==
  ASSUME WalletInv, NEW c \in Clients, Wallet!WalletNew(c)
  PROVE  WalletInv'
<1> DEFINE account == Wallet!AccountOf(drawn', 0, None, TRUE)
           k == [Wallet!Idle EXCEPT !.do = "new", !.puts = <<account>>]
<1>1. /\ Wallet!Begins(c) /\ drawn < MaxDrawn /\ drawn' = drawn + 1
      /\ calls' = [calls EXCEPT ![c] = k]
      /\ UNCHANGED <<records, keys, storedList, list, writes, minted, stale, torn>>
  BY DEF Wallet!WalletNew, Wallet!database, Wallet!history
<1>2. drawn' \in drawn .. MaxDrawn
  BY <1>1, InvIs, NumbersAre DEF WalletType
<1>3. /\ Born \subseteq Born' /\ drawn' \in Born' /\ WalletType
  BY <1>2, InvIs, BornGrows
<1>4. account \in AccountType(Born') /\ Gain(account) = 0
  <2>1. account \in AccountType(Born')
    BY <1>3 DEF AccountType, Wallet!AccountOf
  <2>2. account.balance = 0 /\ account.read = None
    BY DEF Wallet!AccountOf
  <2> HIDE DEF account
  <2>3. QED
    BY <2>1, <2>2 DEF Gain, Worth
<1> HIDE DEF account
<1>5. <<account>> \in Seq(AccountType(Born')) /\ <<>> \in Seq(Born') /\ <<>> \in Seq(AccountType(Born'))
  BY <1>4
<1>6. /\ k.do = "new" /\ k.need = <<>> /\ k.got = <<>> /\ k.reading = None
      /\ k.puts = <<account>> /\ k.waits = FALSE /\ k \in CallType(Born')
  BY <1>5 DEF Wallet!Idle, CallType
<1> HIDE DEF k
<1>7. OthersStay(c, Born') /\ calls'[c] = k
  BY <1>1, <1>3, <1>6, CallChanges
<1>8. CallIsRight(k) /\ ~Halfway(k)
  <2>1. \A i \in DOMAIN k.puts : k.puts[i] = account
    BY <1>6
  <2>2. \A i \in DOMAIN k.got : FALSE
    BY <1>6
  <2>3. QED
    BY <1>4, <1>6, <2>1, <2>2 DEF CallIsRight, Gathers, Halfway, Pays
<1>9. calls[c].waits = FALSE /\ ~Halfway(calls[c])
  BY <1>1, <1>3, BeginsIs DEF Halfway, Pays
<1>10. QED
  BY <1>1, <1>2, <1>7, <1>6, <1>8, <1>9, QuietStep

LEMMA UseKeeps ==
  ASSUME WalletInv, NEW c \in Clients, NEW do \in Uses, NEW addresses \in Seq(Born),
         addresses # <<>>, do = "transfer" => Len(addresses) = 2,
         Wallet!Use(c, do, addresses)
  PROVE  WalletInv'
<1> DEFINE k == [Wallet!Idle EXCEPT !.do = do, !.need = addresses]
<1>1. /\ Wallet!Begins(c)
      /\ calls' = [calls EXCEPT ![c] = k]
      /\ UNCHANGED <<records, keys, storedList, list, writes, drawn, minted, stale, torn>>
  BY DEF Wallet!Use, Wallet!database, Wallet!history
<1>2. drawn' \in drawn .. MaxDrawn /\ Born' = Born /\ WalletType
  BY <1>1, InvIs DEF Born
<1>3. <<>> \in Seq(AccountType(Born))
  OBVIOUS
<1>4. /\ k.do = do /\ k.need = addresses /\ k.got = <<>> /\ k.reading = None
      /\ k.puts = <<>> /\ k.waits = FALSE /\ k \in CallType(Born)
  BY <1>3 DEF Wallet!Idle, CallType
<1> HIDE DEF k
<1>5. OthersStay(c, Born') /\ calls'[c] = k
  BY <1>1, <1>2, <1>4, CallChanges
<1>6. Len(addresses) \in Nat /\ Len(<<>>) = 0 /\ DOMAIN <<>> = {}
  OBVIOUS
<1>7. CallIsRight(k) /\ ~Halfway(k)
  <2>1. Gathers(k)
    BY <1>4 DEF Gathers
  <2>2. \A i : i \notin DOMAIN k.puts /\ i \notin DOMAIN k.got
    BY <1>4
  <2>3. k.do = "transfer" => Len(k.need) + Len(k.got) = 2 /\ Len(k.puts) = 0
    BY <1>4, <1>6
  <2>4. QED
    BY <1>4, <2>1, <2>2, <2>3 DEF CallIsRight, Halfway, Pays
<1>8. calls[c].waits = FALSE /\ ~Halfway(calls[c])
  BY <1>1, <1>2, BeginsIs DEF Halfway, Pays
<1>9. QED
  BY <1>1, <1>2, <1>4, <1>5, <1>7, <1>8, QuietStep

LEMMA EndKeeps ==
  ASSUME WalletInv, NEW c \in Clients, Wallet!End(c)
  PROVE  WalletInv'
<1> DEFINE k == Wallet!Idle
<1>1. /\ calls[c] = [Wallet!Idle EXCEPT !.do = calls[c].do]
      /\ calls' = [calls EXCEPT ![c] = k]
      /\ UNCHANGED <<records, keys, storedList, list, writes, drawn, minted, stale, torn>>
  BY DEF Wallet!End, Wallet!database, Wallet!history
<1>2. drawn' \in drawn .. MaxDrawn /\ Born' = Born /\ WalletType
  BY <1>1, InvIs DEF Born
<1>3. <<>> \in Seq(AccountType(Born)) /\ <<>> \in Seq(Born) /\ Len(<<>>) = 0
  OBVIOUS
<1>4. /\ k.do = "nothing" /\ k.need = <<>> /\ k.got = <<>> /\ k.reading = None
      /\ k.puts = <<>> /\ k.waits = FALSE /\ k \in CallType(Born)
  BY <1>3 DEF Wallet!Idle, CallType
<1>5. calls[c].waits = FALSE /\ calls[c].puts = <<>>
  BY <1>1 DEF Wallet!Idle
<1> HIDE DEF k
<1>6. OthersStay(c, Born') /\ calls'[c] = k
  BY <1>1, <1>2, <1>4, CallChanges
<1>7. CallIsRight(k) /\ ~Halfway(k)
  <2>1. \A i : i \notin DOMAIN k.puts /\ i \notin DOMAIN k.got
    BY <1>4
  <2>2. QED
    BY <1>4, <2>1 DEF CallIsRight, Halfway, Pays, Gathers
<1>8. ~Halfway(calls[c])
  BY <1>3, <1>5 DEF Halfway
<1>9. QED
  BY <1>1, <1>2, <1>4, <1>5, <1>6, <1>7, <1>8, QuietStep

LEMMA GetPrivateKeyKeeps ==
  ASSUME WalletInv, NEW c \in Clients, Wallet!GetPrivateKey(c)
  PROVE  WalletInv'
<1> DEFINE k == calls[c]
           l == calls'[c]
<1>1. WalletType /\ CallIsRight(k)
  BY InvIs
<1>2. k.need # <<>>
  BY <1>1 DEF CallIsRight, Wallet!GetPrivateKey
<1>3. PICK account \in AccountType(Born) :
         /\ OthersStay(c, Born)
         /\ k.reading # None /\ k.waits = FALSE
         /\ l.do = k.do /\ l.need = Tail(k.need)
         /\ l.got = Append(k.got, account) /\ l.puts = k.puts
         /\ l.reading = None /\ l.waits = FALSE
         /\ Gain(account) = Gain(k.reading)
         /\ UNCHANGED <<records, keys, storedList, list, writes, drawn, minted, stale, torn>>
  BY <1>1, <1>2, GetPrivateKeyIs
<1>4. drawn' \in drawn .. MaxDrawn /\ Born' = Born
  BY <1>3, InvIs DEF Born
<1>5. k.need \in Seq(Born) /\ k.got \in Seq(AccountType(Born))
  BY <1>1, CallIs
<1>6. /\ Len(l.need) = Len(k.need) - 1 /\ Len(l.got) = Len(k.got) + 1 /\ l.got # <<>>
      /\ Len(k.need) \in Nat /\ Len(k.got) \in Nat
  BY <1>2, <1>3, <1>5
<1>7. Gathers(k) /\ Gathers(l)
  BY <1>2, <1>6 DEF Gathers
<1>8. \A i \in DOMAIN l.got : Gain(l.got[i]) = 0
  <2>1. /\ DOMAIN l.got = DOMAIN k.got \cup {Len(k.got) + 1}
        /\ \A i \in DOMAIN k.got : l.got[i] = k.got[i]
        /\ l.got[Len(k.got) + 1] = account
    BY <1>3, <1>5, Appended
  <2>2. Gain(account) = 0 /\ \A i \in DOMAIN k.got : Gain(k.got[i]) = 0
    BY <1>1, <1>3 DEF CallIsRight
  <2>3. QED
    BY <2>1, <2>2
<1> HIDE DEF k, l
<1>9. CallIsRight(l)
  <2>1. l.do = k.do /\ l.reading = None /\ l.waits = FALSE
    BY <1>3
  <2>2. k.do \in Uses /\ l.puts = <<>>
    BY <1>1, <1>3, <1>7 DEF CallIsRight
  <2>3. k.do = "transfer" => Len(k.need) + Len(k.got) = 2
    BY <1>1, <1>7 DEF CallIsRight
  <2>4. Len(l.need) + Len(l.got) = Len(k.need) + Len(k.got)
    <3>1. \A a, b \in Nat : (a - 1) + (b + 1) = a + b
      OBVIOUS
    <3>2. QED
      BY <1>6, <3>1, Zenon
  <2>5. /\ Len(l.puts) \in 0 .. 2 /\ Len(l.puts) # 1 /\ Len(l.puts) # 2
        /\ \A i : i \notin DOMAIN l.puts
    BY <2>2
  <2>6. QED
    BY <1>8, <2>1, <2>2, <2>3, <2>4, <2>5 DEF CallIsRight
<1>10. ~Halfway(k) /\ ~Halfway(l)
  BY <1>7 DEF Halfway, Pays
<1>11. QED
  BY <1>3, <1>4, <1>9, <1>10, QuietStep DEF k, l

LEMMA PerformKeeps ==
  ASSUME WalletInv, NEW c \in Clients, Wallet!Perform(c)
  PROVE  WalletInv'
<1> DEFINE k == calls[c]
           l == calls'[c]
           puts == l.puts
<1>1. WalletType /\ CallIsRight(k)
  BY InvIs
<1>2. /\ OthersStay(c, Born)
      /\ k.got # <<>> /\ k.need = <<>> /\ k.reading = None
      /\ l.do = k.do /\ l.need = <<>>
      /\ l.got = <<>> /\ puts \in Seq(AccountType(Born))
      /\ l.reading = None /\ l.waits = FALSE /\ k.waits = FALSE
      /\ k.do # "transfer" => \A i \in DOMAIN puts : Gain(puts[i]) = 0
      /\ k.do = "transfer" =>
           \/ puts = <<>>
           \/ Len(puts) = 2 /\ Gain(puts[1]) = 0 - Amount /\ Gain(puts[2]) = Amount
      /\ UNCHANGED <<records, keys, storedList, list, writes, drawn, minted, stale, torn>>
  BY <1>1, PerformIs
<1>3. drawn' \in drawn .. MaxDrawn /\ Born' = Born
  BY <1>2, InvIs DEF Born
<1> HIDE DEF k, l
<1>4. CallIsRight(l) /\ ~Halfway(l)
  <2>1. ~Gathers(l) /\ \A i : i \notin DOMAIN l.got
    BY <1>2 DEF Gathers
  <2>2. l.do = "transfer" => Len(puts) = 0 \/ Len(puts) = 2
    BY <1>2
  <2>3. QED
    BY <1>2, <2>1, <2>2 DEF CallIsRight, Halfway, Pays
<1>5. ~Halfway(k)
  BY <1>2 DEF Halfway, Pays, Gathers
<1>6. QED
  BY <1>2, <1>3, <1>4, <1>5, QuietStep DEF k, l

-----------------------------------------------------------------------------
\* The steps that give the database something to write.

\* A call puts an account, and waits for it.
LEMMA PutAccountKeeps ==
  ASSUME WalletInv, NEW c \in Clients, NEW account \in AccountType(Born),
         Wallet!PutAccount(c, account),
         OthersStay(c, Born), UNCHANGED <<records, keys, storedList, drawn, minted, stale, torn>>,
         calls[c].waits = FALSE, calls'[c].waits = TRUE, CallIsRight(calls'[c]),
         Halfway(calls'[c]) <=> Halfway(calls[c]), Gain(account) = Owed(calls'[c])
  PROVE  WalletInv'
<1>1. WalletType /\ Queued(Born, writes, calls) /\ None \notin Clients
  BY InvIs
<1>2. PICK w \in WriteType(Born) :
           /\ writes' = Append(writes, w)
           /\ w.by = c /\ w.record = account /\ w.record # None
           /\ w.list # None => NoneTwice(w.list)
           /\ list' \in Seq(Born) /\ NoneTwice(list')
           /\ list' = ListAfter(w, list) /\ Entries(list') = KeysAfter(w, Entries(list))
  BY <1>1, PutAccountIs
<1>3. \A d \in Clients \ {c} : calls'[d] = calls[d]
  BY DEF OthersStay
<1>4. Added(w) = Owed(calls'[c])
  BY <1>2 DEF Added
<1>5. Queued(Born, writes', calls')
  BY <1>1, <1>2, <1>3, <1>4, ItsOwn
<1>6. writes \in Seq(WriteType(Born))
  BY <1>1 DEF WalletType
<1>7. ASSUME Leads(keys, storedList, writes, Entries(list), list)
      PROVE  Leads(keys, storedList, writes', Entries(list'), list')
  BY <1>2, <1>6, <1>7, LeadsOn
<1>8. QED
  BY <1>2, <1>5, <1>7, WriteStep

LEMMA GetRecordKeeps ==
  ASSUME WalletInv, NEW c \in Clients, Wallet!GetRecord(c)
  PROVE  WalletInv'
<1> DEFINE k == calls[c]
           l == calls'[c]
           a == Head(k.need)
           account == Wallet!AccountOf(a, 0, None, FALSE)
<1>1. WalletType /\ CallIsRight(k)
  BY InvIs
<1>2. /\ OthersStay(c, Born)
      /\ k.need # <<>> /\ a \in Born /\ k.reading = None
      /\ l.do = k.do /\ l.need = k.need /\ l.got = k.got /\ l.puts = k.puts
      /\ l.reading \in AccountType(Born) /\ Gain(l.reading) = 0
      /\ UNCHANGED <<records, keys, storedList, drawn, minted, stale, torn>>
      /\ \/ l.waits = FALSE /\ UNCHANGED <<list, writes>>
         \/ l.waits = TRUE /\ Wallet!PutAccount(c, account)
  BY <1>1, GetRecordIs
<1>3. l.reading # None /\ None # l.reading
  BY <1>1, <1>2, NoneIs, BornIs DEF WalletType
<1>4. account \in AccountType(Born) /\ Gain(account) = 0
  <2>1. account \in AccountType(Born)
    BY <1>2 DEF AccountType, Wallet!AccountOf
  <2>2. account.balance = 0 /\ account.read = None
    BY DEF Wallet!AccountOf
  <2> HIDE DEF account
  <2>3. QED
    BY <2>1, <2>2 DEF Gain, Worth
<1>5. k.waits \in BOOLEAN
  BY <1>1, CallIs
<1> HIDE DEF k, l, account
<1>6. Gathers(k) /\ Gathers(l)
  BY <1>2 DEF Gathers
<1>7. k.do \in Uses /\ k.puts = <<>> /\ k.waits = FALSE
  BY <1>1, <1>2, <1>5, <1>6 DEF CallIsRight
<1>8. CallIsRight(l)
  <2>1. \A i \in DOMAIN l.got : Gain(l.got[i]) = 0
    BY <1>1, <1>2 DEF CallIsRight
  <2>2. k.do = "transfer" => Len(l.need) + Len(l.got) = 2
    BY <1>1, <1>2, <1>6 DEF CallIsRight
  <2>3. l.puts = <<>> /\ l.do = k.do /\ l.need # <<>>
    BY <1>2, <1>7
  <2>4. /\ Len(l.puts) \in 0 .. 2 /\ Len(l.puts) # 1 /\ Len(l.puts) # 2
        /\ \A i : i \notin DOMAIN l.puts
    BY <2>3
  <2>5. Gain(l.reading) = 0
    BY <1>2
  <2>6. QED
    BY <1>3, <1>7, <2>1, <2>2, <2>3, <2>4, <2>5 DEF CallIsRight
<1>9. ~Halfway(k) /\ ~Halfway(l) /\ Owed(l) = 0
  BY <1>6 DEF Halfway, Pays, Owed
<1>10. CASE l.waits = FALSE /\ UNCHANGED <<list, writes>>
  <2>1. drawn' \in drawn .. MaxDrawn /\ Born' = Born
    BY <1>2, InvIs DEF Born
  <2>2. QED
    BY <1>2, <1>7, <1>8, <1>9, <1>10, <2>1, QuietStep DEF k, l
<1>11. CASE l.waits = TRUE /\ Wallet!PutAccount(c, account)
  BY <1>2, <1>4, <1>7, <1>8, <1>9, <1>11, PutAccountKeeps DEF k, l
<1>12. QED
  BY <1>2, <1>10, <1>11

LEMMA PutKeeps ==
  ASSUME WalletInv, NEW c \in Clients, Wallet!Put(c)
  PROVE  WalletInv'
<1> DEFINE k == calls[c]
           l == calls'[c]
           account == Head(k.puts)
<1>1. WalletType /\ CallIsRight(k)
  BY InvIs
<1>2. /\ OthersStay(c, Born)
      /\ k.puts # <<>> /\ k.waits = FALSE
      /\ l.do = k.do /\ l.need = k.need
      /\ l.got = k.got /\ l.puts = Tail(k.puts)
      /\ l.reading = k.reading /\ l.waits = TRUE
      /\ Wallet!PutAccount(c, account)
      /\ account \in AccountType(Born)
      /\ UNCHANGED <<records, keys, storedList, drawn, minted, stale, torn>>
  BY <1>1, PutIs
<1>3. k.puts \in Seq(AccountType(Born))
  BY <1>1, CallIs
<1>4. /\ Len(l.puts) = Len(k.puts) - 1 /\ Len(k.puts) \in Nat \ {0}
      /\ account = k.puts[1] /\ 1 \in DOMAIN k.puts
      /\ DOMAIN l.puts = 1 .. (Len(k.puts) - 1)
      /\ \A i \in DOMAIN l.puts : i + 1 \in DOMAIN k.puts /\ l.puts[i] = k.puts[i + 1]
  <2>1. k.puts # <<>> /\ l.puts = Tail(k.puts)
    BY <1>2
  <2>2. QED
    BY <1>3, <2>1, Tailed
<1>5. /\ l.do = k.do /\ l.need = k.need /\ l.got = k.got /\ l.reading = k.reading
      /\ l.waits = TRUE /\ k.waits = FALSE /\ k.puts # <<>>
  BY <1>2
<1> HIDE DEF k, l, account
<1>6. ~Gathers(k) /\ ~Gathers(l)
  BY <1>1, <1>5 DEF CallIsRight, Gathers
<1>7. l.reading = None
  BY <1>1, <1>5, <1>6 DEF CallIsRight, Gathers
<1>8. \A i \in DOMAIN l.got : Gain(l.got[i]) = 0
  BY <1>1, <1>5 DEF CallIsRight
<1>9. CASE k.do # "transfer"
  <2>1. Gain(account) = 0 /\ \A i \in DOMAIN l.puts : Gain(l.puts[i]) = 0
    BY <1>1, <1>4, <1>9 DEF CallIsRight
  <2>2. CallIsRight(l)
    BY <1>5, <1>6, <1>7, <1>8, <1>9, <2>1 DEF CallIsRight
  <2>3. ~Halfway(k) /\ ~Halfway(l) /\ Owed(l) = 0
    BY <1>5, <1>9 DEF Halfway, Pays, Owed
  <2>4. QED
    BY <1>2, <2>1, <2>2, <2>3, PutAccountKeeps DEF k, l
<1>10. CASE k.do = "transfer"
  <2>1. Pays(k) /\ Pays(l)
    BY <1>5, <1>6, <1>10 DEF Pays
  <2>2. Len(k.puts) \in {1, 2}
    <3>1. Len(k.puts) \in 0 .. 2
      BY <1>1, <1>10 DEF CallIsRight
    <3>2. QED
      BY <1>4, <3>1
  <2>3. CASE Len(k.puts) = 1
    <3>1. Len(l.puts) = 0
      BY <1>4, <2>3
    <3>2. Gain(account) = Amount
      BY <1>1, <1>4, <1>10, <2>3 DEF CallIsRight
    <3>3. Len(l.puts) \in 0 .. 2 /\ Len(l.puts) # 1 /\ Len(l.puts) # 2
      BY <3>1
    <3>4. CallIsRight(l)
      BY <1>5, <1>6, <1>7, <1>8, <1>10, <3>3 DEF CallIsRight
    <3>5. Halfway(k) /\ Halfway(l) /\ Owed(l) = Amount
      BY <1>5, <2>1, <2>3, <3>1 DEF Halfway, Owed
    <3>6. QED
      BY <1>2, <3>2, <3>4, <3>5, PutAccountKeeps DEF k, l
  <2>4. CASE Len(k.puts) = 2
    <3>1. Len(l.puts) = 1
      BY <1>4, <2>4
    <3>2. Gain(account) = 0 - Amount /\ Gain(k.puts[2]) = Amount
      BY <1>1, <1>4, <1>10, <2>4 DEF CallIsRight
    <3>3. l.puts[1] = k.puts[2]
      <4>1. 1 \in DOMAIN l.puts /\ 1 + 1 = 2
        BY <1>4, <2>4
      <4>2. l.puts[1] = k.puts[1 + 1]
        BY <1>4, <4>1
      <4>3. QED
        BY <4>1, <4>2
    <3>4. Len(l.puts) \in 0 .. 2 /\ Len(l.puts) # 2
      BY <3>1
    <3>5. CallIsRight(l)
      BY <1>5, <1>6, <1>7, <1>8, <1>10, <3>2, <3>3, <3>4 DEF CallIsRight
    <3>6. ~Halfway(k) /\ ~Halfway(l) /\ Owed(l) = 0 - Amount
      BY <1>5, <2>1, <2>4, <3>1 DEF Halfway, Owed
    <3>7. QED
      BY <1>2, <3>2, <3>5, <3>6, PutAccountKeeps DEF k, l
  <2>5. QED
    BY <2>2, <2>3, <2>4
<1>11. QED
  BY <1>9, <1>10

LEMMA ContainsIs ==
  ASSUME NEW B, NEW s \in Seq(B), NEW a
  PROVE  Wallet!Contains(s, a) <=> a \in Entries(s)
  BY DEF Wallet!Contains, Entries

LEMMA Prefixed ==
  ASSUME NEW T, NEW s \in Seq(T), NEW a \in T, NoneTwice(s), a \notin Entries(s)
  PROVE  /\ <<a>> \o s \in Seq(T) /\ NoneTwice(<<a>> \o s)
         /\ Entries(<<a>> \o s) = {a} \cup Entries(s)
<1> DEFINE t == <<a>> \o s
<1>1. /\ t \in Seq(T) /\ DOMAIN t = 1 .. (Len(s) + 1) /\ t[1] = a /\ Len(s) \in Nat
      /\ \A i \in 2 .. (Len(s) + 1) : t[i] = s[i - 1]
      /\ DOMAIN s = 1 .. Len(s)
  OBVIOUS
<1> HIDE DEF t
<1>2. \A i \in DOMAIN t : i = 1 \/ (i - 1 \in DOMAIN s /\ t[i] = s[i - 1] /\ i # 1 /\ i \in Nat)
  BY <1>1
<1>3. \A i \in DOMAIN s : i + 1 \in DOMAIN t /\ t[i + 1] = s[i]
  <2>1. \A i \in DOMAIN s : i + 1 \in 2 .. (Len(s) + 1) /\ (i + 1) - 1 = i
    BY <1>1
  <2>2. QED
    BY <1>1, <2>1
<1>4. NoneTwice(t)
  <2>1. ASSUME NEW i \in DOMAIN t, NEW j \in DOMAIN t, t[i] = t[j]
        PROVE  i = j
    <3>1. CASE i = 1 /\ j = 1
      BY <3>1
    <3>2. CASE i = 1 /\ j # 1
      <4>1. s[j - 1] = a /\ j - 1 \in DOMAIN s
        BY <1>1, <1>2, <2>1, <3>2
      <4>2. QED
        BY <4>1 DEF Entries
    <3>3. CASE i # 1 /\ j = 1
      <4>1. s[i - 1] = a /\ i - 1 \in DOMAIN s
        BY <1>1, <1>2, <2>1, <3>3
      <4>2. QED
        BY <4>1 DEF Entries
    <3>4. CASE i # 1 /\ j # 1
      <4>1. /\ i - 1 \in DOMAIN s /\ j - 1 \in DOMAIN s /\ s[i - 1] = s[j - 1]
            /\ i \in Nat /\ j \in Nat
        BY <1>2, <2>1, <3>4
      <4>2. i - 1 = j - 1
        BY <4>1 DEF NoneTwice
      <4>3. QED
        BY <4>1, <4>2
    <3>5. QED
      BY <3>1, <3>2, <3>3, <3>4
  <2>2. QED
    BY <2>1 DEF NoneTwice
<1>5. Entries(t) = {a} \cup Entries(s)
  <2>1. 1 \in DOMAIN t
    BY <1>1
  <2>2. QED
    BY <1>1, <1>2, <1>3, <2>1 DEF Entries
<1>6. QED
  BY <1>1, <1>4, <1>5 DEF t

LEMMA ListedIs ==
  ASSUME WalletType, NEW a \in Born
  PROVE  /\ Wallet!Listed(a) \in Seq(Born) /\ NoneTwice(Wallet!Listed(a))
         /\ Entries(Wallet!Listed(a)) = Entries(list) \cup {a}
<1>1. list \in Seq(Born) /\ NoneTwice(list)
  BY DEF WalletType
<1>2. Wallet!Contains(list, a) <=> a \in Entries(list)
  BY <1>1, ContainsIs
<1>3. QED
  BY <1>1, <1>2, Appended DEF Wallet!Listed

LEMMA KeyIs ==
  ASSUME WalletType, NEW a \in Born, NEW has \in BOOLEAN
  PROVE  LET key == [address |-> a, has |-> has]
         IN key \in KeyType(Born) /\ key # None /\ key.address = a /\ key.has = has
<1> DEFINE key == [address |-> a, has |-> has]
<1>1. key \in KeyType(Born)
  BY DEF KeyType
<1>2. None \notin KeyType(Born)
  BY BornIs, NoneIs DEF WalletType
<1>3. key.address = a /\ key.has = has
  OBVIOUS
<1> HIDE DEF key
<1>4. key # None
  BY <1>1, <1>2
<1> USE DEF key
<1>5. QED
  BY <1>1, <1>3, <1>4

LEMMA WriteIs ==
  ASSUME WalletType, NEW by \in Clients \cup {None}, NEW key \in KeyType(Born) \cup {None},
         NEW new \in Seq(Born) \cup {None}
  PROVE  LET w == Wallet!WriteOf(by, None, key, new)
         IN /\ w \in WriteType(Born) /\ w.by = by /\ w.record = None /\ w.key = key
            /\ w.list = new /\ Added(w) = 0
<1> DEFINE w == Wallet!WriteOf(by, None, key, new)
<1>1. w \in WriteType(Born) /\ w.by = by /\ w.record = None /\ w.key = key /\ w.list = new
  BY DEF WriteType, Wallet!WriteOf
<1> HIDE DEF w
<1>2. Added(w) = 0
  BY <1>1 DEF Added
<1> USE DEF w
<1>3. QED
  BY <1>1, <1>2

\* The call that deletes a key or sets the default address, as it waits.
LEMMA WaitingIs ==
  ASSUME WalletType, NEW c \in Clients, NEW do \in {"delete", "default"}, Wallet!Begins(c),
         calls' = [calls EXCEPT ![c] = [Wallet!Idle EXCEPT !.do = do, !.waits = TRUE]]
  PROVE  /\ OthersStay(c, Born) /\ calls[c].waits = FALSE /\ calls'[c].waits = TRUE
         /\ CallIsRight(calls'[c]) /\ (Halfway(calls'[c]) <=> Halfway(calls[c]))
         /\ Owed(calls'[c]) = 0
<1> DEFINE k == [Wallet!Idle EXCEPT !.do = do, !.waits = TRUE]
<1>1. <<>> \in Seq(AccountType(Born)) /\ <<>> \in Seq(Born)
  OBVIOUS
<1>2. /\ k.do = do /\ k.need = <<>> /\ k.got = <<>> /\ k.reading = None
      /\ k.puts = <<>> /\ k.waits = TRUE /\ k \in CallType(Born)
  BY <1>1 DEF Wallet!Idle, CallType
<1>3. calls' = [calls EXCEPT ![c] = k]
  OBVIOUS
<1> HIDE DEF k
<1>4. OthersStay(c, Born) /\ calls'[c] = k
  BY <1>2, <1>3, CallChanges
<1>5. CallIsRight(k) /\ ~Halfway(k) /\ Owed(k) = 0
  <2>1. \A i : i \notin DOMAIN k.puts /\ i \notin DOMAIN k.got
    BY <1>2
  <2>2. k.do # "transfer"
    BY <1>2
  <2>3. QED
    BY <1>2, <2>1, <2>2 DEF CallIsRight, Halfway, Pays, Gathers, Owed
<1>6. calls[c].waits = FALSE /\ ~Halfway(calls[c])
  BY BeginsIs DEF Halfway, Pays
<1>7. QED
  BY <1>2, <1>4, <1>5, <1>6

LEMMA DeleteKeeps ==
  ASSUME WalletInv, NEW c \in Clients, NEW a \in Born, Wallet!WalletDelete(c, a)
  PROVE  WalletInv'
<1> DEFINE key == [address |-> a, has |-> FALSE]
           d == Wallet!WriteOf(None, None, key, None)
           w == Wallet!WriteOf(c, None, None, list')
<1>1. /\ Wallet!Begins(c) /\ list' = Wallet!Without(list, a)
      /\ writes' = writes \o <<d, w>>
      /\ calls' = [calls EXCEPT ![c] = [Wallet!Idle EXCEPT !.do = "delete", !.waits = TRUE]]
      /\ UNCHANGED <<records, keys, storedList, drawn, minted, stale, torn>>
  BY DEF Wallet!WalletDelete, Wallet!database, Wallet!history
<1>2. /\ WalletType /\ Queued(Born, writes, calls) /\ None \notin Clients
      /\ list \in Seq(Born) /\ NoneTwice(list) /\ writes \in Seq(WriteType(Born))
  BY InvIs DEF WalletType
<1>3. list' \in Seq(Born) /\ NoneTwice(list') /\ Entries(list') = Entries(list) \ {a}
  BY <1>1, <1>2, WithoutIs
<1>4. list' # None
  BY <1>2, <1>3, BornIs, NoneIs DEF WalletType
<1>5. key \in KeyType(Born) /\ key # None /\ key.address = a /\ key.has = FALSE
  BY <1>2, KeyIs
<1> HIDE DEF key
<1>6. /\ d \in WriteType(Born) /\ d.by = None /\ d.record = None /\ d.key = key /\ d.list = None
  BY <1>2, <1>5, WriteIs
<1>7. /\ w \in WriteType(Born) /\ w.by = c /\ w.record = None /\ w.key = None /\ w.list = list'
      /\ Added(w) = 0 /\ NoneTwice(w.list)
  <2>1. PICK new : new = list'
    OBVIOUS
  <2>2. w = Wallet!WriteOf(c, None, None, new) /\ new \in Seq(Born) \cup {None}
    BY <1>3, <2>1
  <2> HIDE DEF w
  <2>3. /\ w \in WriteType(Born) /\ w.by = c /\ w.record = None /\ w.key = None /\ w.list = new
        /\ Added(w) = 0
    <3>1. c \in Clients \cup {None} /\ None \in KeyType(Born) \cup {None} /\ WalletType
      BY <1>2
    <3>2. QED
      BY <2>2, <3>1, WriteIs
  <2>4. QED
    BY <1>3, <2>1, <2>3
<1> HIDE DEF d, w
<1>8. writes' = Append(Append(writes, d), w)
  BY <1>1, <1>2, <1>6, <1>7, Joined
<1>9. /\ OthersStay(c, Born) /\ calls[c].waits = FALSE /\ calls'[c].waits = TRUE
      /\ CallIsRight(calls'[c]) /\ (Halfway(calls'[c]) <=> Halfway(calls[c]))
      /\ Owed(calls'[c]) = 0
  BY <1>1, <1>2, WaitingIs
<1>10. Queued(Born, Append(writes, d), calls)
  BY <1>2, <1>6, OneMore
<1>11. Queued(Born, writes', calls')
  <2>1. \A e \in Clients \ {c} : calls'[e] = calls[e]
    BY <1>9 DEF OthersStay
  <2>2. Added(w) = Owed(calls'[c])
    BY <1>7, <1>9
  <2> DEFINE ws == Append(writes, d)
  <2>3. Queued(Born, ws, calls) /\ writes' = Append(ws, w)
    BY <1>8, <1>10
  <2>4. calls[c].waits = FALSE /\ calls'[c].waits = TRUE /\ None \notin Clients
    BY <1>2, <1>9
  <2>5. PICK v, ls : v = w /\ ls = calls'
    OBVIOUS
  <2> HIDE DEF ws
  <2>6. /\ Queued(Born, ws, calls) /\ v \in WriteType(Born) /\ v.by = c
        /\ v.list # None => NoneTwice(v.list)
        /\ \A e \in Clients \ {c} : ls[e] = calls[e]
        /\ calls[c].waits = FALSE /\ ls[c].waits = TRUE /\ Added(v) = Owed(ls[c])
        /\ None \notin Clients
    BY <1>7, <2>1, <2>2, <2>3, <2>4, <2>5
  <2>7. Queued(Born, Append(ws, v), ls)
    BY <2>6, ItsOwn
  <2>8. QED
    BY <2>3, <2>5, <2>7
<1>12. ASSUME Leads(keys, storedList, writes, Entries(list), list)
       PROVE  Leads(keys, storedList, writes', Entries(list'), list')
  <2>1. KeysAfter(d, Entries(list)) = Entries(list') /\ ListAfter(d, list) = list
    BY <1>3, <1>5, <1>6 DEF KeysAfter, ListAfter
  <2>2. Leads(keys, storedList, Append(writes, d), Entries(list'), list)
    BY <1>2, <1>6, <1>12, <2>1, LeadsOn
  <2>3. KeysAfter(w, Entries(list')) = Entries(list') /\ ListAfter(w, list) = list'
    BY <1>4, <1>7 DEF KeysAfter, ListAfter
  <2>4. Append(writes, d) \in Seq(WriteType(Born))
    BY <1>2, <1>6
  <2>5. Leads(keys, storedList, Append(Append(writes, d), w), Entries(list'), list')
    BY <1>7, <2>2, <2>3, <2>4, LeadsOn
  <2>6. QED
    BY <1>8, <2>5
<1>13. QED
  BY <1>1, <1>3, <1>9, <1>11, <1>12, WriteStep

LEMMA DefaultKeeps ==
  ASSUME WalletInv, NEW c \in Clients, NEW a \in Born, Wallet!WalletSetDefault(c, a)
  PROVE  WalletInv'
<1> DEFINE w == Wallet!WriteOf(c, None, None, list')
           rest == Wallet!Without(list, a)
<1>1. /\ Wallet!Begins(c) /\ Wallet!Contains(list, a) /\ list' = <<a>> \o rest
      /\ writes' = Append(writes, w)
      /\ calls' = [calls EXCEPT ![c] = [Wallet!Idle EXCEPT !.do = "default", !.waits = TRUE]]
      /\ UNCHANGED <<records, keys, storedList, drawn, minted, stale, torn>>
  BY DEF Wallet!WalletSetDefault, Wallet!database, Wallet!history
<1>2. /\ WalletType /\ Queued(Born, writes, calls) /\ None \notin Clients
      /\ list \in Seq(Born) /\ NoneTwice(list) /\ writes \in Seq(WriteType(Born))
  BY InvIs DEF WalletType
<1>3. a \in Entries(list)
  BY <1>1, <1>2, ContainsIs
<1>4. rest \in Seq(Born) /\ NoneTwice(rest) /\ Entries(rest) = Entries(list) \ {a}
  BY <1>2, WithoutIs
<1> HIDE DEF rest
<1>5. list' \in Seq(Born) /\ NoneTwice(list') /\ Entries(list') = Entries(list)
  <2>1. a \notin Entries(rest)
    BY <1>4
  <2>2. list' \in Seq(Born) /\ NoneTwice(list') /\ Entries(list') = {a} \cup Entries(rest)
    BY <1>1, <1>4, <2>1, Prefixed
  <2>3. QED
    BY <1>3, <1>4, <2>2
<1>6. list' # None
  BY <1>2, <1>5, BornIs, NoneIs DEF WalletType
<1>7. /\ w \in WriteType(Born) /\ w.by = c /\ w.record = None /\ w.key = None /\ w.list = list'
      /\ Added(w) = 0 /\ NoneTwice(w.list)
  <2>1. PICK new : new = list'
    OBVIOUS
  <2>2. w = Wallet!WriteOf(c, None, None, new) /\ new \in Seq(Born) \cup {None}
    BY <1>5, <2>1
  <2> HIDE DEF w
  <2>3. /\ w \in WriteType(Born) /\ w.by = c /\ w.record = None /\ w.key = None /\ w.list = new
        /\ Added(w) = 0
    <3>1. c \in Clients \cup {None} /\ None \in KeyType(Born) \cup {None} /\ WalletType
      BY <1>2
    <3>2. QED
      BY <2>2, <3>1, WriteIs
  <2>4. QED
    BY <1>5, <2>1, <2>3
<1> HIDE DEF w
<1>8. /\ OthersStay(c, Born) /\ calls[c].waits = FALSE /\ calls'[c].waits = TRUE
      /\ CallIsRight(calls'[c]) /\ (Halfway(calls'[c]) <=> Halfway(calls[c]))
      /\ Owed(calls'[c]) = 0
  BY <1>1, <1>2, WaitingIs
<1>9. Queued(Born, writes', calls')
  <2>1. \A e \in Clients \ {c} : calls'[e] = calls[e]
    BY <1>8 DEF OthersStay
  <2>2. Added(w) = Owed(calls'[c])
    BY <1>7, <1>8
  <2>3. PICK v, ls : v = w /\ ls = calls'
    OBVIOUS
  <2>4. /\ Queued(Born, writes, calls) /\ v \in WriteType(Born) /\ v.by = c
        /\ v.list # None => NoneTwice(v.list)
        /\ \A e \in Clients \ {c} : ls[e] = calls[e]
        /\ calls[c].waits = FALSE /\ ls[c].waits = TRUE /\ Added(v) = Owed(ls[c])
        /\ None \notin Clients
    BY <1>2, <1>7, <1>8, <2>1, <2>2, <2>3
  <2>5. Queued(Born, Append(writes, v), ls)
    BY <2>4, ItsOwn
  <2>6. QED
    BY <1>1, <2>3, <2>5
<1>10. ASSUME Leads(keys, storedList, writes, Entries(list), list)
       PROVE  Leads(keys, storedList, writes', Entries(list'), list')
  <2>1. KeysAfter(w, Entries(list)) = Entries(list') /\ ListAfter(w, list) = list'
    BY <1>5, <1>6, <1>7 DEF KeysAfter, ListAfter
  <2>2. QED
    BY <1>1, <1>2, <1>7, <1>10, <2>1, LeadsOn
<1>11. QED
  BY <1>1, <1>5, <1>8, <1>9, <1>10, WriteStep

LEMMA ImportKeeps ==
  ASSUME WalletInv, NEW c \in Clients, NEW a \in Born, Wallet!WalletImport(c, a)
  PROVE  WalletInv'
<1> DEFINE key == [address |-> a, has |-> TRUE]
           d == Wallet!WriteOf(None, None, key, None)
           w == Wallet!WriteOf(None, None, None, list')
<1>1. /\ list' = Wallet!Listed(a)
      /\ writes' = writes \o <<d>> \o (IF list' = list THEN <<>> ELSE <<w>>)
      /\ UNCHANGED <<calls, records, keys, storedList, drawn, minted, stale, torn>>
  BY DEF Wallet!WalletImport, Wallet!database, Wallet!history
<1>2. /\ WalletType /\ Queued(Born, writes, calls) /\ None \notin Clients
      /\ list \in Seq(Born) /\ NoneTwice(list) /\ writes \in Seq(WriteType(Born))
      /\ calls \in [Clients -> CallType(Born)] /\ drawn' \in drawn .. MaxDrawn /\ Born' = Born
      /\ \A e \in Clients : CallIsRight(calls[e])
  BY <1>1, InvIs DEF WalletType, Born
<1>3. list' \in Seq(Born) /\ NoneTwice(list') /\ Entries(list') = Entries(list) \cup {a}
  BY <1>1, <1>2, ListedIs
<1>4. list' # None
  BY <1>2, <1>3, BornIs, NoneIs DEF WalletType
<1>5. key \in KeyType(Born) /\ key # None /\ key.address = a /\ key.has = TRUE
  BY <1>2, KeyIs
<1> HIDE DEF key
<1>6. /\ d \in WriteType(Born) /\ d.by = None /\ d.record = None /\ d.key = key /\ d.list = None
  BY <1>2, <1>5, WriteIs
<1>7. w \in WriteType(Born) /\ w.by = None /\ w.record = None /\ w.key = None /\ w.list = list'
  BY <1>2, <1>3, WriteIs
<1> HIDE DEF d, w
<1>8. Queued(Born, Append(writes, d), calls)
  BY <1>2, <1>6, OneMore
<1>9. ASSUME Leads(keys, storedList, writes, Entries(list), list)
      PROVE  Leads(keys, storedList, Append(writes, d), Entries(list'), list)
  <2>1. KeysAfter(d, Entries(list)) = Entries(list') /\ ListAfter(d, list) = list
    BY <1>3, <1>5, <1>6 DEF KeysAfter, ListAfter
  <2>2. QED
    BY <1>2, <1>6, <1>9, <2>1, LeadsOn
<1>10. /\ Queued(Born, writes', calls')
       /\ Leads(keys, storedList, writes, Entries(list), list) =>
            Leads(keys, storedList, writes', Entries(list'), list')
  <2>1. CASE list' = list
    <3>1. writes' = Append(writes, d)
      BY <1>1, <1>2, <1>6, <1>7, <2>1, Joined
    <3>2. calls' = calls
      BY <1>1
    <3>3. QED
      BY <1>8, <1>9, <2>1, <3>1, <3>2
  <2>2. CASE list' # list
    <3>1. writes' = Append(Append(writes, d), w) /\ calls' = calls
      <4>1. writes' = writes \o <<d>> \o <<w>> /\ calls' = calls
        BY <1>1, <2>2
      <4>2. /\ writes \in Seq(WriteType(Born)) /\ d \in WriteType(Born)
            /\ w \in WriteType(Born)
        BY <1>2, <1>6, <1>7
      <4>3. writes \o <<d>> \o <<w>> = Append(Append(writes, d), w)
        BY <4>2, Joined
      <4>4. QED
        BY <4>1, <4>3
    <3>2. Queued(Born, Append(Append(writes, d), w), calls)
      BY <1>2, <1>3, <1>7, <1>8, OneMore
    <3>3. KeysAfter(w, Entries(list')) = Entries(list') /\ ListAfter(w, list) = list'
      BY <1>4, <1>7 DEF KeysAfter, ListAfter
    <3>4. Append(writes, d) \in Seq(WriteType(Born))
      BY <1>2, <1>6
    <3>5. ASSUME Leads(keys, storedList, writes, Entries(list), list)
          PROVE  Leads(keys, storedList, Append(Append(writes, d), w), Entries(list'), list')
      BY <1>7, <1>9, <3>3, <3>4, <3>5, LeadsOn
    <3>6. QED
      BY <3>1, <3>2, <3>5
  <2>3. QED
    BY <2>1, <2>2
<1>11. \A e \in Clients : CallIsRight(calls'[e]) /\ (Halfway(calls'[e]) <=> Halfway(calls[e]))
  BY <1>1, <1>2
<1>12. QED
  BY <1>1, <1>2, <1>3, <1>10, <1>11, StepKeeps

-----------------------------------------------------------------------------
\* The next write is done.

LEMMA LandIs ==
  ASSUME WalletInv, Wallet!Land
  PROVE  LET w == Head(writes)
             rest == Tail(writes) IN
         /\ writes # <<>> /\ w \in WriteType(Born) /\ w = writes[1] /\ 1 \in DOMAIN writes
         /\ writes' = rest /\ keys' = KeysAfter(w, keys) /\ storedList' = ListAfter(w, storedList)
         /\ records' = IF w.record = None THEN records
                       ELSE [records EXCEPT ![w.record.address] = w.record.balance]
         /\ stale' = (stale \/ (w.record # None /\ w.record.read # records[w.record.address]))
         /\ UNCHANGED <<list, drawn, minted, torn>>
         /\ calls' \in [Clients -> CallType(Born)]
         /\ \A c \in Clients :
              IF c = w.by
              THEN /\ calls'[c].do = calls[c].do /\ calls'[c].need = calls[c].need
                   /\ calls'[c].got = calls[c].got /\ calls'[c].puts = calls[c].puts
                   /\ calls'[c].reading = calls[c].reading /\ calls'[c].waits = FALSE
              ELSE calls'[c] = calls[c]
         /\ w.by \in Clients => calls[w.by].waits = TRUE
<1> DEFINE w == Head(writes)
<1>1. /\ WalletType /\ writes \in Seq(WriteType(Born)) /\ WritesAreRight(writes, calls)
      /\ None \notin Clients /\ calls \in [Clients -> CallType(Born)]
  BY InvIs DEF WalletType, CallInv
<1>2. writes # <<>>
  BY DEF Wallet!Land
<1>3. w \in WriteType(Born) /\ w = writes[1] /\ 1 \in DOMAIN writes
  BY <1>1, <1>2
<1>4. /\ writes' = Tail(writes) /\ keys' = KeysAfter(w, keys)
      /\ storedList' = ListAfter(w, storedList)
      /\ UNCHANGED <<list, drawn, minted, torn>>
  BY DEF Wallet!Land, KeysAfter, ListAfter
<1>5. /\ records' = IF w.record = None THEN records
                    ELSE [records EXCEPT ![w.record.address] = w.record.balance]
      /\ stale' = (stale \/ (w.record # None /\ w.record.read # records[w.record.address]))
  BY DEF Wallet!Land
<1>6. calls' = IF w.by = None THEN calls ELSE [calls EXCEPT ![w.by].waits = FALSE]
  BY DEF Wallet!Land
<1>7. w.by \in Clients \cup {None}
  BY <1>3 DEF WriteType
<1> HIDE DEF w
<1>8. w.by \in Clients => calls[w.by].waits = TRUE
  <2>1. ASSUME w.by \in Clients PROVE calls[w.by].waits = TRUE
    <3>1. calls[w.by].waits
      BY <1>1, <1>3, <2>1 DEF WritesAreRight
    <3>2. calls[w.by].waits \in BOOLEAN
      BY <1>1, <2>1, CallIs
    <3>3. QED
      BY <3>1, <3>2
  <2>2. QED
    BY <2>1
<1>9. /\ calls' \in [Clients -> CallType(Born)]
      /\ \A c \in Clients :
              IF c = w.by
              THEN /\ calls'[c].do = calls[c].do /\ calls'[c].need = calls[c].need
                   /\ calls'[c].got = calls[c].got /\ calls'[c].puts = calls[c].puts
                   /\ calls'[c].reading = calls[c].reading /\ calls'[c].waits = FALSE
              ELSE calls'[c] = calls[c]
  <2>1. CASE w.by = None
    BY <1>1, <1>6, <2>1
  <2>2. CASE w.by \in Clients
    <3> DEFINE c == w.by
               l == [calls[c] EXCEPT !.waits = FALSE]
    <3>1. calls' = [calls EXCEPT ![c] = l]
      BY <1>1, <1>6, <2>2
    <3>2. calls[c] \in CallType(Born)
      BY <1>1, <2>2
    <3>3. /\ l \in CallType(Born) /\ l.do = calls[c].do /\ l.need = calls[c].need
          /\ l.got = calls[c].got /\ l.puts = calls[c].puts /\ l.reading = calls[c].reading
          /\ l.waits = FALSE
      BY <3>2 DEF CallType
    <3> HIDE DEF l
    <3>4. calls' \in [Clients -> CallType(Born)] /\ calls'[c] = l
          /\ \A d \in Clients \ {c} : calls'[d] = calls[d]
      BY <1>1, <2>2, <3>1, <3>3
    <3>5. QED
      BY <3>3, <3>4
  <2>3. QED
    BY <1>7, <2>1, <2>2
<1> USE DEF w
<1>10. QED
  BY <1>2, <1>3, <1>4, <1>5, <1>8, <1>9

LEMMA LandType ==
  ASSUME WalletInv, Wallet!Land
  PROVE  WalletType' /\ Born' = Born
<1> DEFINE w == Head(writes)
           rest == Tail(writes)
<1>1. WalletType /\ writes \in Seq(WriteType(Born))
  BY InvIs DEF WalletType
<1>2. /\ writes # <<>> /\ w \in WriteType(Born) /\ w = writes[1] /\ 1 \in DOMAIN writes
      /\ writes' = rest /\ keys' = KeysAfter(w, keys) /\ storedList' = ListAfter(w, storedList)
      /\ records' = IF w.record = None THEN records
                    ELSE [records EXCEPT ![w.record.address] = w.record.balance]
      /\ stale' = (stale \/ (w.record # None /\ w.record.read # records[w.record.address]))
      /\ UNCHANGED <<list, drawn, minted, torn>>
      /\ calls' \in [Clients -> CallType(Born)]
  BY LandIs
<1>3. Born' = Born
  BY <1>2 DEF Born
<1>4. Born \subseteq Wallet!Addresses
  BY <1>1, BornIs DEF WalletType
<1>5. /\ rest \in Seq(WriteType(Born))
      /\ \A i \in DOMAIN rest : i + 1 \in DOMAIN writes /\ rest[i] = writes[i + 1]
  BY <1>1, <1>2, Tailed
<1>6. \A i \in DOMAIN writes : writes[i].list # None => NoneTwice(writes[i].list)
  BY <1>1 DEF WalletType
<1> HIDE DEF w, rest
<1>7. /\ records' \in [Wallet!Addresses -> Nat \cup {None}]
      /\ \A a \in Wallet!Addresses \ Born : records'[a] = None
  <2>1. /\ records \in [Wallet!Addresses -> Nat \cup {None}]
        /\ \A a \in Wallet!Addresses \ Born : records[a] = None
    BY <1>1 DEF WalletType
  <2>2. CASE w.record = None
    BY <1>2, <2>1, <2>2
  <2>3. CASE w.record # None
    <3>1. w.record.address \in Born /\ w.record.balance \in Nat
      BY <1>2, <2>3 DEF WriteType, AccountType
    <3>2. QED
      BY <1>2, <1>4, <2>1, <2>3, <3>1
  <2>4. QED
    BY <2>2, <2>3
<1>8. keys' \subseteq Wallet!Addresses
  <2>1. w.key # None => w.key.address \in Born
    BY <1>2 DEF WriteType, KeyType
  <2>2. QED
    BY <1>1, <1>2, <1>4, <2>1 DEF WalletType, KeysAfter
<1>9. storedList' \in Seq(Born) /\ NoneTwice(storedList')
  <2>1. w.list # None => w.list \in Seq(Born) /\ NoneTwice(w.list)
    BY <1>2, <1>6 DEF WriteType
  <2>2. QED
    BY <1>1, <1>2, <2>1 DEF WalletType, ListAfter
<1>10. \A i \in DOMAIN rest : rest[i].list # None => NoneTwice(rest[i].list)
  BY <1>5, <1>6
<1>11. stale' \in BOOLEAN
  BY <1>1, <1>2 DEF WalletType
<1>12. /\ drawn' \in 0 .. MaxDrawn /\ minted' \in Nat /\ torn' \in BOOLEAN
       /\ list' \in Seq(Born) /\ NoneTwice(list')
  BY <1>1, <1>2 DEF WalletType
<1>13. /\ writes' \in Seq(WriteType(Born))
       /\ \A i \in DOMAIN writes' : writes'[i].list # None => NoneTwice(writes'[i].list)
       /\ calls' \in [Clients -> CallType(Born)]
  BY <1>2, <1>5, <1>10
<1>14. WalletType'
  BY <1>3, <1>7, <1>8, <1>9, <1>11, <1>12, <1>13 DEF WalletType
<1>15. QED
  BY <1>3, <1>14

\* An account that was as it had been read changes the money by what it adds.
LEMMA LandAdds ==
  ASSUME WalletInv, Wallet!Land, ~stale'
  PROVE  /\ Wallet!Money \in Int /\ Added(Head(writes)) \in Int
         /\ Wallet!Money' = Wallet!Money + Added(Head(writes))
<1> DEFINE w == Head(writes)
<1>1. /\ w \in WriteType(Born)
      /\ records' = IF w.record = None THEN records
                    ELSE [records EXCEPT ![w.record.address] = w.record.balance]
      /\ w.record # None => w.record.read = records[w.record.address]
  BY LandIs
<1>2. WalletType /\ WalletType' /\ Born \subseteq Wallet!Addresses
  BY InvIs, LandType, BornIs DEF WalletType
<1>3. /\ records \in [Wallet!Addresses -> Nat \cup {None}] /\ None \notin Nat
  BY <1>2, NoneIs, BornIs DEF WalletType
<1> HIDE DEF w
<1>4. CASE w.record = None
  <2>1. Wallet!Money \in Int /\ Wallet!Money' = Wallet!Money
    BY <1>1, <1>2, <1>4, MoneyStays
  <2>2. Added(w) = 0
    BY <1>4 DEF Added
  <2>3. QED
    BY <2>1, <2>2 DEF w
<1>5. CASE w.record # None
  <2> DEFINE account == w.record
             a == account.address
             d == Gain(account)
  <2>1. /\ a \in Wallet!Addresses /\ account.balance \in Nat /\ account \in AccountType(Born)
        /\ account.read = records[a] /\ records' = [records EXCEPT ![a] = account.balance]
    BY <1>1, <1>2, <1>5 DEF WriteType, AccountType
  <2>2. Worth(records[a]) \in Nat /\ d = account.balance - Worth(records[a]) /\ d \in Int
    BY <1>3, <2>1 DEF Worth, Gain
  <2> HIDE DEF account, a, d
  <2>3. ASSUME NEW b \in Wallet!Addresses
        PROVE  Worth(records'[b]) = Worth(records[b]) + (IF b \in {a} THEN d ELSE 0)
    <3>1. Worth(records[b]) \in Nat
      BY <1>3 DEF Worth
    <3>2. CASE b = a
      <4>1. records'[b] = account.balance
        BY <1>3, <2>1, <3>2
      <4>2. Worth(records'[b]) = account.balance
        BY <1>3, <2>1, <4>1 DEF Worth
      <4>3. QED
        BY <2>1, <2>2, <3>1, <3>2, <4>2
    <3>3. CASE b # a
      <4>1. records'[b] = records[b]
        BY <1>3, <2>1, <3>3
      <4>2. QED
        BY <3>1, <3>3, <4>1
    <3>4. QED
      BY <3>2, <3>3
  <2>4. {a} \in SUBSET Wallet!Addresses /\ Cardinality({a}) = 1
    BY <2>1, FS_Singleton
  <2>5. Wallet!Money \in Int /\ Wallet!Money' = Wallet!Money + d * Cardinality({a})
    BY <1>2, <2>2, <2>3, <2>4, MoneyGrows
  <2>6. d * 1 = d
    BY <2>2
  <2>7. Added(w) = d
    BY <1>5 DEF Added, account, d
  <2>8. QED
    BY <2>2, <2>4, <2>5, <2>6, <2>7 DEF w
<1>6. QED
  BY <1>4, <1>5

LEMMA LandCalls ==
  ASSUME WalletInv, Wallet!Land
  PROVE  CallInv'
<1> DEFINE w == Head(writes)
<1>1. /\ Queued(Born, writes, calls) /\ None \notin Clients
      /\ \A c \in Clients : CallIsRight(calls[c])
  BY InvIs
<1>2. /\ writes # <<>> /\ writes' = Tail(writes)
      /\ \A c \in Clients :
           IF c = w.by
           THEN /\ calls'[c].do = calls[c].do /\ calls'[c].need = calls[c].need
                /\ calls'[c].got = calls[c].got /\ calls'[c].puts = calls[c].puts
                /\ calls'[c].reading = calls[c].reading /\ calls'[c].waits = FALSE
           ELSE calls'[c] = calls[c]
  BY LandIs
<1> HIDE DEF w
<1>3. Queued(Born, Tail(writes), calls')
  <2>1. \A c \in Clients : IF c = Head(writes).by THEN calls'[c].waits = FALSE
                           ELSE calls'[c] = calls[c]
    BY <1>2 DEF w
  <2>2. QED
    BY <1>1, <1>2, <2>1, OneLess
<1>4. ASSUME NEW c \in Clients
      PROVE  CallIsRight(calls'[c])
  <2>1. CASE c = w.by
    <3> DEFINE k == calls[c]
               l == calls'[c]
    <3>1. CallIsRight(k)
      BY <1>1
    <3>2. /\ l.do = k.do /\ l.need = k.need /\ l.got = k.got /\ l.puts = k.puts
          /\ l.reading = k.reading /\ l.waits = FALSE
      BY <1>2, <2>1
    <3> HIDE DEF k, l
    <3>3. CallIsRight(l)
      BY <3>1, <3>2 DEF CallIsRight, Gathers
    <3>4. QED
      BY <3>3 DEF l
  <2>2. CASE c # w.by
    BY <1>1, <1>2, <2>2
  <2>3. QED
    BY <2>1, <2>2
<1>5. WritesAreRight(writes', calls')
  BY <1>2, <1>3 DEF Queued
<1>6. QED
  BY <1>4, <1>5 DEF CallInv

\* What is with the calls that are halfway changes by what the write adds.
LEMMA LandHalfway ==
  ASSUME WalletInv, Wallet!Land, IsFiniteSet(Clients)
  PROVE  LET before == Cardinality({c \in Clients : Halfway(calls[c])})
             after == Cardinality({c \in Clients : Halfway(calls'[c])})
         IN /\ before \in Nat /\ after \in Nat
            /\ Amount * after = Amount * before - Added(Head(writes))
<1> DEFINE w == Head(writes)
           H == {c \in Clients : Halfway(calls[c])}
           G == {c \in Clients : Halfway(calls'[c])}
           c == w.by
           k == calls[c]
           l == calls'[c]
<1>1. /\ WritesAreRight(writes, calls) /\ None \notin Clients
      /\ \A d \in Clients : CallIsRight(calls[d])
  BY InvIs DEF CallInv
<1>2. /\ w \in WriteType(Born) /\ w = writes[1] /\ 1 \in DOMAIN writes
      /\ \A d \in Clients :
           IF d = c
           THEN /\ calls'[d].do = calls[d].do /\ calls'[d].need = calls[d].need
                /\ calls'[d].got = calls[d].got /\ calls'[d].puts = calls[d].puts
                /\ calls'[d].reading = calls[d].reading /\ calls'[d].waits = FALSE
           ELSE calls'[d] = calls[d]
      /\ c \in Clients => k.waits = TRUE
  BY LandIs
<1>3. IsFiniteSet(H) /\ IsFiniteSet(G) /\ Cardinality(H) \in Nat /\ Cardinality(G) \in Nat
  BY FS_Subset, FS_CardinalityType
<1>4. c \in Clients => Added(w) = Owed(k) /\ CallIsRight(k)
  BY <1>1, <1>2 DEF WritesAreRight
<1>5. c \notin Clients => Added(w) = 0
  BY <1>1, <1>2 DEF WritesAreRight, Added
<1> HIDE DEF w, c, k, l
<1>6. CASE c \notin Clients
  <2>1. \A d \in Clients : calls'[d] = calls[d]
    BY <1>2, <1>6
  <2>2. G = H
    BY <2>1
  <2> HIDE DEF G, H
  <2>3. Amount * Cardinality(G) = Amount * Cardinality(H) - Added(w)
    BY <1>3, <1>5, <1>6, <2>2, NumbersAre
  <2>4. QED
    BY <1>3, <2>3 DEF G, H, w
<1>7. CASE c \in Clients
  <2>1. /\ k.waits = TRUE /\ l.waits = FALSE /\ l.do = k.do /\ l.need = k.need
        /\ l.got = k.got /\ l.puts = k.puts
        /\ \A d \in Clients : d # c => calls'[d] = calls[d]
    BY <1>2, <1>7 DEF k, l
  <2>2. /\ c \in H <=> Halfway(k)
        /\ c \in G <=> Halfway(l)
        /\ \A d : d # c => (d \in G <=> d \in H)
    BY <1>7, <2>1 DEF k, l
  <2>3. Pays(l) <=> Pays(k)
    BY <2>1 DEF Pays, Gathers
  <2> HIDE DEF G, H
  <2>4. CASE ~Pays(k)
    <3>1. ~Halfway(k) /\ ~Halfway(l) /\ Owed(k) = 0
      BY <2>3, <2>4 DEF Halfway, Owed
    <3>2. G = H
      BY <2>2, <3>1
    <3>3. Amount * Cardinality(G) = Amount * Cardinality(H) - Added(w)
      BY <1>3, <1>4, <1>7, <3>1, <3>2, NumbersAre
    <3>4. QED
      BY <1>3, <3>3 DEF G, H, w
  <2>5. CASE Pays(k)
    <3>1. Len(k.puts) \in {0, 1}
      <4>1. Len(k.puts) \in 0 .. 2 /\ Len(k.puts) # 2
        BY <1>4, <1>7, <2>1, <2>5 DEF CallIsRight, Pays
      <4>2. QED
        BY <4>1
    <3>2. CASE Len(k.puts) = 1
      <4>1. ~Halfway(k) /\ Halfway(l) /\ Owed(k) = 0 - Amount
        BY <2>1, <2>3, <2>5, <3>2 DEF Halfway, Owed
      <4>2. G = H \cup {c} /\ c \notin H
        BY <2>2, <4>1
      <4>3. Cardinality(G) = Cardinality(H) + 1
        BY <1>3, <4>2, FS_AddElement
      <4>4. \A m \in Nat : Amount * (m + 1) = Amount * m - (0 - Amount)
        BY NumbersAre
      <4>5. Amount * Cardinality(G) = Amount * Cardinality(H) - Added(w)
        BY <1>3, <1>4, <1>7, <4>1, <4>3, <4>4
      <4>6. QED
        BY <1>3, <4>5 DEF G, H, w
    <3>3. CASE Len(k.puts) = 0
      <4>1. Halfway(k) /\ ~Halfway(l) /\ Owed(k) = Amount
        BY <2>1, <2>3, <2>5, <3>3 DEF Halfway, Owed
      <4>2. H = G \cup {c} /\ c \notin G
        BY <2>2, <4>1
      <4>3. Cardinality(H) = Cardinality(G) + 1
        BY <1>3, <4>2, FS_AddElement
      <4>4. \A m \in Nat : Amount * m = Amount * (m + 1) - Amount
        BY NumbersAre
      <4>5. Amount * Cardinality(G) = Amount * Cardinality(H) - Added(w)
        BY <1>3, <1>4, <1>7, <4>1, <4>3, <4>4
      <4>6. QED
        BY <1>3, <4>5 DEF G, H, w
    <3>4. QED
      BY <3>1, <3>2, <3>3
  <2>6. QED
    BY <2>4, <2>5
<1>8. QED
  BY <1>6, <1>7

LEMMA LandKeeps ==
  ASSUME WalletInv, Wallet!Land
  PROVE  WalletInv'
<1>1. WalletType /\ KeyInv /\ MoneyInv /\ writes \in Seq(WriteType(Born))
  BY InvIs DEF WalletType
<1>2. WalletType' /\ CallInv'
  BY LandType, LandCalls
<1>3. KeyInv'
  <2>1. /\ writes # <<>> /\ writes' = Tail(writes) /\ keys' = KeysAfter(Head(writes), keys)
        /\ storedList' = ListAfter(Head(writes), storedList)
        /\ UNCHANGED <<list, torn>>
    BY LandIs
  <2>2. ASSUME Leads(keys, storedList, writes, Entries(list), list)
        PROVE  Leads(KeysAfter(Head(writes), keys), ListAfter(Head(writes), storedList),
                     Tail(writes), Entries(list), list)
    BY <1>1, <2>1, <2>2, LeadsFromNext
  <2>3. QED
    BY <1>1, <2>1, <2>2 DEF KeyInv
<1>4. MoneyInv'
  <2> SUFFICES ASSUME ~Seeded, ~stale', ~torn'
               PROVE  Wallet!Money' + Amount * Cardinality({c \in Clients : Halfway(calls'[c])})
                        = minted'
    BY DEF MoneyInv
  <2> DEFINE before == Cardinality({c \in Clients : Halfway(calls[c])})
             after == Cardinality({c \in Clients : Halfway(calls'[c])})
             added == Added(Head(writes))
  <2>1. ~stale /\ ~torn /\ minted' = minted
    BY DEF Wallet!Land
  <2>2. Wallet!Money + Amount * before = minted
    BY <1>1, <2>1 DEF MoneyInv
  <2>3. /\ Wallet!Money \in Int /\ added \in Int /\ Wallet!Money' = Wallet!Money + added
    BY LandAdds
  <2>4. before \in Nat /\ after \in Nat /\ Amount * after = Amount * before - added
    BY WalletAssumption, LandHalfway
  <2>5. Amount * before \in Int /\ Amount * after \in Int
    BY <2>4, NumbersAre
  <2> HIDE DEF before, after, added
  <2>6. Wallet!Money' + Amount * after = minted
    BY <2>2, <2>3, <2>4, <2>5
  <2>7. QED
    BY <2>1, <2>6 DEF after
<1>5. QED
  BY <1>2, <1>3, <1>4 DEF WalletInv

-----------------------------------------------------------------------------
\* Starting, and starting again.

\* The calls, none of which has begun.
LEMMA IdleIs ==
  ASSUME NEW B, NEW ks, ks = [c \in Clients |-> Wallet!Idle]
  PROVE  /\ ks \in [Clients -> CallType(B)] /\ \A c \in Clients : CallIsRight(ks[c])
         /\ {c \in Clients : Halfway(ks[c])} = {} /\ WritesAreRight(<<>>, ks)
<1> DEFINE k == Wallet!Idle
<1>1. <<>> \in Seq(AccountType(B)) /\ <<>> \in Seq(B)
  OBVIOUS
<1>2. /\ k.do = "nothing" /\ k.need = <<>> /\ k.got = <<>> /\ k.reading = None
      /\ k.puts = <<>> /\ k.waits = FALSE /\ k \in CallType(B)
  BY <1>1 DEF Wallet!Idle, CallType
<1>3. ks = [c \in Clients |-> k]
  OBVIOUS
<1> HIDE DEF k
<1>4. CallIsRight(k) /\ ~Halfway(k)
  <2>1. \A i : i \notin DOMAIN k.puts /\ i \notin DOMAIN k.got
    BY <1>2
  <2>2. QED
    BY <1>2, <2>1 DEF CallIsRight, Halfway, Pays, Gathers
<1>5. DOMAIN <<>> = {}
  OBVIOUS
<1>6. WritesAreRight(<<>>, ks)
  BY <1>2, <1>3, <1>5 DEF WritesAreRight
<1>7. QED
  BY <1>2, <1>3, <1>4, <1>6

\* The list of the n accounts that are created after the first.
LEMMA CreatedAre ==
  ASSUME NEW first \in Nat, NEW n \in Nat, NEW s, s = [i \in 1 .. n |-> first + i]
  PROVE  LET created == first + 1 .. first + n
         IN /\ NoneTwice(s) /\ Entries(s) = created /\ IsFiniteSet(created)
            /\ Cardinality(created) = n
            /\ \A B : created \subseteq B => s \in Seq(B)
<1> DEFINE created == first + 1 .. first + n
<1>1. NoneTwice(s)
  BY DEF NoneTwice
<1>2. Entries(s) = created
  <2>1. \A x \in created : x - first \in 1 .. n /\ s[x - first] = x
    OBVIOUS
  <2>2. \A i \in 1 .. n : s[i] \in created
    OBVIOUS
  <2>3. DOMAIN s = 1 .. n
    OBVIOUS
  <2> HIDE DEF created
  <2>4. QED
    BY <2>1, <2>2, <2>3 DEF Entries
<1>3. IsFiniteSet(created) /\ Cardinality(created) = n
  <2>1. first + 1 \in Int /\ first + n \in Int
    OBVIOUS
  <2>2. /\ IsFiniteSet(created)
        /\ Cardinality(created) = IF first + 1 > first + n THEN 0
                                  ELSE (first + n) - (first + 1) + 1
    BY <2>1, FS_Interval
  <2>3. QED
    BY <2>2
<1>4. ASSUME NEW B, created \subseteq B
      PROVE  s \in Seq(B)
  <2>1. \A i \in 1 .. n : first + i \in created
    OBVIOUS
  <2> HIDE DEF created
  <2>2. \A i \in 1 .. n : first + i \in B
    BY <1>4, <2>1
  <2>3. s \in [1 .. n -> B]
    BY <2>2
  <2>4. QED
    BY <2>3, SeqDef
<1>5. QED
  BY <1>1, <1>2, <1>3, <1>4

LEMMA WalletStarts == ASSUME MCInit PROVE WalletInv
<1> DEFINE created == 1 .. TotalAccounts
<1>1. /\ drawn = TotalAccounts
      /\ records = [a \in Wallet!Addresses |-> IF a \in created THEN DefaultBalance ELSE None]
      /\ keys = created /\ list = [i \in created |-> i] /\ storedList = list /\ writes = <<>>
      /\ calls = [c \in Clients |-> Wallet!Idle]
      /\ minted = TotalAccounts * DefaultBalance /\ stale = FALSE /\ torn = FALSE
  BY DEF MCInit, Wallet!Init
<1>2. /\ TotalAccounts \in Nat /\ DefaultBalance \in Nat /\ TotalAccounts * DefaultBalance \in Nat
      /\ TotalAccounts <= MaxDrawn /\ MaxDrawn \in Nat /\ Amount \in Nat
  BY NumbersAre, WalletAssumption
<1>3. drawn \in 0 .. MaxDrawn
  BY <1>1, <1>2
<1>4. created \subseteq Born /\ Born \subseteq Wallet!Addresses
  <2>1. 1 .. TotalAccounts \subseteq 0 .. TotalAccounts
    OBVIOUS
  <2>2. 1 .. TotalAccounts \subseteq 0 .. MaxDrawn
    BY <1>2
  <2>3. QED
    BY <1>1, <1>3, <2>1, <2>2, AddressesAre, BornIs DEF Born
<1>5. /\ NoneTwice(list) /\ Entries(list) = created /\ Cardinality(created) = TotalAccounts
      /\ list \in Seq(Born)
  <2>1. list = [i \in 1 .. TotalAccounts |-> 0 + i] /\ 0 + 1 = 1 /\ 0 + TotalAccounts = TotalAccounts
    BY <1>1, <1>2
  <2>2. LET some == 0 + 1 .. 0 + TotalAccounts
        IN /\ NoneTwice(list) /\ Entries(list) = some /\ Cardinality(some) = TotalAccounts
           /\ \A B : some \subseteq B => list \in Seq(B)
    BY <1>2, <2>1, CreatedAre
  <2>3. QED
    BY <1>4, <2>1, <2>2
<1> HIDE DEF created
<1>6. /\ calls \in [Clients -> CallType(Born)] /\ \A c \in Clients : CallIsRight(calls[c])
      /\ {c \in Clients : Halfway(calls[c])} = {} /\ WritesAreRight(<<>>, calls)
  BY <1>1, IdleIs
<1>7. WalletType
  <2>1. /\ records \in [Wallet!Addresses -> Nat \cup {None}]
        /\ \A a \in Wallet!Addresses \ Born : records[a] = None
    BY <1>1, <1>2, <1>4
  <2>2. writes \in Seq(WriteType(Born)) /\ DOMAIN writes = {}
    BY <1>1
  <2>3. QED
    BY <1>1, <1>2, <1>3, <1>4, <1>5, <1>6, <2>1, <2>2 DEF WalletType
<1>8. KeyInv
  BY <1>1, <1>5, LeadsNowhere DEF KeyInv
<1>9. CallInv
  BY <1>1, <1>6 DEF CallInv
<1>10. MoneyInv
  <2>1. created \in SUBSET Wallet!Addresses
    BY <1>4
  <2>2. Wallet!Money = DefaultBalance * Cardinality(created)
    BY <1>1, <1>7, <2>1, MoneyAtFirst
  <2>3. Wallet!Money = minted /\ Wallet!Money \in Int
    BY <1>1, <1>2, <1>5, <2>2
  <2>4. Cardinality({c \in Clients : Halfway(calls[c])}) = 0
    BY <1>6, FS_EmptySet
  <2>5. Wallet!Money + Amount * 0 = minted
    BY <1>2, <2>3
  <2>6. QED
    BY <2>4, <2>5 DEF MoneyInv
<1>11. QED
  BY <1>7, <1>8, <1>9, <1>10 DEF WalletInv

\* A restart that tears nothing apart finds the keys of the list, and no call halfway.
LEMMA NothingTorn ==
  ASSUME WalletInv, ~torn, ~Wallet!Tears
  PROVE  keys = Entries(storedList) /\ {c \in Clients : Halfway(calls[c])} = {}
<1>1. /\ WalletType /\ KeyInv /\ writes \in Seq(WriteType(Born))
      /\ \A c \in Clients : CallIsRight(calls[c])
  BY InvIs DEF WalletType
<1>2. \A i \in DOMAIN writes : writes[i].record # None
  BY DEF Wallet!Tears
<1>3. keys = Entries(storedList)
  BY <1>1, <1>2, LeadsFromKeys DEF KeyInv
<1>4. ASSUME NEW c \in Clients
      PROVE  ~Halfway(calls[c])
  BY <1>1 DEF Wallet!Tears, Halfway, Pays, Gathers, CallIsRight
<1>5. QED
  BY <1>3, <1>4

\* The process starts again, and finds a list.
LEMMA RestartFinds ==
  ASSUME WalletInv, Wallet!Restart, storedList # <<>>
  PROVE  WalletInv'
<1>1. /\ torn' = (torn \/ Wallet!Tears) /\ writes' = <<>>
      /\ calls' = [c \in Clients |-> Wallet!Idle]
      /\ list' = storedList /\ drawn' = IF Seeded THEN 0 ELSE drawn
      /\ UNCHANGED <<records, keys, storedList, minted, stale>>
  BY DEF Wallet!Restart
<1>2. WalletType /\ MoneyInv
  BY InvIs
<1>3. Born' = Born /\ drawn' \in 0 .. MaxDrawn
  BY <1>1, <1>2, NumbersAre DEF Born, WalletType
<1>4. /\ calls' \in [Clients -> CallType(Born)] /\ \A c \in Clients : CallIsRight(calls'[c])
      /\ {c \in Clients : Halfway(calls'[c])} = {} /\ WritesAreRight(<<>>, calls')
  BY <1>1, IdleIs
<1>5. torn' \in BOOLEAN
  BY <1>1, <1>2 DEF WalletType, Wallet!Tears
<1>6. WalletType'
  <2>1. writes' \in Seq(WriteType(Born)) /\ DOMAIN writes' = {}
    BY <1>1
  <2>2. QED
    BY <1>1, <1>2, <1>3, <1>4, <1>5, <2>1 DEF WalletType
<1>7. CallInv'
  BY <1>1, <1>4 DEF CallInv
<1>8. ~torn' => keys = Entries(storedList) /\ {c \in Clients : Halfway(calls[c])} = {}
  BY <1>1, NothingTorn
<1>9. KeyInv'
  <2>1. ASSUME keys = Entries(storedList)
        PROVE  Leads(keys', storedList', writes', Entries(list'), list')
    BY <1>1, <2>1, LeadsNowhere
  <2>2. QED
    BY <1>8, <2>1 DEF KeyInv
<1>10. MoneyInv'
  <2>1. Wallet!Money' = Wallet!Money
    BY <1>1, <1>2, <1>6, MoneyStays
  <2>2. QED
    BY <1>1, <1>2, <1>4, <1>8, <2>1 DEF MoneyInv
<1>11. QED
  BY <1>6, <1>7, <1>9, <1>10 DEF WalletInv

\* The process starts again, and finds no list: accounts are created.
LEMMA RestartCreates ==
  ASSUME WalletInv, Wallet!Restart, storedList = <<>>
  PROVE  WalletInv'
<1> DEFINE first == IF Seeded THEN 0 ELSE drawn
           created == first + 1 .. first + TotalAccounts
<1>1. /\ torn' = (torn \/ Wallet!Tears) /\ writes' = <<>>
      /\ calls' = [c \in Clients |-> Wallet!Idle]
      /\ first + TotalAccounts <= MaxDrawn /\ drawn' = first + TotalAccounts
      /\ records' = [a \in Wallet!Addresses |->
                       IF a \in created THEN DefaultBalance ELSE records[a]]
      /\ keys' = keys \cup created
      /\ list' = [i \in 1 .. TotalAccounts |-> first + i] /\ storedList' = list'
      /\ minted' = minted + TotalAccounts * DefaultBalance
      /\ UNCHANGED stale
  BY DEF Wallet!Restart
<1>2. /\ TotalAccounts \in Nat /\ DefaultBalance \in Nat /\ TotalAccounts * DefaultBalance \in Nat
      /\ MaxDrawn \in Nat /\ Amount \in Nat
  BY NumbersAre
<1>3. WalletType /\ MoneyInv /\ drawn \in Nat
  BY InvIs DEF WalletType
<1>4. first \in Nat /\ drawn' \in 0 .. MaxDrawn
  BY <1>1, <1>2, <1>3
<1>5. /\ created \subseteq Born' /\ created \subseteq Wallet!Addresses
      /\ Born \subseteq Born' /\ Born' \subseteq Wallet!Addresses
      /\ ~Seeded => created \cap Born = {}
  <2>1. Wallet!Addresses = 0 .. MaxDrawn
    BY AddressesAre
  <2>2. /\ created \subseteq 0 .. MaxDrawn /\ created \subseteq 0 .. drawn'
        /\ created \cap (0 .. first) = {} /\ 0 .. drawn' \subseteq 0 .. MaxDrawn
        /\ 0 .. first \subseteq 0 .. drawn'
    BY <1>1, <1>2, <1>4
  <2> HIDE DEF created
  <2>3. CASE Seeded
    BY <2>1, <2>2, <2>3 DEF Born
  <2>4. CASE ~Seeded
    BY <2>1, <2>2, <2>4 DEF Born
  <2>5. QED
    BY <2>3, <2>4
<1> HIDE DEF first
<1>6. /\ NoneTwice(list') /\ Entries(list') = created /\ Cardinality(created) = TotalAccounts
      /\ list' \in Seq(Born')
  <2>1. PICK s : s = list'
    OBVIOUS
  <2>2. s = [i \in 1 .. TotalAccounts |-> first + i]
    BY <1>1, <2>1
  <2>3. /\ NoneTwice(s) /\ Entries(s) = created /\ Cardinality(created) = TotalAccounts
        /\ \A B : created \subseteq B => s \in Seq(B)
    BY <1>2, <1>4, <2>2, CreatedAre
  <2> HIDE DEF created
  <2>4. s \in Seq(Born')
    BY <1>5, <2>3
  <2>5. QED
    BY <2>1, <2>3, <2>4
<1> HIDE DEF created
<1>7. /\ calls' \in [Clients -> CallType(Born')] /\ \A c \in Clients : CallIsRight(calls'[c])
      /\ {c \in Clients : Halfway(calls'[c])} = {} /\ WritesAreRight(<<>>, calls')
  BY <1>1, IdleIs
<1>8. torn' \in BOOLEAN
  BY <1>1, <1>3 DEF WalletType, Wallet!Tears
<1>9. /\ records \in [Wallet!Addresses -> Nat \cup {None}]
      /\ \A a \in Wallet!Addresses \ Born : records[a] = None
      /\ keys \subseteq Wallet!Addresses /\ minted \in Nat /\ stale \in BOOLEAN
  BY <1>3 DEF WalletType
<1>10. WalletType'
  <2>1. writes' \in Seq(WriteType(Born')) /\ DOMAIN writes' = {}
    BY <1>1
  <2>2. /\ records' \in [Wallet!Addresses -> Nat \cup {None}]
        /\ \A a \in Wallet!Addresses \ Born' : records'[a] = None
    BY <1>1, <1>2, <1>5, <1>9
  <2>3. keys' \subseteq Wallet!Addresses /\ minted' \in Nat /\ stale' \in BOOLEAN
    BY <1>1, <1>2, <1>5, <1>9
  <2>4. storedList' \in Seq(Born') /\ NoneTwice(storedList')
    BY <1>1, <1>6
  <2>5. QED
    BY <1>4, <1>6, <1>7, <1>8, <2>1, <2>2, <2>3, <2>4 DEF WalletType
<1>11. CallInv'
  BY <1>1, <1>7 DEF CallInv
<1>12. ~torn' => keys = Entries(storedList) /\ {c \in Clients : Halfway(calls[c])} = {}
  BY <1>1, NothingTorn
<1>13. KeyInv'
  <2>1. Entries(<<>>) = {}
    BY DEF Entries
  <2>2. ASSUME keys = Entries(storedList)
        PROVE  Leads(keys', storedList', writes', Entries(list'), list')
    <3>1. keys' = created
      BY <1>1, <2>1, <2>2
    <3>2. keys' = Entries(list') /\ storedList' = list' /\ writes' = <<>>
      BY <1>1, <1>6, <3>1
    <3>3. QED
      BY <3>2, LeadsNowhere
  <2>3. QED
    BY <1>12, <2>2 DEF KeyInv
<1>14. MoneyInv'
  <2> SUFFICES ASSUME ~Seeded, ~stale', ~torn'
               PROVE  Wallet!Money' + Amount * Cardinality({c \in Clients : Halfway(calls'[c])})
                        = minted'
    BY DEF MoneyInv
  <2>1. ~stale /\ ~torn /\ Cardinality({}) = 0
    BY <1>1, FS_EmptySet
  <2>2. Wallet!Money + Amount * 0 = minted
    BY <1>3, <1>12, <2>1 DEF MoneyInv
  <2>3. ASSUME NEW a \in Wallet!Addresses
        PROVE  Worth(records'[a]) = Worth(records[a]) + (IF a \in created THEN DefaultBalance ELSE 0)
    <3>1. Worth(records[a]) \in Nat /\ None \notin Nat
      BY <1>3, <1>9, NoneIs, BornIs DEF WalletType, Worth
    <3>2. CASE a \in created
      <4>1. records[a] = None /\ records'[a] = DefaultBalance
        BY <1>1, <1>5, <1>9, <3>2
      <4>2. QED
        BY <1>2, <3>1, <3>2, <4>1 DEF Worth
    <3>3. CASE a \notin created
      BY <1>1, <3>1, <3>3
    <3>4. QED
      BY <3>2, <3>3
  <2>4. DefaultBalance \in Int /\ created \in SUBSET Wallet!Addresses
    BY <1>2, <1>5
  <2>5. Wallet!Money \in Int /\ Wallet!Money' = Wallet!Money + DefaultBalance * Cardinality(created)
    BY <1>3, <1>10, <2>3, <2>4, MoneyGrows
  <2>6. Wallet!Money' = minted'
    <3>1. Wallet!Money = minted
      BY <1>2, <2>2, <2>5
    <3>2. DefaultBalance * Cardinality(created) = TotalAccounts * DefaultBalance
      BY <1>2, <1>6
    <3>3. QED
      BY <1>1, <2>5, <3>1, <3>2
  <2>7. Wallet!Money' \in Int
    BY <1>2, <1>6, <2>5
  <2>8. Amount * Cardinality({c \in Clients : Halfway(calls'[c])}) = 0
    <3>1. Cardinality({c \in Clients : Halfway(calls'[c])}) = 0
      BY <1>7, <2>1
    <3>2. Amount * 0 = 0
      BY <1>2
    <3>3. QED
      BY <3>1, <3>2
  <2>9. QED
    BY <2>6, <2>7, <2>8
<1>15. QED
  BY <1>10, <1>11, <1>13, <1>14 DEF WalletInv

LEMMA WalletNext ==
  ASSUME WalletInv, Wallet!Next
  PROVE  WalletInv'
<1>1. WalletType /\ Wallet!Known \subseteq Born /\ 0 \in Born /\ Wallet!Foreign = 0
  BY InvIs, KnownAre
<1>2. ASSUME NEW c \in Clients, Wallet!WalletNew(c) PROVE WalletInv'
  BY <1>2, NewKeeps
<1>3. ASSUME NEW c \in Clients, Wallet!WalletImport(c, Wallet!Foreign) PROVE WalletInv'
  BY <1>1, <1>3, ImportKeeps
<1>4. ASSUME NEW c \in Clients, NEW a \in Wallet!Known,
             Wallet!WalletDelete(c, a) \/ Wallet!WalletSetDefault(c, a)
      PROVE  WalletInv'
  BY <1>1, <1>4, DeleteKeeps, DefaultKeeps
<1>5. ASSUME NEW c \in Clients, NEW a \in Wallet!Known,
             Wallet!Use(c, "get", <<a>>) \/ Wallet!Use(c, "nonce", <<a>>)
      PROVE  WalletInv'
  <2>1. /\ <<a>> \in Seq(Born) /\ <<a>> # <<>> /\ "get" \in Uses /\ "nonce" \in Uses
        /\ "get" # "transfer" /\ "nonce" # "transfer"
    BY <1>1 DEF Uses
  <2>2. QED
    BY <1>5, <2>1, UseKeeps
<1>6. ASSUME NEW c \in Clients, NEW a \in Wallet!Known, NEW b \in Wallet!Known,
             Wallet!Use(c, "transfer", <<a, b>>)
      PROVE  WalletInv'
  <2>1. /\ <<a, b>> \in Seq(Born) /\ <<a, b>> # <<>> /\ Len(<<a, b>>) = 2 /\ "transfer" \in Uses
    BY <1>1 DEF Uses
  <2>2. QED
    BY <1>6, <2>1, UseKeeps
<1>7. ASSUME NEW c \in Clients, Wallet!GetRecord(c) PROVE WalletInv'
  BY <1>7, GetRecordKeeps
<1>8. ASSUME NEW c \in Clients, Wallet!GetPrivateKey(c) PROVE WalletInv'
  BY <1>8, GetPrivateKeyKeeps
<1>9. ASSUME NEW c \in Clients, Wallet!Perform(c) PROVE WalletInv'
  BY <1>9, PerformKeeps
<1>10. ASSUME NEW c \in Clients, Wallet!Put(c) PROVE WalletInv'
  BY <1>10, PutKeeps
<1>11. ASSUME NEW c \in Clients, Wallet!End(c) PROVE WalletInv'
  BY <1>11, EndKeeps
<1>12. CASE Wallet!Land
  BY <1>12, LandKeeps
<1>13. CASE Wallet!Restart
  BY <1>13, RestartFinds, RestartCreates
<1>14. QED
  BY <1>2, <1>3, <1>4, <1>5, <1>6, <1>7, <1>8, <1>9, <1>10, <1>11, <1>12, <1>13
     DEF Wallet!Next

LEMMA WalletStays ==
  ASSUME WalletInv, UNCHANGED walletVars
  PROVE  WalletInv'
<1>1. /\ WalletType /\ drawn' \in drawn .. MaxDrawn /\ calls \in [Clients -> CallType(Born)]
      /\ Queued(Born, writes, calls) /\ list \in Seq(Born) /\ NoneTwice(list)
      /\ \A d \in Clients : CallIsRight(calls[d])
  BY InvIs DEF walletVars, WalletType
<1>2. Born' = Born
  BY DEF walletVars, Born
<1>3. /\ UNCHANGED <<records, keys, storedList, minted, stale, torn>>
      /\ UNCHANGED <<calls, list, writes>>
  BY DEF walletVars
<1>4. \A d \in Clients : CallIsRight(calls'[d]) /\ (Halfway(calls'[d]) <=> Halfway(calls[d]))
  BY <1>1, <1>3
<1>5. QED
  BY <1>1, <1>2, <1>3, <1>4, StepKeeps

LEMMA WalletSuffices ==
  ASSUME WalletInv
  PROVE  Wallet!ListIsOfKeys /\ (~Seeded => Wallet!MoneyIsKept)
<1>1. WalletType /\ KeyInv /\ MoneyInv /\ NoneTwice(list) /\ None \notin Clients
  BY InvIs
<1>2. Wallet!ListIsOfKeys
  <2>1. Wallet!IsInjective(list) /\ Wallet!ToSet(list) = Entries(list)
    BY <1>1, SequenceNames
  <2>2. ASSUME writes = <<>>, ~torn
        PROVE  storedList = list /\ Entries(list) = keys
    BY <1>1, <2>2, LeadsNowhere DEF KeyInv
  <2>3. QED
    BY <2>1, <2>2 DEF Wallet!ListIsOfKeys
<1>3. ASSUME ~Seeded
      PROVE  Wallet!MoneyIsKept
  <2> SUFFICES ASSUME Wallet!Quiet, ~stale, ~torn
               PROVE  Wallet!Money = minted
    BY DEF Wallet!MoneyIsKept
  <2>1. calls = [c \in Clients |-> Wallet!Idle]
    BY <1>1 DEF Wallet!Quiet, WalletType
  <2>2. {c \in Clients : Halfway(calls[c])} = {}
    BY <2>1, IdleIs
  <2>3. Cardinality({c \in Clients : Halfway(calls[c])}) = 0
    BY <2>2, FS_EmptySet
  <2>4. Wallet!Money + Amount * 0 = minted
    BY <1>1, <1>3, <2>3 DEF MoneyInv
  <2>5. Wallet!Money \in Int
    BY <1>1, MoneyIsInt
  <2>6. QED
    BY <2>4, <2>5, NumbersAre
<1>4. QED
  BY <1>2, <1>3

-----------------------------------------------------------------------------
\* Both parts together.

AccountsInv == PushInv /\ WalletInv

LEMMA AccountsNext ==
  ASSUME AccountsInv, [MCNext]_allVars
  PROVE  AccountsInv'
<1>1. PushInv /\ WalletInv
  BY DEF AccountsInv
<1>2. UNCHANGED pushVars => PushInv'
  BY <1>1, PushStays
<1>3. UNCHANGED walletVars => WalletInv'
  BY <1>1, WalletStays
<1>4. CASE Sending!Next /\ UNCHANGED walletVars
  BY <1>1, <1>3, <1>4, PushNext DEF AccountsInv
<1>5. CASE Wallet!Next /\ UNCHANGED pushVars
  BY <1>1, <1>2, <1>5, WalletNext DEF AccountsInv
<1>6. CASE UNCHANGED <<pushVars, walletVars>>
  BY <1>2, <1>3, <1>6 DEF AccountsInv
<1>7. \/ Sending!Next /\ UNCHANGED walletVars
      \/ Wallet!Next /\ UNCHANGED pushVars
      \/ UNCHANGED <<pushVars, walletVars>>
  BY DEF MCNext, allVars
<1>8. QED
  BY <1>4, <1>5, <1>6, <1>7

(***************************************************************************)
(* A message that push() or pushSigned() puts into the pool is filled in,   *)
(* paid for and signed, and one that is refused had a reason                *)
(* (blockchain.ts:301-443).  The list of the wallet is of its keys whenever  *)
(* nothing is left to write and no restart has come between two writes; the *)
(* money is kept unless an account was put back that another call had       *)
(* changed, or a restart came between the accounts of a transfer.  With a   *)
(* seed a restart without keys makes the same accounts again, with their    *)
(* first balances: no money is claimed to be kept then                      *)
(* (account-manager.ts, private-key-manager.ts, blockchain.ts:149-206).     *)
(***************************************************************************)
THEOREM AccountsSound ==
  MCSpec =>
    [](/\ Sending!PushIsSound /\ Wallet!ListIsOfKeys
       /\ ~Seeded => AccountsAreSound)
<1>1. MCInit => AccountsInv
  BY PushInit, WalletStarts DEF AccountsInv
<1>2. AccountsInv /\ [MCNext]_allVars => AccountsInv'
  BY AccountsNext
<1>3. AccountsInv =>
        /\ Sending!PushIsSound /\ Wallet!ListIsOfKeys
        /\ ~Seeded => AccountsAreSound
  BY PushSuffices, WalletSuffices
     DEF AccountsInv, AccountsAreSound, Wallet!AccountsAreSound
<1>4. QED
  BY <1>1, <1>2, <1>3, PTL DEF MCSpec
=============================================================================
