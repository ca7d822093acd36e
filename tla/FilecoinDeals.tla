---------------------------- MODULE FilecoinDeals ----------------------------
(***************************************************************************)
(* Storage deals of the Filecoin flavor.  Every tipset moves the deals that  *)
(* are listed one state on, from validating to active; active ones expire    *)
(* with their last tipset.  While the miner mines every message, startDeal() *)
(* mines until its own deal is active, and pays.                            *)
(***************************************************************************)
EXTENDS Naturals, SequencesExt, FiniteSetsExt

CONSTANTS Deals,     \* each is proposed once
          Others,    \* calls of Ganache.MineTipset
          Active,    \* the number of states a deal goes through, the last is active
          Duration,  \* minBlocksDuration of the deals
          Racing,    \* whether deals are added at the same time
          None

Expired == Active + 1

VARIABLES
  states,      \* the deals' states in the database, or None
  cids,        \* the list of deals in the database
  expirations, \* of each deal, in tipsets after the latest one: 0 once there have been more
  readCids,    \* the list as addDealInfo() has read it
  miningLock,  \* who mines, and who waits for it in turn
  updates,     \* <<deal, state>>, what mineTipset() has still to write, or None
  pc

vars == <<states, cids, expirations, readCids, miningLock, updates, pc>>

Init ==
  /\ states = [d \in Deals |-> None]
  /\ cids = <<>>
  /\ expirations = [d \in Deals |-> None]
  /\ readCids = [d \in Deals |-> <<>>]
  /\ miningLock = <<>>
  /\ updates = None
  /\ pc = [p \in Deals \cup Others |-> "idle"]

Adding(d) == pc[d] \in {"adding", "listing"}

(***************************************************************************)
(* startDeal() and addDealInfo()                                           *)
(***************************************************************************)

\* A proposal is signed and becomes a deal; it will be active, and expire, so and so many
\* tipsets after the latest one.
StartDeal(d) ==
  /\ pc[d] = "idle"
  /\ Racing \/ ~\E e \in Deals : Adding(e)
  /\ states' = [states EXCEPT ![d] = 1]
  /\ expirations' = [expirations EXCEPT ![d] = Active - 1 + Duration + 1]
  /\ pc' = [pc EXCEPT ![d] = "adding"]
  /\ UNCHANGED <<cids, readCids, miningLock, updates>>

GetDealCids(d) ==
  /\ pc[d] = "adding"
  /\ readCids' = [readCids EXCEPT ![d] = cids]
  /\ pc' = [pc EXCEPT ![d] = "listing"]
  /\ UNCHANGED <<states, cids, expirations, miningLock, updates>>

\* Mutant: the first tipset for the deal is left to others, who need not mine.
PutDealCidsOnly(d) ==
  /\ pc[d] = "listing"
  /\ cids' = Append(readCids[d], d)
  /\ pc' = [pc EXCEPT ![d] = "mining"]
  /\ UNCHANGED <<states, expirations, readCids, miningLock, updates>>

\* Then startDeal() mines the first tipset for the deal.
PutDealCids(d) ==
  /\ pc[d] = "listing"
  /\ cids' = Append(readCids[d], d)
  /\ miningLock' = Append(miningLock, d)
  /\ pc' = [pc EXCEPT ![d] = "mining"]
  /\ UNCHANGED <<states, expirations, readCids, updates>>

MineUnlessActive(state) == state # Active

\* With a switched-on miner and no block time the deal is read after each tipset; once it
\* is active, it is paid for and the call ends.
GetDeal(d) ==
  /\ pc[d] = "mined"
  /\ IF MineUnlessActive(states[d])
       THEN miningLock' = Append(miningLock, d) /\ pc' = [pc EXCEPT ![d] = "mining"]
       ELSE pc' = [pc EXCEPT ![d] = "started"] /\ UNCHANGED miningLock
  /\ UNCHANGED <<states, cids, expirations, readCids, updates>>

(***************************************************************************)
(* mineTipset(), as far as deals are concerned                              *)
(***************************************************************************)

Mine(o) ==
  /\ pc[o] = "idle"
  /\ miningLock' = Append(miningLock, o)
  /\ pc' = [pc EXCEPT ![o] = "mining"]
  /\ UNCHANGED <<states, cids, expirations, readCids, updates>>

InProcess(state) == state < Active

NextState(state) == state + 1

IsOver(left) == left = 0

\* The deals that are active, also if just now, and have lasted long enough.
Expiring(d, left) ==
  /\ states[d] = Active \/ (InProcess(states[d]) /\ NextState(states[d]) = Active)
  /\ IsOver(left)

\* The tipset is stored and the deals are read: those in process advance, then the active
\* ones that are over expire.
PutTipset ==
  /\ miningLock # <<>>
  /\ updates = None
  /\ expirations' = [d \in Deals |->
       IF expirations[d] \in {None, 0} THEN expirations[d] ELSE expirations[d] - 1]
  /\ LET advance == SelectSeq(cids, LAMBDA d : InProcess(states[d]))
         expire == SelectSeq(cids, LAMBDA d : Expiring(d, expirations'[d]))
     IN updates' = [i \in DOMAIN advance |-> <<advance[i], NextState(states[advance[i]])>>]
                   \o [i \in DOMAIN expire |-> <<expire[i], Expired>>]
  /\ UNCHANGED <<states, cids, readCids, miningLock, pc>>

UpdateDealInfo ==
  /\ updates \notin {None, <<>>}
  /\ states' = [states EXCEPT ![Head(updates)[1]] = Head(updates)[2]]
  /\ updates' = Tail(updates)
  /\ UNCHANGED <<cids, expirations, readCids, miningLock, pc>>

Mined ==
  /\ updates = <<>>
  /\ updates' = None
  /\ miningLock' = Tail(miningLock)
  /\ pc' = [pc EXCEPT ![Head(miningLock)] = "mined"]
  /\ UNCHANGED <<states, cids, expirations, readCids>>

Next ==
  \/ \E d \in Deals : StartDeal(d) \/ GetDealCids(d) \/ PutDealCids(d) \/ GetDeal(d)
  \/ \E o \in Others : Mine(o)
  \/ PutTipset \/ UpdateDealInfo \/ Mined

Spec == Init /\ [][Next]_vars

Fairness ==
  /\ \A d \in Deals : WF_vars(GetDealCids(d) \/ PutDealCids(d) \/ GetDeal(d))
  /\ WF_vars(PutTipset \/ UpdateDealInfo \/ Mined)

FairSpec == Spec /\ Fairness

(***************************************************************************)
(* Properties                                                              *)
(***************************************************************************)

\* "Note that this will automatically advance the deal to the active state": startDeal()
\* ends, although other calls mine, and other deals are started, meanwhile.
DealsEnd == \A d \in Deals : pc[d] = "adding" ~> pc[d] = "started"
=============================================================================
