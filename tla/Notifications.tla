---------------------------- MODULE Notifications ----------------------------
(***************************************************************************)
(* What clients are told about new blocks: the filters of eth_newFilter and *)
(* eth_newBlockFilter, which are polled, and the subscriptions of           *)
(* eth_subscribe over web sockets (api.ts, ws-server.ts), driven by the     *)
(* events blockLogs and block (blockchain.ts, #emitNewBlock).  Every block  *)
(* has one log, and it passes every filter of addresses and topics.         *)
(*                                                                         *)
(* The events of a block are emitted as soon as it has been saved, before   *)
(* the next one begins to be saved, except in the eager mode: there a       *)
(* setImmediate() that nothing waits for emits them.                        *)
(***************************************************************************)
EXTENDS Naturals, SequencesExt

CONSTANTS Filters, Sockets, Subscriptions,
          MaxBlocks,   \* bound on the blocks mined
          Latest,      \* the tag "latest"; the tag "earliest" is the block 0
          None

VARIABLES
  eager,       \* whether the miner's instamine option is "eager"
  mined,       \* the last block handed over by the miner
  latest,      \* the number of blocks.latest
  saved,       \* the last block that has been saved
  emitted,     \* the last block whose events have been emitted
  filter,      \* the filters, or None
  polled,      \* history: what eth_getFilterChanges has returned of each filter
  closed,      \* the sockets that have closed
  subscriber,  \* the socket of a subscription, or None
  phase,       \* "none", "asked", "subscribed", "answered", "dropped"
  listens,     \* the subscriptions whose listener the blockchain calls
  sent         \* what has been sent for a subscription: its answer (0), then blocks

chainVars == <<eager, mined, latest, saved, emitted>>
filterVars == <<filter, polled>>
socketVars == <<closed, subscriber, phase, listens, sent>>

vars == <<chainVars, filterVars, socketVars>>

Init ==
  /\ eager \in BOOLEAN
  /\ mined = 0  /\ latest = 0  /\ saved = 0  /\ emitted = 0
  /\ filter = [f \in Filters |-> None]
  /\ polled = [f \in Filters |-> <<>>]
  /\ closed = {}
  /\ subscriber = [s \in Subscriptions |-> None]
  /\ phase = [s \in Subscriptions |-> "none"]
  /\ listens = {}
  /\ sent = [s \in Subscriptions |-> <<>>]

(***************************************************************************)
(* Filters.  The range of a log filter is looked at again for every block,  *)
(* since its tags stand for blocks that change.                             *)
(***************************************************************************)

Ranges == [from : {0, 2, Latest}, to : {2, Latest}]

EffectiveNumber(tag) == IF tag = Latest THEN latest ELSE tag

InRange(range, n) == EffectiveNumber(range.from) <= n /\ n <= EffectiveNumber(range.to)

NewFilter(f, kind, range) ==
  /\ filter[f] = None
  /\ filter' = [filter EXCEPT ![f] =
       [kind |-> kind, range |-> range, updates |-> <<>>, since |-> emitted]]
  /\ UNCHANGED <<chainVars, polled, socketVars>>

\* Mutant: the updates are returned and not emptied.
UpdatesKept(f) == filter[f].updates

UpdatesTaken(f) == <<>>

GetFilterChanges(f) ==
  /\ filter[f] # None
  /\ polled' = [polled EXCEPT ![f] = @ \o filter[f].updates]
  /\ filter' = [filter EXCEPT ![f].updates = UpdatesTaken(f)]
  /\ UNCHANGED <<chainVars, socketVars>>

UninstallFilter(f) ==
  /\ filter[f] # None
  /\ filter' = [filter EXCEPT ![f] = None]
  /\ polled' = [polled EXCEPT ![f] = <<>>]
  /\ UNCHANGED <<chainVars, socketVars>>

Updated(f, n) ==
  IF filter[f] # None /\ (filter[f].kind = "block" \/ InRange(filter[f].range, n))
    THEN [filter[f] EXCEPT !.updates = Append(@, n)]
    ELSE filter[f]

(***************************************************************************)
(* Subscriptions.  The API adds the listener, and then the web socket       *)
(* server sends the answer and begins to pass on messages, unless its       *)
(* client has gone.  When a socket closes only the passing on ends.         *)
(***************************************************************************)

Subscribe(s, k) ==
  /\ phase[s] = "none"
  /\ k \notin closed
  /\ phase' = [phase EXCEPT ![s] = "asked"]
  /\ subscriber' = [subscriber EXCEPT ![s] = k]
  /\ UNCHANGED <<chainVars, filterVars, closed, listens, sent>>

Subscribed(s) ==
  /\ phase[s] = "asked"
  /\ phase' = [phase EXCEPT ![s] = "subscribed"]
  /\ listens' = listens \cup {s}
  /\ UNCHANGED <<chainVars, filterVars, closed, subscriber, sent>>

StillThere(s) == subscriber[s] \notin closed

Answer(s) ==
  /\ phase[s] = "subscribed"
  /\ IF StillThere(s)
       THEN /\ phase' = [phase EXCEPT ![s] = "answered"]
            /\ sent' = [sent EXCEPT ![s] = <<0>>]
       ELSE /\ phase' = [phase EXCEPT ![s] = "dropped"]
            /\ sent' = sent
  /\ UNCHANGED <<chainVars, filterVars, closed, subscriber, listens>>

\* eth_unsubscribe knows the id, whichever connection it comes from.
Unsubscribe(s) ==
  /\ phase[s] = "answered"
  /\ s \in listens
  /\ listens' = listens \ {s}
  /\ UNCHANGED <<chainVars, filterVars, closed, subscriber, phase, sent>>

\* The promises' dispose() is called.
Disposed(k) ==
  [s \in Subscriptions |->
     IF subscriber[s] = k /\ phase[s] = "answered" THEN "dropped" ELSE phase[s]]

SocketCloses(k) ==
  /\ k \notin closed
  /\ closed' = closed \cup {k}
  /\ phase' = Disposed(k)
  /\ UNCHANGED <<chainVars, filterVars, subscriber, listens, sent>>

(***************************************************************************)
(* Blocks                                                                  *)
(***************************************************************************)

PassesOn(s) == s \in listens /\ phase[s] = "answered"

Emit(n) ==
  /\ emitted' = n
  /\ filter' = [f \in Filters |-> Updated(f, n)]
  /\ sent' = [s \in Subscriptions |-> IF PassesOn(s) THEN Append(sent[s], n) ELSE sent[s]]
  /\ UNCHANGED <<polled, closed, subscriber, phase, listens>>

Mine ==
  /\ mined < MaxBlocks
  /\ mined' = mined + 1
  /\ UNCHANGED <<eager, latest, saved, emitted, filterVars, socketVars>>

\* #saveNewBlock: the block is the latest before it has been saved.
StartSaving ==
  /\ latest = saved
  /\ saved < mined
  /\ latest' = latest + 1
  /\ UNCHANGED <<eager, mined, saved, emitted, filterVars, socketVars>>

Saved ==
  /\ saved < latest
  /\ saved' = latest
  /\ UNCHANGED <<eager, mined, latest>>
  /\ IF eager
       THEN UNCHANGED <<emitted, filterVars, socketVars>>
       ELSE Emit(latest)

\* The events of blocks are emitted in the order in which these were saved.
NextToEmit == emitted + 1

EmitLate ==
  /\ eager
  /\ emitted < saved
  /\ Emit(NextToEmit)
  /\ UNCHANGED <<eager, mined, latest, saved>>

Next ==
  \/ Mine \/ StartSaving \/ Saved \/ EmitLate
  \/ \E f \in Filters :
       \/ \E range \in Ranges : NewFilter(f, "log", range)
       \/ NewFilter(f, "block", [from |-> Latest, to |-> Latest])
       \/ GetFilterChanges(f) \/ UninstallFilter(f)
  \/ \E s \in Subscriptions :
       \/ \E k \in Sockets : Subscribe(s, k)
       \/ Subscribed(s) \/ Answer(s) \/ Unsubscribe(s)
  \/ \E k \in Sockets : SocketCloses(k)

Spec == Init /\ [][Next]_vars

(***************************************************************************)
(* Properties                                                              *)
(***************************************************************************)

Seen(f) == polled[f] \o filter[f].updates

\* Whether a filter is meant to see a block that is emitted after it was installed;
\* "latest" is the block itself, "whatever block is seen as latest at the time the block
\* was mined" (api.ts, eth_newFilter).
IsMeant(f, n) ==
  LET range == filter[f].range
  IN \/ filter[f].kind = "block"
     \/ /\ range.from = Latest \/ range.from <= n
        /\ range.to = Latest \/ n <= range.to

\* The blocks emitted since it was installed that it is meant to see, in their order.
IsExact(f) ==
  /\ ToSet(Seen(f)) = {n \in filter[f].since + 1 .. emitted : IsMeant(f, n)}
  /\ \A i, j \in DOMAIN Seen(f) : i < j => Seen(f)[i] < Seen(f)[j]

\* However polling and mining interleave, a filter returns each block it is meant to see
\* once and in order.
EveryFilterIsExact == \A f \in Filters : filter[f] # None => IsExact(f)

\* In the eager mode that cannot be said of a filter from the latest block on.
FiltersAreExact ==
  \A f \in Filters :
    filter[f] # None => \/ IsExact(f)
                        \/ eager /\ filter[f].kind = "log" /\ filter[f].range.from = Latest

\* A client that stays and does not unsubscribe is told of the blocks one by one, from
\* some block after its answer up to the last, without a gap and never twice.
NotifiedOfAll ==
  \A s \in Subscriptions :
    phase[s] = "answered" /\ s \in listens =>
      LET told == Tail(sent[s])
      IN told = [i \in 1 .. Len(told) |-> emitted - Len(told) + i]
=============================================================================
