---------------------------- MODULE FilecoinStore ----------------------------
(***************************************************************************)
(* What the Filecoin flavor keeps of its chain, and how it is read.  A tipset *)
(* is written piece by piece: the messages of its block, the tipset without *)
(* its blocks, the blocks, and the number of the latest one.  Clients read  *)
(* these pieces, one at a time, while the next tipset is written; a crash   *)
(* may come between any two, also while the genesis tipset is written.     *)
(*                                                                         *)
(* A block is known by its CID.  CIDs are of the contents; the timestamp    *)
(* makes no two blocks alike.                                              *)
(***************************************************************************)
EXTENDS Naturals, SequencesExt, FiniteSetsExt

CONSTANTS
  Clients,      \* each reads one thing after the other
  Subscribers,  \* calls of ChainNotify
  MaxMined,     \* bound on the tipsets mined
  MaxCrashes,
  MaxMessages,  \* bound on the messages of a tipset
  NumNewBlocks, \* argument of mineTipset()
  None

VARIABLES
  tipsets,       \* by height: the CIDs of the tipset's blocks, or None
  headers,       \* the blocks in the database
  blockMessages, \* pairs <<block, the CIDs of its messages>>
  signedMessages,
  latestKey,     \* "latest-tipset", or None
  latest,        \* tipsetManager.latest: [height, blocks], or None
  mining,        \* what is still to be done for the tipset being mined
  ready,         \* "starting", "ready", "crashed" or "broken"
  reads,         \* of each client
  subscriptions, \* of each subscriber
  chain,         \* the tipsets mined that count, and their messages, from height 1
  count,         \* tipsets mined so far, which count or not
  crashes

database == <<tipsets, headers, blockMessages, signedMessages, latestKey>>
vars == <<database, latest, mining, ready, reads, subscriptions, chain, count,
          crashes>>

Heights == 0 .. MaxMined
Genesis == [height |-> 0, nth |-> 1, made |-> 0]
Unknown == [height |-> 0, nth |-> 0, made |-> 0]  \* a CID of no block
Message(n, i) == [height |-> 0, nth |-> i, made |-> n]  \* of the n-th tipset mined

NoRead == [what |-> None, height |-> 0, key |-> <<>>, cids |-> <<>>, blocks |-> <<>>,
           at |-> "done", from |-> 0, answer |-> None]
NoSubscription == [open |-> FALSE, last |-> None, missed |-> FALSE]

Init ==
  /\ tipsets = [h \in Heights |-> None]
  /\ headers = {} /\ blockMessages = {} /\ signedMessages = {}
  /\ latestKey = None
  /\ latest = None
  /\ mining = <<>>
  /\ ready = "crashed"
  /\ reads = [c \in Clients |-> NoRead]
  /\ subscriptions = [s \in Subscribers |-> NoSubscription]
  /\ chain = <<>>
  /\ count = 0
  /\ crashes = 0

(***************************************************************************)
(* putTipset(), putBlockMessages() and mineTipset()                        *)
(***************************************************************************)

Step(do, what) == [do |-> do, what |-> what]

PutBlockMessages(block, messages) ==
  <<Step("block messages", <<block, messages>>)>>
  \o [i \in DOMAIN messages |-> Step("signed message", messages[i])]

\* Mutant: the tipset is the latest before its blocks are in the database.
LatestFirst(height, blocks) ==
  <<Step("tipset", [height |-> height, blocks |-> blocks]),
    Step("latest", [height |-> height, blocks |-> blocks])>>
  \o [i \in DOMAIN blocks |-> Step("header", blocks[i])]

PutTipset(height, blocks) ==
  <<Step("tipset", [height |-> height, blocks |-> blocks])>>
  \o [i \in DOMAIN blocks |-> Step("header", blocks[i])]
  \o <<Step("latest", [height |-> height, blocks |-> blocks])>>

PutLatest(height) == <<Step("latest-tipset", height)>>

\* The pool's messages have all been carried out and are of the first block.
MineTipset(messages) ==
  /\ ready = "ready"
  /\ mining = <<>>
  /\ count < MaxMined
  /\ count' = count + 1
  /\ LET height == latest.height + 1
         blocks == [i \in 1 .. NumNewBlocks |->
                      [height |-> height, nth |-> i, made |-> count']]
         cids == [i \in 1 .. messages |-> Message(count', i)]
     IN mining' = (IF messages = 0 THEN <<>> ELSE PutBlockMessages(blocks[1], cids))
                  \o PutTipset(height, blocks) \o PutLatest(height)
                  \o <<Step("emit", height)>>
  /\ UNCHANGED <<database, latest, ready, reads, subscriptions, chain, crashes>>

\* emit(): to whoever has subscribed.
Notified(height) ==
  [s \in Subscribers |->
     LET subscription == subscriptions[s]
     IN IF ~subscription.open THEN subscription
        ELSE [subscription EXCEPT !.last = height,
                !.missed = @ \/ height \notin {subscription.last, subscription.last + 1}]]

\* The messages the tipset being mined has been given.
Given == UNION {{bm[2]} : bm \in {x \in blockMessages : x[1] = Head(mining).what.blocks[1]}}

Write ==
  /\ mining # <<>>
  /\ mining' = Tail(mining)
  /\ LET do == Head(mining).do
         what == Head(mining).what
     IN
     /\ blockMessages' = IF do = "block messages" THEN blockMessages \cup {what}
                         ELSE blockMessages
     /\ signedMessages' = IF do = "signed message" THEN signedMessages \cup {what}
                          ELSE signedMessages
     /\ tipsets' = IF do = "tipset" THEN [tipsets EXCEPT ![what.height] = what.blocks]
                   ELSE tipsets
     /\ headers' = IF do = "header" THEN headers \cup {what} ELSE headers
     /\ latest' = IF do = "latest" THEN what ELSE latest
     /\ chain' = IF do = "latest" /\ what.height > 0
                   THEN Append(chain, [blocks |-> what.blocks, messages |-> Given])
                   ELSE chain
     /\ latestKey' = IF do = "latest-tipset" THEN what ELSE latestKey
     /\ ready' = IF ready = "starting" /\ do = "latest-tipset" THEN "ready" ELSE ready
     /\ subscriptions' = IF do = "emit" THEN Notified(what) ELSE subscriptions
  /\ UNCHANGED <<reads, count, crashes>>

(***************************************************************************)
(* initialize()                                                            *)
(***************************************************************************)

\* fillTipsetBlocks()
CanFill(cids) == \A i \in DOMAIN cids : cids[i] \in headers

Initialize ==
  /\ ready = "crashed"
  /\ IF tipsets[0] = None
       THEN /\ ready' = "starting"
            /\ mining' = PutTipset(0, <<Genesis>>) \o PutLatest(0)
            /\ UNCHANGED latest
       ELSE /\ UNCHANGED mining
            /\ IF CanFill(tipsets[0]) /\ latestKey # None
                 THEN /\ latest' = [height |-> latestKey, blocks |-> tipsets[latestKey]]
                      /\ ready' = "ready"
                 ELSE ready' = "broken" /\ UNCHANGED latest
  /\ UNCHANGED <<database, reads, subscriptions, chain, count, crashes>>

Crash ==
  /\ crashes < MaxCrashes
  /\ ready \in {"starting", "ready"}
  /\ crashes' = crashes + 1
  /\ ready' = "crashed"
  /\ mining' = <<>>
  /\ latest' = None
  /\ reads' = [c \in Clients |-> NoRead]
  /\ subscriptions' = [s \in Subscribers |-> NoSubscription]
  /\ chain' = IF latestKey = None THEN <<>> ELSE SubSeq(chain, 1, latestKey)
  /\ UNCHANGED <<database, count>>

(***************************************************************************)
(* Reading: ChainGetTipSet, ChainGetTipSetByHeight and ChainGetBlockMessages *)
(***************************************************************************)

\* The blocks a client can know of.
Heard == headers \cup {Unknown}

Read(c, read) ==
  /\ ready = "ready"
  /\ reads[c].at \in {"done", "failed"}
  /\ reads' = [reads EXCEPT ![c] = read]
  /\ UNCHANGED <<database, latest, mining, ready, subscriptions, chain, count,
                 crashes>>

Asked(what, height, key, at) ==
  [NoRead EXCEPT !.what = what, !.height = height, !.key = key, !.cids = key, !.at = at,
                 !.from = Len(chain)]

ChainGetTipSet(c, key) == Read(c, Asked("tipset", 0, key, "key"))
ChainGetTipSetByHeight(c, h, key) == Read(c, Asked("height", h, key, "key"))
ChainGetBlockMessages(c, block) ==
  Read(c, Asked("messages", 0, <<block>>, "block messages"))

Goes(c, read) ==
  /\ reads' = [reads EXCEPT ![c] = read]
  /\ UNCHANGED <<database, latest, mining, ready, subscriptions, chain, count,
                 crashes>>

Answered(read, answer) == [read EXCEPT !.at = "done", !.answer = answer]
Failed(read) == [read EXCEPT !.at = "failed"]

\* The tipset that getTipsetFromKey() has found is the answer, or where to look from.
FromKey(read, tipset) ==
  IF read.what = "tipset" \/ read.height = tipset.height
    THEN Answered(read, tipset.blocks) ELSE
  IF read.height > tipset.height THEN Failed(read)
  ELSE [read EXCEPT !.at = "height", !.blocks = <<>>, !.cids = <<>>]

\* The first block of the key that is in the database leads to its tipset.
GetTipsetFromKey(c) ==
  LET read == reads[c] IN
  /\ read.at = "key"
  /\ Goes(c, IF read.key = <<>> THEN FromKey(read, latest) ELSE
             IF read.cids = <<>> THEN Failed(read) ELSE
             IF Head(read.cids) \in headers THEN [read EXCEPT !.at = "tipset"]
             ELSE [read EXCEPT !.cids = Tail(@)])

WantedHeight(read) == IF read.at = "height" THEN read.height ELSE Head(read.cids).height

\* The tipset as it is in the database; what its blocks are is read next.
GetTipset(c) ==
  LET read == reads[c]
      tipset == tipsets[WantedHeight(read)]
  IN
  /\ read.at \in {"tipset", "height"}
  /\ Goes(c, IF tipset # None
               THEN [read EXCEPT !.at = IF @ = "tipset" THEN "key blocks" ELSE "blocks",
                                 !.cids = tipset, !.blocks = <<>>]
               ELSE IF read.at = "tipset" THEN [read EXCEPT !.at = "key", !.cids = Tail(@)]
               ELSE Failed(read))

FillTipsetBlocks(c) ==
  LET read == reads[c]
      filled == [height |-> Head(read.blocks).height, blocks |-> read.blocks]
  IN
  /\ read.at \in {"key blocks", "blocks"}
  /\ Goes(c, IF read.cids # <<>>
               THEN IF Head(read.cids) \in headers
                      THEN [read EXCEPT !.cids = Tail(@), !.blocks = Append(@, Head(read.cids))]
                      ELSE Failed(read)
               ELSE IF read.at = "key blocks" THEN FromKey(read, filled)
               ELSE Answered(read, read.blocks))

\* A block without any messages in the database has none.
MessagesOf(block) ==
  LET found == {bm \in blockMessages : bm[1] = block}
  IN IF found = {} THEN <<>> ELSE (CHOOSE bm \in found : TRUE)[2]

GetBlockMessages(c) ==
  LET read == reads[c] IN
  /\ read.at = "block messages"
  /\ Goes(c, [read EXCEPT !.at = "messages", !.cids = MessagesOf(Head(read.key))])

GetMessages(c) ==
  LET read == reads[c] IN
  /\ read.at = "messages"
  /\ Goes(c, IF read.cids = <<>> THEN Answered(read, read.blocks) ELSE
             IF Head(read.cids) \in signedMessages
               THEN [read EXCEPT !.cids = Tail(@), !.blocks = Append(@, Head(read.cids))]
             ELSE Failed(read))

(***************************************************************************)
(* ChainNotify and xrpc.ch.close                                           *)
(***************************************************************************)

\* The subscriber is told of the latest tipset at once.
ChainNotify(s) ==
  /\ ready = "ready"
  /\ ~subscriptions[s].open
  /\ subscriptions' = [subscriptions EXCEPT
                         ![s] = [open |-> TRUE, last |-> latest.height, missed |-> FALSE]]
  /\ UNCHANGED <<database, latest, mining, ready, reads, chain, count, crashes>>

ChannelClosed(s) ==
  /\ subscriptions[s].open
  /\ subscriptions' = [subscriptions EXCEPT ![s] = NoSubscription]
  /\ UNCHANGED <<database, latest, mining, ready, reads, chain, count, crashes>>

Keys == {<<>>} \cup {<<b>> : b \in Heard} \cup {<<Unknown, b>> : b \in headers}

Next ==
  \/ Initialize \/ Crash \/ Write
  \/ \E n \in 0 .. MaxMessages : MineTipset(n)
  \/ \E c \in Clients :
       \/ \E key \in Keys : ChainGetTipSet(c, key)
       \/ \E key \in Keys, h \in Heights : ChainGetTipSetByHeight(c, h, key)
       \/ \E b \in Heard : ChainGetBlockMessages(c, b)
       \/ GetTipsetFromKey(c) \/ GetTipset(c) \/ FillTipsetBlocks(c)
       \/ GetBlockMessages(c) \/ GetMessages(c)
  \/ \E s \in Subscribers : ChainNotify(s) \/ ChannelClosed(s)

Spec == Init /\ [][Next]_vars

(***************************************************************************)
(* Properties                                                              *)
(***************************************************************************)

Blocks(h) == IF h = 0 THEN <<Genesis>> ELSE chain[h].blocks

\* The height of the tipset that counts and has this block; there is one.
Places(block) == {h \in 0 .. Len(chain) : Contains(Blocks(h), block)}

\* The tipset that the key is of: that of its last block.
KeyHeights(read) ==
  IF read.key = <<>> THEN {h \in 0 .. Len(chain) : h >= read.from}
  ELSE Places(Last(read.key)) \cap (0 .. read.from)

\* A tipset is found by its height, and from a block of it or of a later one, and has its
\* blocks in their order, although the next tipset is being written, and one that a crash
\* has left unfinished is replaced.
TipsetsAreFound ==
  \A c \in Clients :
    LET read == reads[c] IN
    read.what \in {"tipset", "height"} /\ KeyHeights(read) # {} =>
      /\ read.at = "failed" =>
           read.what = "height" /\ read.height > Min(KeyHeights(read))
      /\ read.answer # None =>
           LET heights == IF read.what = "tipset" THEN KeyHeights(read)
                          ELSE {read.height} \cap (0 .. Max(KeyHeights(read)))
           IN \E h \in heights : read.answer = Blocks(h)

\* A block's messages are those it was mined with, in their order.
MessagesAreFound ==
  \A c \in Clients :
    LET read == reads[c]
        places == IF read.key = <<>> THEN {} ELSE Places(Head(read.key)) \cap (1 .. read.from)
    IN read.what = "messages" /\ read.at \in {"done", "failed"} =>
         \A h \in places :
           read.answer = IF Head(read.key).nth = 1 /\ chain[h].messages # {}
                           THEN CHOOSE m \in chain[h].messages : TRUE ELSE <<>>

\* A subscriber is told of every tipset from the latest one on.
SubscribersFollow ==
  \A s \in Subscribers :
    LET subscription == subscriptions[s] IN
    /\ ~subscription.missed
    /\ subscription.open /\ mining = <<>> => subscription.last = latest.height

StoreIsSound == TipsetsAreFound /\ MessagesAreFound /\ SubscribersFollow

\* Refuted: "Must be an exact match and must include exactly the same number of blocks
\* that are actually in the tipset."
KeysMatch ==
  \A c \in Clients :
    reads[c].what = "tipset" /\ reads[c].answer # None /\ reads[c].key # <<>> =>
      reads[c].answer = reads[c].key

\* Refuted: after a crash, also during the first start, the database can be opened again.
Reopens == ready # "broken"
=============================================================================
