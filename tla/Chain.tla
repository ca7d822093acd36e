------------------------------- MODULE Chain --------------------------------
(***************************************************************************)
(* chains/ethereum/ethereum/src/blockchain.ts: how mined blocks are saved, *)
(* one after the other, behind the miner's back; evm_snapshot and          *)
(* evm_revert; the database that survives the process.                     *)
(*                                                                         *)
(* Block 0 is the genesis block; the others are numbered as they are       *)
(* created, which is not their number in the chain.  A block stands for    *)
(* its hash, its state root and its transactions too.                      *)
(***************************************************************************)
EXTENDS Integers, Sequences, FiniteSets

CONSTANTS
  None,
  MaxBlocks,    \* bound: blocks created
  MaxReverts,   \* bound: calls of evm_revert that find their snapshot
  MaxSnapshots, \* bound: snapshots at a time
  MaxCrashes,   \* bound: ends of the process
  Eager,        \* the values of options.miner.instamine === "eager"
  Overlap       \* what may come at an inconvenient time: sets of Overlaps

Blocks == 0..MaxBlocks
Reverts == 1..MaxReverts

(***************************************************************************)
(* A call of mine(), by a request or by the timer of interval mining, of   *)
(* snapshot() or of revert() may come during a revert; "event" stands for  *)
(* a snapshot taken between the saving of a block and its "block" event,   *)
(* "late" for a revert that goes on between the two, "lag" for a call of    *)
(* mine() when saving lags so far behind that blocks.latest is not the     *)
(* last block mined.                                                       *)
(***************************************************************************)
Overlaps == {"mine", "snapshot", "revert", "event", "late", "lag"}

ASSUME BoundsAssumption ==
  /\ MaxBlocks \in Nat /\ MaxReverts \in Nat /\ MaxSnapshots \in Nat
  /\ MaxCrashes \in Nat
  /\ Eager \subseteq BOOLEAN /\ Overlap \subseteq SUBSET Overlaps
  /\ None \notin Blocks

VARIABLES
  parent, number,   \* of the blocks created
  created,          \* how many
  vm,               \* the block whose state the VM has
  mining,           \* the parent of the block being made, or None
  held,             \* the parents for the calls of mine() that await resume()
  paused,           \* miner.#paused
  latest,           \* blocks.latest
  saving,           \* the block whose batch is being written, or None
  queue,            \* the blocks behind it in #blockBeingSavedPromise
  unemitted,        \* the blocks saved whose "block" event is still delayed
  byNumber,         \* database.blocks: what is stored at a number
  byHash,           \* database.blockIndexes: the blocks with a number
  latestIndex,      \* LATEST_INDEX_KEY
  snaps,            \* #snapshots.snaps: the blocks of the snapshots
  listening,        \* the listener of "block" is subscribed
  list,             \* #snapshots.blocks, the newest first
  reverts,          \* the calls of revert()
  crashes,
  eager,
  overlap           \* what comes at an inconvenient time

createdVars == <<parent, number, created>>
minerVars == <<vm, mining, held, paused>>
saveVars == <<latest, saving, queue, unemitted>>
dbVars == <<byNumber, byHash, latestIndex>>
snapVars == <<snaps, listening, list>>
optionVars == <<eager, overlap>>
vars == <<createdVars, minerVars, saveVars, dbVars, snapVars, reverts, crashes,
          optionVars>>

-----------------------------------------------------------------------------

Call(pc, index, block, awaits, doomed) ==
  [pc |-> pc, index |-> index, block |-> block, awaits |-> awaits,
   doomed |-> doomed]

NoCall == Call("none", 0, 0, None, <<>>)

Active(r) == reverts[r].pc \notin {"none", "done", "failed"}

\* What a call has to wait for if overlap does not let it come at any time.
Alone(call) == call \in overlap \/ \A r \in Reverts : ~Active(r)

UpToDate == "lag" \in overlap \/ queue = <<>>

Announced == "event" \in overlap \/ (saving = None /\ unemitted = <<>>)

\* The blocks created and those that will be.
Planned == created + Len(held) + (IF mining = None THEN 0 ELSE 1)

\* Whether a block has been mined and not been saved.
Unsaved(b) ==
  b # None /\ (b = saving \/ \E i \in DOMAIN queue : queue[i] = b)

-----------------------------------------------------------------------------

(***************************************************************************)
(* mine(): the new block is prepared from blocks.latest before the miner   *)
(* is found paused.  A busy miner ignores the block (Miner).               *)
(***************************************************************************)
CallMine ==
  /\ Alone("mine")
  /\ UpToDate
  /\ paused \/ mining = None
  /\ Planned < MaxBlocks
  /\ IF paused THEN held' = Append(held, latest) /\ UNCHANGED mining
     ELSE mining' = latest /\ UNCHANGED held
  /\ UNCHANGED <<createdVars, vm, paused, saveVars, dbVars, snapVars, reverts,
                 crashes, optionVars>>

\* The beginning of #saveNewBlock.
LatestWhenSaving(b) == b

(***************************************************************************)
(* The miner has a block: #handleNewBlockData.  The miner may go on with   *)
(* another block.                                                          *)
(***************************************************************************)
NewBlock ==
  /\ mining # None
  /\ LET b == created + 1
     IN  /\ created' = b
         /\ parent' = [parent EXCEPT ![b] = mining]
         /\ number' = [number EXCEPT ![b] = number[mining] + 1]
         /\ vm' = b
         /\ mining' \in {None} \cup (IF Planned < MaxBlocks THEN {b} ELSE {})
         /\ IF saving = None
            THEN saving' = b /\ latest' = LatestWhenSaving(b) /\ UNCHANGED queue
            ELSE queue' = Append(queue, b) /\ UNCHANGED <<saving, latest>>
  /\ UNCHANGED <<held, paused, unemitted, dbVars, snapVars, reverts, crashes,
                 optionVars>>

\* The listener that snapshot() subscribes; the newest block comes first.
Listed(b) == IF listening THEN <<b>> \o list ELSE list

(***************************************************************************)
(* The batch is written, atomically; the "block" event follows at once, or *)
(* in eager mode with setImmediate, which is taken to come before another  *)
(* write to the database is over.  The next block is saved.                *)
(***************************************************************************)
Saved ==
  /\ saving # None
  /\ unemitted = <<>>
  /\ byNumber' = [byNumber EXCEPT ![number[saving]] = saving]
  /\ byHash' = byHash \cup {saving}
  /\ latestIndex' = number[saving]
  /\ IF eager
     THEN unemitted' = Append(unemitted, saving) /\ UNCHANGED list
     ELSE list' = Listed(saving) /\ UNCHANGED unemitted
  /\ IF queue = <<>>
     THEN saving' = None /\ UNCHANGED <<queue, latest>>
     ELSE /\ saving' = Head(queue)
          /\ queue' = Tail(queue)
          /\ latest' = LatestWhenSaving(Head(queue))
  /\ UNCHANGED <<createdVars, minerVars, snaps, listening, reverts, crashes,
                 optionVars>>

Emit ==
  /\ unemitted # <<>>
  /\ unemitted' = Tail(unemitted)
  /\ list' = Listed(Head(unemitted))
  /\ UNCHANGED <<createdVars, minerVars, latest, saving, queue, dbVars, snaps,
                 listening, reverts, crashes, optionVars>>

-----------------------------------------------------------------------------

Snapshot ==
  /\ Alone("snapshot")
  /\ Announced
  /\ Len(snaps) < MaxSnapshots
  /\ snaps' = Append(snaps, latest)
  /\ listening' = TRUE
  /\ UNCHANGED <<createdVars, minerVars, saveVars, dbVars, list, reverts,
                 crashes, optionVars>>

(***************************************************************************)
(* revert() up to the end of transactions.pause(), which has nothing to    *)
(* wait for: the miner is paused.                                          *)
(***************************************************************************)
Revert(r, i) ==
  /\ Alone("revert")
  /\ reverts[r].pc = "none"
  /\ reverts' = [reverts EXCEPT ![r] = Call("pausing", i, snaps[i], None, <<>>)]
  /\ paused' = TRUE
  /\ UNCHANGED <<createdVars, vm, mining, held, saveVars, dbVars, snapVars,
                 crashes, optionVars>>

\* The miner is idle; what has been mined so far is to be saved.
Paused(r) ==
  /\ reverts[r].pc = "pausing"
  /\ mining = None
  /\ reverts' = [reverts EXCEPT
       ![r].pc = "saving",
       ![r].awaits = IF queue = <<>> THEN saving ELSE queue[Len(queue)]]
  /\ UNCHANGED <<createdVars, minerVars, saveVars, dbVars, snapVars, crashes,
                 optionVars>>

\* Mutant: the miner is not resumed.
StillPaused == paused

NoLongerPaused == FALSE

\* miner.resume(), at the end of a revert: the first call of mine() that was
\* held up starts its block, and the others find the miner busy.
ResumeMiner ==
  /\ paused' = NoLongerPaused
  /\ held' = <<>>
  /\ mining' = IF paused /\ held # <<>> /\ mining = None THEN Head(held)
               ELSE mining

\* Mutant: the list is taken whole.
WholeList(b) == Len(list)

\* How many blocks of the list are newer than b.
NewerThan(b) ==
  IF \E i \in DOMAIN list : list[i] = b
  THEN (CHOOSE i \in DOMAIN list : list[i] = b
                                   /\ \A j \in 1..(i - 1) : list[j] # b) - 1
  ELSE Len(list)

\* Mutant: only this snapshot is removed.
SnapsWithout(i) ==
  [j \in 1..(Len(snaps) - 1) |-> IF j < i THEN snaps[j] ELSE snaps[j + 1]]

SnapsBefore(i) == SubSeq(snaps, 1, IF i <= Len(snaps) THEN i - 1 ELSE Len(snaps))

(***************************************************************************)
(* The part of revert() after its awaits of the miner and of the saving:   *)
(* the snapshots from this one on are forgotten, and the blocks that came  *)
(* after it are taken from the list, to be read from the database.         *)
(***************************************************************************)
Cut(r) ==
  LET call == reverts[r]
      n == NewerThan(call.block)
  IN  /\ call.pc = "saving"
      /\ ~Unsaved(call.awaits)
      /\ "late" \in overlap \/ unemitted = <<>>
      /\ snaps' = SnapsBefore(call.index)
      /\ listening' = (listening /\ snaps' # <<>>)
      /\ IF latest = call.block
         THEN /\ reverts' = [reverts EXCEPT ![r].pc = "done"]
              /\ ResumeMiner
              /\ UNCHANGED list
         ELSE /\ list' = SubSeq(list, n + 1, Len(list))
              /\ reverts' = [reverts EXCEPT ![r].pc = "reading",
                                            ![r].doomed = SubSeq(list, 1, n)]
              /\ UNCHANGED <<mining, held, paused>>
      /\ UNCHANGED <<createdVars, vm, saveVars, dbVars, crashes, optionVars>>

(***************************************************************************)
(* blocks.getByHash: what is stored at the number of that hash.  It throws *)
(* if nothing is, and everything stays paused.                             *)
(***************************************************************************)
Read(r) ==
  LET call == reverts[r]
      found == [i \in DOMAIN call.doomed |-> byNumber[number[call.doomed[i]]]]
  IN  /\ call.pc = "reading"
      /\ reverts' =
           IF \E i \in DOMAIN found : found[i] = None
           THEN [reverts EXCEPT ![r].pc = "failed"]
           ELSE [reverts EXCEPT ![r].pc = "writing", ![r].doomed = found]
      /\ UNCHANGED <<createdVars, minerVars, saveVars, dbVars, snapVars, crashes,
                     optionVars>>

IndexOfLatest(b) == number[b]

(***************************************************************************)
(* #deleteBlockData and the end of revert(): the blocks go, but their      *)
(* hashes stay, for blocks.del() deletes from the database of the numbers  *)
(* and not from the index.                                                 *)
(***************************************************************************)
Delete(r) ==
  LET call == reverts[r]
      gone == {number[call.doomed[i]] : i \in DOMAIN call.doomed}
  IN  /\ call.pc = "writing"
      /\ byNumber' = [n \in Blocks |-> IF n \in gone THEN None ELSE byNumber[n]]
      /\ latestIndex' = IndexOfLatest(call.block)
      /\ vm' = call.block
      /\ latest' = call.block
      /\ reverts' = [reverts EXCEPT ![r].pc = "done"]
      /\ ResumeMiner
      /\ UNCHANGED <<createdVars, saving, queue, unemitted, byHash, snapVars,
                     crashes, optionVars>>

(***************************************************************************)
(* The process ends and another is started with the same database: the     *)
(* block that LATEST_INDEX_KEY points to is the latest.                    *)
(***************************************************************************)
Restart ==
  /\ crashes < MaxCrashes
  /\ crashes' = crashes + 1
  /\ latest' = byNumber[latestIndex]
  /\ vm' = byNumber[latestIndex]
  /\ mining' = None
  /\ held' = <<>>
  /\ paused' = FALSE
  /\ saving' = None
  /\ queue' = <<>>
  /\ unemitted' = <<>>
  /\ snaps' = <<>>
  /\ listening' = FALSE
  /\ list' = <<>>
  /\ reverts' = [r \in Reverts |->
                   IF Active(r) THEN [reverts[r] EXCEPT !.pc = "failed"]
                   ELSE reverts[r]]
  /\ UNCHANGED <<createdVars, dbVars, optionVars>>

-----------------------------------------------------------------------------

Init ==
  /\ parent = [b \in Blocks |-> 0]
  /\ number = [b \in Blocks |-> 0]
  /\ created = 0
  /\ vm = 0
  /\ mining = None
  /\ held = <<>>
  /\ paused = FALSE
  /\ latest = 0
  /\ saving = None
  /\ queue = <<>>
  /\ unemitted = <<>>
  /\ byNumber = [n \in Blocks |-> IF n = 0 THEN 0 ELSE None]
  /\ byHash = {0}
  /\ latestIndex = 0
  /\ snaps = <<>>
  /\ listening = FALSE
  /\ list = <<>>
  /\ reverts = [r \in Reverts |-> NoCall]
  /\ crashes = 0
  /\ eager \in Eager
  /\ overlap \in Overlap

RevertStep(r) == Paused(r) \/ Cut(r) \/ Read(r) \/ Delete(r)

Next ==
  \/ CallMine \/ NewBlock \/ Saved \/ Emit
  \/ Snapshot
  \/ \E r \in Reverts : RevertStep(r) \/ \E i \in DOMAIN snaps : Revert(r, i)
  \/ Restart

Spec == Init /\ [][Next]_vars

(***************************************************************************)
(* A block that is being made is finished, writes to the database end, and *)
(* the event loop gets round to every continuation.                        *)
(***************************************************************************)
Fairness ==
  /\ WF_vars(NewBlock)
  /\ WF_vars(Saved)
  /\ WF_vars(Emit)
  /\ \A r \in Reverts : WF_vars(RevertStep(r))

FairSpec == Spec /\ Fairness

-----------------------------------------------------------------------------

TypeOK ==
  /\ parent \in [Blocks -> Blocks]
  /\ number \in [Blocks -> Blocks]
  /\ created \in Blocks
  /\ {vm, latest} \subseteq 0..created
  /\ {mining, saving} \subseteq 0..created \cup {None}
  /\ held \in Seq(0..created)
  /\ queue \in Seq(1..created)
  /\ unemitted \in Seq(1..created)
  /\ byNumber \in [Blocks -> 0..created \cup {None}]
  /\ byHash \subseteq 0..created
  /\ latestIndex \in Blocks
  /\ snaps \in Seq(0..created)
  /\ list \in Seq(1..created)
  /\ {paused, listening, eager} \subseteq BOOLEAN
  /\ \A r \in Reverts :
       /\ reverts[r].pc \in {"none", "pausing", "saving", "reading", "writing",
                             "done", "failed"}
       /\ reverts[r].block \in 0..created
       /\ reverts[r].doomed \in Seq(1..created)
  /\ crashes \in 0..MaxCrashes

(***************************************************************************)
(* What the database holds, after whatever was mined, reverted and lost    *)
(* when the process ended, is one chain: at every number up to the index   *)
(* of the latest there is a block, whose parent is the block at the number *)
(* before (blockchain.ts:449-453, 867-880).                                *)
(***************************************************************************)
StoredIsAChain ==
  \A n \in 1..latestIndex :
    byNumber[n] # None /\ parent[byNumber[n]] = byNumber[n - 1]

(***************************************************************************)
(* So it is unless a block is mined while a revert goes on, on top of one  *)
(* that the revert removes, or a snapshot is taken before the event of its *)
(* own block.                                                              *)
(***************************************************************************)
StoredIsAChainInPeace == overlap = {} => StoredIsAChain

(***************************************************************************)
(* The block of a snapshot is in the database, or being saved, as long as  *)
(* the snapshot can be reverted to: no revert to an earlier or later one   *)
(* removes it (blockchain.ts:954, 971-979).                                *)
(***************************************************************************)
SnapshotsAreStored ==
  \A i \in DOMAIN snaps :
    Unsaved(snaps[i]) \/ byNumber[number[snaps[i]]] = snaps[i]

(***************************************************************************)
(* No block is left above the latest one: "if we've added blocks since we  *)
(* snapshotted we need to delete them" (blockchain.ts:966-968).            *)
(***************************************************************************)
NothingAboveLatest ==
  \A n \in Blocks : n > latestIndex => byNumber[n] = None

(***************************************************************************)
(* So it is, whatever has been saved or was being mined when the revert    *)
(* began, unless the revert goes on between the saving of a block and its  *)
(* delayed "block" event, and lists the blocks to delete without it.       *)
(***************************************************************************)
RevertRemovesNewer == "late" \in overlap \/ NothingAboveLatest

(***************************************************************************)
(* When nothing is going on the VM has the state of the latest block, and  *)
(* the next start would find the same block (blockchain.ts:984-989).       *)
(***************************************************************************)
SettledAtLatest ==
  mining = None /\ saving = None /\ ~paused
    => vm = latest /\ byNumber[latestIndex] = latest

(***************************************************************************)
(* What is stored, the snapshots and the VM's state agree, through any     *)
(* mining, saving, reverting and restarting.                               *)
(***************************************************************************)
DatabaseIsSound ==
  TypeOK /\ StoredIsAChainInPeace /\ SnapshotsAreStored /\ SettledAtLatest

(***************************************************************************)
(* When a revert ends, the chain and the VM are where the snapshot was     *)
(* taken, and the snapshot and all after it are gone                       *)
(* (blockchain.ts:953-954, 984-989).                                       *)
(***************************************************************************)
RevertRestores ==
  [][\A r \in Reverts :
       reverts'[r].pc = "done" /\ reverts[r].pc # "done"
         => /\ latest' = reverts[r].block
            /\ vm' = reverts[r].block
            /\ Len(snaps') < reverts[r].index]_vars

\* A revert takes away what is newer than its snapshot, and nothing else.
RevertIsExact == RevertRestores /\ []RevertRemovesNewer

(***************************************************************************)
(* A miner that a revert has paused goes on in the end                     *)
(* (blockchain.ts:940-946, 994-998).                                       *)
(***************************************************************************)
MinerGoesOn == paused ~> ~paused

=============================================================================
