------------------------------ MODULE ChainReads ------------------------------
(***************************************************************************)
(* What the API reads of the chain (api.ts): blocks, transactions,         *)
(* receipts and logs, by way of the managers of data-managers/ from the    *)
(* database, the transaction pool and, in a fork, the remote node, while   *)
(* blocks are mined, saved and reverted.  Requests do not disturb each     *)
(* other here, so that one at a time, begun at any time, stands for all.   *)
(*                                                                         *)
(* The database reads at the time it is asked; a batch is written some     *)
(* time after that, at once.  It answers in the order of what it did, and  *)
(* what follows on an answer is one step.  Saving keeps up with the miner, *)
(* and the snapshot reverted to is that of the first block (Chain has the  *)
(* rest).  Every transaction has one log, which passes the filters.        *)
(***************************************************************************)
EXTENDS Integers, Sequences, FiniteSets

CONSTANTS
  Txs,        \* the transactions that are sent
  None,
  Latest,     \* the tag "latest"
  Modes,      \* whether the chain is a fork: a subset of BOOLEAN
  Requests,   \* the API's methods that are called, of Methods
  ForkNumber, \* the block forked from
  MaxBlocks,  \* bound on the blocks mined; block 0 is the first one
  MaxReverts  \* bound on the calls of evm_revert

Methods == {"TransactionByHash", "TransactionByIndex", "Receipt",
            "BlockByNumber", "BlockByHash", "Logs", "LogsByHash"}

VARIABLES
  forking,   \* whether there is a blockchain.fallback
  made,      \* the last block mined
  number,    \* the numbers of the blocks mined
  content,   \* their transactions
  latest,    \* blocks.latest
  pool,      \* what transactionPool.find finds
  db,        \* the tables of the database
  phase,     \* "idle"; "saving", "saved", "deleting", "deleted": a batch
  reverts,
  replies,   \* what the database has done and not been heard of
  call       \* the request

chainVars == <<forking, made, number, content>>
vars == <<chainVars, latest, pool, db, phase, reverts, replies, call>>

-----------------------------------------------------------------------------
\* The remote chain: it has gone on since the fork, past what is mined here.

Height == ForkNumber + MaxBlocks + 2
Numbers == 0..Height

RemoteBlock(n) == -1 - n
RemoteBlocks == {RemoteBlock(n) : n \in Numbers}
Blocks == 0..MaxBlocks
IsRemote(b) == b < 0

\* The transaction of the remote block has the block's name.
NumberOf(b) == IF IsRemote(b) THEN -1 - b ELSE number[b]
TransactionsOf(b) == IF IsRemote(b) THEN <<b>> ELSE content[b]

HasLogs(b) == TransactionsOf(b) # <<>>

FirstNumber == IF forking THEN ForkNumber + 1 ELSE 0

-----------------------------------------------------------------------------
\* What is read: a table and a key of it.

Row(table, key) == [table |-> table, key |-> key]

Read(rows) == [r \in rows |-> db[r.table][r.key]]

IsValidForkBlockNumber(n) == n <= ForkNumber

(***************************************************************************)
(* What the managers get from the remote node instead of a row that is not *)
(* there.  For a number or a transaction after the fork it is nothing; a   *)
(* receipt or the logs of a number are taken as they come.                 *)
(***************************************************************************)
FromFallback(r) ==
  CASE r.table = "block" ->
         IF IsValidForkBlockNumber(r.key) THEN RemoteBlock(r.key) ELSE None
    [] r.table \in {"hash", "transaction"} ->
         IF r.key \in RemoteBlocks /\ IsValidForkBlockNumber(NumberOf(r.key))
         THEN r.key ELSE None
    [] r.table = "receipt" -> IF r.key \in RemoteBlocks THEN r.key ELSE None
    [] r.table = "logs" -> IF r.key \in Numbers THEN RemoteBlock(r.key) ELSE None

\* Whether the remote node is asked for it: not for a later number.
AsksFor(r) ==
  /\ forking
  /\ r.table = "block" => IsValidForkBlockNumber(r.key)
  /\ r.table = "hash" => call.method = "BlockByHash"

-----------------------------------------------------------------------------

EffectiveNumber(tag) == IF tag = Latest THEN number[latest] ELSE tag

\* The end of a range of logs is not after the latest block, its start may be.
ToBlockNumber(tag) ==
  IF EffectiveNumber(tag) > number[latest] THEN number[latest]
  ELSE EffectiveNumber(tag)

\* Mutant: the last block of the range is left out.
LogsWithoutEnd(from, to) ==
  LET n == EffectiveNumber(from) IN {n} \cup (n + 1)..(ToBlockNumber(to) - 1)

\* The logs' blocks: the first one whatever the last one is.
LogsFrom(from, to) ==
  LET n == EffectiveNumber(from) IN {n} \cup (n + 1)..ToBlockNumber(to)

\* What a request reads first.
FirstRows(method, x, y) ==
  CASE method = "TransactionByHash" -> {Row("transaction", x)}
    [] method = "Receipt" -> {Row("transaction", x), Row("receipt", x)}
    [] method \in {"BlockByNumber", "TransactionByIndex"} ->
         {Row("block", EffectiveNumber(x))}
    [] method \in {"BlockByHash", "LogsByHash"} -> {Row("hash", x)}
    [] method = "Logs" -> {Row("logs", n) : n \in LogsFrom(x, y)}

Answer(outcome, blocks) == [outcome |-> outcome, blocks |-> blocks]
Nothing == Answer("null", {})
Failure == Answer("error", {})
FoundIn(b) == IF b = None THEN Nothing ELSE Answer("found", {b})

NoCall == [method |-> None, x |-> None, y |-> None, pc |-> "none",
           rows |-> <<>>, asks |-> {}, answer |-> Nothing,
           owed |-> {}, sent |-> FALSE, reverts |-> 0, calm |-> FALSE]

\* Whether a block is stored, and has not been replaced at its number.
IsStored(b) == IF IsRemote(b) THEN forking /\ NumberOf(b) <= ForkNumber
               ELSE db.block[number[b]] = b

(***************************************************************************)
(* History: the blocks that are stored when the request comes and that the *)
(* answer is to tell of.                                                   *)
(***************************************************************************)
Owed(method, x, y) ==
  {b \in 0..made \cup RemoteBlocks :
     /\ IsStored(b) /\ phase # "deleting"
     /\ CASE method \in {"TransactionByHash", "Receipt"} ->
               \E i \in DOMAIN TransactionsOf(b) : TransactionsOf(b)[i] = x
          [] method = "TransactionByIndex" ->
               NumberOf(b) = EffectiveNumber(x) /\ y <= Len(TransactionsOf(b))
          [] method = "BlockByNumber" -> NumberOf(b) = EffectiveNumber(x)
          [] method = "BlockByHash" -> b = x
          [] method = "LogsByHash" -> b = x /\ HasLogs(b) /\ ~IsRemote(b)
          [] method = "Logs" ->
               /\ HasLogs(b)
               /\ EffectiveNumber(x) <= NumberOf(b)
               /\ NumberOf(b) <= EffectiveNumber(y)}

\* The blocks and transactions that there may be requests for.
Hashes == 0..made \cup RemoteBlocks
TransactionHashes == Txs \cup RemoteBlocks
Tags == Numbers \cup {Latest}

Arguments(method) ==
  CASE method \in {"TransactionByHash", "Receipt"} -> TransactionHashes \X {None}
    [] method = "TransactionByIndex" -> Tags \X {1, 2}
    [] method = "BlockByNumber" -> Tags \X {None}
    [] method \in {"BlockByHash", "LogsByHash"} -> Hashes \X {None}
    [] method = "Logs" -> Tags \X Tags

\* The transaction of a block at an index: there is no check of the index.
AtIndex(b, i) ==
  IF b = None THEN Nothing
  ELSE IF i <= Len(TransactionsOf(b)) THEN FoundIn(b) ELSE Failure

\* The tag "latest" needs no database where a block is asked for.
IsInMemory(method, x) ==
  x = Latest /\ method \in {"BlockByNumber", "TransactionByIndex"}

InMemory(method, i) ==
  IF method = "BlockByNumber" THEN FoundIn(latest) ELSE AtIndex(latest, i)

(***************************************************************************)
(* A request comes, and what it reads first is asked for.                  *)
(***************************************************************************)
Request(method, x, y) ==
  /\ call.pc = "none"
  /\ LET begun == [NoCall EXCEPT
           !.method = method, !.x = x, !.y = y, !.pc = "open",
           !.owed = Owed(method, x, y),
           !.sent = x \in pool \/ Owed(method, x, y) # {},
           !.reverts = reverts, !.calm = phase # "deleting"]
     IN  IF IsInMemory(method, x)
         THEN /\ call' = [begun EXCEPT !.pc = "done",
                                       !.answer = InMemory(method, y)]
              /\ UNCHANGED replies
         ELSE /\ call' = begun
              /\ replies' = Append(replies,
                   [of |-> "call", rows |-> Read(FirstRows(method, x, y))])
  /\ UNCHANGED <<chainVars, latest, pool, db, phase, reverts>>

Of(rows, table) == (CHOOSE r \in DOMAIN rows : r.table = table)
Value(rows, table) == rows[Of(rows, table)]
Has(rows, table) == \E r \in DOMAIN rows : r.table = table

\* eth_getTransactionReceipt with a transaction and what was found of it.
ReceiptOf(rows) ==
  IF Value(rows, "block") = None \/ Value(rows, "receipt") = None THEN Failure
  ELSE FoundIn(Value(rows, "block"))

\* The database comes first, then the pool.
FromPool(t) == IF t \in pool THEN Answer("pending", {}) ELSE Nothing

\* All that a request asked for is there: what it reads next, if anything.
NextRows(rows) ==
  CASE call.method = "Receipt" /\ ~Has(rows, "block")
                               /\ Value(rows, "transaction") # None ->
         {Row("block", NumberOf(Value(rows, "transaction")))}
    [] call.method = "BlockByHash" /\ ~Has(rows, "block")
                                   /\ Value(rows, "hash") \in Nat ->
         {Row("block", Value(rows, "hash"))}
    [] call.method = "LogsByHash" /\ ~Has(rows, "logs")
                                  /\ Value(rows, "hash") # None ->
         {Row("logs", Value(rows, "hash"))}
    [] OTHER -> {}

LogsRead(rows) ==
  {rows[r] : r \in {r \in DOMAIN rows : r.table = "logs"}} \ {None}

\* And if there is nothing, its answer.
AnswerOf(rows) ==
  CASE call.method = "TransactionByHash" ->
         IF Value(rows, "transaction") = None THEN FromPool(call.x)
         ELSE FoundIn(Value(rows, "transaction"))
    [] call.method = "Receipt" ->
         IF Value(rows, "transaction") = None THEN Nothing ELSE ReceiptOf(rows)
    [] call.method = "BlockByNumber" -> FoundIn(Value(rows, "block"))
    [] call.method = "TransactionByIndex" -> AtIndex(Value(rows, "block"), call.y)
    [] call.method = "BlockByHash" ->
         FoundIn(IF Has(rows, "block") THEN Value(rows, "block")
                 ELSE Value(rows, "hash"))
    [] call.method \in {"Logs", "LogsByHash"} ->
         Answer("found", {b \in LogsRead(rows) : HasLogs(b)})

Proceed(rows, rest) ==
  LET next == NextRows(rows)
  IN  IF next = {}
      THEN /\ call' = [call EXCEPT !.pc = "done", !.rows = <<>>, !.asks = {},
                                   !.answer = AnswerOf(rows),
                                   !.calm = @ /\ call.reverts = reverts]
           /\ replies' = rest
      ELSE /\ call' = [call EXCEPT !.rows = rows, !.asks = {}]
           /\ replies' = Append(rest, [of |-> "call", rows |-> Read(next)])

Merged(f, g) ==
  [r \in DOMAIN f \cup DOMAIN g |-> IF r \in DOMAIN g THEN g[r] ELSE f[r]]

(***************************************************************************)
(* The database has answered the request; what it does not have is asked   *)
(* of the remote node.                                                     *)
(***************************************************************************)
Replied ==
  /\ replies # <<>> /\ Head(replies).of = "call"
  /\ LET read == Head(replies).rows
         rows == Merged(call.rows, read)
         asks == {r \in DOMAIN read : read[r] = None /\ AsksFor(r)}
     IN  IF asks = {} THEN Proceed(rows, Tail(replies))
         ELSE /\ call' = [call EXCEPT !.rows = rows, !.asks = asks]
              /\ replies' = Tail(replies)
  /\ UNCHANGED <<chainVars, latest, pool, db, phase, reverts>>

\* The remote node has answered.
Remote ==
  /\ call.asks # {}
  /\ Proceed(Merged(call.rows, [r \in call.asks |-> FromFallback(r)]), replies)
  /\ UNCHANGED <<chainVars, latest, pool, db, phase, reverts>>

-----------------------------------------------------------------------------
\* The chain goes on.

IsNew(t) == t \notin pool /\ \A b \in 0..made : \A i \in DOMAIN content[b] :
                                                   content[b][i] # t

\* transactions.add() waits while a revert has paused it.
Send(t) ==
  /\ phase \notin {"deleting", "deleted"}
  /\ IsNew(t)
  /\ pool' = pool \cup {t}
  /\ UNCHANGED <<chainVars, latest, db, phase, reverts, replies, call>>

Orders(S) == {s \in [1..Cardinality(S) -> S] : \A t \in S : \E i \in DOMAIN s : s[i] = t}

\* The pool's transactions are pending, then in progress until they are saved.
StillFound(S) == pool

\* A block is mined and its batch is on its way.
Mine(txs) ==
  /\ phase = "idle"
  /\ made < MaxBlocks
  /\ made' = made + 1
  /\ number' = [number EXCEPT ![made + 1] = number[latest] + 1]
  /\ content' = [content EXCEPT ![made + 1] = txs]
  /\ latest' = made + 1
  /\ pool' = StillFound({txs[i] : i \in DOMAIN txs})
  /\ phase' = "saving"
  /\ UNCHANGED <<forking, db, reverts, replies, call>>

Put(table, keys, value) ==
  [k \in DOMAIN table |-> IF k \in keys THEN value ELSE table[k]]

\* Mutant: the receipts are not part of the batch.
SavedWithoutReceipts(b) ==
  LET txs == {content[b][i] : i \in DOMAIN content[b]}
  IN  [db EXCEPT !.transaction = Put(@, txs, b), !.block[number[b]] = b,
                 !.logs[number[b]] = b, !.hash[b] = number[b]]

Saved(b) ==
  LET txs == {content[b][i] : i \in DOMAIN content[b]}
  IN  [db EXCEPT !.transaction = Put(@, txs, b), !.receipt = Put(@, txs, b),
                 !.block[number[b]] = b, !.logs[number[b]] = b,
                 !.hash[b] = number[b]]

\* #deleteBlockData: everything but the numbers of the hashes.
Deleted ==
  [db EXCEPT !.transaction = [t \in DOMAIN @ |-> None],
             !.receipt = [t \in DOMAIN @ |-> None],
             !.block = [n \in DOMAIN @ |-> IF n > FirstNumber THEN None ELSE @[n]],
             !.logs = [n \in DOMAIN @ |-> IF n > FirstNumber THEN None ELSE @[n]]]

\* A batch is written.
Write ==
  /\ \/ phase = "saving" /\ db' = Saved(latest) /\ phase' = "saved"
     \/ phase = "deleting" /\ db' = Deleted /\ phase' = "deleted"
  /\ replies' = Append(replies, [of |-> "batch"])
  /\ UNCHANGED <<chainVars, latest, pool, reverts, call>>

\* The batch's promise: #emitNewBlock, or the end of revert().
Written ==
  /\ replies # <<>> /\ Head(replies).of = "batch"
  /\ replies' = Tail(replies)
  /\ phase' = "idle"
  /\ IF phase = "saved"
     THEN /\ pool' = {t \in pool : \A i \in DOMAIN content[latest] :
                                      content[latest][i] # t}
          /\ UNCHANGED latest
     ELSE latest' = 0 /\ UNCHANGED pool
  /\ UNCHANGED <<chainVars, db, reverts, call>>

\* evm_revert, when nothing is being saved: the pool is emptied, blocks go.
Revert ==
  /\ phase = "idle"
  /\ reverts < MaxReverts
  /\ latest # 0
  /\ reverts' = reverts + 1
  /\ pool' = {}
  /\ phase' = "deleting"
  /\ UNCHANGED <<chainVars, latest, db, replies, call>>

-----------------------------------------------------------------------------

Init ==
  /\ forking \in Modes
  /\ made = 0
  /\ number = [b \in Blocks |-> IF b = 0 THEN FirstNumber ELSE 0]
  /\ content = [b \in Blocks |-> <<>>]
  /\ latest = 0
  /\ pool = {}
  /\ db = [transaction |-> [t \in TransactionHashes |-> None],
           receipt |-> [t \in TransactionHashes |-> None],
           block |-> [n \in Numbers |-> IF n = FirstNumber THEN 0 ELSE None],
           logs |-> [n \in Numbers |-> None],
           hash |-> [b \in Blocks \cup RemoteBlocks |->
                       IF b = 0 THEN FirstNumber ELSE None]]
  /\ phase = "idle"
  /\ reverts = 0
  /\ replies = <<>>
  /\ call = NoCall

Next ==
  \/ \E method \in Requests : \E a \in Arguments(method) :
       Request(method, a[1], a[2])
  \/ Replied \/ Remote
  \/ \E t \in Txs : Send(t)
  \/ \E S \in SUBSET pool : \E txs \in Orders(S) : Mine(txs)
  \/ Write \/ Written \/ Revert

Spec == Init /\ [][Next]_vars

-----------------------------------------------------------------------------

Done == call.pc = "done"

(***************************************************************************)
(* An answer tells of every block that was stored when the request came    *)
(* and that it is about, if no revert was in between: a transaction that   *)
(* was saved is not shown as pending, no block of a range is left out, and *)
(* the parts that are read one after the other do not lose the block       *)
(* (api.ts:1953-1956, blocklog-manager.ts:48-60).                          *)
(***************************************************************************)
AnswersAreComplete == Done /\ call.calm => call.owed \subseteq call.answer.blocks

(***************************************************************************)
(* A transaction that has been sent is found until it is reverted, in      *)
(* whichever state it is caught: pending, in progress, or stored while the *)
(* pool still has it (api.ts:1953-1964, transaction-pool.ts:447-452).      *)
(***************************************************************************)
SentIsFound ==
  Done /\ call.method = "TransactionByHash" /\ call.sent /\ call.calm
    => call.answer.outcome # "null"

\* Without a fork it is.
SentIsFoundLocally == ~forking => SentIsFound

(***************************************************************************)
(* Nothing of the remote chain after the block forked from is shown as a   *)
(* block, a transaction or a receipt of this one, at numbers that are free *)
(* and at those that have been taken here (block-manager.ts:125-128).      *)
(***************************************************************************)
IsOfThisChain(b) == IsRemote(b) => forking /\ NumberOf(b) <= ForkNumber

ForkEndsAtItsBlock ==
  Done /\ call.method \notin {"Logs", "LogsByHash"}
    => \A b \in call.answer.blocks : IsOfThisChain(b)

(***************************************************************************)
(* A receipt comes with the block that its transaction is in, although     *)
(* transaction, receipt and block are read apart, and the request fails    *)
(* only if a revert was in between (api.ts:1996-2009).                     *)
(***************************************************************************)
ReceiptsAreWhole ==
  Done /\ call.method = "Receipt" =>
    /\ \A b \in call.answer.blocks :
         \E i \in DOMAIN TransactionsOf(b) : TransactionsOf(b)[i] = call.x
    /\ call.calm => call.answer.outcome # "error"

(***************************************************************************)
(* What the code says and does not keep.                                   *)
(*                                                                         *)
(* Logs of blocks after the fork are not shown either: "it doesn't exist   *)
(* in our local chain" (block-manager.ts:126-127).                         *)
(***************************************************************************)
LogsEndAtTheFork ==
  Done /\ call.method = "Logs" => \A b \in call.answer.blocks : IsOfThisChain(b)

\* A block that is asked for by its hash has this hash (api.ts:1269, "Returns
\* information about a block by block hash").
HashIsOfTheBlock ==
  Done /\ call.method = "BlockByHash" => call.answer.blocks \subseteq {call.x}

\* "The transaction object or `null` if no transaction was found"
\* (api.ts:1460, of eth_getTransactionByBlockNumberAndIndex).
MissingIsNull ==
  Done /\ call.method = "TransactionByIndex" => call.answer.outcome # "error"

\* The logs of a block, and of a receipt: the index of a log is that "in the
\* *block*" (blocklogs.ts:218), and tests compare the two (logs.test.ts:237).
LogsOf(b) == {<<TransactionsOf(b)[i], i - 1>> : i \in DOMAIN TransactionsOf(b)}
LogsOfReceipt(t) == {<<t, 0>>}

ReceiptHasTheBlocksLogs ==
  Done /\ call.method = "Receipt" =>
    \A b \in call.answer.blocks : LogsOfReceipt(call.x) \subseteq LogsOf(b)
=============================================================================
