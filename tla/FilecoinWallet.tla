--------------------------- MODULE FilecoinWallet ---------------------------
(***************************************************************************)
(* Accounts and private keys of the Filecoin flavor.  The accounts are read  *)
(* from the database and written back some awaits later, and nothing locks   *)
(* them; the list of the addresses with keys is also kept in memory.         *)
(*                                                                         *)
(* An address is the number of the random key it is made from; 0 is one     *)
(* from elsewhere, whose key a client may import.                          *)
(***************************************************************************)
EXTENDS Naturals, SequencesExt, FiniteSetsExt, Functions

CONSTANTS
  Clients,         \* each makes one call after the other
  MaxCalls,        \* bound on the calls and restarts
  MaxDrawn,        \* bound on the random keys
  TotalAccounts, DefaultBalance,  \* options wallet.*
  Amount,          \* what is transferred at a time
  Seeded,          \* wallet.seed or wallet.deterministic is given
  None

Foreign == 0
Addresses == Foreign .. MaxDrawn

VARIABLES
  records,  \* the accounts' balances in the database, or None
  keys,     \* the addresses whose private keys are in the database
  stored,   \* the list of addresses in the database
  list,     \* #addressesWithPrivateKeys
  writes,   \* what has been given to the database and is not written yet, in order
  calls,    \* of each client
  drawn,    \* random keys so far
  count,    \* calls and restarts so far
  minted,   \* the money there should be
  stale,    \* whether an account has been put that was not as it had been read
  torn      \* whether a restart has lost one of two writes

database == <<records, keys, stored>>
history == <<minted, stale, torn>>
vars == <<database, list, writes, calls, drawn, count, history>>

Idle == [do |-> "nothing", need |-> <<>>, got |-> <<>>, reading |-> None, puts |-> <<>>,
         waits |-> FALSE]

\* What a client can have heard of.
Known == {Foreign} \cup ToSet(list) \cup {a \in Addresses : records[a] # None}

(***************************************************************************)
(* Database.batch() and single writes                                      *)
(***************************************************************************)

\* An account as getAccount() makes it: read is its balance in the database, or None.
AccountOf(a, balance, read, key) ==
  [address |-> a, balance |-> balance, read |-> read, key |-> key]

WriteOf(c, record, key, newList) ==
  [by |-> c, record |-> record, key |-> key, list |-> newList]

\* Mutant: an address is listed again.
ListedAgain(a) == Append(list, a)

\* putPrivateKey(): an address that is listed is not listed again.
Listed(a) == IF Contains(list, a) THEN list ELSE Append(list, a)

\* putAccount(): the record and, if there is one, the key and the list in one batch.
PutAccount(c, account) ==
  /\ list' = IF account.key THEN Listed(account.address) ELSE list
  /\ writes' = Append(writes,
       WriteOf(c, account,
               IF account.key THEN [address |-> account.address, has |-> TRUE] ELSE None,
               IF list' = list THEN None ELSE list'))

\* The next write is done; the call that awaits it goes on.
Land ==
  /\ writes # <<>>
  /\ LET w == Head(writes)
         account == w.record
     IN /\ records' = IF account = None THEN records
                      ELSE [records EXCEPT ![account.address] = account.balance]
        /\ stale' = (stale \/ (account # None /\ account.read # records[account.address]))
        /\ keys' = IF w.key = None THEN keys ELSE
                   IF w.key.has THEN keys \cup {w.key.address} ELSE keys \ {w.key.address}
        /\ stored' = IF w.list = None THEN stored ELSE w.list
        /\ calls' = IF w.by = None THEN calls ELSE [calls EXCEPT ![w.by].waits = FALSE]
  /\ writes' = Tail(writes)
  /\ UNCHANGED <<list, drawn, count, minted, torn>>

(***************************************************************************)
(* initialize()                                                            *)
(***************************************************************************)

Created == drawn + 1 .. drawn + TotalAccounts

Init ==
  /\ drawn = TotalAccounts
  /\ records = [a \in Addresses |-> IF a \in 1 .. drawn THEN DefaultBalance ELSE None]
  /\ keys = 1 .. drawn
  /\ list = [i \in 1 .. drawn |-> i]
  /\ stored = list
  /\ writes = <<>>
  /\ calls = [c \in Clients |-> Idle]
  /\ count = 0
  /\ minted = TotalAccounts * DefaultBalance
  /\ stale = FALSE
  /\ torn = FALSE

\* One of two writes that belong together and are not in a batch; or one account of a
\* transfer, with the other put.
Tears ==
  \/ \E i \in DOMAIN writes : writes[i].record = None
  \/ \E c \in Clients :
       /\ calls[c].do = "transfer"
       /\ calls[c].need = <<>> /\ calls[c].reading = None /\ calls[c].got = <<>>
       /\ Len(calls[c].puts) = IF calls[c].waits THEN 0 ELSE 1

\* The process ends with some of its writes not done, and starts again.  A given seed
\* makes the same random numbers again.  Accounts are created if none has a key.
Restart ==
  /\ count < MaxCalls
  /\ count' = count + 1
  /\ torn' = (torn \/ Tears)
  /\ writes' = <<>>
  /\ calls' = [c \in Clients |-> Idle]
  /\ LET first == IF Seeded THEN 0 ELSE drawn IN
       IF stored # <<>>
         THEN /\ list' = stored
              /\ drawn' = first
              /\ UNCHANGED <<records, keys, stored, minted>>
         ELSE LET created == first + 1 .. first + TotalAccounts IN
              /\ first + TotalAccounts <= MaxDrawn
              /\ drawn' = first + TotalAccounts
              /\ records' = [a \in Addresses |->
                               IF a \in created THEN DefaultBalance ELSE records[a]]
              /\ keys' = keys \cup created
              /\ list' = [i \in 1 .. TotalAccounts |-> first + i]
              /\ stored' = list'
              /\ minted' = minted + TotalAccounts * DefaultBalance
  /\ UNCHANGED stale

(***************************************************************************)
(* The calls                                                               *)
(***************************************************************************)

Begins(c) ==
  /\ calls[c] = Idle
  /\ count < MaxCalls
  /\ count' = count + 1

\* createAccount()
WalletNew(c) ==
  /\ Begins(c)
  /\ drawn < MaxDrawn
  /\ drawn' = drawn + 1
  /\ calls' = [calls EXCEPT ![c] =
       [Idle EXCEPT !.do = "new", !.puts = <<AccountOf(drawn', 0, None, TRUE)>>]]
  /\ UNCHANGED <<database, list, writes, history>>

\* putPrivateKey() is not awaited, and its writes are not in a batch.
WalletImport(c, a) ==
  /\ Begins(c)
  /\ list' = Listed(a)
  /\ writes' = writes \o <<WriteOf(None, None, [address |-> a, has |-> TRUE], None)>>
               \o (IF list' = list THEN <<>> ELSE <<WriteOf(None, None, None, list')>>)
  /\ UNCHANGED <<database, calls, drawn, history>>

\* A list without an address (SelectSeq is unknown to the provers).
Without(s, a) ==
  LET rest[n \in 0 .. Len(s)] ==
        IF n = 0 THEN <<>>
        ELSE IF s[n] = a THEN rest[n - 1] ELSE Append(rest[n - 1], s[n])
  IN rest[Len(s)]

\* deletePrivateKey(): only the writing of the list is awaited.
WalletDelete(c, a) ==
  /\ Begins(c)
  /\ Contains(list, a)
  /\ list' = Without(list, a)
  /\ writes' = writes \o <<WriteOf(None, None, [address |-> a, has |-> FALSE], None),
                           WriteOf(c, None, None, list')>>
  /\ calls' = [calls EXCEPT ![c] = [Idle EXCEPT !.do = "delete", !.waits = TRUE]]
  /\ UNCHANGED <<database, drawn, history>>

\* setDefault()
WalletSetDefault(c, a) ==
  /\ Begins(c)
  /\ Contains(list, a)
  /\ list' = <<a>> \o Without(list, a)
  /\ writes' = Append(writes, WriteOf(c, None, None, list'))
  /\ calls' = [calls EXCEPT ![c] = [Idle EXCEPT !.do = "default", !.waits = TRUE]]
  /\ UNCHANGED <<database, drawn, history>>

\* WalletBalance and whatever else only gets an account; incrementNonce(), which puts it
\* back; transferFunds().
Use(c, do, addresses) ==
  /\ Begins(c)
  /\ calls' = [calls EXCEPT ![c] = [Idle EXCEPT !.do = do, !.need = addresses]]
  /\ UNCHANGED <<database, list, writes, drawn, history>>

\* getAccount(): an account that is not there is put first, without money.
GetRecord(c) ==
  /\ calls[c].need # <<>>
  /\ calls[c].reading = None
  /\ LET a == Head(calls[c].need)
         isNew == records[a] = None
     IN /\ calls' = [calls EXCEPT
              ![c].reading = AccountOf(a, IF isNew THEN 0 ELSE records[a],
                                       IF isNew THEN 0 ELSE records[a], FALSE),
              ![c].waits = isNew]
        /\ IF isNew THEN PutAccount(c, AccountOf(a, 0, None, FALSE))
           ELSE UNCHANGED <<list, writes>>
  /\ UNCHANGED <<database, drawn, count, history>>

GetPrivateKey(c) ==
  /\ calls[c].reading # None
  /\ ~calls[c].waits
  /\ calls' = [calls EXCEPT ![c].need = Tail(@), ![c].reading = None,
       ![c].got = Append(@, [calls[c].reading EXCEPT !.key = @ \/ calls[c].reading.address \in keys])]
  /\ UNCHANGED <<database, list, writes, drawn, count, history>>

\* Mutant: the receiver gets the money, whatever the sender has.
TransferAnyway(got) ==
  <<[got[1] EXCEPT !.balance = IF @ < Amount THEN 0 ELSE @ - Amount],
    [got[2] EXCEPT !.balance = @ + Amount]>>

\* The accounts that a transfer puts, the sender's first.
Transfer(got) ==
  IF got[1].balance < Amount THEN <<>>
  ELSE <<[got[1] EXCEPT !.balance = @ - Amount], [got[2] EXCEPT !.balance = @ + Amount]>>

Perform(c) ==
  /\ calls[c].got # <<>> /\ calls[c].need = <<>> /\ calls[c].reading = None
  /\ calls' = [calls EXCEPT ![c].got = <<>>,
       ![c].puts = CASE calls[c].do = "get" -> <<>>
                     [] calls[c].do = "nonce" -> calls[c].got
                     [] calls[c].do = "transfer" -> Transfer(calls[c].got)]
  /\ UNCHANGED <<database, list, writes, drawn, count, history>>

Put(c) ==
  /\ calls[c].puts # <<>>
  /\ ~calls[c].waits
  /\ PutAccount(c, Head(calls[c].puts))
  /\ calls' = [calls EXCEPT ![c].puts = Tail(@), ![c].waits = TRUE]
  /\ UNCHANGED <<database, drawn, count, history>>

End(c) ==
  /\ calls[c] = [Idle EXCEPT !.do = calls[c].do]
  /\ calls[c].do # "nothing"
  /\ calls' = [calls EXCEPT ![c] = Idle]
  /\ UNCHANGED <<database, list, writes, drawn, count, history>>

Next ==
  \/ \E c \in Clients :
       \/ WalletNew(c) \/ WalletImport(c, Foreign)
       \/ \E a \in Known : WalletDelete(c, a) \/ WalletSetDefault(c, a)
       \/ \E a \in Known : Use(c, "get", <<a>>) \/ Use(c, "nonce", <<a>>)
       \/ \E a, b \in Known : Use(c, "transfer", <<a, b>>)
       \/ GetRecord(c) \/ GetPrivateKey(c) \/ Perform(c) \/ Put(c) \/ End(c)
  \/ Land
  \/ Restart

Spec == Init /\ [][Next]_vars

(***************************************************************************)
(* Properties                                                              *)
(***************************************************************************)

Balance(a) == IF records[a] = None THEN 0 ELSE records[a]

Money == MapThenSumSet(Balance, Addresses)

Quiet == writes = <<>> /\ \A c \in Clients : calls[c] = Idle

\* Money is neither made nor lost, unless calls overlap so that an account is put back
\* which another call has changed, or a restart comes between the accounts of a transfer.
MoneyIsKept == Quiet /\ ~stale /\ ~torn => Money = minted

\* An address is listed once; with nothing left to write, the list in the database is the
\* one in memory, and the keys in the database are of the addresses listed, unless a
\* restart has come between the writing of the two.
ListIsOfKeys ==
  /\ IsInjective(list)
  /\ writes = <<>> /\ ~torn => stored = list /\ ToSet(list) = keys

AccountsAreSound == MoneyIsKept /\ ListIsOfKeys

\* Refuted if Seeded: "Generate a new random address to add to the wallet".
NewIsNew ==
  \A c \in Clients :
    calls[c].do = "new" /\ calls[c].puts # <<>> =>
      records[Head(calls[c].puts).address] = None

\* Refuted: whatever overlaps, the money is kept.
MoneyIsAlwaysKept == Quiet /\ ~torn => Money = minted

\* Refuted: there is a default address.
HasDefault == list # <<>>
=============================================================================
