------------------------------- MODULE Wallet -------------------------------
(***************************************************************************)
(* The accounts a node can sign for (wallet.ts) and the calls of the        *)
(* personal namespace, evm_addAccount and evm_removeAccount (api.ts) that   *)
(* change them.  Encrypting and decrypting a key file takes its time: what  *)
(* a call checks before is not looked at again after, and with              *)
(* asyncRequestProcessing, the default, other calls run in between.         *)
(* Timers lock accounts that were unlocked for a while.                     *)
(***************************************************************************)
EXTENDS Naturals, SequencesExt

CONSTANTS Accounts, InitialAccounts, Passphrases,
          Calls,       \* the calls whose work is asynchronous
          None

VARIABLES
  keyFiles,    \* the passphrase of an account's key file, or None if it has none
  known,       \* knownAccounts
  addresses,   \* the list eth_accounts returns
  unlocked,    \* unlockedAccounts
  lockTimers,  \* the call whose timer is recorded for an account, or None
  running,     \* the calls whose timers have neither fired nor been cleared
  call,        \* what each call is doing
  serial,      \* whether requests are processed one at a time
  stay,        \* history: the accounts last unlocked without a duration and not locked
               \* or removed since
  removed      \* history: the accounts that have been removed

vars == <<keyFiles, known, addresses, unlocked, lockTimers, running, call, serial, stay,
          removed>>

NoCall == [kind |-> "none"]

Over == [kind |-> "over"]

InitialPassphrase == CHOOSE p \in Passphrases : TRUE

\* The accounts made at startup are known, listed and, without wallet.lock, unlocked.
Init ==
  /\ keyFiles = [a \in Accounts |-> IF a \in InitialAccounts THEN InitialPassphrase ELSE None]
  /\ known = InitialAccounts
  /\ addresses = SetToSeq(InitialAccounts)
  /\ unlocked \in {{}, InitialAccounts}
  /\ lockTimers = [a \in Accounts |-> None]
  /\ running = {}
  /\ call = [c \in Calls |-> NoCall]
  /\ serial \in BOOLEAN
  /\ stay = unlocked
  /\ removed = {}

\* The coordinator starts a request: at once, or when no other is running.
Starts(c) ==
  /\ call[c] = NoCall
  /\ serial => \A d \in Calls : call[d].kind \in {"none", "over"}

EndOf(c) == [call EXCEPT ![c] = Over]

(***************************************************************************)
(* Adding: evm_addAccount looks whether the account is known first;         *)
(* personal_importRawKey and personal_newAccount do not.                    *)
(***************************************************************************)

AddAccount(c, a, p) ==
  /\ Starts(c)
  /\ call' = IF a \in known THEN EndOf(c)
             ELSE [call EXCEPT ![c] = [kind |-> "add", account |-> a, passphrase |-> p]]
  /\ UNCHANGED <<keyFiles, known, addresses, unlocked, lockTimers, running, serial, stay,
                 removed>>

Import(c, a, p) ==
  /\ Starts(c)
  /\ call' = [call EXCEPT ![c] = [kind |-> "add", account |-> a, passphrase |-> p]]
  /\ UNCHANGED <<keyFiles, known, addresses, unlocked, lockTimers, running, serial, stay,
                 removed>>

\* The key has been encrypted.
Added(c) ==
  /\ call[c].kind = "add"
  /\ LET a == call[c].account
     IN /\ keyFiles' = [keyFiles EXCEPT ![a] = call[c].passphrase]
        /\ known' = known \cup {a}
        /\ addresses' = Append(addresses, a)
  /\ call' = EndOf(c)
  /\ UNCHANGED <<unlocked, lockTimers, running, serial, stay, removed>>

(***************************************************************************)
(* Removing and unlocking decrypt the key file as it was when they began.   *)
(***************************************************************************)

RemoveAccount(c, a, p) ==
  /\ Starts(c)
  /\ call' = IF a \in known /\ keyFiles[a] = p
             THEN [call EXCEPT ![c] = [kind |-> "remove", account |-> a]]
             ELSE EndOf(c)
  /\ UNCHANGED <<keyFiles, known, addresses, unlocked, lockTimers, running, serial, stay,
                 removed>>

\* Mutant: the last account is removed from the list, whichever was asked for.
LastUnlisted(a) == IF addresses = <<>> THEN addresses ELSE Front(addresses)

\* splice() with the index -1 removes the last element.
Unlisted(a) ==
  IF Contains(addresses, a)
    THEN RemoveAt(addresses, SelectInSeq(addresses, LAMBDA b : b = a))
    ELSE IF addresses = <<>> THEN addresses ELSE Front(addresses)

Removed(c) ==
  /\ call[c].kind = "remove"
  /\ LET a == call[c].account
     IN /\ keyFiles' = [keyFiles EXCEPT ![a] = None]
        /\ known' = known \ {a}
        /\ addresses' = Unlisted(a)
        /\ lockTimers' = [lockTimers EXCEPT ![a] = None]
        /\ unlocked' = unlocked \ {a}
        /\ stay' = stay \ {a}
        /\ removed' = removed \cup {a}
  /\ call' = EndOf(c)
  /\ UNCHANGED <<running, serial>>

Unlock(c, a, p, timed) ==
  /\ Starts(c)
  /\ call' = IF keyFiles[a] = p
             THEN [call EXCEPT ![c] = [kind |-> "unlock", account |-> a, timed |-> timed]]
             ELSE EndOf(c)
  /\ UNCHANGED <<keyFiles, known, addresses, unlocked, lockTimers, running, serial, stay,
                 removed>>

\* The timers that run on when the one recorded for the account is cleared.
TimersWithout(a) == running \ {lockTimers[a]}

Unlocked(c) ==
  /\ call[c].kind = "unlock"
  /\ LET a == call[c].account
         timed == call[c].timed
     IN /\ running' = TimersWithout(a) \cup (IF timed THEN {c} ELSE {})
        /\ lockTimers' = IF timed THEN [lockTimers EXCEPT ![a] = c] ELSE lockTimers
        /\ unlocked' = unlocked \cup {a}
        /\ stay' = IF timed THEN stay \ {a} ELSE stay \cup {a}
  \* The call's record stays: a timer knows the account it locks.
  /\ call' = [call EXCEPT ![c] = IF call[c].timed
                                 THEN [kind |-> "over", account |-> call[c].account]
                                 ELSE Over]
  /\ UNCHANGED <<keyFiles, known, addresses, serial, removed>>

Fire(c) ==
  /\ c \in running
  /\ LET a == call[c].account
     IN /\ lockTimers' = [lockTimers EXCEPT ![a] = None]
        /\ unlocked' = unlocked \ {a}
  /\ running' = running \ {c}
  /\ call' = EndOf(c)
  /\ UNCHANGED <<keyFiles, known, addresses, serial, stay, removed>>

Lock(a) ==
  /\ a \in unlocked
  /\ running' = TimersWithout(a)
  /\ lockTimers' = [lockTimers EXCEPT ![a] = None]
  /\ unlocked' = unlocked \ {a}
  /\ stay' = stay \ {a}
  /\ UNCHANGED <<keyFiles, known, addresses, call, serial, removed>>

Next ==
  \/ \E c \in Calls, a \in Accounts, p \in Passphrases :
       AddAccount(c, a, p) \/ Import(c, a, p) \/ RemoveAccount(c, a, p)
  \/ \E c \in Calls, a \in Accounts, p \in Passphrases, timed \in BOOLEAN :
       Unlock(c, a, p, timed)
  \/ \E c \in Calls : Added(c) \/ Removed(c) \/ Unlocked(c) \/ Fire(c)
  \/ \E a \in Accounts : Lock(a)

Spec == Init /\ [][Next]_vars

(***************************************************************************)
(* Properties                                                              *)
(***************************************************************************)

\* eth_accounts and personal_listAccounts return every account that is known: their doc
\* promises "The Ethereum account addresses of all keys that have been added".
AllKnownAreListed == known \subseteq ToSet(addresses)

\* It holds when requests are processed one at a time, also if an account is listed
\* twice because it was imported twice.
KnownAreListed == serial => AllKnownAreListed

\* An account that was unlocked for a while will be locked: whatever calls raced, either
\* it is unlocked until it is locked by hand, or the timer recorded for it is running.
UnlockedForAWhile ==
  \A a \in unlocked \ stay : lockTimers[a] \in running /\ call[lockTimers[a]].account = a

\* An account that was unlocked without a duration stays so until it is locked ...
UnlockedForGood == stay \subseteq unlocked

\* ... unless it was removed before: removing forgets its timer but does not clear it.
UnlockedUntilLocked == stay \ removed \subseteq unlocked
=============================================================================
