------------------------------ MODULE Options ------------------------------
(***************************************************************************)
(* The normalisation of options (create.ts, fill): the keys of a namespace *)
(* are visited in the order of their definitions; a value is looked for in *)
(* the namespace and then under its old name; what it normalises to is     *)
(* checked against the options supplied before it; a default may read the  *)
(* configuration made so far.  Of the definitions those are here whose     *)
(* values depend on each other, with one of each kind of the rest.         *)
(*                                                                         *)
(* The old name of the fork's url, provider and network is "fork", which   *)
(* is the name of the namespace too: each of the three is given the other  *)
(* two's values, and the whole namespace, to make sense of.                *)
(***************************************************************************)
EXTENDS Integers, FiniteSets, SequencesExt

CONSTANTS Unset, Latest, Invalid   \* an URL's block: none, the tag, and what is no number

VARIABLES
  namespace, \* the one that is filled
  given,     \* options[namespace]
  old,       \* the options by their old names
  at,        \* the next key
  config,    \* target[namespace]
  supplied,  \* suppliedOptions
  outcome    \* "filling", "done", "refused"

vars == <<namespace, given, old, at, config, supplied, outcome>>

(***************************************************************************)
(* Values.  An URL may name a block, after an "@".                         *)
(***************************************************************************)

Absent == [is |-> "absent"]
Failure == [is |-> "failure"]
True == [is |-> "true"]
False == [is |-> "false"]
Tag == [is |-> "tag"]
Provider == [is |-> "provider"]
Mainnet == [is |-> "name", name |-> "mainnet"]
Goerli == [is |-> "name", name |-> "goerli"]
Number(n) == [is |-> "number", n |-> n]
Word(w) == [is |-> "word", w |-> w]
Url(block, allowed) == [is |-> "url", block |-> block, allowed |-> allowed]
Object(values) == [is |-> "object", of |-> values]

Urls == {Url(block, TRUE) : block \in {Unset, Latest, Invalid, 0, 7}}
        \cup {Url(block, FALSE) : block \in {Unset, 7}}

IsString(v) == v.is \in {"url", "name"}

Sources == {"url", "provider", "network"}

(***************************************************************************)
(* The definitions.                                                        *)
(***************************************************************************)

\* Mutant: the block number before the url that its default reads.
KeysMixed ==
  [fork |-> <<"blockNumber", "url", "provider", "network", "username", "requestsPerSecond">>,
   wallet |-> <<"accounts", "totalAccounts", "deterministic", "seed", "mnemonic">>,
   logging |-> <<"quiet", "logger">>,
   miner |-> <<"blockTime", "instamine">>]

Keys ==
  [fork |-> <<"url", "provider", "network", "blockNumber", "username", "requestsPerSecond">>,
   wallet |-> <<"accounts", "totalAccounts", "deterministic", "seed", "mnemonic">>,
   logging |-> <<"quiet", "logger">>,
   miner |-> <<"blockTime", "instamine">>]

KeysOf(space) == {Keys[space][i] : i \in DOMAIN Keys[space]}

Conflicts(key) ==
  CASE key \in Sources -> Sources \ {key}
    [] key \in {"deterministic", "seed", "mnemonic"} -> {"deterministic", "seed", "mnemonic"} \ {key}
    [] key \in {"accounts", "totalAccounts"} -> {"accounts", "totalAccounts"} \ {key}
    [] OTHER -> {}

\* The protocol is looked at only if there is an "@".
NormalizedUrl(v) ==
  IF v.is # "url" THEN Absent
  ELSE IF v.block # Unset /\ ~v.allowed THEN Failure
  ELSE [v EXCEPT !.block = IF @ \in {Latest, Invalid} THEN Unset ELSE @]

NormalizedProvider(v) ==
  IF \/ IsString(v)
     \/ v.is = "object" /\ (IsString(v.of.url) \/ v.of.url = True \/ IsString(v.of.network))
    THEN Absent
    ELSE v

NormalizedNetwork(v) ==
  CASE v.is = "name" -> v
    [] v.is = "object" /\ v.of.url = True -> Mainnet
    [] v.is = "object" /\ v.of.url.is = "name" -> v.of.url
    [] OTHER -> Absent

NotNegative(v) == IF v.n < 0 THEN Failure ELSE v

Normalized(key, v) ==
  CASE key = "url" -> NormalizedUrl(v)
    [] key = "provider" -> NormalizedProvider(v)
    [] key = "network" -> NormalizedNetwork(v)
    [] key \in {"requestsPerSecond", "blockTime"} -> NotNegative(v)
    [] OTHER -> v

\* A block of 0 counts as none.
DefaultBlock ==
  IF config.url # Absent
    THEN IF config.url.block \in {Unset, 0} THEN Tag ELSE Number(config.url.block)
    ELSE IF config.provider # Absent \/ config.network # Absent THEN Tag ELSE Absent

Default(key) ==
  CASE key = "blockNumber" -> DefaultBlock
    [] key \in {"requestsPerSecond", "blockTime"} -> Number(0)
    [] key = "totalAccounts" -> Number(IF config.accounts = Absent THEN 10 ELSE 0)
    [] key = "deterministic" -> False
    [] key = "seed" -> Word(IF config.deterministic = True THEN "phrase" ELSE "random")
    [] key = "mnemonic" -> [is |-> "mnemonic", of |-> config.seed]
    [] key = "quiet" -> False
    [] key = "logger" -> Word(IF config.quiet = True THEN "silent" ELSE "console")
    [] key = "instamine" -> Word("eager")
    [] OTHER -> Absent

(***************************************************************************)
(* What a user may give, in the namespace or by the old name.              *)
(***************************************************************************)

ValuesOf(key) ==
  {Absent} \cup
  CASE key = "url" -> Urls \cup {Mainnet, True}
    [] key = "provider" -> {Provider}
    [] key = "network" -> {Goerli}
    [] key \in {"requestsPerSecond", "blockTime"} -> {Number(2), Number(-1)}
    [] key \in {"blockNumber", "totalAccounts"} -> {Number(5)}
    [] key = "deterministic" -> {True, False}
    [] key = "quiet" -> {True}
    [] OTHER -> {Word(key)}

With(values, key, v) == [k \in DOMAIN values \cup {key} |-> IF k = key THEN v ELSE values[k]]

\* Every choice of a value for every key.
Given(space) ==
  FoldLeft(LAMBDA choices, key : {With(c, key, v) : c \in choices, v \in ValuesOf(key)},
           {<<>>}, Keys[space])

Init ==
  /\ namespace \in DOMAIN Keys
  /\ old \in {values \in Given(namespace) : \A k \in Sources \cap DOMAIN values : values[k] = Absent}
  /\ given \in {Absent} \cup {Object(values) : values \in Given(namespace)}
               \cup IF namespace = "fork" THEN Urls \cup {Mainnet, True, Provider} ELSE {}
  /\ at = 1
  /\ config = [k \in KeysOf(namespace) |-> Absent]
  /\ supplied = {}
  /\ outcome = "filling"

(***************************************************************************)
(* fill().                                                                 *)
(***************************************************************************)

Value(key) ==
  IF given.is = "object" /\ given.of[key] # Absent THEN given.of[key]
  ELSE IF key \in Sources THEN given
  ELSE old[key]

Result(key) == Normalized(key, Value(key))

Fills(key) ==
  /\ outcome = "filling"
  /\ at <= Len(Keys[namespace])
  /\ key = Keys[namespace][at]

Visited == at' = at + 1 /\ UNCHANGED <<namespace, given, old, outcome>>

Take(key) ==
  /\ Fills(key)
  /\ Value(key) # Absent
  /\ Result(key) \notin {Absent, Failure}
  /\ Conflicts(key) \cap supplied = {}
  /\ config' = [config EXCEPT ![key] = Result(key)]
  /\ supplied' = supplied \cup {key}
  /\ Visited

\* There is no default for a value that normalises to nothing.
PassOver(key) ==
  /\ Fills(key)
  /\ Value(key) # Absent
  /\ Result(key) = Absent
  /\ UNCHANGED <<config, supplied>>
  /\ Visited

Refuse(key) ==
  /\ Fills(key)
  /\ Value(key) # Absent
  /\ \/ Result(key) = Failure
     \/ Result(key) # Absent /\ Conflicts(key) \cap supplied # {}
  /\ outcome' = "refused"
  /\ UNCHANGED <<namespace, given, old, at, config, supplied>>

FillDefault(key) ==
  /\ Fills(key)
  /\ Value(key) = Absent
  /\ config' = [config EXCEPT ![key] = Default(key)]
  /\ UNCHANGED supplied
  /\ Visited

Finish ==
  /\ outcome = "filling"
  /\ at > Len(Keys[namespace])
  /\ outcome' = "done"
  /\ UNCHANGED <<namespace, given, old, at, config, supplied>>

Next ==
  \/ \E key \in KeysOf(namespace) : Take(key) \/ PassOver(key) \/ Refuse(key) \/ FillDefault(key)
  \/ Finish

Spec == Init /\ [][Next]_vars

(***************************************************************************)
(* What the user has asked for, wherever it was written.                   *)
(***************************************************************************)

Asked(key) == IF given.is = "object" /\ given.of[key] # Absent THEN given.of[key] ELSE old[key]

\* A network may be written as the url.
AskedSources ==
  IF given.is = "object"
    THEN {k \in Sources \ {"url"} : given.of[k] # Absent}
         \cup CASE given.of.url.is = "url" -> {"url"}
                [] given.of.url = Absent -> {}
                [] OTHER -> {"network"}
    ELSE CASE given.is = "absent" -> {}
           [] given.is = "url" -> {"url"}
           [] given.is = "provider" -> {"provider"}
           [] OTHER -> {"network"}

\* Options of the fork without a source, and "true", are taken to be a provider.
TakenForProvider == given = True \/ (given.is = "object" /\ AskedSources = {})

AskedBlock ==
  CASE Asked("blockNumber") # Absent -> Asked("blockNumber")
    [] config.url # Absent /\ config.url.block \in 1..7 -> Number(config.url.block)
    [] OTHER -> Tag

ForkIsAsAsked ==
  LET sources == {k \in Sources : config[k] # Absent}
  IN /\ ~TakenForProvider => sources = AskedSources
     /\ sources # {} => config.blockNumber = AskedBlock
     /\ Cardinality(sources) <= 1

AskedMnemonic ==
  CASE Asked("mnemonic") # Absent -> Asked("mnemonic")
    [] Asked("seed") # Absent -> [is |-> "mnemonic", of |-> Asked("seed")]
    [] Asked("deterministic") = True -> [is |-> "mnemonic", of |-> Word("phrase")]
    [] OTHER -> [is |-> "mnemonic", of |-> Word("random")]

WalletIsAsAsked ==
  /\ config.mnemonic = AskedMnemonic
  /\ config.accounts # Absent <=> config.totalAccounts = Number(0)

IsExclusive(key) == Asked(key) # Absent /\ \E k \in Conflicts(key) : Asked(k) # Absent

IsNegative(v) == v.is = "number" /\ v.n < 0

(***************************************************************************)
(* A configuration is the one asked for, by new names or old: the fork has *)
(* one source, its own, and its block; the mnemonic comes from the seed or *)
(* the phrase that was asked for; nothing is logged if quiet is asked for, *)
(* and only then.  The exception is quiet with a logger, of which nothing  *)
(* is claimed: see QuietOverrides.  Options are refused only if two        *)
(* exclude each other or one is out of range (create.ts:41-106,            *)
(* fork-options.ts:251-386, wallet-options.ts:230-279,                     *)
(* logging-options.ts:97-104).                                             *)
(***************************************************************************)
ConfigIsAsAsked ==
  /\ outcome = "done" =>
       /\ namespace = "fork" => ForkIsAsAsked
       /\ namespace = "wallet" => WalletIsAsAsked
       /\ namespace = "logging" /\ (Asked("quiet") = True => Asked("logger") = Absent) =>
            (config.logger = Word("silent") <=> Asked("quiet") = True)
  /\ outcome = "refused" =>
       \/ \E k \in KeysOf(namespace) \ Sources : IsNegative(Asked(k)) \/ IsExclusive(k)
       \/ Cardinality(AskedSources) > 1
       \/ namespace = "fork" /\ ~TakenForProvider /\ Value("url") = Url(7, FALSE)

(***************************************************************************)
(* Refuted: a fork is made only if one was asked for; of two networks none *)
(* is dropped; an URL may end in "@0"; only the listed protocols are let   *)
(* through; quiet overrides a logger (logging-options.ts:66-69), where the *)
(* code reads it for the default logger alone (see the README).            *)
(***************************************************************************)
OnlyAskedForks ==
  outcome = "done" /\ namespace = "fork" /\ AskedSources = {} => \A k \in Sources : config[k] = Absent

NoNetworkIsDropped ==
  outcome = "done" /\ namespace = "fork" /\ given.is = "object" =>
    ~(given.of.url.is = "name" /\ given.of.network # Absent)

BlockZeroIsABlock ==
  outcome = "done" /\ namespace = "fork" =>
    ~(config.url # Absent /\ config.url.block = 0 /\ config.blockNumber = Tag)

ProtocolIsAllowed ==
  outcome = "done" /\ namespace = "fork" /\ config.url # Absent => config.url.allowed

QuietOverrides ==
  outcome = "done" /\ namespace = "logging" /\ Asked("quiet") = True => config.logger = Word("silent")
=============================================================================
