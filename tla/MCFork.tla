------------------------------- MODULE MCFork -------------------------------
(***************************************************************************)
(* Three parts of a fork that share no state, checked side by side: the    *)
(* state trie, the requests to the remote node, and the cache on disk of   *)
(* what it answered.  A behaviour is of one of them (part says of which),  *)
(* with the others at rest.                                                *)
(***************************************************************************)
EXTENDS ForkTrie, TLC

CONSTANTS
  Parts,   \* of "trie", "requests" and "cache", those a run is about
  k1, k2, v1, v2,
  Boot, Later, Key, Uncached, Transports, Caching, MaxRefusals, \* ForkRequests
  Blocks, Genesis, Branch, Tips, Gets, MaxSessions              \* PersistentCache

VARIABLES
  part,
  transport, fork, open, phase, on, outcome, requestCache, valueCache, attached, disk, sem,
  puts, awaited, closing, refusals, before, raced, refused,
  tree, session, sessions, unbalanced, next, ancestors, lock, get

R == INSTANCE ForkRequests
P == INSTANCE PersistentCache

\* Two keys: one that the forked chain has, and one that it has not.
MCKeys == {k1, k2}
MCLocals == {v1}
MCRemote == (k1 :> v2 @@ k2 :> Zero)

\* A request of initialize, eth_blockNumber, which must not be cached, and three equal
\* ones of the chain.
BootRequests == {1}
LaterRequests == {2, 3, 4}
KeyOf == [r \in 1..4 |-> IF r = 1 THEN 1 ELSE 2]
Fresh == {1}

\* Three branches: g - b1 - b2 - b3 - b4, one that leaves it after b1, c2, and one that
\* leaves it after b3, d4.
MCBlocks == {"g", "b1", "b2", "b3", "b4", "c2", "d4"}

MCParent == [b \in MCBlocks \ {"g"} |->
  CASE b = "b1" -> "g" [] b \in {"b2", "c2"} -> "b1" [] b = "b3" -> "b2"
    [] b \in {"b4", "d4"} -> "b3"]

MCBranch[b \in MCBlocks] ==
  IF b = "g" THEN <<b>> ELSE Append(MCBranch[MCParent[b]], b)

MCTips == {"b4", "c2", "d4"}

\* What is asked for without the cache, the number of the latest block, is asked for in no
\* other way (fork.ts:26-28), and None is no request.
ASSUME RequestsAssumption ==
  /\ None \notin R!Requests
  /\ \A r \in Uncached, q \in R!Requests : Key[r] = Key[q] => q \in Uncached

\* Blocks have parents: the branch a block ends starts at the first one, and goes through
\* the branches of all blocks on it.  None is nothing that the cache keeps.
ASSUME CacheAssumption ==
  /\ Genesis \in Blocks /\ Tips \subseteq Blocks
  /\ Branch \in [Blocks -> Seq(Blocks)]
  /\ \A b \in Blocks :
       /\ Branch[b] # <<>> /\ Branch[b][1] = Genesis /\ Branch[b][Len(Branch[b])] = b
       /\ \A i \in DOMAIN Branch[b] : Branch[Branch[b][i]] = SubSeq(Branch[b], 1, i)
  /\ None \notin Blocks \cup [ancestor : Blocks \cup {None}, descendants : Seq(Blocks)]
                 \cup [target : Blocks, tip : Tips]
                 \cup [by : Blocks, state : {"asking", "loading", "hit", "miss"}]

requestVars == <<transport, fork, open, phase, on, outcome, requestCache, valueCache,
                 attached, disk, sem, puts, awaited, closing, refusals, before, raced,
                 refused>>
cacheVars == <<tree, session, sessions, unbalanced, next, ancestors, lock, get>>

MCInit ==
  /\ part \in Parts
  /\ Init
  /\ R!Init
  /\ part # "requests" => transport = "http" /\ \A k \in R!RequestKeys : disk[k] = None
  /\ P!Init

MCNext ==
  \/ part = "trie" /\ Next /\ UNCHANGED <<part, requestVars, cacheVars>>
  \/ part = "requests" /\ R!Next /\ UNCHANGED <<part, vars, cacheVars>>
  \/ part = "cache" /\ P!Next /\ UNCHANGED <<part, vars, requestVars>>

Moves == [][MCNext]_<<part, vars, requestVars, cacheVars>>

\* With the fairness of the part that has one.
MCSpec == MCInit /\ Moves /\ R!Fairness
CacheSpec == MCInit /\ Moves /\ P!Fairness

\* What is sent twice, and why; and no error answers a request that came after it by url.
RequestsAreSound == R!RequestsAreSound /\ R!ErrorsAreNotCachedByUrl

\* Every request is answered, or its answer was lost on the way.
Answered == R!Answered

\* Every call of get() ends, although calls wait for each other's loading of ancestors.
GetsEnd == P!GetsEnd

\* What get() takes from another session is right, and the tree it was found by is one.
CacheIsSound == P!CacheIsSound
=============================================================================
