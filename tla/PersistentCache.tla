--------------------------- MODULE PersistentCache ---------------------------
(***************************************************************************)
(* The cache on disk of what a forked chain answered (forking/persistent-   *)
(* cache).  Values are stored under the fork block of the session that put  *)
(* them, and a later session may use those of the ancestors of its own fork *)
(* block.  Which blocks are ancestors is remembered as a tree of the fork   *)
(* blocks seen so far, which every session amends: initialize() in one      *)
(* write, reBalanceDescendantTree() in another one that nothing waits for   *)
(* but close().                                                             *)
(*                                                                         *)
(* One process at a time has the database open.  The remote chains are a    *)
(* tree of blocks; a session sees one branch of it.                         *)
(***************************************************************************)
EXTENDS Naturals, SequencesExt, FiniteSetsExt

CONSTANTS Blocks, Genesis,
          Branch,      \* of each block: the branch it ends, from Genesis on
          Tips,        \* the blocks the branches of the sessions end in
          Gets,        \* calls of get() in a session
          MaxSessions, \* bound on the sessions
          None

VARIABLES
  tree,       \* ancestorDb: of a block its closest known ancestor and descendants
  session,    \* the fork block and the tip of its branch, or None
  sessions,   \* the sessions so far
  unbalanced, \* what the pending re-balancing has been given, or None
  next,       \* Ancestry.next
  ancestors,  \* Ancestry.knownAncestors
  lock,       \* the block that is being loaded (Ancestry.cacheLock), or None
  get         \* the calls of get()

treeVars == <<tree, unbalanced>>
ancestryVars == <<next, ancestors, lock>>
vars == <<treeVars, session, sessions, ancestryVars, get>>

Height(b) == Len(Branch[b]) - 1

\* The block of a height on the branch that ends in a block; None above it.
AtHeight(tip, h) == IF h <= Height(tip) THEN Branch[tip][h + 1] ELSE None

IsOnBranch(b, tip) == AtHeight(tip, Height(b)) = b

Init ==
  /\ tree = [b \in Blocks |-> None]
  /\ session = None  /\ sessions = 0  /\ unbalanced = None
  /\ next = None  /\ ancestors = {}  /\ lock = None
  /\ get = [g \in Gets |-> None]

InTree == {b \in Blocks : tree[b] # None}

Node(ancestor, descendants) == [ancestor |-> ancestor, descendants |-> descendants]

(***************************************************************************)
(* initialize()                                                            *)
(***************************************************************************)

\* Mutant: the hash of the remote's block is not compared.
AnyIsRelated(b, tip) == TRUE

\* findRelated(): the remote's block of that height has the same hash.
IsRelated(b, tip) == IsOnBranch(b, tip)

\* findClosestAncestor(): the highest known block of the branch below a block.
ClosestAncestor(b, tip, upTo) ==
  LET candidates == {c \in InTree : Height(upTo) <= Height(c) /\ Height(c) < Height(b)
                                    /\ IsRelated(c, tip)}
  IN IF candidates = {} THEN upTo
     ELSE CHOOSE c \in candidates : \A d \in candidates : Height(d) <= Height(c)

\* Those of a sequence of blocks that are in a set (SelectSeq is unknown to the provers).
Only(s, S) ==
  LET only[n \in 0 .. Len(s)] ==
        IF n = 0 THEN <<>>
        ELSE IF s[n] \in S THEN Append(only[n - 1], s[n]) ELSE only[n - 1]
  IN only[Len(s)]

\* Without the first occurrence of a block; splice() with the index -1 removes the last.
Spliced(s, b) ==
  IF Contains(s, b) THEN RemoveFirst(s, b) ELSE IF s = <<>> THEN s ELSE Front(s)

\* A target whose ancestor is not stored counts as unknown.
HasAncestor(b) == tree[b] # None /\ (tree[b].ancestor # None => tree[tree[b].ancestor] # None)

\* The target takes over the descendants of its ancestor that are above it on its branch;
\* the ancestor keeps the others, but the target itself.
Taken(descendants, b, tip) ==
  {d \in ToSet(descendants) : d # b /\ Height(d) > Height(b) /\ IsRelated(d, tip)}

\* Mutant: descendants on other branches are dropped.
KeptIfLower(descendants, b, tip) ==
  {d \in ToSet(descendants) : d # b /\ Height(d) <= Height(b)}

Kept(descendants, b, tip) == ToSet(descendants) \ ({b} \cup Taken(descendants, b, tip))

\* The tree initialize() leaves behind for the target b: b becomes the descendant of its
\* closest ancestor, and takes over those of its descendants that come after b.
Initialized(b, tip) ==
  LET target == IF HasAncestor(b) THEN tree[b] ELSE Node(None, <<>>)
      previous == target.ancestor
      ancestor == ClosestAncestor(b, tip, IF previous = None THEN Genesis ELSE previous)
      above == IF tree[ancestor] = None THEN Node(None, <<>>) ELSE tree[ancestor]
      taken == Taken(above.descendants, b, tip)
      kept == Kept(above.descendants, b, tip)
  IN [c \in Blocks |->
       IF c = b THEN Node(ancestor, target.descendants \o Only(above.descendants, taken)) ELSE
       IF c = ancestor THEN Node(above.ancestor, <<b>> \o Only(above.descendants, kept)) ELSE
       IF c = previous THEN Node(tree[c].ancestor, Spliced(tree[c].descendants, b)) ELSE
       IF c \in taken THEN Node(b, tree[c].descendants)
       ELSE tree[c]]

\* The earliest block has no ancestor and takes nothing over.
InitializedGenesis ==
  IF tree[Genesis] = None THEN [tree EXCEPT ![Genesis] = Node(None, <<>>)] ELSE tree

Open(b, tip) ==
  /\ session = None
  /\ sessions < MaxSessions
  /\ IsOnBranch(b, tip)
  /\ sessions' = sessions + 1
  /\ session' = [target |-> b, tip |-> tip]
  /\ tree' = IF b = Genesis THEN InitializedGenesis ELSE Initialized(b, tip)
  \* The descendants of its descendants, as stored before.
  /\ LET taken == ToSet(tree'[b].descendants)
         known == taken \cup UNION {ToSet(tree[d].descendants) : d \in
                    {e \in taken : tree[b] = None \/ ~Contains(tree[b].descendants, e)}}
     IN unbalanced' = known
  \* The ancestor as it was found is where the search for ancestors starts.
  /\ IF b = Genesis
       THEN next' = None /\ ancestors' = {}
       ELSE next' = tree'[tree'[b].ancestor].ancestor /\ ancestors' = {tree'[b].ancestor}
  /\ UNCHANGED <<lock, get>>

(***************************************************************************)
(* reBalanceDescendantTree(): blocks above the target that the tree has     *)
(* elsewhere become its descendants.                                        *)
(***************************************************************************)

\* findClosestDescendants(): the blocks above the target, up to a height.
Candidates(h) ==
  {c \in InTree : Height(session.target) < Height(c) /\ Height(c) <= h
                  /\ IsRelated(c, session.tip)}

\* The blocks known to be descendants of descendants when the turn is that of c.
KnownAt(c) ==
  unbalanced \cup UNION {ToSet(tree[d].descendants) : d \in Candidates(Height(c))}

\* Those that the loop moves, if it gets up to a height.
Moved(h) ==
  {c \in Candidates(h) :
     c \notin ToSet(tree[session.target].descendants) /\ c \notin KnownAt(c)}

\* Every move writes the block and its old parent, which is read from the database each
\* time: of several blocks moved away from it, the parent loses the last only.  The
\* target is written last.
Balanced(h) ==
  LET moved == Moved(h)
      MovedFrom(p) == {c \in moved : tree[c].ancestor = p}
      LastFrom(p) ==
        CHOOSE c \in MovedFrom(p) : \A d \in MovedFrom(p) : Height(d) <= Height(c)
  IN IF moved = {} THEN tree ELSE
     [b \in Blocks |->
       IF b = session.target
         THEN Node(tree[b].ancestor, tree[b].descendants \o Only(Branch[session.tip], moved)) ELSE
       IF MovedFrom(b) # {}
         THEN Node(tree[b].ancestor, Spliced(tree[b].descendants, LastFrom(b))) ELSE
       IF b \in moved THEN Node(session.target, tree[b].descendants)
       ELSE tree[b]]

ReBalanced ==
  /\ unbalanced # None
  /\ tree' = Balanced(Height(session.tip))
  /\ unbalanced' = None
  /\ UNCHANGED <<session, sessions, ancestryVars, get>>

(***************************************************************************)
(* get() and put(), for the key of one method at several heights.  Every    *)
(* fork block in the tree may have left answers in cacheDb, each of them    *)
(* about a block of its own branch that is not above it.                    *)
(***************************************************************************)

Stored(by, h) == AtHeight(by, h)

Get(g, by) ==
  /\ session # None
  /\ get[g] = None
  /\ by \in InTree
  /\ get' = [get EXCEPT ![g] = [by |-> by, state |-> "asking"]]
  /\ UNCHANGED <<treeVars, session, sessions, ancestryVars>>

\* Ancestry.has(): the entry's block is the session's own or a known ancestor; or there
\* is no further ancestor; or the next one has to be loaded, by one call at a time.
Usable(b) == b = session.target \/ b \in ancestors

Found(g) ==
  /\ get[g] # None  /\ get[g].state = "asking"
  /\ Usable(get[g].by)
  /\ get' = [get EXCEPT ![g].state = "hit"]
  /\ UNCHANGED <<treeVars, session, sessions, ancestryVars>>

Missed(g) ==
  /\ get[g] # None  /\ get[g].state = "asking"
  /\ ~Usable(get[g].by)
  /\ next = None
  /\ get' = [get EXCEPT ![g].state = "miss"]
  /\ UNCHANGED <<treeVars, session, sessions, ancestryVars>>

\* Mutant: the ancestor loaded is loaded again.
Itself(b) == b

\* The next ancestor after one that has been loaded; None after the earliest block.
Following(b) == tree[b].ancestor

StartLoading(g) ==
  /\ get[g] # None  /\ get[g].state = "asking"
  /\ ~Usable(get[g].by)
  /\ next # None
  /\ lock # next
  /\ lock' = next
  /\ get' = [get EXCEPT ![g].state = "loading"]
  /\ UNCHANGED <<treeVars, session, sessions, next, ancestors>>

Loaded(g) ==
  /\ get[g] # None  /\ get[g].state = "loading"
  /\ ancestors' = ancestors \cup {lock}
  /\ next' = Following(lock)
  /\ lock' = None
  /\ get' = [get EXCEPT ![g].state = "asking"]
  /\ UNCHANGED <<treeVars, session, sessions>>

Return(g) ==
  /\ get[g] # None  /\ get[g].state \in {"hit", "miss"}
  /\ get' = [get EXCEPT ![g] = None]
  /\ UNCHANGED <<treeVars, session, sessions, ancestryVars>>

(***************************************************************************)
(* close() waits for the re-balancing, which stops at the next block it has *)
(* moved; if the process just ends, or a request of the re-balancing fails, *)
(* nothing is written.                                                      *)
(***************************************************************************)

Close ==
  /\ session # None
  /\ IF unbalanced = None
       THEN tree' = tree
       ELSE \E h \in Height(session.target) .. Height(session.tip) : tree' = Balanced(h)
  /\ session' = None
  /\ unbalanced' = None
  /\ next' = None  /\ ancestors' = {}  /\ lock' = None
  /\ get' = [g \in Gets |-> None]
  /\ UNCHANGED sessions

Next ==
  \/ \E b \in Blocks, tip \in Tips : Open(b, tip)
  \/ ReBalanced
  \/ \E g \in Gets :
       \/ \E by \in Blocks : Get(g, by)
       \/ Found(g) \/ Missed(g) \/ StartLoading(g) \/ Loaded(g) \/ Return(g)
  \/ Close

Spec == Init /\ [][Next]_vars

Fairness == \A g \in Gets :
  WF_vars(Found(g) \/ Missed(g) \/ StartLoading(g) \/ Loaded(g) \/ Return(g))

FairSpec == Spec /\ Fairness

(***************************************************************************)
(* Properties                                                              *)
(***************************************************************************)

IsAncestor(a, b) == a # b /\ IsOnBranch(a, b)

\* What get() takes from an earlier session is what the session's own chain would answer,
\* although that session may have forked another branch: the ancestors found in the tree,
\* whichever sessions amended it, are blocks of this one.
HitsAreRight ==
  \A g \in Gets : get[g] # None /\ get[g].state = "hit" =>
    \A h \in 0 .. Height(get[g].by) : h <= Height(session.target) =>
      Stored(get[g].by, h) = AtHeight(session.tip, h)

\* However often blocks are moved, and wherever a re-balancing is cut off, every block is
\* among the descendants of the one it has for its ancestor, and really descends from it:
\* else a block that comes between the two would not be noticed.
ListedByParent ==
  \A b \in InTree \ {Genesis} :
    /\ tree[b].ancestor \in InTree
    /\ IsAncestor(tree[b].ancestor, b)
    /\ Contains(tree[tree[b].ancestor].descendants, b)

\* While a session runs, its fork block has the highest ancestor the tree knows, also one
\* that was added since the fork block was first seen.
AncestorIsClosest ==
  session # None =>
    \A a \in InTree : IsAncestor(a, session.target) =>
      Height(a) <= Height(tree[session.target].ancestor)

\* The tree of the blocks known is a tree, as far as sessions rely on it.
TreeIsSound == ListedByParent /\ AncestorIsClosest

\* What get() returns is right, and the tree it was found by is one
\* (persistent-cache.ts:123-330, ancestry.ts).
CacheIsSound == HitsAreRight /\ TreeIsSound

\* Every call of get() ends, although calls wait for each other's loading of ancestors.
GetsEnd == \A g \in Gets : get[g] # None ~> get[g] = None

\* "One parent, multiple children" (tree.ts:7): a block is among the descendants of its
\* closest ancestor only.  It is not: of two blocks re-balanced away from one parent, the
\* first stays listed there, as the parent is read from the database for each of them.
ListedOnce ==
  \A b, c \in InTree : Contains(tree[c].descendants, b) => tree[b].ancestor = c
=============================================================================
