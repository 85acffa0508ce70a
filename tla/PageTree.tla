------------------------------ MODULE PageTree ------------------------------
(***************************************************************************)
(* The tree of pages: its rows (space, parent, published) and what the     *)
(* permission store says of it, the page#space link and the page#parent    *)
(* tuple, from which space members and folder grants are resolved.         *)
(*                                                                         *)
(* A move checks the tree and writes it in one transaction under an        *)
(* advisory lock per space, but it has read the page, its parent and the   *)
(* spaces before the transaction, and that reading decides which locks it  *)
(* takes and which tuples it replaces afterwards.  Creation and            *)
(* publication take no lock.  A transaction that moves a subtree to        *)
(* another space swaps the links before it commits.                        *)
(***************************************************************************)
EXTENDS Integers, FiniteSets

CONSTANTS
    Pages,       \* pages there are or may be
    Spaces,      \* ids, ordered as the code sorts them
    Reqs,        \* requests that may be in flight
    Ops,         \* operations of this instance
    Solo,        \* whether requests keep off a page another one is at work
                 \* on, and off a subtree on its way to another space
    Tree0,       \* the pages there are at first, with their parents
    Home0,       \* and the space of each
    Linked0,     \* those of them that are published
    MaxDepth,    \* MAX_PAGE_DEPTH
    MaxOps,      \* bound: operations
    MaxMishaps,  \* bound: store calls that fail, commits that get lost
    None

AllOps == {"create", "guest", "move", "publish"}

ASSUME PagesAssumption == /\ IsFiniteSet(Pages) /\ None \notin Pages
                          /\ None \notin Reqs
ASSUME SpacesAssumption == Spaces \subseteq Nat /\ IsFiniteSet(Spaces)
ASSUME TreeAssumption == /\ DOMAIN Tree0 \subseteq Pages
                         /\ \A p \in DOMAIN Tree0 :
                              Tree0[p] \in DOMAIN Tree0 \cup {None}
                         /\ Home0 \in [Pages -> Spaces]
                         /\ \A p \in DOMAIN Tree0 :
                              Tree0[p] # None => Home0[p] = Home0[Tree0[p]]
                         /\ \A S \in SUBSET DOMAIN Tree0 :
                              S # {} => \E p \in S : Tree0[p] \notin S
                         /\ Linked0 \subseteq DOMAIN Tree0
ASSUME BoundAssumption == /\ MaxDepth \in Nat /\ MaxOps \in Nat
                          /\ MaxMishaps \in Nat
                          /\ Ops \subseteq AllOps /\ Solo \in BOOLEAN

VARIABLES
    exists,     \* pages that have a row
    home,       \* pages.space_id
    parent,     \* pages.parent_id
    published,  \* pages with published_at
    link,       \* page#space tuples: the spaces a page is linked to
    up,         \* page#parent tuples: the pages it inherits from
    lock,       \* holder of the advisory lock page-move:<space>
    req,        \* requests in flight
    ops,        \* operations begun
    mishaps,
    astray      \* history: pages whose tuples a mishap has left behind

vars == <<exists, home, parent, published, link, up, lock, req, ops, mishaps,
          astray>>
rows == <<exists, home, parent, published>>
store == <<link, up>>

Parents == Pages \cup {None}
Steps == {"idle", "lock", "guard", "write", "unlink", "relink", "commit",
          "sync", "insert", "release", "link"}
\* from, old: the row as read at the start; tree: the subtree that follows
\* its root to another space; hadOld: its pages that were linked.
Request == [step : Steps, op : AllOps, page : Parents, to : Parents,
            from : Spaces, target : Spaces, old : Parents,
            tree : SUBSET Pages, hadOld : SUBSET Pages]
Space1 == CHOOSE s \in Spaces : \A t \in Spaces : s <= t
Idle == [step |-> "idle", op |-> "move", page |-> None, to |-> None,
         from |-> Space1, target |-> Space1, old |-> None, tree |-> {},
         hadOld |-> {}]

-----------------------------------------------------------------------------
(* The walks along parent_id, which refuse at a cap derived from the depth. *)

WalkCap == MaxDepth + 2

\* The n-th ancestor of a page, None above the root.
Climb(p) ==
    LET at[n \in 0..WalkCap] ==
          IF n = 0 THEN p
          ELSE IF at[n - 1] = None THEN None ELSE parent[at[n - 1]]
    IN at

Depth(p) == Cardinality({n \in 1..WalkCap : Climb(p)[n] # None})

Children(S) == {q \in exists : parent[q] \in S}

\* The walk below a page: its n-th row holds the pages n levels down.
Below(p) ==
    LET at[n \in 0..WalkCap] == IF n = 0 THEN {p} ELSE Children(at[n - 1])
    IN at

\* A walk that comes to its cap answers 500.
Answers(p) == Below(p)[WalkCap] = {}

Subtree(p) == exists \cap UNION {Below(p)[n] : n \in 0..WalkCap}
Descendants(p) == exists \cap UNION {Below(p)[n] : n \in 1..WalkCap}

\* How far below p its deepest descendant is.
Height(p) == Cardinality({n \in 1..WalkCap : Below(p)[n] # {}})

\* A page with all that is below it, however deep: the least set that has the
\* page and the children of its members.
Family(p) ==
    {q \in exists :
        \A S \in SUBSET exists : p \in S /\ Children(S) \subseteq S => q \in S}

-----------------------------------------------------------------------------
Init ==
    /\ exists = DOMAIN Tree0
    /\ home = Home0
    /\ parent = [p \in Pages |-> IF p \in exists THEN Tree0[p] ELSE None]
    /\ published = Linked0
    /\ link = [p \in Pages |-> IF p \in Linked0 THEN {Home0[p]} ELSE {}]
    /\ up = [p \in Pages |-> {parent[p]} \ {None}]
    /\ lock = [s \in Spaces |-> None]
    /\ req = [r \in Reqs |-> Idle]
    /\ ops = 0
    /\ mishaps = 0
    /\ astray = {}

At(r, step) == req[r].step = step
Crossing(r) == req[r].target # req[r].from
LockSpaces(r) == {req[r].from, req[r].target}
Held(r) == {s \in Spaces : lock[s] = r}

\* Rows a transaction has updated and not committed yet: other writers wait.
RowLocked(p) == \E r \in Reqs : /\ req[r].step \in {"unlink", "relink", "commit"}
                                /\ p \in req[r].tree

Unlocked(r) == [s \in Spaces |-> IF lock[s] = r THEN None ELSE lock[s]]
Goto(r, step) == req' = [req EXCEPT ![r].step = step]
Done(r) == req' = [req EXCEPT ![r] = Idle]

\* Whether a request about p and its parent-to-be q may begin where Solo keeps
\* requests apart.
Apart(r, p, q, cross) ==
    Solo => \A o \in Reqs \ {r} :
              req[o].step # "idle" =>
                /\ req[o].page # p
                /\ cross => {req[o].page, req[o].to} \cap Family(p) = {}
                /\ Crossing(o) => {p, q} \cap Family(req[o].page) = {}

Begin(r, op, p, rec) ==
    /\ At(r, "idle") /\ op \in Ops /\ ops < MaxOps
    /\ ops' = ops + 1
    /\ req' = [req EXCEPT ![r] = rec]
    /\ UNCHANGED <<rows, store, lock, mishaps, astray>>

-----------------------------------------------------------------------------
(* movePage.  Reads the page and the new parent; the parent's space is the *)
(* destination.                                                            *)
BeginMove(r, p, q, s) ==
    LET target == IF q = None THEN s ELSE home[q]
    IN /\ p \in exists /\ q \in (exists \cup {None}) \ {p} /\ s = target
       /\ Apart(r, p, q, target # home[p])
       /\ Begin(r, "move", p,
                [Idle EXCEPT !.step = "lock", !.op = "move", !.page = p,
                             !.to = q, !.from = home[p], !.target = target,
                             !.old = parent[p]])

\* Mutated form: the page's own space first, whatever the order.
TakeLockUnsorted(r) ==
    LET todo == LockSpaces(r) \ Held(r)
        s == IF req[r].from \in todo THEN req[r].from ELSE req[r].target
    IN /\ At(r, "lock")
       /\ lock[s] = None
       /\ lock' = [lock EXCEPT ![s] = r]
       /\ Goto(r, IF todo = {s} THEN "guard" ELSE "lock")
       /\ UNCHANGED <<rows, store, ops, mishaps, astray>>

\* structuralGuards: the locks, one after another in the order of the ids.
TakeLock(r) ==
    LET todo == LockSpaces(r) \ Held(r)
        s == CHOOSE t \in todo : \A o \in todo : t <= o
    IN /\ At(r, "lock")
       /\ lock[s] = None
       /\ lock' = [lock EXCEPT ![s] = r]
       /\ Goto(r, IF todo = {s} THEN "guard" ELSE "lock")
       /\ UNCHANGED <<rows, store, ops, mishaps, astray>>

Fits(p, q) ==
    q # None => /\ Answers(p) /\ q \notin Descendants(p)
                /\ Depth(q) + 1 + Height(p) <= MaxDepth

\* Mutated form: the lock does not outlive the check.
GuardReleases(r) ==
    /\ At(r, "guard")
    /\ IF Fits(req[r].page, req[r].to) THEN Goto(r, "write") ELSE Done(r)
    /\ lock' = Unlocked(r)
    /\ UNCHANGED <<rows, store, ops, mishaps, astray>>

Guard(r) ==
    /\ At(r, "guard")
    /\ IF Fits(req[r].page, req[r].to)
       THEN Goto(r, "write") /\ UNCHANGED lock
       ELSE Done(r) /\ lock' = Unlocked(r)
    /\ UNCHANGED <<rows, store, ops, mishaps, astray>>

\* Within the space: one UPDATE of the parent, and the commit.
Write(r) ==
    /\ At(r, "write") /\ ~Crossing(r)
    /\ ~RowLocked(req[r].page)
    /\ parent' = [parent EXCEPT ![req[r].page] = req[r].to]
    /\ lock' = Unlocked(r)
    /\ Goto(r, "sync")
    /\ UNCHANGED <<exists, home, published, store, ops, mishaps, astray>>

\* Mutated form: only the page itself changes its space.
WriteAcrossAlone(r) ==
    LET tree == {req[r].page}
    IN /\ At(r, "write") /\ Crossing(r)
       /\ \A p \in tree : ~RowLocked(p)
       /\ req' = [req EXCEPT ![r].step = "unlink", ![r].tree = tree]
       /\ UNCHANGED <<rows, store, lock, ops, mishaps, astray>>

\* To another space: the subtree is read and its rows updated, uncommitted.
WriteAcross(r) ==
    LET tree == Subtree(req[r].page)
    IN /\ At(r, "write") /\ Crossing(r)
       /\ \A p \in tree : ~RowLocked(p)
       /\ IF Answers(req[r].page)
          THEN /\ req' = [req EXCEPT ![r].step = "unlink", ![r].tree = tree]
               /\ UNCHANGED lock
          ELSE Done(r) /\ lock' = Unlocked(r)
       /\ UNCHANGED <<rows, store, ops, mishaps, astray>>

\* swapSpaceTuples: only pages linked to the old space, the old link first.
Unlink(r) ==
    LET had == {p \in req[r].tree : req[r].from \in link[p]}
    IN /\ At(r, "unlink")
       /\ link' = [p \in Pages |-> IF p \in had THEN link[p] \ {req[r].from}
                                   ELSE link[p]]
       /\ req' = [req EXCEPT ![r].step = "relink", ![r].hadOld = had]
       /\ UNCHANGED <<rows, up, lock, ops, mishaps, astray>>

\* Mutated form: every page of the subtree is linked.
RelinkAll(r) ==
    /\ At(r, "relink")
    /\ link' = [p \in Pages |-> IF p \in req[r].tree
                                THEN link[p] \cup {req[r].target} ELSE link[p]]
    /\ Goto(r, "commit")
    /\ UNCHANGED <<rows, up, lock, ops, mishaps, astray>>

Relink(r) ==
    /\ At(r, "relink")
    /\ link' = [p \in Pages |-> IF p \in req[r].hadOld
                                THEN link[p] \cup {req[r].target} ELSE link[p]]
    /\ Goto(r, "commit")
    /\ UNCHANGED <<rows, up, lock, ops, mishaps, astray>>

\* The subtree's rows, their new space and the root's parent become visible.
Commit(r) ==
    /\ At(r, "commit")
    /\ home' = [p \in Pages |-> IF p \in req[r].tree THEN req[r].target
                                ELSE home[p]]
    /\ parent' = [parent EXCEPT ![req[r].page] = req[r].to]
    /\ lock' = Unlocked(r)
    /\ Goto(r, "sync")
    /\ UNCHANGED <<exists, published, store, ops, mishaps, astray>>

\* Mutated form: the tuple of the old parent is not deleted.
SyncParentAdds(r) ==
    LET p == req[r].page  old == req[r].old  new == req[r].to
    IN /\ At(r, "sync")
       /\ up' = IF old = new THEN up
                ELSE [up EXCEPT ![p] = @ \cup ({new} \ {None})]
       /\ Done(r)
       /\ UNCHANGED <<rows, link, lock, ops, mishaps, astray>>

\* syncPageParentTuple, after the commit, from the parent read at the start.
SyncParent(r) ==
    LET p == req[r].page  old == req[r].old  new == req[r].to
    IN /\ At(r, "sync")
       /\ up' = IF old = new THEN up
                ELSE [up EXCEPT ![p] = (@ \ {old}) \cup ({new} \ {None})]
       /\ Done(r)
       /\ UNCHANGED <<rows, link, lock, ops, mishaps, astray>>

-----------------------------------------------------------------------------
(* createPage and guestCreatePublishPage: the parent's space and depth are *)
(* read first, the row and its tuples are written without a lock.          *)
BeginCreate(r, op, p, q, s) ==
    /\ op \in {"create", "guest"}
    /\ p \notin exists /\ \A o \in Reqs : req[o].page # p
    /\ q \in exists \cup {None}
    /\ q # None => home[q] = s /\ Depth(q) + 1 <= MaxDepth
    /\ Apart(r, p, q, FALSE)
    /\ Begin(r, op, p,
             [Idle EXCEPT !.step = "insert", !.op = op, !.page = p, !.to = q,
                          !.from = s, !.target = s])

Insert(r) ==
    LET p == req[r].page
    IN /\ At(r, "insert")
       /\ exists' = exists \cup {p}
       /\ home' = [home EXCEPT ![p] = req[r].from]
       /\ parent' = [parent EXCEPT ![p] = req[r].to]
       /\ up' = [up EXCEPT ![p] = {req[r].to} \ {None}]
       /\ IF req[r].op = "guest"
          THEN /\ published' = published \cup {p}
               /\ link' = [link EXCEPT ![p] = {req[r].from}]
          ELSE UNCHANGED <<published, link>>
       /\ Done(r)
       /\ UNCHANGED <<lock, ops, mishaps, astray>>

-----------------------------------------------------------------------------
(* publishPage: the draft's space is read first, the row committed next,   *)
(* the link written last (ensurePageSpaceLink).                            *)
BeginPublish(r, p) ==
    /\ p \in exists
    /\ Apart(r, p, None, FALSE)
    /\ Begin(r, "publish", p,
             [Idle EXCEPT !.step = "release", !.op = "publish", !.page = p,
                          !.from = home[p], !.target = home[p]])

CommitPublished(r) ==
    /\ At(r, "release")
    /\ ~RowLocked(req[r].page)
    /\ published' = published \cup {req[r].page}
    /\ Goto(r, "link")
    /\ UNCHANGED <<exists, home, parent, store, lock, ops, mishaps, astray>>

LinkSpace(r) ==
    /\ At(r, "link")
    /\ link' = [link EXCEPT ![req[r].page] = @ \cup {req[r].from}]
    /\ Done(r)
    /\ UNCHANGED <<rows, up, lock, ops, mishaps, astray>>

-----------------------------------------------------------------------------
(* A store call throws, or the process dies, before the transaction or     *)
(* after it: the transaction rolls back, the tuples stay as they are.      *)
Fail(r) ==
    /\ mishaps < MaxMishaps
    /\ ~At(r, "idle")
    /\ mishaps' = mishaps + 1
    /\ astray' = IF req[r].step \in {"relink", "commit"}
                 THEN astray \cup req[r].hadOld
                 ELSE IF req[r].step \in {"sync", "link"}
                 THEN astray \cup {req[r].page} ELSE astray
    /\ lock' = Unlocked(r)
    /\ Done(r)
    /\ UNCHANGED <<rows, store, ops>>

Step(r) ==
    \/ TakeLock(r) \/ Guard(r) \/ Write(r) \/ WriteAcross(r) \/ Unlink(r)
    \/ Relink(r) \/ Commit(r) \/ SyncParent(r) \/ Insert(r)
    \/ CommitPublished(r) \/ LinkSpace(r)

Next ==
    \E r \in Reqs :
        \/ \E p \in Pages, q \in Parents, s \in Spaces :
             \/ BeginMove(r, p, q, s)
             \/ \E op \in AllOps : BeginCreate(r, op, p, q, s)
        \/ \E p \in Pages : BeginPublish(r, p)
        \/ Step(r)
        \/ Fail(r)

Spec == Init /\ [][Next]_vars
\* A handler that nobody kills goes on, and a lock is granted in the end.
FairSpec == Spec /\ \A r \in Reqs : WF_vars(Step(r)) /\ SF_vars(TakeLock(r))

-----------------------------------------------------------------------------
\* Types; only a row that is there is published, and the locks are held by requests.
TypeOK ==
    /\ exists \subseteq Pages /\ published \subseteq exists
    /\ home \in [Pages -> Spaces]
    /\ parent \in [Pages -> Parents]
    /\ link \in [Pages -> SUBSET Spaces]
    /\ up \in [Pages -> SUBSET Pages]
    /\ lock \in [Spaces -> Reqs \cup {None}]
    /\ req \in [Reqs -> Request]
    /\ ops \in 0..MaxOps /\ mishaps \in 0..MaxMishaps
    /\ astray \subseteq Pages

\* Every family of pages has a root: no page is among its own ancestors.  The
\* walks of pages.ts 2868-2933 answer 500 for the whole family otherwise, and
\* the tree of its space no longer shows it.
Rooted ==
    \A S \in SUBSET exists : S # {} => \E p \in S : parent[p] \notin S

\* A page is in its parent's space (createPage 288: nesting stays within one
\* space); the tree of either space would lose it otherwise.
NestingInSpace ==
    \A p \in exists : parent[p] # None => home[p] = home[parent[p]]

\* A page nobody published is linked to no space, whatever moves it: space
\* members do not see drafts.
DraftsGated == \A p \in Pages : link[p] # {} => p \in published

\* Nobody is at work on the page or on its links.
Quiet(p) == \A r \in Reqs : req[r].page # p /\ p \notin req[r].tree

\* At rest the store agrees with the rows: what a page inherits is what its
\* parent gives, and a published page belongs to its space.
StoreFollowsRows ==
    \A p \in exists \ astray :
        Quiet(p) => /\ up[p] = {parent[p]} \ {None}
                    /\ p \in published => link[p] = {home[p]}

\* A move gets its locks and ends: two moves in opposite directions do not
\* wait for each other.
MovesEnd == \A r \in Reqs : At(r, "lock") ~> At(r, "idle")
=============================================================================
