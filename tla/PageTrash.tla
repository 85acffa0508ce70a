----------------------------- MODULE PageTrash -----------------------------
(***************************************************************************)
(* The life of a page: trash, restore, purge, direct deletion and the      *)
(* hourly sweep that empties the trash and heals it.                       *)
(*                                                                         *)
(* A page is in the trash twice: its row is stamped with the root it went  *)
(* with (deleted_root_id), and its trashed marker in the permission store  *)
(* hides it.  Trashing writes the markers one page at a time and then      *)
(* stamps; restoring deletes the markers and then clears the stamps.  Every *)
(* operation reads the family first and acts on what it read.  A page may  *)
(* be moved meanwhile.  Every page here is published, so that each         *)
(* restored row is told to the search index.                               *)
(***************************************************************************)
EXTENDS Integers, FiniteSets

CONSTANTS
    Pages,
    Tree0,       \* their parents at first
    Trash0,      \* pages in the trash at first, each by itself
    Users,       \* requests that may be in flight
    Sweepers,    \* server processes that run the sweep
    Ops,         \* operations of this instance
    Solo,        \* whether requests keep off each other's families, and
                 \* restoring off the sweep
    MaxOps,      \* bound: operations begun by users
    MaxMishaps,  \* bound: calls that fail, processes that die
    None

AllOps == {"trash", "restore", "purge", "direct", "move"}
Actors == Users \cup Sweepers
Parents == Pages \cup {None}

ASSUME TrashAssumption ==
    /\ IsFiniteSet(Pages) /\ None \notin Pages
    /\ Tree0 \in [Pages -> Parents] /\ Trash0 \subseteq Pages
    /\ \A p \in Pages : Tree0[p] \in Trash0 => p \in Trash0
    /\ Users \cap Sweepers = {}
ASSUME TrashBoundAssumption ==
    /\ MaxOps \in Nat /\ MaxMishaps \in Nat
    /\ Ops \subseteq AllOps /\ Solo \in BOOLEAN

VARIABLES
    exists,   \* pages that have a row
    parent,   \* pages.parent_id
    stamp,    \* pages.deleted_root_id, set with deleted_at
    expired,  \* roots in the trash for longer than the retention
    mark,     \* pages with the trashed marker pair
    owned,    \* pages that have their grants
    intent,   \* the operation of the page's last search_outbox row
    job,      \* what each actor is doing
    ops, mishaps,
    astray,   \* history: pages of an operation that was cut short
    twice     \* history: pages stamped when they were in the trash already

vars == <<exists, parent, stamp, expired, mark, owned, intent, job, ops,
          mishaps, astray, twice>>
rows == <<exists, parent, stamp, expired, intent>>
store == <<mark, owned>>
bounds == <<ops, mishaps, astray, twice>>

Steps == {"idle", "mark", "stamp", "undo", "unmark", "place", "clear", "ids",
          "shred", "erase", "reparent", "orphans", "restamp", "roots", "reap"}
\* ids: the pages the operation read; left: those it has still to do;
\* roots: the expired roots the sweep read.
Job == [step : Steps, op : AllOps \cup {"sweep"}, page : Parents,
        to : Parents, ids : SUBSET Pages, left : SUBSET Pages,
        roots : SUBSET Pages]
Idle == [step |-> "idle", op |-> "sweep", page |-> None, to |-> None,
         ids |-> {}, left |-> {}, roots |-> {}]

\* What is above a page in a tree, itself included: the least set with the page
\* and the parents of all its members.
Closed(tree, S) == \A q \in S : tree[q] = None \/ tree[q] \in S
Above(tree, p) ==
    LET families == {S \in SUBSET Pages : p \in S /\ Closed(tree, S)}
    IN {q \in Pages : \A S \in families : q \in S}
Ancestors(p) == Above(parent, p)
Subtree(p) == {q \in exists : p \in Ancestors(q)}
Family(p) == IF p = None THEN {} ELSE Subtree(p) \cup Ancestors(p)
InTrash(p) == stamp[p] # None

Init ==
    /\ exists = Pages
    /\ parent = Tree0
    /\ stamp = [p \in Pages |-> IF p \in Trash0 THEN p ELSE None]
    /\ expired = {}
    /\ mark = Trash0
    /\ owned = Pages
    /\ intent = [p \in Pages |-> IF p \in Trash0 THEN "delete" ELSE "upsert"]
    /\ job = [k \in Actors |-> Idle]
    /\ ops = 0 /\ mishaps = 0
    /\ astray = {} /\ twice = {}

At(k, step) == job[k].step = step
Busy(k) == ~At(k, "idle")
Become(k, rec) == job' = [job EXCEPT ![k] = rec]
Done(k) == Become(k, Idle)
\* One page of the list is done; with the last one the next step begins.
Tick(k, p, next) ==
    job' = [job EXCEPT ![k].left = @ \ {p},
                       ![k].step = IF job[k].left = {p} THEN next ELSE @]

\* The pages an operation under way is about.
Touched(k) == Family(job[k].page) \cup Family(job[k].to) \cup job[k].ids
                \cup job[k].left

\* Whether an operation on these pages may begin where Solo keeps them apart.
\* Two trashings may meet; restoring and the sweep may not.
Apart(u, op, touched) ==
    Solo => /\ \A o \in Users \ {u} :
                 Busy(o) => \/ op = "trash" /\ job[o].op = "trash"
                            \/ Touched(o) \cap touched = {}
            /\ op \in {"restore", "move"} => \A s \in Sweepers : ~Busy(s)

Begin(u, op, p, touched, rec) ==
    /\ u \in Users /\ ~Busy(u) /\ op \in Ops /\ ops < MaxOps
    /\ p \in exists
    /\ Apart(u, op, touched)
    /\ ops' = ops + 1
    /\ Become(u, [rec EXCEPT !.op = op, !.page = p])
    /\ UNCHANGED <<rows, store, mishaps, astray, twice>>

-----------------------------------------------------------------------------
(* trashPage.  The rows nobody has trashed yet, then a marker for each.    *)
BeginTrash(u, p) ==
    LET fresh == {q \in Subtree(p) : ~InTrash(q)}
    IN /\ ~InTrash(p)
       /\ Begin(u, "trash", p, Family(p),
                [Idle EXCEPT !.step = "mark", !.ids = fresh, !.left = fresh])

Mark(u, p) ==
    /\ At(u, "mark") /\ p \in job[u].left
    /\ mark' = mark \cup {p}
    /\ Tick(u, p, "stamp")
    /\ UNCHANGED <<rows, owned, bounds>>

\* The UPDATE goes by the ids read before and asks nothing of the rows: a page
\* trashed meanwhile is stamped again.
Stamp(u) ==
    LET ids == job[u].ids \cap exists
    IN /\ At(u, "stamp")
       /\ stamp' = [p \in Pages |-> IF p \in ids THEN job[u].page ELSE stamp[p]]
       /\ expired' = expired \ ids
       /\ intent' = [p \in Pages |-> IF p \in ids THEN "delete" ELSE intent[p]]
       /\ twice' = twice \cup {p \in ids : InTrash(p)}
       /\ Done(u)
       /\ UNCHANGED <<exists, parent, store, ops, mishaps, astray>>

\* The transaction throws: the markers are taken back, as far as that works.
StampFails(u) ==
    /\ At(u, "stamp") /\ mishaps < MaxMishaps
    /\ mishaps' = mishaps + 1
    /\ astray' = astray \cup job[u].ids
    /\ Become(u, [job[u] EXCEPT !.step = "undo", !.left = job[u].ids])
    /\ UNCHANGED <<rows, store, ops, twice>>

Undo(u, p) ==
    /\ At(u, "undo") /\ p \in job[u].left
    /\ mark' = mark \ {p}
    /\ Tick(u, p, "idle")
    /\ UNCHANGED <<rows, owned, bounds>>

-----------------------------------------------------------------------------
\* Mutated form: only the root's marker is listed for deletion.
BeginRestoreRoot(u, p) ==
    /\ stamp[p] = p
    /\ Begin(u, "restore", p, Family(p) \cup {q \in exists : stamp[q] = p},
             [Idle EXCEPT !.step = "unmark", !.to = parent[p],
                          !.ids = {p}, !.left = {p}])

(* restorePage.  The rows that went with this root; markers first.         *)
BeginRestore(u, p) ==
    LET ids == {q \in exists : stamp[q] = p}
    IN /\ stamp[p] = p
       /\ Begin(u, "restore", p, Family(p) \cup ids,
                [Idle EXCEPT !.step = "unmark", !.to = parent[p],
                             !.ids = ids, !.left = ids])

Unmark(u, p) ==
    /\ At(u, "unmark") /\ p \in job[u].left
    /\ mark' = mark \ {p}
    /\ Tick(u, p, "place")
    /\ UNCHANGED <<rows, owned, bounds>>

\* Mutated form: the root always goes back under its parent.
PlaceBack(u) ==
    /\ At(u, "place")
    /\ Become(u, [job[u] EXCEPT !.step = "clear", !.to = job[u].page])
    /\ UNCHANGED <<rows, store, bounds>>

\* A root whose parent has gone, or is in the trash, goes to the top level.
Place(u) ==
    LET up == job[u].to
        lost == up # None /\ (up \notin exists \/ InTrash(up))
    IN /\ At(u, "place")
       /\ Become(u, [job[u] EXCEPT !.step = "clear",
                                   !.to = IF lost THEN None ELSE job[u].page])
       /\ UNCHANGED <<rows, store, bounds>>

\* Mutated form: the index is not told.
ClearUnindexed(u) ==
    LET p == job[u].page
        back == {q \in exists : stamp[q] = p}
    IN /\ At(u, "clear")
       /\ stamp' = [q \in Pages |-> IF q \in back THEN None ELSE stamp[q]]
       /\ expired' = expired \ back
       /\ parent' = IF job[u].to = None /\ p \in exists
                    THEN [parent EXCEPT ![p] = None] ELSE parent
       /\ Done(u)
       /\ UNCHANGED <<exists, intent, store, bounds>>

\* Clears by root, whatever was read before; to = None is "reparented".
Clear(u) ==
    LET p == job[u].page
        back == {q \in exists : stamp[q] = p}
    IN /\ At(u, "clear")
       /\ stamp' = [q \in Pages |-> IF q \in back THEN None ELSE stamp[q]]
       /\ expired' = expired \ back
       /\ parent' = IF job[u].to = None /\ p \in exists
                    THEN [parent EXCEPT ![p] = None] ELSE parent
       /\ intent' = [q \in Pages |-> IF q \in job[u].ids \cap exists
                                     THEN "upsert" ELSE intent[q]]
       /\ Done(u)
       /\ UNCHANGED <<exists, store, bounds>>

-----------------------------------------------------------------------------
(* purgePage and directDeletePage, each with its guard; both, and the      *)
(* sweep, go on in physicalDeletePage.                                     *)
BeginPurge(u, p) ==
    /\ stamp[p] = p
    /\ Begin(u, "purge", p, Family(p), [Idle EXCEPT !.step = "ids"])

BeginDirect(u, p) ==
    /\ ~InTrash(p)
    /\ Begin(u, "direct", p, Family(p), [Idle EXCEPT !.step = "ids"])

ReadIds(k) ==
    LET ids == {job[k].page} \cup Subtree(job[k].page)
    IN /\ At(k, "ids")
       /\ Become(k, [job[k] EXCEPT !.step = "shred", !.ids = ids, !.left = ids])
       /\ UNCHANGED <<rows, store, bounds>>

\* Every tuple of one page goes, before any row does.
Shred(k, p) ==
    /\ At(k, "shred") /\ p \in job[k].left
    /\ mark' = mark \ {p}
    /\ owned' = owned \ {p}
    /\ Tick(k, p, "erase")
    /\ UNCHANGED <<rows, bounds>>

\* The row goes and takes, by the foreign key, whatever is below it now.
Erase(k) ==
    LET p == job[k].page
        gone == IF p \in exists THEN Subtree(p) ELSE {}
    IN /\ At(k, "erase")
       /\ exists' = exists \ gone
       /\ stamp' = [q \in Pages |-> IF q \in gone THEN None ELSE stamp[q]]
       /\ expired' = expired \ gone
       /\ intent' = [q \in Pages |-> IF q \in job[k].ids /\ p \in exists
                                     THEN "delete" ELSE intent[q]]
       /\ IF k \in Sweepers /\ p \in exists
          THEN Become(k, [Idle EXCEPT !.step = "reap", !.roots = job[k].roots])
          ELSE Done(k)
       /\ UNCHANGED <<parent, store, bounds>>

-----------------------------------------------------------------------------
(* movePage, as far as the trash goes: neither the page nor the new parent *)
(* is in the trash when they are read.                                     *)
BeginMove(u, p, q) ==
    /\ q \in (exists \cup {None}) \ Subtree(p)
    /\ ~InTrash(p) /\ (q # None => ~InTrash(q))
    /\ Begin(u, "move", p, Family(p) \cup Family(q),
             [Idle EXCEPT !.step = "reparent", !.to = q])

\* The transaction's own walk refuses a cycle; the foreign key a parent that
\* has gone.
Reparent(u) ==
    LET p == job[u].page  q == job[u].to
    IN /\ At(u, "reparent")
       /\ parent' = IF p \in exists /\ q \in (exists \cup {None}) \ Subtree(p)
                    THEN [parent EXCEPT ![p] = q] ELSE parent
       /\ Done(u)
       /\ UNCHANGED <<exists, stamp, expired, intent, store, bounds>>

-----------------------------------------------------------------------------
(* sweepExpiredTrash: the markers once, the pages that have one and no     *)
(* stamp, then the expired roots, then each of them.                       *)
BeginSweep(s) ==
    /\ s \in Sweepers /\ ~Busy(s)
    /\ Solo => \A u \in Users : Busy(u) => job[u].op \notin {"restore", "move"}
    /\ Become(s, [Idle EXCEPT !.step = "orphans", !.left = mark])
    /\ UNCHANGED <<rows, store, bounds>>

\* Mutated form: no reconciliation.
ReadOrphansNone(s) ==
    /\ At(s, "orphans")
    /\ Become(s, [job[s] EXCEPT !.left = {}, !.step = "roots"])
    /\ UNCHANGED <<rows, store, bounds>>

ReadOrphans(s) ==
    /\ At(s, "orphans")
    /\ LET orphans == {p \in job[s].left \cap exists : ~InTrash(p)}
       IN Become(s, [job[s] EXCEPT !.left = orphans,
                       !.step = IF orphans = {} THEN "roots" ELSE "restamp"])
    /\ UNCHANGED <<rows, store, bounds>>

\* UPDATE ... WHERE deleted_at IS NULL, and a search_outbox row either way.
Restamp(s, p) ==
    /\ At(s, "restamp") /\ p \in job[s].left
    /\ stamp' = IF p \in exists /\ ~InTrash(p)
                THEN [stamp EXCEPT ![p] = p] ELSE stamp
    /\ intent' = [intent EXCEPT ![p] = "delete"]
    /\ Tick(s, p, "roots")
    /\ UNCHANGED <<exists, parent, expired, store, bounds>>

ReadRoots(s) ==
    /\ At(s, "roots")
    /\ LET roots == {p \in expired : stamp[p] = p}
       IN Become(s, [job[s] EXCEPT !.step = "reap", !.roots = roots])
    /\ UNCHANGED <<rows, store, bounds>>

\* The next root: physicalDeletePage asks nothing of it any more.
Reap(s, p) ==
    /\ At(s, "reap") /\ p \in job[s].roots
    /\ Become(s, [job[s] EXCEPT !.step = "ids", !.page = p, !.roots = @ \ {p}])
    /\ UNCHANGED <<rows, store, bounds>>

SweepEnds(s) ==
    /\ At(s, "reap") /\ job[s].roots = {}
    /\ Done(s)
    /\ UNCHANGED <<rows, store, bounds>>

-----------------------------------------------------------------------------
\* TRASH_RETENTION_DAYS pass for a root: longer than any request lasts.
Expire(p) ==
    /\ stamp[p] = p /\ p \notin expired
    /\ \A k \in Actors : p \notin Touched(k)
    /\ expired' = expired \cup {p}
    /\ UNCHANGED <<exists, parent, stamp, intent, store, job, bounds>>

\* A store call throws and the operation is abandoned, or the process dies.
Abandon(k) ==
    /\ Busy(k) /\ mishaps < MaxMishaps
    /\ mishaps' = mishaps + 1
    /\ astray' = astray \cup job[k].ids
    /\ Done(k)
    /\ UNCHANGED <<rows, store, ops, twice>>

SweepStep(s) ==
    \/ BeginSweep(s) \/ ReadOrphans(s) \/ ReadRoots(s) \/ SweepEnds(s)
    \/ ReadIds(s) \/ Erase(s)
    \/ \E p \in Pages : Restamp(s, p) \/ Reap(s, p) \/ Shred(s, p)

UserStep(u) ==
    \/ Stamp(u) \/ Place(u) \/ Clear(u) \/ ReadIds(u) \/ Erase(u) \/ Reparent(u)
    \/ \E p \in Pages : Mark(u, p) \/ Undo(u, p) \/ Unmark(u, p) \/ Shred(u, p)

UserBegins(u) ==
    \E p \in Pages :
        \/ BeginTrash(u, p) \/ BeginRestore(u, p) \/ BeginPurge(u, p)
        \/ BeginDirect(u, p) \/ \E q \in Parents : BeginMove(u, p, q)

Next ==
    \/ \E u \in Users : UserBegins(u) \/ UserStep(u) \/ StampFails(u)
    \/ \E s \in Sweepers : SweepStep(s)
    \/ \E k \in Actors : Abandon(k)
    \/ \E p \in Pages : Expire(p)

Spec == Init /\ [][Next]_vars
\* The sweep is a timer of a live process; a handler goes on unless it dies.
FairSpec == /\ Spec
            /\ \A s \in Sweepers : WF_vars(SweepStep(s))
            /\ \A u \in Users : WF_vars(UserStep(u))

-----------------------------------------------------------------------------
\* Types; the retention of a page expires only where the page heads a trash entry.
TypeOK ==
    /\ exists \subseteq Pages
    /\ parent \in [Pages -> Parents]
    /\ stamp \in [Pages -> Parents]
    /\ \A p \in expired : p \in exists /\ stamp[p] = p
    /\ mark \subseteq Pages /\ owned \subseteq Pages
    /\ intent \in [Pages -> {"upsert", "delete"}]
    /\ job \in [Actors -> Job]
    /\ ops \in 0..MaxOps /\ mishaps \in 0..MaxMishaps
    /\ astray \subseteq Pages /\ twice \subseteq Pages

Rest(p) == /\ p \in exists /\ Ancestors(p) \cap astray = {}
           /\ \A k \in Actors : Busy(k) => p \notin Touched(k)

\* At rest a page is hidden exactly if the trash lists it, and exactly then the
\* search index was last told to drop it: nothing is in the trash and still
\* visible or found, nothing is hidden and nowhere to be found.
HiddenIffListed ==
    \A p \in Pages : \/ /\ p \in mark <=> InTrash(p)
                        /\ intent[p] = "delete" <=> InTrash(p)
                     \/ ~Rest(p)

\* A page outside the trash hangs below pages outside the trash: the tree
\* shows it, and no purge takes it along.  Excused are pages two trashings
\* stamped: a restoration of one root leaves them with the other.
LiveUnderLive ==
    \A p \in Pages :
        parent[p] # None /\ ~InTrash(p) /\ {p, parent[p]} \cap twice = {} /\ Rest(p) =>
        (parent[p] \in exists /\ ~InTrash(parent[p]))

\* A page that is hidden and not listed is found: the sweep lists it again.
OrphansHeal ==
    \A p \in Pages :
        (p \in exists /\ p \in mark /\ ~InTrash(p)) ~>
            ~(p \in exists /\ p \in mark /\ ~InTrash(p))
=============================================================================
