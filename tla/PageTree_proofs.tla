--------------------------- MODULE PageTree_proofs ---------------------------
(***************************************************************************)
(* Theorems about PageTree for every tree, every set of spaces and of      *)
(* requests, whatever fails, is lost or meets, with Solo or without: a     *)
(* draft is linked to no space, and every state is well typed.             *)
(***************************************************************************)
EXTENDS PageTree, TLAPS, WellFoundedInduction

Ids == Spaces \cup {Space1}
Handled == [step : Steps, op : AllOps, page : Parents, to : Parents,
            from : Ids, target : Ids, old : Parents,
            tree : SUBSET Pages, hadOld : SUBSET Pages]

\* The types this needs; a row that is there, or is published, is a page's.
Types ==
    /\ exists \subseteq Pages /\ published \subseteq Pages
    /\ home \in [Pages -> Ids] /\ parent \in [Pages -> Parents]
    /\ link \in [Pages -> SUBSET Ids]
    /\ req \in [Reqs -> Handled]

\* What a request will link is published: a move the pages it found linked, a
\* publication the page it has committed.
LinksInHand ==
    \A r \in Reqs :
        /\ req[r].hadOld \subseteq published
        /\ req[r].step \in {"insert", "release"} => req[r].page \in Pages
        /\ req[r].step = "link" => req[r].page \in published

IInv == Types /\ LinksInHand /\ DraftsGated

\* A request at rest is well typed and has nothing to link.
LEMMA IdleHandled == Idle \in Handled /\ Idle.hadOld = {} /\ Idle.step = "idle"
BY DEF Idle, Handled, Steps, AllOps, Parents, Ids

\* The invariant holds at the start.
LEMMA InitInv == Init => IInv
<1> SUFFICES ASSUME Init
             PROVE  IInv
    OBVIOUS
<1>1. /\ exists \subseteq Pages /\ published \subseteq Pages /\ home \in [Pages -> Ids]
      /\ parent \in [Pages -> Parents]
      BY TreeAssumption DEF Init, Ids, Parents
<1>2. link \in [Pages -> SUBSET Ids] /\ req \in [Reqs -> Handled]
      BY IdleHandled, TreeAssumption DEF Init, Ids
<1>3. LinksInHand
      BY IdleHandled DEF Init, LinksInHand
<1>4. DraftsGated
      BY DEF Init, DraftsGated
<1> QED  BY <1>1, <1>2, <1>3, <1>4 DEF IInv, Types

\* A step that leaves links and published pages as they are.
LEMMA MoveOnInv ==
    ASSUME IInv, UNCHANGED <<link, published, exists>>,
           home' \in [Pages -> Ids], parent' \in [Pages -> Parents],
           NEW r \in Reqs, NEW x \in Handled, req' = [req EXCEPT ![r] = x],
           x.hadOld \subseteq published,
           x.step \in {"insert", "release"} => x.page \in Pages,
           x.step # "link"
    PROVE  IInv'
BY DEF IInv, Types, LinksInHand, DraftsGated

\* Every step keeps it, one case per action.
LEMMA StepInv == IInv /\ [Next]_vars => IInv'
<1> SUFFICES ASSUME IInv, [Next]_vars
             PROVE  IInv'
    OBVIOUS
<1> USE DEF rows, store, At, Goto, Done
<1>0. \A r \in Reqs : req[r] \in Handled /\ req[r].hadOld \subseteq published
      BY DEF IInv, Types, LinksInHand
<1>1. ASSUME NEW r \in Reqs, NEW p \in Pages, NEW q \in Parents, NEW s \in Spaces,
             BeginMove(r, p, q, s)
      PROVE  IInv'
  <2> DEFINE x == [Idle EXCEPT !.step = "lock", !.op = "move", !.page = p,
                               !.to = q, !.from = home[p], !.target = s,
                               !.old = parent[p]]
  <2>1. x \in Handled /\ x.hadOld = {} /\ x.step = "lock"
        BY IdleHandled DEF IInv, Types, Handled, Steps, AllOps, Parents, Ids
  <2>2. req' = [req EXCEPT ![r] = x] /\ UNCHANGED <<rows, link>>
        BY <1>1 DEF BeginMove, Begin
  <2> HIDE DEF x
  <2> QED  BY <2>1, <2>2, MoveOnInv DEF IInv, Types
<1>2. ASSUME NEW r \in Reqs, NEW p \in Pages, NEW q \in Parents, NEW s \in Spaces,
             NEW op \in AllOps, BeginCreate(r, op, p, q, s)
      PROVE  IInv'
  <2> DEFINE x == [Idle EXCEPT !.step = "insert", !.op = op, !.page = p, !.to = q,
                               !.from = s, !.target = s]
  <2>1. x \in Handled /\ x.hadOld = {} /\ x.step = "insert" /\ x.page = p
        BY IdleHandled DEF Handled, Steps, Parents, Ids
  <2>2. req' = [req EXCEPT ![r] = x] /\ UNCHANGED <<rows, link>>
        BY <1>2 DEF BeginCreate, Begin
  <2> HIDE DEF x
  <2> QED  BY <2>1, <2>2, MoveOnInv DEF IInv, Types
<1>3. ASSUME NEW r \in Reqs, NEW p \in Pages, BeginPublish(r, p)
      PROVE  IInv'
  <2> DEFINE x == [Idle EXCEPT !.step = "release", !.op = "publish", !.page = p,
                               !.from = home[p], !.target = home[p]]
  <2>1. x \in Handled /\ x.hadOld = {} /\ x.step = "release" /\ x.page = p
        BY IdleHandled DEF IInv, Types, Handled, Steps, AllOps, Parents, Ids
  <2>2. req' = [req EXCEPT ![r] = x] /\ UNCHANGED <<rows, link>>
        BY <1>3 DEF BeginPublish, Begin
  <2> HIDE DEF x
  <2> QED  BY <2>1, <2>2, MoveOnInv DEF IInv, Types
<1>4. ASSUME NEW r \in Reqs, NEW step \in Steps \ {"insert", "release", "link"},
             req' = [req EXCEPT ![r].step = step], UNCHANGED <<link, published, exists>>,
             home' \in [Pages -> Ids], parent' \in [Pages -> Parents]
      PROVE  IInv'
  <2> DEFINE x == [req[r] EXCEPT !.step = step]
  <2>1. x \in Handled /\ x.hadOld = req[r].hadOld /\ x.step = step
        BY <1>0 DEF Handled
  <2>2. req' = [req EXCEPT ![r] = x]
        BY <1>4
  <2> HIDE DEF x
  <2> QED  BY <1>0, <1>4, <2>1, <2>2, MoveOnInv
<1>5. ASSUME NEW r \in Reqs, req' = [req EXCEPT ![r] = Idle],
             UNCHANGED <<link, published, exists, home, parent>>
      PROVE  IInv'
      BY <1>5, IdleHandled, MoveOnInv DEF IInv, Types
<1>6. ASSUME NEW r \in Reqs, TakeLock(r) \/ Guard(r)
      PROVE  IInv'
  <2>1. UNCHANGED <<link, published, exists, home, parent>>
        BY <1>6 DEF TakeLock, Guard
  <2>2. \/ \E step \in {"guard", "lock", "write"} : req' = [req EXCEPT ![r].step = step]
        \/ req' = [req EXCEPT ![r] = Idle]
        BY <1>6 DEF TakeLock, Guard
  <2> QED  BY <1>4, <1>5, <2>1, <2>2 DEF IInv, Types, Steps
<1>7. ASSUME NEW r \in Reqs, Write(r) \/ Commit(r)
      PROVE  IInv'
  <2>1. req[r].to \in Parents /\ req[r].target \in Ids
        BY <1>0 DEF Handled
  <2>2. home' \in [Pages -> Ids] /\ parent' \in [Pages -> Parents]
        BY <1>7, <2>1 DEF Write, Commit, IInv, Types
  <2>3. req' = [req EXCEPT ![r].step = "sync"] /\ UNCHANGED <<link, published, exists>>
        BY <1>7 DEF Write, Commit
  <2> QED  BY <1>4, <2>2, <2>3 DEF Steps
<1>8. ASSUME NEW r \in Reqs, WriteAcross(r)
      PROVE  IInv'
  <2> DEFINE tree == Subtree(req[r].page)
             x == [req[r] EXCEPT !.step = "unlink", !.tree = tree]
  <2>1. tree \in SUBSET Pages
        BY DEF Subtree, IInv, Types
  <2>2. /\ req' = [req EXCEPT ![r] = x] \/ req' = [req EXCEPT ![r] = Idle]
        /\ UNCHANGED <<rows, link>>
        BY <1>8 DEF WriteAcross
  <2> HIDE DEF tree
  <2>3. x \in Handled /\ x.hadOld = req[r].hadOld /\ x.step = "unlink"
        BY <1>0, <2>1 DEF Handled, Steps
  <2> HIDE DEF x
  <2>4. CASE req' = [req EXCEPT ![r] = x]
        BY <1>0, <2>2, <2>3, <2>4, MoveOnInv DEF IInv, Types
  <2> QED  BY <1>5, <2>2, <2>4
<1>9. ASSUME NEW r \in Reqs, Unlink(r)
      PROVE  IInv'
  <2> DEFINE had == {p \in req[r].tree : req[r].from \in link[p]}
             x == [req[r] EXCEPT !.step = "relink", !.hadOld = had]
  <2>1. /\ link' = [p \in Pages |-> IF p \in had THEN link[p] \ {req[r].from}
                                    ELSE link[p]]
        /\ req' = [req EXCEPT ![r] = x] /\ UNCHANGED rows
        BY <1>9 DEF Unlink
  <2>2. had \in SUBSET Pages /\ had \subseteq published
        BY <1>0 DEF Handled, IInv, DraftsGated
  <2> HIDE DEF had
  <2>3. x \in Handled /\ x.hadOld = had /\ x.step = "relink"
        BY <1>0, <2>2 DEF Handled, Steps
  <2>4. /\ link' \in [Pages -> SUBSET Ids]
        /\ \A p \in Pages : link'[p] \subseteq link[p]
        BY <2>1 DEF IInv, Types
  <2> HIDE DEF x
  <2>5. req' \in [Reqs -> Handled] /\ req'[r] = x
        BY <2>1, <2>3 DEF IInv, Types
  <2>6. Types' /\ DraftsGated'
        BY <2>1, <2>4, <2>5 DEF IInv, Types, DraftsGated
  <2>7. LinksInHand'
        BY <2>1, <2>2, <2>3, <2>5 DEF IInv, Types, LinksInHand
  <2> QED  BY <2>6, <2>7 DEF IInv
<1>10. ASSUME NEW r \in Reqs, Relink(r)
       PROVE  IInv'
  <2>1. /\ link' = [p \in Pages |-> IF p \in req[r].hadOld
                                    THEN link[p] \cup {req[r].target} ELSE link[p]]
        /\ req' = [req EXCEPT ![r].step = "commit"] /\ UNCHANGED rows
        BY <1>10 DEF Relink
  <2>2. link' \in [Pages -> SUBSET Ids]
        BY <1>0, <2>1 DEF IInv, Types, Handled
  <2>3. /\ req' \in [Reqs -> Handled] /\ req'[r].hadOld = req[r].hadOld
        /\ req'[r].step = "commit"
        BY <1>0, <2>1 DEF IInv, Types, Handled, Steps
  <2>4. Types' /\ DraftsGated'
        BY <1>0, <2>1, <2>2, <2>3 DEF IInv, Types, DraftsGated
  <2>5. LinksInHand'
        BY <2>1, <2>3 DEF IInv, Types, LinksInHand
  <2> QED  BY <2>4, <2>5 DEF IInv
<1>11. ASSUME NEW r \in Reqs, SyncParent(r)
       PROVE  IInv'
      BY <1>5, <1>11 DEF SyncParent
<1>12. ASSUME NEW r \in Reqs, Insert(r)
       PROVE  IInv'
  <2> DEFINE p == req[r].page
  <2>1. /\ p \in Pages /\ req[r].to \in Parents /\ req[r].from \in Ids
        /\ exists' = exists \cup {p} /\ home' = [home EXCEPT ![p] = req[r].from]
        /\ parent' = [parent EXCEPT ![p] = req[r].to]
        /\ req' = [req EXCEPT ![r] = Idle]
        /\ \/ published' = published \cup {p} /\ link' = [link EXCEPT ![p] = {req[r].from}]
           \/ UNCHANGED <<published, link>>
        BY <1>0, <1>12 DEF Insert, IInv, LinksInHand, Handled
  <2> HIDE DEF p
  <2>2. req' \in [Reqs -> Handled] /\ req'[r] = Idle
        BY <2>1, IdleHandled DEF IInv, Types
  <2>3. Types' /\ DraftsGated'
        BY <2>1, <2>2 DEF IInv, Types, DraftsGated
  <2>4. LinksInHand'
        BY <2>1, <2>2, IdleHandled DEF IInv, Types, LinksInHand
  <2> QED  BY <2>3, <2>4 DEF IInv
<1>13. ASSUME NEW r \in Reqs, CommitPublished(r)
       PROVE  IInv'
  <2>1. /\ req[r].page \in Pages /\ published' = published \cup {req[r].page}
        /\ req' = [req EXCEPT ![r].step = "link"]
        /\ UNCHANGED <<exists, home, parent, link>>
        BY <1>13 DEF CommitPublished, IInv, LinksInHand
  <2>2. /\ req' \in [Reqs -> Handled] /\ req'[r].hadOld = req[r].hadOld
        /\ req'[r].page = req[r].page /\ req'[r].step = "link"
        BY <1>0, <2>1 DEF IInv, Types, Handled, Steps
  <2>3. Types' /\ DraftsGated'
        BY <2>1, <2>2 DEF IInv, Types, DraftsGated
  <2>4. LinksInHand'
        BY <2>1, <2>2 DEF IInv, Types, LinksInHand
  <2> QED  BY <2>3, <2>4 DEF IInv
<1>14. ASSUME NEW r \in Reqs, LinkSpace(r)
       PROVE  IInv'
  <2>1. /\ req[r].page \in published /\ req[r].from \in Ids
        /\ link' = [link EXCEPT ![req[r].page] = @ \cup {req[r].from}]
        /\ req' = [req EXCEPT ![r] = Idle] /\ UNCHANGED rows
        BY <1>0, <1>14 DEF LinkSpace, IInv, LinksInHand, Handled
  <2>2. req' \in [Reqs -> Handled] /\ req'[r] = Idle
        BY <2>1, IdleHandled DEF IInv, Types
  <2>3. Types' /\ DraftsGated'
        BY <2>1, <2>2 DEF IInv, Types, DraftsGated
  <2>4. LinksInHand'
        BY <2>1, <2>2, IdleHandled DEF IInv, Types, LinksInHand
  <2> QED  BY <2>3, <2>4 DEF IInv
<1>15. ASSUME NEW r \in Reqs, Fail(r)
       PROVE  IInv'
      BY <1>5, <1>15 DEF Fail
<1>16. CASE UNCHANGED vars
      BY <1>16 DEF vars, IInv, Types, LinksInHand, DraftsGated
<1> QED  BY <1>1, <1>2, <1>3, <1>6, <1>7, <1>8, <1>9, <1>10, <1>11, <1>12, <1>13, <1>14,
            <1>15, <1>16
         DEF Next, Step

\* The inductive invariant holds of every behaviour.
THEOREM Invariance == Spec => []IInv
BY InitInv, StepInv, PTL DEF Spec

\* No draft is linked to a space, whatever moves, fails or is published beside
\* what: a move gives the new space the pages it found linked to the old one, a
\* publication links after its commit.
THEOREM DraftsStayGated == Spec => []DraftsGated
<1>1. IInv => DraftsGated
      BY DEF IInv
<1> QED  BY <1>1, Invariance, PTL

-----------------------------------------------------------------------------
(* Types, whatever requests meet. *)

\* Induction for sets of numbers.
LEMMA Least ==
    ASSUME NEW T \in SUBSET Nat, T # {}
    PROVE  \E n \in T : \A m \in T : n <= m
<1> DEFINE R == OpToRel(<, Nat)
<1>1. \E n \in T : \A m \in T : ~ (<<m, n>> \in R)
      BY NatLessThanWellFounded, WFMin, Zenon
<1>2. \A m, n \in Nat : m < n => <<m, n>> \in R
      BY Zenon DEF OpToRel
<1> HIDE DEF R
<1>3. PICK n \in T : \A m \in T : ~ (<<m, n>> \in R)
      BY <1>1
<1>4. ASSUME NEW m \in T
      PROVE  n <= m
  <2>1. m \in Nat /\ n \in Nat
        OBVIOUS
  <2>2. ~ (m < n)
        BY <1>2, <1>3, <2>1
  <2> QED  BY <2>1, <2>2
<1> QED  BY <1>4

\* A request is about a page that is there, or one it is about to create.
Pertinent ==
    \A r \in Reqs :
        /\ req[r].step = "insert" => req[r].page \in Pages
        /\ req[r].step \notin {"idle", "insert"} => req[r].page \in exists
        /\ req[r].tree \subseteq exists /\ req[r].to \in exists \cup {None}

TypeInv == TypeOK /\ Pertinent

\* A request that asks for nothing is well typed.
LEMMA IdleTyped == Spaces # {} => Idle \in Request
<1> SUFFICES ASSUME Spaces # {}
             PROVE  Idle \in Request
    OBVIOUS
<1>1. \E s \in Spaces : \A t \in Spaces : s <= t
      BY Least, SpacesAssumption
<1>2. Space1 \in Spaces
      BY <1>1 DEF Space1
<1> QED  BY <1>2 DEF Idle, Request, Steps, AllOps, Parents

\* Whatever a step does to one request, it stays about a page that is there.
LEMMA RequestTyped ==
    ASSUME TypeInv, NEW r \in Reqs, NEW x \in Request, req' = [req EXCEPT ![r] = x],
           exists \subseteq exists',
           x.step = "insert" => x.page \in Pages,
           x.step \notin {"idle", "insert"} => x.page \in exists',
           x.tree \subseteq exists', x.to \in exists' \cup {None}
    PROVE  req' \in [Reqs -> Request] /\ Pertinent'
BY DEF TypeInv, TypeOK, Pertinent

\* Letting go of a lock keeps the locks well typed.
LEMMA UnlockedTyped ==
    ASSUME TypeInv, NEW r
    PROVE  Unlocked(r) \in [Spaces -> Reqs \cup {None}]
BY DEF TypeInv, TypeOK, Unlocked

\* A move that only goes on: its locks, its step, the parent it sets.
LEMMA MoveTyped ==
    ASSUME TypeInv, NEW r \in Reqs, NEW x \in Request, req' = [req EXCEPT ![r] = x],
           x.step \notin {"idle", "insert"} => x.page \in exists,
           x.step # "insert", x.tree \subseteq exists, x.to \in exists \cup {None},
           UNCHANGED <<exists, published, ops, mishaps, astray>>,
           lock' \in [Spaces -> Reqs \cup {None}], home' \in [Pages -> Spaces],
           parent' \in [Pages -> Parents],
           link' \in [Pages -> SUBSET Spaces], up' \in [Pages -> SUBSET Pages]
    PROVE  TypeInv'
<1>1. req' \in [Reqs -> Request] /\ Pertinent'
      BY RequestTyped
<1> QED  BY <1>1 DEF TypeInv, TypeOK

\* The same for a request that only changes its step.
LEMMA AdvanceTyped ==
    ASSUME TypeInv, NEW r \in Reqs, NEW t \in Steps \ {"idle", "insert"}, Goto(r, t),
           ~At(r, "idle"), ~At(r, "insert"),
           UNCHANGED <<exists, published, ops, mishaps, astray>>,
           lock' \in [Spaces -> Reqs \cup {None}], home' \in [Pages -> Spaces],
           parent' \in [Pages -> Parents],
           link' \in [Pages -> SUBSET Spaces], up' \in [Pages -> SUBSET Pages]
    PROVE  TypeInv'
<1> DEFINE x == [req[r] EXCEPT !.step = t]
<1>1. req' = [req EXCEPT ![r] = x]
      BY DEF Goto
<1>2. /\ req[r] \in Request /\ req[r].page \in exists
      /\ req[r].tree \subseteq exists /\ req[r].to \in exists \cup {None}
      BY DEF TypeInv, TypeOK, Pertinent, At
<1>3. /\ x \in Request /\ x.step = t /\ x.page = req[r].page
      /\ x.tree = req[r].tree /\ x.to = req[r].to
      BY <1>2 DEF Request
<1> HIDE DEF x
<1> QED  BY <1>1, <1>2, <1>3, MoveTyped

\* Every step of a request keeps the types.
LEMMA StepTyped ==
    ASSUME TypeInv, NEW r \in Reqs, Step(r), Spaces # {}
    PROVE  TypeInv'
<1>1. /\ Idle \in Request /\ Idle.step = "idle" /\ Idle.tree = {} /\ Idle.to = None
      BY IdleTyped DEF Idle
<1>2. /\ req \in [Reqs -> Request] /\ req[r] \in Request
      /\ req[r].to \in Parents /\ req[r].page \in Parents
      /\ req[r].from \in Spaces /\ req[r].target \in Spaces
      /\ req[r].tree \subseteq exists /\ req[r].to \in exists \cup {None}
      /\ exists \subseteq Pages
      BY DEF TypeInv, TypeOK, Request, Pertinent
<1>3. /\ lock \in [Spaces -> Reqs \cup {None}]
      /\ Unlocked(r) \in [Spaces -> Reqs \cup {None}]
      /\ home \in [Pages -> Spaces] /\ parent \in [Pages -> Parents]
      /\ link \in [Pages -> SUBSET Spaces] /\ up \in [Pages -> SUBSET Pages]
      /\ published \subseteq exists
      BY UnlockedTyped DEF TypeInv, TypeOK
<1>4. ASSUME NEW t \in Steps
      PROVE  /\ [req[r] EXCEPT !.step = t] \in Request
             /\ [req[r] EXCEPT !.step = t].step = t
             /\ [req[r] EXCEPT !.step = t].page = req[r].page
             /\ [req[r] EXCEPT !.step = t].tree = req[r].tree
             /\ [req[r] EXCEPT !.step = t].to = req[r].to
      BY <1>2 DEF Request
<1>5. ~At(r, "idle") /\ ~At(r, "insert") => req[r].page \in exists /\ req[r].page \in Pages
      BY <1>2 DEF At, TypeInv, Pertinent
<1>6. CASE TakeLock(r)
  <2>1. PICK t \in {"guard", "lock"} : (\E s : lock' = [lock EXCEPT ![s] = r]) /\ Goto(r, t)
        BY <1>6 DEF TakeLock
  <2>2. At(r, "lock") /\ UNCHANGED <<rows, store, ops, mishaps, astray>>
        BY <1>6 DEF TakeLock
  <2>3. lock' \in [Spaces -> Reqs \cup {None}]
        BY <1>3, <2>1
  <2> QED  BY <1>3, <2>1, <2>2, <2>3, AdvanceTyped DEF rows, store, At, Steps
<1>7. CASE Guard(r)
  <2>1. CASE Fits(req[r].page, req[r].to)
    <3>1. Goto(r, "write") /\ lock' = lock
          BY <1>7, <2>1 DEF Guard
    <3> QED  BY <1>3, <1>7, <3>1, AdvanceTyped DEF Guard, rows, store, At, Steps
  <2>2. CASE ~Fits(req[r].page, req[r].to)
        BY <1>1, <1>3, <1>7, <2>2, MoveTyped DEF Guard, Done, rows, store
  <2> QED  BY <2>1, <2>2
<1>8. CASE Write(r)
  <2>1. Goto(r, "sync") /\ lock' = Unlocked(r) /\ parent' \in [Pages -> Parents]
        BY <1>2, <1>3, <1>8 DEF Write
  <2> QED  BY <1>3, <1>8, <2>1, AdvanceTyped DEF Write, store, At, Steps
<1>9. CASE WriteAcross(r)
  <2>1. CASE Answers(req[r].page)
    <3> DEFINE x == [req[r] EXCEPT !.step = "unlink", !.tree = Subtree(req[r].page)]
    <3>1. req' = [req EXCEPT ![r] = x] /\ lock' = lock
          BY <1>9, <2>1 DEF WriteAcross
    <3>2. Subtree(req[r].page) \subseteq exists
          BY DEF Subtree
    <3>3. /\ x \in Request /\ x.step = "unlink" /\ x.page = req[r].page
          /\ x.tree = Subtree(req[r].page) /\ x.to = req[r].to
          BY <1>2, <3>2 DEF Request, Steps
    <3> HIDE DEF x
    <3> QED  BY <1>2, <1>3, <1>5, <1>9, <3>1, <3>2, <3>3, MoveTyped
             DEF WriteAcross, rows, store, At
  <2>2. CASE ~Answers(req[r].page)
        BY <1>1, <1>3, <1>9, <2>2, MoveTyped DEF WriteAcross, Done, rows, store
  <2> QED  BY <2>1, <2>2
<1>10. CASE Unlink(r)
  <2> DEFINE had == {p \in req[r].tree : req[r].from \in link[p]}
             x == [req[r] EXCEPT !.step = "relink", !.hadOld = had]
  <2>1. req' = [req EXCEPT ![r] = x] /\ link' \in [Pages -> SUBSET Spaces]
        BY <1>3, <1>10 DEF Unlink
  <2>2. had \subseteq Pages
        BY <1>2
  <2>3. /\ x \in Request /\ x.step = "relink" /\ x.page = req[r].page
        /\ x.tree = req[r].tree /\ x.to = req[r].to
        BY <1>2, <2>2 DEF Request, Steps
  <2> HIDE DEF x
  <2> QED  BY <1>2, <1>3, <1>5, <1>10, <2>1, <2>3, MoveTyped DEF Unlink, rows, At
<1>11. CASE Relink(r)
  <2>1. Goto(r, "commit") /\ link' \in [Pages -> SUBSET Spaces]
        BY <1>2, <1>3, <1>11 DEF Relink
  <2> QED  BY <1>3, <1>11, <2>1, AdvanceTyped DEF Relink, rows, At, Steps
<1>12. CASE Commit(r)
  <2>1. /\ Goto(r, "sync") /\ lock' = Unlocked(r)
        /\ parent' \in [Pages -> Parents] /\ home' \in [Pages -> Spaces]
        BY <1>2, <1>3, <1>12 DEF Commit
  <2> QED  BY <1>3, <1>12, <2>1, AdvanceTyped DEF Commit, store, At, Steps
<1>13. CASE SyncParent(r)
  <2>1. {req[r].to} \ {None} \subseteq Pages
        BY <1>2
  <2>2. up' \in [Pages -> SUBSET Pages]
        BY <1>3, <1>13, <2>1 DEF SyncParent
  <2> QED  BY <1>1, <1>3, <1>13, <2>2, MoveTyped DEF SyncParent, Done, rows
<1>14. CASE Insert(r)
  <2>1. req[r].page \in Pages /\ {req[r].to} \ {None} \subseteq Pages
        BY <1>2, <1>14 DEF Insert, At, TypeInv, Pertinent
  <2>2. exists' = exists \cup {req[r].page} /\ req' = [req EXCEPT ![r] = Idle]
        BY <1>14 DEF Insert, Done
  <2>3. req' \in [Reqs -> Request] /\ Pertinent'
        BY <1>1, <2>2, RequestTyped
  <2>4. /\ home' \in [Pages -> Spaces] /\ parent' \in [Pages -> Parents]
        /\ up' \in [Pages -> SUBSET Pages]
        BY <1>2, <1>3, <1>14, <2>1 DEF Insert
  <2>5. published' \subseteq exists' /\ link' \in [Pages -> SUBSET Spaces]
        BY <1>2, <1>3, <1>14, <2>1, <2>2 DEF Insert
  <2>6. UNCHANGED <<lock, ops, mishaps, astray>>
        BY <1>14 DEF Insert
  <2> QED  BY <2>1, <2>2, <2>3, <2>4, <2>5, <2>6 DEF TypeInv, TypeOK
<1>15. CASE CommitPublished(r)
  <2> DEFINE x == [req[r] EXCEPT !.step = "link"]
  <2>1. /\ req' = [req EXCEPT ![r] = x]
        /\ UNCHANGED <<exists, home, parent, store, lock, ops, mishaps, astray>>
        /\ published' = published \cup {req[r].page} /\ req[r].page \in exists
        BY <1>5, <1>15 DEF CommitPublished, Goto, At
  <2>2. /\ x \in Request /\ x.step = "link" /\ x.page = req[r].page
        /\ x.tree = req[r].tree /\ x.to = req[r].to
        BY <1>4 DEF Steps
  <2> HIDE DEF x
  <2>3. req' \in [Reqs -> Request] /\ Pertinent'
        BY <1>2, <2>1, <2>2, RequestTyped
  <2> QED  BY <2>1, <2>3 DEF TypeInv, TypeOK, store
<1>16. CASE LinkSpace(r)
  <2>1. link' \in [Pages -> SUBSET Spaces]
        BY <1>2, <1>3, <1>16 DEF LinkSpace
  <2> QED  BY <1>1, <1>3, <1>16, <2>1, MoveTyped DEF LinkSpace, Done, rows
<1> QED  BY <1>6, <1>7, <1>8, <1>9, <1>10, <1>11, <1>12, <1>13, <1>14, <1>15, <1>16 DEF Step

\* A new request is about pages that are there or, to be created, are not yet.
LEMMA BeginTyped ==
    ASSUME TypeInv, NEW r \in Reqs, NEW x \in Request, NEW op, NEW p, Begin(r, op, p, x),
           x.step = "insert" => x.page \in Pages,
           x.step \notin {"idle", "insert"} => x.page \in exists,
           x.tree = {}, x.to \in exists \cup {None}
    PROVE  TypeInv'
<1>1. /\ req' = [req EXCEPT ![r] = x] /\ ops < MaxOps /\ ops' = ops + 1
      /\ UNCHANGED <<exists, home, parent, published, link, up, lock, mishaps, astray>>
      BY DEF Begin, rows, store
<1>2. req' \in [Reqs -> Request] /\ Pertinent'
      BY <1>1, RequestTyped
<1>3. ops' \in 0..MaxOps
      BY <1>1, BoundAssumption DEF TypeInv, TypeOK
<1> QED  BY <1>1, <1>2, <1>3 DEF TypeInv, TypeOK

\* Every step keeps the types.
LEMMA NextTyped == Spaces # {} /\ TypeInv /\ [Next]_vars => TypeInv'
<1> SUFFICES ASSUME Spaces # {}, TypeInv, [Next]_vars
             PROVE  TypeInv'
    OBVIOUS
<1>1. Idle \in Request /\ Idle.step = "idle" /\ Idle.tree = {} /\ Idle.to = None
      BY IdleTyped DEF Idle
<1>2. exists \subseteq Pages /\ home \in [Pages -> Spaces] /\ parent \in [Pages -> Parents]
      BY DEF TypeInv, TypeOK
<1>3. CASE UNCHANGED vars
      BY <1>3 DEF vars, TypeInv, TypeOK, Pertinent
<1>4. ASSUME NEW r \in Reqs, NEW p \in Pages, NEW q \in Parents, NEW s \in Spaces,
             BeginMove(r, p, q, s)
      PROVE  TypeInv'
  <2> DEFINE t == IF q = None THEN s ELSE home[q]
             x == [Idle EXCEPT !.step = "lock", !.op = "move", !.page = p, !.to = q,
                               !.from = home[p], !.target = t, !.old = parent[p]]
  <2>1. p \in exists /\ q \in exists \cup {None} /\ Begin(r, "move", p, x)
        BY <1>4 DEF BeginMove
  <2>2. t \in Spaces /\ home[p] \in Spaces /\ parent[p] \in Parents
        BY <1>2, <2>1
  <2> HIDE DEF t
  <2>3. x \in Request /\ x.step = "lock" /\ x.page = p /\ x.tree = {} /\ x.to = q
        BY <1>1, <2>2 DEF Request, Steps, AllOps, Parents
  <2> HIDE DEF x
  <2> QED  BY <2>1, <2>3, BeginTyped
<1>5. ASSUME NEW r \in Reqs, NEW p \in Pages, NEW q \in Parents, NEW s \in Spaces,
             NEW op \in AllOps, BeginCreate(r, op, p, q, s)
      PROVE  TypeInv'
  <2> DEFINE x == [Idle EXCEPT !.step = "insert", !.op = op, !.page = p, !.to = q,
                               !.from = s, !.target = s]
  <2>1. q \in exists \cup {None} /\ Begin(r, op, p, x)
        BY <1>5 DEF BeginCreate
  <2>2. x \in Request /\ x.step = "insert" /\ x.page = p /\ x.tree = {} /\ x.to = q
        BY <1>1 DEF Request, Steps, Parents
  <2> HIDE DEF x
  <2> QED  BY <2>1, <2>2, BeginTyped
<1>6. ASSUME NEW r \in Reqs, NEW p \in Pages, BeginPublish(r, p)
      PROVE  TypeInv'
  <2> DEFINE x == [Idle EXCEPT !.step = "release", !.op = "publish", !.page = p,
                               !.from = home[p], !.target = home[p]]
  <2>1. p \in exists /\ Begin(r, "publish", p, x)
        BY <1>6 DEF BeginPublish
  <2>2. home[p] \in Spaces /\ p \in Parents
        BY <1>2 DEF Parents
  <2>3. x \in Request /\ x.step = "release" /\ x.page = p /\ x.tree = {} /\ x.to = None
        BY <1>1, <2>2 DEF Request, Steps, AllOps
  <2> HIDE DEF x
  <2> QED  BY <2>1, <2>3, BeginTyped
<1>7. ASSUME NEW r \in Reqs, Fail(r)
      PROVE  TypeInv'
  <2>1. /\ req' = [req EXCEPT ![r] = Idle] /\ lock' = Unlocked(r)
        /\ mishaps < MaxMishaps /\ mishaps' = mishaps + 1
        /\ UNCHANGED <<exists, home, parent, published, link, up, ops>>
        BY <1>7 DEF Fail, Done, rows, store
  <2>2. req' \in [Reqs -> Request] /\ Pertinent'
        BY <1>1, <2>1, RequestTyped
  <2>3. mishaps' \in 0..MaxMishaps
        BY <2>1, BoundAssumption DEF TypeInv, TypeOK
  <2>4. req[r].hadOld \subseteq Pages
        BY DEF TypeInv, TypeOK, Request
  <2>5. req[r].step \in {"sync", "link"} => req[r].page \in Pages
        BY <1>2 DEF TypeInv, Pertinent
  <2>6. astray' \subseteq Pages
        BY <1>7, <2>4, <2>5 DEF Fail, TypeInv, TypeOK
  <2> QED  BY <2>1, <2>2, <2>3, <2>6, UnlockedTyped DEF TypeInv, TypeOK
<1> QED  BY <1>3, <1>4, <1>5, <1>6, <1>7, StepTyped DEF Next

\* Every state is well typed: only a row that is there is published, and the
\* locks are held by requests.
THEOREM TypeCorrect ==
    ASSUME Spaces # {}
    PROVE  Spec => []TypeOK
<1>1. Init => TypeInv
  <2> SUFFICES ASSUME Init
               PROVE  TypeInv
      OBVIOUS
  <2>1. \A p \in Pages : {parent[p]} \ {None} \subseteq Pages
        BY TreeAssumption DEF Init
  <2>2. /\ exists \subseteq Pages /\ published \subseteq exists
        /\ home \in [Pages -> Spaces] /\ parent \in [Pages -> Parents]
        /\ link \in [Pages -> SUBSET Spaces] /\ up \in [Pages -> SUBSET Pages]
        BY <2>1, TreeAssumption DEF Init, Parents
  <2>3. ops \in 0..MaxOps /\ mishaps \in 0..MaxMishaps
        BY BoundAssumption DEF Init
  <2>4. req \in [Reqs -> Request] /\ Pertinent
        BY IdleTyped DEF Init, Pertinent, Idle
  <2>5. lock \in [Spaces -> Reqs \cup {None}] /\ astray \subseteq Pages
        BY DEF Init
  <2> QED  BY <2>2, <2>3, <2>4, <2>5 DEF TypeInv, TypeOK
<1>2. TypeInv => TypeOK
      BY DEF TypeInv
<1> QED  BY <1>1, <1>2, NextTyped, PTL DEF Spec
=============================================================================
