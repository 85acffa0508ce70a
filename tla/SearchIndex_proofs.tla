------------------------- MODULE SearchIndex_proofs -------------------------
(***************************************************************************)
(* Theorems about SearchIndex for every set of pages, rows and workers,    *)
(* every stale window and any number of crashes.                           *)
(***************************************************************************)
EXTENDS SearchIndex, TLAPS

Busy(x) == at[x].step # "idle"
PageOf(x) == op[at[x].row].page

\* Another row than the one x is at will have the page of x looked at again.
Other(x) == \E r \in queue : r # at[x].row /\ op[r].page = PageOf(x)

\* Why an index may lag with nothing pending.
Excuse(p) == TenantOf[p] \in gone \/ (Failed /\ EverTrashed(p))

\* A background task is at the row of its mutation, a worker sifts before it
\* holds a document, and after a deletion nothing has been read.
AtItsRow ==
    \A x \in Processors :
        /\ x \in Rows /\ Busy(x) => at[x].row = x /\ at[x].step # "sift"
        /\ at[x].step = "sift" => at[x].doc = Absent

\* Whoever is alone at a page is at a row that is still in the table.
AloneAtPage ==
    \A x \in Processors : Busy(x) /\ PageOf(x) \notin shared =>
        /\ at[x].row \in queue
        /\ \A y \in Processors : Busy(y) /\ PageOf(y) = PageOf(x) => y = x

\* What it is about to write, or has just written, is what search should answer,
\* or another row will have the page looked at again.
WritesWanted ==
    \A x \in Processors : Busy(x) /\ PageOf(x) \notin shared =>
        LET p == PageOf(x)
        IN  /\ at[x].step = "write" =>
                  at[x].doc = Wanted(p) \/ Other(x) \/ Excuse(p)
            /\ at[x].step = "retire" =>
                  index[p] = Wanted(p) \/ Other(x) \/ Excuse(p)

\* As long as nothing fails, a deletion is worked on by the request that made it.
DeleteIsAtWork ==
    mishaps = 0 =>
        \A r \in queue : op[r].kind = "delete" => at[r].step \in {"write", "retire"}

\* Rows commit in order, and what is known of a page is from a committed one.
RowsInOrder ==
    /\ \A q, r \in Rows : q < r /\ op[r] # NoOp => op[q] # NoOp
    /\ \A p \in Pages : content[p] # 0 => op[content[p]] # NoOp

\* No document is newer than its page, and one that is held is no older than
\* the one in the index.
DocsInOrder ==
    /\ \A p \in Pages : index[p] # Absent => index[p] <= content[p]
    /\ \A x \in Processors : at[x].step = "write" /\ at[x].doc # Absent =>
          LET p == PageOf(x)
          IN  /\ at[x].doc <= content[p]
              /\ p \notin shared /\ index[p] # Absent => index[p] <= at[x].doc

IInv == /\ TypeOK /\ AtItsRow /\ AloneAtPage /\ WritesWanted
        /\ DeleteIsAtWork /\ LagIsPendingAlone /\ RowsInOrder /\ DocsInOrder

(* Operations and rows *)

\* A committed row names a page; whoever is at work is at a committed row.
LEMMA Committed ==
    ASSUME TypeOK
    PROVE  /\ \A r \in Rows : op[r] # NoOp =>
                 op[r].page \in Pages /\ op[r].kind \in {"upsert", "delete"}
           /\ \A x \in Processors : Busy(x) => /\ at[x].row \in Rows
                                               /\ op[at[x].row] # NoOp
                                               /\ PageOf(x) \in Pages
           /\ \A r \in queue : r \in Rows /\ op[r] # NoOp
<1>1. \A r \in Rows : op[r] # NoOp =>
          op[r].page \in Pages /\ op[r].kind \in {"upsert", "delete"}
      BY DEF TypeOK
<1>2. \A x \in Processors : Busy(x) => at[x].row \in Rows /\ op[at[x].row] # NoOp
      BY DEF TypeOK, Busy
<1>3. \A r \in queue : r \in Rows /\ op[r] # NoOp
      BY DEF TypeOK
<1> QED  BY <1>1, <1>2, <1>3 DEF PageOf

\* Rows, and documents that are there, are numbers.
LEMMA Numbers ==
    /\ \A r \in Rows : r \in Nat /\ r # 0
    /\ \A d \in Rows \cup {0} : d \in Nat
    /\ \A d \in Docs : d # Absent => d \in Nat
<1>1. \A r \in Rows : r \in Nat /\ r # 0
      BY RowAssumption
<1> QED  BY <1>1 DEF Docs

\* The invariant holds at the start.
LEMMA InitInv == Init => IInv
<1> SUFFICES ASSUME Init
             PROVE  IInv
    OBVIOUS
<1>1. TypeOK
      BY RowAssumption, WindowAssumption, MishapAssumption
      DEF Init, TypeOK, Docs, Ages, NoClaim, Steps, Idle
<1>2. \A x \in Processors : at[x].step = "idle" /\ at[x].doc = Absent
      BY DEF Init, Idle
<1>3. AtItsRow /\ AloneAtPage /\ WritesWanted
      BY <1>2 DEF AtItsRow, AloneAtPage, WritesWanted, Busy
<1>4. DeleteIsAtWork /\ LagIsPendingAlone
      BY DEF Init, DeleteIsAtWork, LagIsPendingAlone, Wanted
<1>5. RowsInOrder
      BY DEF Init, RowsInOrder
<1>6. DocsInOrder
      BY <1>2 DEF Init, DocsInOrder
<1> QED  BY <1>1, <1>3, <1>4, <1>5, <1>6 DEF IInv

\* A mutation of page p that commits row r, whatever it does to what should be
\* found of p, as long as it is no older than r and a deletion hides the page.
LEMMA EnqueueStep ==
    ASSUME IInv, NEW r \in Rows, NEW p \in Pages, NEW kind \in {"upsert", "delete"},
           Enqueue(r, p, kind),
           content' \in [Pages -> Rows \cup {0}], trashed' \subseteq Pages,
           content'[p] \in {content[p], r},
           \A q \in Pages \ {p} : content'[q] = content[q] /\ (q \in trashed' <=> q \in trashed),
           kind = "delete" => p \in trashed'
    PROVE  IInv'
<1>1. /\ TypeOK /\ AtItsRow /\ AloneAtPage /\ WritesWanted
      /\ DeleteIsAtWork /\ LagIsPendingAlone /\ RowsInOrder /\ DocsInOrder
      BY DEF IInv
<1> DEFINE new == [step |-> FirstStep(kind), row |-> r, doc |-> Absent, since |-> 0]
<1>2. /\ op[r] = NoOp /\ \A q \in Rows : q < r => op[q] # NoOp
      /\ op' = [op EXCEPT ![r] = [page |-> p, kind |-> kind]]
      /\ queue' = queue \cup {r}
      /\ UNCHANGED <<gone, claimed, index, mishaps>>
      BY DEF Enqueue, NextRow
<1>3. /\ r \notin queue /\ ~Busy(r)
      /\ \A x \in Processors : Busy(x) => at[x].row # r
      BY <1>1, <1>2, Committed DEF AtItsRow, Processors, Busy
<1>4. \/ /\ at' = [at EXCEPT ![r] = new]
         /\ shared' = IF At(p) = {} THEN shared ELSE shared \cup {p}
      \/ kind = "upsert" /\ UNCHANGED <<at, shared>>
      BY DEF Enqueue, Idle, Join
<1>5. \A x \in Processors : x # r => at'[x] = at[x]
      BY <1>1, <1>4 DEF TypeOK
<1>6. /\ op'[r] = [page |-> p, kind |-> kind]
      /\ \A q \in Rows : q # r => op'[q] = op[q]
      BY <1>1, <1>2 DEF TypeOK
<1>7. \A x \in Processors : x # r => /\ Busy(x)' <=> Busy(x)
                                     /\ Busy(x) => PageOf(x)' = PageOf(x)
      BY <1>1, <1>3, <1>5, <1>6, Committed DEF Busy, PageOf
<1>8. Busy(r)' => /\ at'[r] = new /\ PageOf(r)' = p
                  /\ shared' = IF At(p) = {} THEN shared ELSE shared \cup {p}
      BY <1>1, <1>3, <1>4, <1>6 DEF TypeOK, Busy, PageOf, Processors
<1>9. shared \subseteq shared' /\ shared' \subseteq shared \cup {p}
      BY <1>4
<1>10. \A x \in Processors : Busy(x) /\ PageOf(x) = p => At(p) # {}
      BY DEF Busy, PageOf, At
<1>11. TypeOK'
  <2>1. new \in [step : Steps, row : Rows \cup {NoRow}, doc : Docs, since : 0 .. Stale]
        BY WindowAssumption DEF FirstStep, Steps, Docs
  <2>2. at' \in [Processors -> [step : Steps, row : Rows \cup {NoRow},
                                doc : Docs, since : 0 .. Stale]]
        BY <1>1, <1>4, <2>1 DEF TypeOK
  <2>3. op' \in [Rows -> [page : Pages, kind : {"upsert", "delete"}] \cup {NoOp}]
        BY <1>1, <1>2 DEF TypeOK
  <2>4. /\ queue' \subseteq {q \in Rows : op'[q] # NoOp}
        /\ gone' \subseteq Tenants /\ claimed' \in [Rows -> Ages \cup {NoClaim}]
        /\ index' \in [Pages -> Docs] /\ mishaps' \in 0 .. MaxMishaps
        /\ shared' \subseteq Pages
        BY <1>1, <1>2, <1>6, <1>9 DEF TypeOK, NoOp
  <2>5. \A x \in Processors :
            at'[x].step # "idle" => at'[x].row \in Rows /\ op'[at'[x].row] # NoOp
    <3> SUFFICES ASSUME NEW x \in Processors, Busy(x)'
                 PROVE  at'[x].row \in Rows /\ op'[at'[x].row] # NoOp
        BY DEF Busy
    <3>1. CASE x = r
          BY <3>1, <1>6, <1>8 DEF NoOp
    <3>2. CASE x # r
          BY <3>2, <1>1, <1>3, <1>5, <1>6, <1>7, Committed
    <3> QED  BY <3>1, <3>2
  <2> QED  BY <2>2, <2>3, <2>4, <2>5 DEF TypeOK
<1>12. AtItsRow'
  <2> SUFFICES ASSUME NEW x \in Processors
               PROVE  /\ x \in Rows /\ Busy(x)' => at'[x].row = x /\ at'[x].step # "sift"
                      /\ at'[x].step = "sift" => at'[x].doc = Absent
      BY DEF AtItsRow
  <2>1. CASE x = r
        BY <2>1, <1>8 DEF FirstStep, Busy
  <2>2. CASE x # r
        BY <2>2, <1>1, <1>5, <1>7 DEF AtItsRow
  <2> QED  BY <2>1, <2>2
<1>13. AloneAtPage'
  <2> SUFFICES ASSUME NEW x \in Processors, Busy(x)', PageOf(x)' \notin shared'
               PROVE  /\ at'[x].row \in queue'
                      /\ \A y \in Processors : Busy(y)' /\ PageOf(y)' = PageOf(x)' => y = x
      BY DEF AloneAtPage
  <2>1. CASE x = r
        BY <2>1, <1>2, <1>7, <1>8, <1>10
  <2>2. CASE x # r
    <3>1. Busy(x) /\ PageOf(x)' = PageOf(x) /\ PageOf(x) \notin shared
          BY <2>2, <1>7, <1>9
    <3>2. at'[x].row \in queue'
          BY <2>2, <3>1, <1>1, <1>2, <1>5 DEF AloneAtPage
    <3>3. ASSUME NEW y \in Processors, Busy(y)', PageOf(y)' = PageOf(x)'
          PROVE  y = x
          BY <3>1, <3>3, <1>1, <1>7, <1>8, <1>10 DEF AloneAtPage
    <3> QED  BY <3>2, <3>3
  <2> QED  BY <2>1, <2>2
<1>14. \A q \in Pages : Excuse(q) => Excuse(q)'
  <2>1. ASSUME NEW q \in Pages, EverTrashed(q)
        PROVE  EverTrashed(q)'
    <3>1. PICK d \in Rows : op[d] = [page |-> q, kind |-> "delete"]
          BY <2>1 DEF EverTrashed
    <3>2. d # r
          BY <3>1, <1>2 DEF NoOp
    <3> QED  BY <3>1, <3>2, <1>6 DEF EverTrashed
  <2> QED  BY <2>1, <1>2 DEF Excuse, Failed
<1>15. WritesWanted'
  <2> SUFFICES ASSUME NEW x \in Processors, Busy(x)', PageOf(x)' \notin shared'
               PROVE  /\ at'[x].step = "write" =>
                            \/ at'[x].doc = Wanted(PageOf(x))' \/ Other(x)' \/ Excuse(PageOf(x))'
                      /\ at'[x].step = "retire" =>
                            \/ (index[PageOf(x)] = Wanted(PageOf(x)))' \/ Other(x)'
                            \/ Excuse(PageOf(x))'
      BY DEF WritesWanted
  <2>1. CASE x = r
        BY <2>1, <1>8 DEF FirstStep, Wanted
  <2>2. CASE x # r
    <3>1. /\ Busy(x) /\ PageOf(x)' = PageOf(x) /\ PageOf(x) \notin shared
          /\ at'[x] = at[x] /\ PageOf(x) \in Pages /\ at[x].row # r
          BY <2>2, <1>1, <1>3, <1>5, <1>7, <1>9, Committed
    <3>2. Other(x) => Other(x)'
      <4>1. ASSUME NEW d \in queue, d # at[x].row, op[d].page = PageOf(x)
            PROVE  Other(x)'
            BY <4>1, <3>1, <1>1, <1>2, <1>3, <1>6, Committed DEF Other
      <4> QED  BY <4>1 DEF Other
    <3>3. CASE PageOf(x) = p
          BY <3>1, <3>3, <1>2, <1>4, <1>6, <1>10 DEF Other
    <3>4. CASE PageOf(x) # p
      <4>1. (Wanted(PageOf(x)))' = Wanted(PageOf(x))
            BY <3>1, <3>4 DEF Wanted
      <4> QED  BY <3>1, <3>2, <4>1, <1>1, <1>2, <1>14 DEF WritesWanted
    <3> QED  BY <3>3, <3>4
  <2> QED  BY <2>1, <2>2
<1>16. DeleteIsAtWork'
  <2> SUFFICES ASSUME mishaps' = 0, NEW d \in queue', op'[d].kind = "delete"
               PROVE  at'[d].step \in {"write", "retire"}
      BY DEF DeleteIsAtWork
  <2>1. CASE d = r
        BY <2>1, <1>1, <1>4, <1>6 DEF TypeOK, FirstStep, Processors
  <2>2. CASE d # r
    <3>1. d \in queue /\ d \in Rows /\ op[d].kind = "delete" /\ d \in Processors
          BY <2>2, <1>1, <1>2, <1>6, Committed DEF Processors
    <3> QED  BY <2>2, <3>1, <1>1, <1>2, <1>5 DEF DeleteIsAtWork
  <2> QED  BY <2>1, <2>2
<1>17. LagIsPendingAlone'
  <2> SUFFICES ASSUME NEW q \in Pages \ shared', index'[q] # Wanted(q)'
               PROVE  Pending(q)' \/ Excuse(q)'
      BY DEF LagIsPendingAlone, Excuse
  <2>1. CASE q = p
        BY <2>1, <1>2, <1>6 DEF Pending
  <2>2. CASE q # p
    <3>1. q \notin shared /\ index[q] # Wanted(q)
          BY <2>2, <1>2, <1>9 DEF Wanted
    <3>2. Pending(q) => Pending(q)'
          BY <1>1, <1>2, <1>3, <1>6, Committed DEF Pending
    <3> QED  BY <3>1, <3>2, <1>1, <1>14 DEF LagIsPendingAlone, Excuse
  <2> QED  BY <2>1, <2>2
<1>18. RowsInOrder'
  <2>1. ASSUME NEW d \in Rows, NEW e \in Rows, d < e, op'[e] # NoOp
        PROVE  op'[d] # NoOp
        BY <2>1, <1>1, <1>2, <1>6, RowAssumption DEF RowsInOrder, NoOp
  <2>2. ASSUME NEW q \in Pages, content'[q] # 0
        PROVE  op'[content'[q]] # NoOp
    <3>1. content'[q] \in Rows /\ (content'[q] = content[q] \/ content'[q] = r)
          BY <2>2
    <3> QED  BY <2>2, <3>1, <1>1, <1>6 DEF RowsInOrder, NoOp
  <2> QED  BY <2>1, <2>2 DEF RowsInOrder
<1>19. DocsInOrder'
  <2>1. ASSUME NEW q \in Pages
        PROVE  content[q] \in Nat /\ content'[q] \in Nat /\ content[q] <= content'[q]
    <3>1. content[q] \in Rows \cup {0} /\ content'[q] \in Rows \cup {0}
          BY <1>1 DEF TypeOK
    <3>2. content[q] \in Nat /\ content'[q] \in Nat /\ r \in Nat
          BY <3>1, Numbers
    <3>3. CASE content[q] = 0
          BY <3>2, <3>3
    <3>4. CASE content[q] # 0
      <4>1. content[q] \in Rows /\ op[content[q]] # NoOp
            BY <3>1, <3>4, <1>1 DEF RowsInOrder
      <4>2. ~(r < content[q])
            BY <4>1, <1>1, <1>2 DEF RowsInOrder
      <4>3. content'[q] = content[q] \/ content'[q] = r
            OBVIOUS
      <4> QED  BY <3>2, <4>2, <4>3
    <3> QED  BY <3>3, <3>4
  <2>2. ASSUME NEW q \in Pages, index'[q] # Absent
        PROVE  index'[q] <= content'[q]
    <3>1. index[q] # Absent /\ index'[q] = index[q]
          BY <2>2, <1>2
    <3>2. index[q] \in Nat
          BY <3>1, <1>1, Numbers DEF TypeOK
    <3>3. index[q] <= content[q]
          BY <3>1, <1>1 DEF DocsInOrder
    <3> QED  BY <3>1, <3>2, <3>3, <2>1
  <2>3. ASSUME NEW x \in Processors, at'[x].step = "write", at'[x].doc # Absent
        PROVE  /\ at'[x].doc <= content'[PageOf(x)']
               /\ PageOf(x)' \notin shared' /\ index'[PageOf(x)'] # Absent =>
                     index'[PageOf(x)'] <= at'[x].doc
    <3>1. x # r
          BY <2>3, <1>8 DEF Busy
    <3>2. /\ PageOf(x)' = PageOf(x) /\ at'[x] = at[x] /\ PageOf(x) \in Pages
          BY <2>3, <3>1, <1>1, <1>5, <1>7, Committed DEF Busy
    <3>3. at[x].doc \in Nat
          BY <2>3, <3>2, <1>1, Numbers DEF TypeOK
    <3>4. at[x].doc <= content[PageOf(x)]
          BY <2>3, <3>2, <1>1 DEF DocsInOrder
    <3>5. content[PageOf(x)] \in Nat /\ content'[PageOf(x)] \in Nat
          /\ content[PageOf(x)] <= content'[PageOf(x)]
          BY <3>2, <2>1
    <3>6. at'[x].doc <= content'[PageOf(x)']
          BY <3>2, <3>3, <3>4, <3>5
    <3>7. PageOf(x)' \notin shared' /\ index'[PageOf(x)'] # Absent =>
              index'[PageOf(x)'] <= at'[x].doc
          BY <2>3, <3>2, <1>1, <1>2, <1>9 DEF DocsInOrder
    <3> QED  BY <3>6, <3>7
  <2> QED  BY <2>2, <2>3 DEF DocsInOrder
<1> QED  BY <1>11, <1>12, <1>13, <1>15, <1>16, <1>17, <1>18, <1>19 DEF IInv

\* An edit is the newest mutation, and makes what should be found its own.
LEMMA EditInv ==
    ASSUME IInv, NEW r \in Rows, NEW p \in Pages, Edit(r, p)
    PROVE  IInv'
<1>1. /\ content \in [Pages -> Rows \cup {0}] /\ trashed \subseteq Pages
      /\ content' = [content EXCEPT ![p] = r] /\ trashed' = trashed
      /\ Enqueue(r, p, "upsert")
      BY DEF IInv, TypeOK, Edit
<1>2. /\ content' \in [Pages -> Rows \cup {0}] /\ trashed' \subseteq Pages
      /\ content'[p] \in {content[p], r}
      /\ \A q \in Pages \ {p} : content'[q] = content[q] /\ (q \in trashed' <=> q \in trashed)
      BY <1>1
<1> QED  BY <1>1, <1>2, EnqueueStep

LEMMA TrashInv ==
    ASSUME IInv, NEW r \in Rows, NEW p \in Pages, Trash(r, p)
    PROVE  IInv'
<1>1. /\ content \in [Pages -> Rows \cup {0}] /\ trashed \subseteq Pages
      /\ content' = content /\ trashed' = trashed \cup {p}
      /\ Enqueue(r, p, "delete")
      BY DEF IInv, TypeOK, Trash
<1>2. /\ content' \in [Pages -> Rows \cup {0}] /\ trashed' \subseteq Pages
      /\ content'[p] \in {content[p], r} /\ p \in trashed'
      /\ \A q \in Pages \ {p} : content'[q] = content[q] /\ (q \in trashed' <=> q \in trashed)
      BY <1>1
<1> QED  BY <1>1, <1>2, EnqueueStep

LEMMA RestoreInv ==
    ASSUME IInv, NEW r \in Rows, NEW p \in Pages, RestoreFromTrash(r, p)
    PROVE  IInv'
<1>1. /\ content \in [Pages -> Rows \cup {0}] /\ trashed \subseteq Pages
      /\ content' = content /\ trashed' = trashed \ {p}
      /\ Enqueue(r, p, "upsert")
      BY DEF IInv, TypeOK, RestoreFromTrash
<1>2. /\ content' \in [Pages -> Rows \cup {0}] /\ trashed' \subseteq Pages
      /\ content'[p] \in {content[p], r}
      /\ \A q \in Pages \ {p} : content'[q] = content[q] /\ (q \in trashed' <=> q \in trashed)
      BY <1>1
<1> QED  BY <1>1, <1>2, EnqueueStep

\* A workspace that goes only adds to what excuses a lag.
LEMMA RemoveTenantInv ==
    ASSUME IInv, NEW t \in Tenants, RemoveTenant(t)
    PROVE  IInv'
<1>1. /\ TypeOK /\ AtItsRow /\ AloneAtPage /\ WritesWanted
      /\ DeleteIsAtWork /\ LagIsPendingAlone /\ RowsInOrder /\ DocsInOrder
      BY DEF IInv
<1>2. /\ gone' = gone \cup {t}
      /\ UNCHANGED <<content, trashed, op, queue, claimed, index, at, shared, mishaps>>
      BY DEF RemoveTenant, tableVars
<1>3. TypeOK'
      BY <1>1, <1>2 DEF TypeOK
<1>4. AtItsRow' /\ AloneAtPage' /\ DeleteIsAtWork' /\ RowsInOrder' /\ DocsInOrder'
      BY <1>1, <1>2 DEF AtItsRow, AloneAtPage, DeleteIsAtWork, RowsInOrder, DocsInOrder,
                        Busy, PageOf
<1>5. \A p \in Pages : Excuse(p) => Excuse(p)'
      BY <1>2 DEF Excuse, Failed, EverTrashed
<1>6. WritesWanted'
  <2>1. \A x \in Processors : /\ Busy(x)' <=> Busy(x)
                              /\ PageOf(x)' = PageOf(x) /\ (Other(x)' <=> Other(x))
        BY <1>2 DEF Busy, PageOf, Other
  <2>2. \A p \in Pages : (Wanted(p))' = Wanted(p)
        BY <1>2 DEF Wanted
  <2> QED  BY <2>1, <2>2, <1>1, <1>2, <1>5, Committed DEF WritesWanted
<1>7. LagIsPendingAlone'
      BY <1>1, <1>2 DEF LagIsPendingAlone, Pending, Wanted, Failed, EverTrashed
<1> QED  BY <1>3, <1>4, <1>6, <1>7 DEF IInv

(* Processors *)

\* A step of one processor after its claim, which may write the document of its
\* page and may retire its row: whoever is alone elsewhere is not disturbed, so
\* what the processor itself leaves behind is all that matters.
LEMMA WorkStep ==
    ASSUME IInv, NEW x \in Processors, Busy(x), NEW p \in Pages, p = PageOf(x),
           NEW new,
           new \in [step : Steps \ {"sift"}, row : Rows \cup {NoRow},
                    doc : Docs, since : 0 .. Stale],
           at' = [at EXCEPT ![x] = new],
           new.step # "idle" => new.row = at[x].row /\ queue' = queue,
           queue' \in {queue, queue \ {at[x].row}},
           claimed' \in [Rows -> Ages \cup {NoClaim}],
           index' \in [Pages -> Docs],
           \A q \in Pages \ {p} : index'[q] = index[q],
           UNCHANGED <<content, trashed, gone, op, shared>>,
           mishaps' \in 0 .. MaxMishaps, mishaps' = 0 => mishaps = 0,
           p \notin shared =>
              /\ new.step = "write" =>
                    new.doc = Wanted(p) \/ Other(x) \/ Excuse(p)
              /\ new.step = "retire" =>
                    index'[p] = Wanted(p) \/ Other(x) \/ Excuse(p)
              /\ new.step = "idle" => \/ index'[p] = Wanted(p)
                                      \/ Pending(p)' \/ Excuse(p)',
           /\ mishaps' = 0 /\ x \in queue' /\ at[x].row = x /\ op[x].kind = "delete"
           => new.step \in {"write", "retire"},
           index'[p] # Absent => index'[p] <= content[p],
           new.step = "write" /\ new.doc # Absent =>
              /\ new.doc <= content[p]
              /\ p \notin shared /\ index'[p] # Absent =>
                    index'[p] <= new.doc
    PROVE  IInv'
<1>1. /\ TypeOK /\ AtItsRow /\ AloneAtPage /\ WritesWanted
      /\ DeleteIsAtWork /\ LagIsPendingAlone /\ RowsInOrder /\ DocsInOrder
      BY DEF IInv
<1>2. p \in Pages /\ at[x].row \in Rows /\ op[at[x].row] # NoOp
      BY <1>1, Committed
<1>3. at'[x] = new /\ \A y \in Processors \ {x} : at'[y] = at[y]
      BY <1>1 DEF TypeOK
<1>4. \A y \in Processors : (Busy(y)' => Busy(y) /\ at'[y].row = at[y].row /\ PageOf(y)' = PageOf(y))
      BY <1>3 DEF Busy, PageOf
<1>5. TypeOK'
  <2>1. at' \in [Processors -> [step : Steps, row : Rows \cup {NoRow},
                                doc : Docs, since : 0 .. Stale]]
        BY <1>1 DEF TypeOK
  <2>2. \A y \in Processors :
            at'[y].step # "idle" => at'[y].row \in Rows /\ op'[at'[y].row] # NoOp
        BY <1>1, <1>4, Committed DEF Busy
  <2>3. queue' \subseteq {r \in Rows : op'[r] # NoOp}
        BY <1>1 DEF TypeOK
  <2> QED  BY <1>1, <2>1, <2>2, <2>3 DEF TypeOK
<1>6. AtItsRow'
  <2> SUFFICES ASSUME NEW y \in Processors
               PROVE  /\ y \in Rows /\ Busy(y)' => at'[y].row = y /\ at'[y].step # "sift"
                      /\ at'[y].step = "sift" => at'[y].doc = Absent
      BY DEF AtItsRow
  <2>1. CASE y = x
        BY <2>1, <1>1, <1>3, <1>4 DEF AtItsRow
  <2>2. CASE y # x
        BY <2>2, <1>1, <1>3, <1>4 DEF AtItsRow
  <2> QED  BY <2>1, <2>2
<1>7. \A y \in Processors : Busy(y) /\ PageOf(y) \notin shared /\ y # x => PageOf(y) # p
      BY <1>1 DEF AloneAtPage
<1>8. AloneAtPage'
  <2> SUFFICES ASSUME NEW y \in Processors, Busy(y)', PageOf(y)' \notin shared'
               PROVE  /\ at'[y].row \in queue'
                      /\ \A z \in Processors : Busy(z)' /\ PageOf(z)' = PageOf(y)' => z = y
      BY DEF AloneAtPage
  <2>1. /\ Busy(y) /\ PageOf(y)' = PageOf(y) /\ PageOf(y) \notin shared
        /\ at'[y].row = at[y].row /\ at[y].row \in queue
        BY <1>1, <1>4 DEF AloneAtPage
  <2>2. \A z \in Processors : Busy(z)' /\ PageOf(z)' = PageOf(y)' => z = y
        BY <2>1, <1>1, <1>4 DEF AloneAtPage
  <2>3. CASE y = x
        BY <2>1, <2>2, <2>3, <1>3 DEF Busy
  <2>4. CASE y # x
        BY <2>1, <2>2, <2>4, <1>7 DEF PageOf
  <2> QED  BY <2>3, <2>4
<1>9. \A q \in Pages : /\ Excuse(q) => Excuse(q)'
                       /\ (Wanted(q))' = Wanted(q)
  <2>1. \A q \in Pages : (Wanted(q))' = Wanted(q)
        BY DEF Wanted
  <2>2. Failed => Failed'
        BY <1>1 DEF Failed, TypeOK
  <2>3. \A q \in Pages : EverTrashed(q)' <=> EverTrashed(q)
        BY DEF EverTrashed
  <2> QED  BY <2>1, <2>2, <2>3 DEF Excuse
<1>10. ASSUME NEW q \in Pages, q # p, NEW r \in queue, op[r].page = q
       PROVE  r \in queue'
       BY <1>10 DEF PageOf
<1>11. WritesWanted'
  <2> SUFFICES ASSUME NEW y \in Processors, Busy(y)', PageOf(y)' \notin shared'
               PROVE  /\ at'[y].step = "write" =>
                            \/ at'[y].doc = Wanted(PageOf(y))' \/ Other(y)' \/ Excuse(PageOf(y))'
                      /\ at'[y].step = "retire" =>
                            \/ (index[PageOf(y)] = Wanted(PageOf(y)))' \/ Other(y)'
                            \/ Excuse(PageOf(y))'
      BY DEF WritesWanted
  <2>1. /\ Busy(y) /\ PageOf(y)' = PageOf(y) /\ PageOf(y) \notin shared
        /\ at'[y].row = at[y].row /\ PageOf(y) \in Pages
        BY <1>1, <1>4, Committed
  <2>2. CASE y = x
    <3>1. queue' = queue /\ at'[y] = new
          BY <2>2, <1>3 DEF Busy
    <3>2. Other(y) => Other(y)'
          BY <2>1, <3>1 DEF Other
    <3>3. PageOf(y)' = p /\ p \notin shared
          BY <2>1, <2>2
    <3>4. at'[y].step = "write" => \/ at'[y].doc = Wanted(p) \/ Other(y) \/ Excuse(p)
          BY <2>2, <3>1, <3>3
    <3>5. at'[y].step = "retire" => index'[p] = Wanted(p) \/ Other(y) \/ Excuse(p)
          BY <2>2, <3>1, <3>3
    <3>6. (Wanted(p))' = Wanted(p) /\ Wanted(PageOf(y))' = Wanted(p)
          /\ (Excuse(p) => Excuse(PageOf(y))')
          BY <1>2, <1>9, <3>3 DEF Wanted, Excuse
    <3> QED  BY <3>2, <3>3, <3>4, <3>5, <3>6
  <2>3. CASE y # x
    <3>1. at'[y] = at[y] /\ PageOf(y) # p /\ index'[PageOf(y)] = index[PageOf(y)]
          BY <2>1, <2>3, <1>3, <1>7
    <3>2. Other(y) => Other(y)'
          BY <2>1, <3>1, <1>10 DEF Other
    <3> QED  BY <2>1, <3>1, <3>2, <1>1, <1>9 DEF WritesWanted
  <2> QED  BY <2>2, <2>3
<1>12. DeleteIsAtWork'
  <2> SUFFICES ASSUME mishaps' = 0, NEW d \in queue', op[d].kind = "delete"
               PROVE  at'[d].step \in {"write", "retire"}
      BY DEF DeleteIsAtWork
  <2>1. d \in queue /\ d \in Rows /\ d \in Processors /\ mishaps = 0
        BY <1>1, Committed DEF Processors
  <2>2. at[d].step \in {"write", "retire"}
        BY <2>1, <1>1 DEF DeleteIsAtWork
  <2>3. CASE d = x
        BY <2>1, <2>3, <1>1, <1>3 DEF AtItsRow
  <2>4. CASE d # x
        BY <2>1, <2>2, <2>4, <1>3
  <2> QED  BY <2>3, <2>4
<1>13. LagIsPendingAlone'
  <2> SUFFICES ASSUME NEW q \in Pages, q \notin shared, index'[q] # Wanted(q)
               PROVE  Pending(q)' \/ Excuse(q)'
      BY <1>9 DEF LagIsPendingAlone, Excuse
  <2>1. CASE q = p /\ new.step = "idle"
        BY <2>1
  <2>2. CASE q = p /\ new.step # "idle"
    <3>1. at[x].row \in queue /\ queue' = queue /\ op'[at[x].row].page = q
          BY <2>2, <1>1 DEF AloneAtPage, PageOf
    <3> QED  BY <3>1 DEF Pending
  <2>3. CASE q # p
    <3>1. Pending(q) \/ Excuse(q)
          BY <2>3, <1>1 DEF LagIsPendingAlone, Excuse
    <3>2. Pending(q) => Pending(q)'
          BY <2>3, <1>10 DEF Pending
    <3> QED  BY <3>1, <3>2, <1>9
  <2> QED  BY <2>1, <2>2, <2>3
<1>14. RowsInOrder'
      BY <1>1 DEF RowsInOrder
<1>15. DocsInOrder'
  <2>1. ASSUME NEW q \in Pages, index'[q] # Absent
        PROVE  index'[q] <= content[q]
    <3>1. CASE q = p
          BY <2>1, <3>1
    <3>2. CASE q # p
          BY <2>1, <3>2, <1>1 DEF DocsInOrder
    <3> QED  BY <3>1, <3>2
  <2>2. ASSUME NEW y \in Processors, at'[y].step = "write", at'[y].doc # Absent
        PROVE  /\ at'[y].doc <= content[PageOf(y)']
               /\ PageOf(y)' \notin shared /\ index'[PageOf(y)'] # Absent =>
                     index'[PageOf(y)'] <= at'[y].doc
    <3>1. /\ Busy(y) /\ PageOf(y)' = PageOf(y) /\ PageOf(y) \in Pages
          BY <2>2, <1>1, <1>4, Committed DEF Busy
    <3>2. CASE y = x
          BY <2>2, <3>1, <3>2, <1>3
    <3>3. CASE y # x
      <4>1. at'[y] = at[y]
            BY <3>3, <1>3
      <4>2. PageOf(y) \notin shared => index'[PageOf(y)] = index[PageOf(y)]
            BY <3>1, <3>3, <1>7
      <4> QED  BY <2>2, <3>1, <4>1, <4>2, <1>1 DEF DocsInOrder
    <3> QED  BY <3>2, <3>3
  <2> QED  BY <2>1, <2>2 DEF DocsInOrder
<1> QED  BY <1>5, <1>6, <1>8, <1>11, <1>12, <1>13, <1>14, <1>15 DEF IInv

LEMMA ClaimInv ==
    ASSUME IInv, NEW w \in Workers, Claim(w)
    PROVE  IInv'
<1>1. /\ TypeOK /\ AtItsRow /\ AloneAtPage /\ WritesWanted
      /\ DeleteIsAtWork /\ LagIsPendingAlone /\ RowsInOrder /\ DocsInOrder
      BY DEF IInv
<1>2. PICK r \in queue :
         /\ claimed' = [claimed EXCEPT ![r] = 0]
         /\ at' = [at EXCEPT ![w] = [Idle EXCEPT !.step = "sift", !.row = r]]
         /\ Join(op[r].page)
      BY DEF Claim
<1> DEFINE p == op[r].page
<1>3. /\ ~Busy(w) /\ w \in Processors /\ w \notin Rows
      /\ UNCHANGED <<content, trashed, gone, op, queue, index, mishaps>>
      BY WorkerAssumption DEF Claim, Busy, Processors, pageVars
<1>4. r \in Rows /\ op[r] # NoOp /\ p \in Pages
      BY <1>1, Committed
<1>5. /\ at'[w] = [step |-> "sift", row |-> r, doc |-> Absent, since |-> 0]
      /\ \A x \in Processors \ {w} : at'[x] = at[x]
      BY <1>1, <1>2, <1>3 DEF TypeOK, Idle
<1>6. /\ shared' = IF At(p) = {} THEN shared ELSE shared \cup {p}
      /\ shared \subseteq shared' /\ shared' \subseteq shared \cup {p}
      BY <1>2 DEF Join
<1>7. /\ \A x \in Processors \ {w} : (Busy(x)' <=> Busy(x)) /\ PageOf(x)' = PageOf(x)
      /\ Busy(w)' /\ PageOf(w)' = p
      BY <1>3, <1>5 DEF Busy, PageOf
<1>8. \A x \in Processors : Busy(x) /\ PageOf(x) = p => At(p) # {}
      BY DEF Busy, PageOf, At
<1>9. TypeOK'
  <2>1. at'[w] \in [step : Steps, row : Rows \cup {NoRow}, doc : Docs, since : 0 .. Stale]
        BY <1>4, <1>5, WindowAssumption DEF Steps, Docs
  <2>2. at' \in [Processors -> [step : Steps, row : Rows \cup {NoRow},
                                doc : Docs, since : 0 .. Stale]]
        BY <1>1, <1>2, <1>3, <1>5, <2>1 DEF TypeOK
  <2>3. claimed' \in [Rows -> Ages \cup {NoClaim}]
        BY <1>1, <1>2, WindowAssumption DEF TypeOK, Ages
  <2>4. \A x \in Processors :
            at'[x].step # "idle" => at'[x].row \in Rows /\ op[at'[x].row] # NoOp
        BY <1>1, <1>4, <1>5 DEF TypeOK
  <2> QED  BY <1>1, <1>3, <1>4, <1>6, <2>2, <2>3, <2>4 DEF TypeOK
<1>10. AtItsRow'
       BY <1>1, <1>3, <1>5, <1>7 DEF AtItsRow
<1>11. AloneAtPage'
  <2> SUFFICES ASSUME NEW x \in Processors, Busy(x)', PageOf(x)' \notin shared'
               PROVE  /\ at'[x].row \in queue
                      /\ \A y \in Processors : Busy(y)' /\ PageOf(y)' = PageOf(x)' => y = x
      BY <1>3 DEF AloneAtPage
  <2>1. CASE x = w
        BY <2>1, <1>5, <1>6, <1>7, <1>8
  <2>2. CASE x # w
    <3>1. Busy(x) /\ PageOf(x)' = PageOf(x) /\ PageOf(x) \notin shared /\ at'[x] = at[x]
          BY <2>2, <1>5, <1>6, <1>7
    <3>2. PageOf(x) # p
          BY <3>1, <1>6, <1>8
    <3> QED  BY <3>1, <3>2, <1>1, <1>7 DEF AloneAtPage
  <2> QED  BY <2>1, <2>2
<1>12. WritesWanted'
  <2> SUFFICES ASSUME NEW x \in Processors, Busy(x)', PageOf(x)' \notin shared'
               PROVE  /\ at'[x].step = "write" =>
                            \/ at'[x].doc = Wanted(PageOf(x))' \/ Other(x)' \/ Excuse(PageOf(x))'
                      /\ at'[x].step = "retire" =>
                            \/ (index[PageOf(x)] = Wanted(PageOf(x)))' \/ Other(x)'
                            \/ Excuse(PageOf(x))'
      BY DEF WritesWanted
  <2>1. CASE x = w
        BY <2>1, <1>5
  <2>2. CASE x # w
    <3>1. /\ Busy(x) /\ PageOf(x)' = PageOf(x) /\ PageOf(x) \notin shared /\ at'[x] = at[x]
          /\ (Other(x)' <=> Other(x))
          BY <2>2, <1>3, <1>5, <1>6, <1>7 DEF Other
    <3>2. /\ Wanted(PageOf(x))' = Wanted(PageOf(x))
          /\ Excuse(PageOf(x)) => Excuse(PageOf(x))'
          BY <3>1, <1>3 DEF Wanted, Excuse, Failed, EverTrashed
    <3> QED  BY <3>1, <3>2, <1>1, <1>3 DEF WritesWanted
  <2> QED  BY <2>1, <2>2
<1>13. DeleteIsAtWork'
  <2>1. \A d \in queue : d \in Processors /\ d # w
        BY <1>1, <1>3, Committed DEF Processors
  <2> QED  BY <2>1, <1>1, <1>3, <1>5 DEF DeleteIsAtWork
<1>14. LagIsPendingAlone'
       BY <1>1, <1>3, <1>6 DEF LagIsPendingAlone, Pending, Wanted, Failed, EverTrashed
<1>15. RowsInOrder' /\ DocsInOrder'
  <2>1. RowsInOrder'
        BY <1>1, <1>3 DEF RowsInOrder
  <2>2. \A q \in Pages : index'[q] # Absent => index'[q] <= content'[q]
        BY <1>1, <1>3 DEF DocsInOrder
  <2>3. ASSUME NEW x \in Processors, at'[x].step = "write", at'[x].doc # Absent
        PROVE  /\ at'[x].doc <= content'[PageOf(x)']
               /\ PageOf(x)' \notin shared' /\ index'[PageOf(x)'] # Absent =>
                     index'[PageOf(x)'] <= at'[x].doc
    <3>1. at'[x] = at[x] /\ PageOf(x)' = PageOf(x)
          BY <2>3, <1>5, <1>7
    <3> QED  BY <2>3, <3>1, <1>1, <1>3, <1>6 DEF DocsInOrder
  <2> QED  BY <2>1, <2>2, <2>3 DEF DocsInOrder
<1> QED  BY <1>9, <1>10, <1>11, <1>12, <1>13, <1>14, <1>15 DEF IInv

\* A row of a page without its workspace is dropped; any other is gone on with,
\* and a deletion that a worker comes across while nothing has failed is one
\* that the request is still at.
LEMMA SiftInv ==
    ASSUME IInv, NEW x \in Workers, Sift(x)
    PROVE  IInv'
<1>1. /\ TypeOK /\ AtItsRow /\ AloneAtPage /\ WritesWanted
      /\ DeleteIsAtWork /\ LagIsPendingAlone /\ RowsInOrder /\ DocsInOrder
      BY DEF IInv
<1>2. /\ x \in Processors /\ Busy(x) /\ at[x].step = "sift" /\ at[x].doc = Absent
      /\ UNCHANGED <<content, trashed, gone, op, index, shared, mishaps>>
      BY <1>1 DEF Sift, Processors, Busy, AtItsRow, pageVars
<1> DEFINE r == at[x].row
<1>3. PICK p \in Pages : p = PageOf(x)
      BY <1>1, <1>2, Committed
<1>4. /\ r \in Rows /\ op[r] # NoOp /\ at[x].since \in 0 .. Stale
      /\ op[r].page = p /\ op[r].kind \in {"upsert", "delete"} /\ x \notin Rows
      BY <1>1, <1>2, <1>3, Committed, WorkerAssumption DEF TypeOK, PageOf
<1>5. index[p] # Absent => index[p] <= content[p]
      BY <1>1, <1>4 DEF DocsInOrder
<1>6. mishaps' \in 0 .. MaxMishaps /\ index' \in [Pages -> Docs]
      BY <1>1, <1>2 DEF TypeOK
<1>7. CASE TenantOf[p] \in gone
  <2>1. /\ queue' = queue \ {r} /\ claimed' = [claimed EXCEPT ![r] = NoClaim]
        /\ at' = [at EXCEPT ![x] = Idle]
        BY <1>7, <1>3 DEF Sift, Drop, PageOf
  <2>2. claimed' \in [Rows -> Ages \cup {NoClaim}]
        BY <1>1, <2>1 DEF TypeOK
  <2>3. Idle \in [step : Steps \ {"sift"}, row : Rows \cup {NoRow},
                  doc : Docs, since : 0 .. Stale]
        BY WindowAssumption DEF Idle, Steps, Docs
  <2>4. Excuse(p)'
        BY <1>2, <1>7 DEF Excuse
  <2> QED  BY <1>2, <1>4, <1>5, <1>6, <2>1, <2>2, <2>3, <2>4, <1>3, WorkStep DEF Idle
<1>8. CASE TenantOf[p] \notin gone
  <2> DEFINE new == [at[x] EXCEPT !.step = FirstStep(op[r].kind)]
  <2>1. at' = [at EXCEPT ![x] = new] /\ queue' = queue /\ claimed' = claimed
        BY <1>1, <1>2, <1>8, <1>3 DEF Sift, Move, PageOf, TypeOK
  <2>2. new = [step |-> FirstStep(op[r].kind), row |-> r, doc |-> Absent, since |-> at[x].since]
        BY <1>1, <1>2 DEF TypeOK
  <2>3. /\ FirstStep(op[r].kind) \in {"read", "write"}
        /\ FirstStep(op[r].kind) = "write" => op[r].kind = "delete"
        BY DEF FirstStep
  <2>4. new \in [step : Steps \ {"sift"}, row : Rows \cup {NoRow},
                 doc : Docs, since : 0 .. Stale]
        BY <1>4, <2>2, <2>3 DEF Steps, Docs
  <2>5. ASSUME p \notin shared, op[r].kind = "delete"
        PROVE  Excuse(p)
    <3>1. r \in queue
          BY <2>5, <1>1, <1>2, <1>3 DEF AloneAtPage
    <3>2. ASSUME mishaps = 0
          PROVE  FALSE
      <4>1. at[r].step \in {"write", "retire"} /\ r \in Processors /\ r # x
            BY <2>5, <3>1, <3>2, <1>1, <1>4 DEF DeleteIsAtWork, Processors
      <4>2. Busy(r) /\ at[r].row = r
            BY <4>1, <1>1, <1>4 DEF Busy, AtItsRow
      <4> QED  BY <2>5, <4>1, <4>2, <1>1, <1>2, <1>4, <1>3 DEF AloneAtPage, PageOf
    <3>3. op[r] = [page |-> p, kind |-> "delete"]
          BY <2>5, <1>1, <1>4 DEF TypeOK
    <3> QED  BY <3>2, <3>3, <1>1, <1>4 DEF Excuse, Failed, EverTrashed, TypeOK
  <2>6. claimed' \in [Rows -> Ages \cup {NoClaim}]
        BY <1>1, <2>1 DEF TypeOK
  <2> HIDE DEF new
  <2>7. /\ new.step \in {"read", "write"} /\ new.row = r /\ new.doc = Absent
        /\ p \notin shared /\ new.step = "write" => Excuse(p)
        BY <2>2, <2>3, <2>5
  <2> QED  BY <1>2, <1>4, <1>5, <1>6, <2>1, <2>4, <2>6, <2>7, <1>3, WorkStep
<1> QED  BY <1>7, <1>8

\* What is read is what search should answer.
LEMMA ReadInv ==
    ASSUME IInv, NEW x \in Processors, Read(x)
    PROVE  IInv'
<1>1. TypeOK /\ AtItsRow /\ AloneAtPage /\ DeleteIsAtWork /\ LagIsPendingAlone /\ DocsInOrder
      BY DEF IInv
<1>2. /\ Busy(x) /\ at[x].step = "read"
      /\ UNCHANGED <<content, trashed, gone, op, queue, claimed, index, shared, mishaps>>
      BY DEF Read, Busy, pageVars, tableVars
<1>3. PICK p \in Pages : p = PageOf(x)
      BY <1>1, <1>2, Committed
<1>4. /\ mishaps' \in 0 .. MaxMishaps /\ index' \in [Pages -> Docs]
      /\ claimed' \in [Rows -> Ages \cup {NoClaim}]
      /\ index[p] # Absent => index[p] <= content[p]
      BY <1>1, <1>2 DEF TypeOK, DocsInOrder
<1>5. ASSUME mishaps = 0, x \in queue, op[x].kind = "delete"
      PROVE  FALSE
      BY <1>5, <1>1, <1>2 DEF DeleteIsAtWork
<1>6. CASE TenantOf[p] \in gone
  <2>1. at' = [at EXCEPT ![x] = Idle]
        BY <1>3, <1>6 DEF Read, PageOf
  <2>2. Idle \in [step : Steps \ {"sift"}, row : Rows \cup {NoRow},
                  doc : Docs, since : 0 .. Stale]
        BY WindowAssumption DEF Idle, Steps, Docs
  <2>3. Excuse(p)'
        BY <1>2, <1>6 DEF Excuse
  <2> QED  BY <1>2, <1>3, <1>4, <1>5, <2>1, <2>2, <2>3, WorkStep DEF Idle
<1>7. CASE TenantOf[p] \notin gone
  <2> DEFINE new == [at[x] EXCEPT !.step = "write", !.doc = Wanted(p)]
  <2>1. at' = [at EXCEPT ![x] = new]
        BY <1>1, <1>2, <1>3, <1>7 DEF Read, PageOf, TypeOK, Wanted
  <2>2. /\ Wanted(p) \in Docs /\ at[x].since \in 0 .. Stale /\ at[x].row \in Rows
        /\ content[p] \in Nat /\ (Wanted(p) = Absent \/ Wanted(p) = content[p])
        BY <1>1, <1>2, Committed, Numbers DEF TypeOK, Wanted, Docs
  <2>3. at[x] \in [step : Steps, row : Rows \cup {NoRow}, doc : Docs, since : 0 .. Stale]
        BY <1>1 DEF TypeOK
  <2>4. new \in [step : Steps \ {"sift"}, row : Rows \cup {NoRow},
                 doc : Docs, since : 0 .. Stale]
        BY <2>2, <2>3 DEF Steps
  <2>5. new.step = "write" /\ new.row = at[x].row /\ new.doc = Wanted(p)
        BY <2>3
  <2> HIDE DEF new
  <2>6. new.doc # Absent => /\ new.doc <= content[p]
                            /\ index[p] # Absent => index[p] <= new.doc
        BY <1>4, <2>2, <2>5
  <2> QED  BY <1>2, <1>3, <1>4, <1>5, <2>1, <2>4, <2>5, <2>6, WorkStep
<1> QED  BY <1>6, <1>7

\* What was read is what is written.
LEMMA WriteInv ==
    ASSUME IInv, NEW x \in Processors, Write(x)
    PROVE  IInv'
<1>1. TypeOK /\ AtItsRow /\ AloneAtPage /\ WritesWanted /\ DeleteIsAtWork /\ DocsInOrder
      BY DEF IInv
<1>2. /\ Busy(x) /\ at[x].step = "write"
      /\ UNCHANGED <<content, trashed, gone, op, queue, claimed, shared, mishaps>>
      BY DEF Write, Busy, pageVars, tableVars
<1>3. PICK p \in Pages : p = PageOf(x)
      BY <1>1, <1>2, Committed
<1> DEFINE new == [at[x] EXCEPT !.step = "retire", !.doc = Absent]
<1>4. /\ at' = [at EXCEPT ![x] = new]
      /\ index' = [index EXCEPT ![p] = at[x].doc]
      BY <1>1, <1>3 DEF Write, PageOf, TypeOK
<1>5. at[x] \in [step : Steps, row : Rows \cup {NoRow}, doc : Docs, since : 0 .. Stale]
      BY <1>1 DEF TypeOK
<1>6. at[x].doc \in Docs
      BY <1>5
<1>7. new \in [step : Steps \ {"sift"}, row : Rows \cup {NoRow},
               doc : Docs, since : 0 .. Stale]
      BY <1>5 DEF Steps, Docs
<1>8. new.step = "retire" /\ new.row = at[x].row
      BY <1>5
<1> HIDE DEF new
<1>9. /\ mishaps' \in 0 .. MaxMishaps /\ index' \in [Pages -> Docs]
      /\ claimed' \in [Rows -> Ages \cup {NoClaim}]
      /\ index'[p] = at[x].doc /\ \A q \in Pages \ {p} : index'[q] = index[q]
      BY <1>1, <1>2, <1>4, <1>6 DEF TypeOK
<1>10. p \notin shared => at[x].doc = Wanted(p) \/ Other(x) \/ Excuse(p)
       BY <1>1, <1>2, <1>3 DEF WritesWanted
<1>11. index'[p] # Absent => index'[p] <= content[p]
       BY <1>1, <1>2, <1>3, <1>9 DEF DocsInOrder
<1> QED  BY <1>2, <1>3, <1>4, <1>7, <1>8, <1>9, <1>10, <1>11, WorkStep

\* The row that goes leaves behind the document that was wanted, or another row.
LEMMA RetireInv ==
    ASSUME IInv, NEW x \in Processors, Retire(x)
    PROVE  IInv'
<1>1. TypeOK /\ AtItsRow /\ AloneAtPage /\ WritesWanted /\ DeleteIsAtWork /\ DocsInOrder
      BY DEF IInv
<1>2. /\ Busy(x) /\ at[x].step = "retire" /\ at' = [at EXCEPT ![x] = Idle]
      /\ queue' = queue \ {at[x].row} /\ claimed' = [claimed EXCEPT ![at[x].row] = NoClaim]
      /\ UNCHANGED <<content, trashed, gone, op, index, shared, mishaps>>
      BY DEF Retire, Drop, Busy, pageVars
<1>3. PICK p \in Pages : p = PageOf(x)
      BY <1>1, <1>2, Committed
<1>4. /\ mishaps' \in 0 .. MaxMishaps /\ index' \in [Pages -> Docs]
      /\ claimed' \in [Rows -> Ages \cup {NoClaim}]
      /\ index[p] # Absent => index[p] <= content[p]
      BY <1>1, <1>2 DEF TypeOK, DocsInOrder
<1>5. Idle \in [step : Steps \ {"sift"}, row : Rows \cup {NoRow},
                doc : Docs, since : 0 .. Stale]
      BY WindowAssumption DEF Idle, Steps, Docs
<1>6. p \notin shared => index[p] = Wanted(p) \/ Other(x) \/ Excuse(p)
      BY <1>1, <1>2, <1>3 DEF WritesWanted
<1>7. Other(x) => Pending(p)'
      BY <1>2, <1>3 DEF Other, Pending
<1>8. Excuse(p) => Excuse(p)'
      BY <1>2 DEF Excuse, Failed, EverTrashed
<1> QED  BY <1>2, <1>3, <1>4, <1>5, <1>6, <1>7, <1>8, WorkStep DEF Idle

\* A failure leaves the row that will be tried again.
LEMMA FailInv ==
    ASSUME IInv, NEW x \in Processors, Fail(x)
    PROVE  IInv'
<1>1. TypeOK /\ AtItsRow /\ AloneAtPage /\ DocsInOrder
      BY DEF IInv
<1>2. /\ Busy(x) /\ at' = [at EXCEPT ![x] = Idle]
      /\ mishaps < MaxMishaps /\ mishaps' = mishaps + 1
      /\ UNCHANGED <<content, trashed, gone, op, queue, claimed, index, shared>>
      BY DEF Fail, Mishap, Busy, pageVars, tableVars
<1>3. PICK p \in Pages : p = PageOf(x)
      BY <1>1, <1>2, Committed
<1>4. mishaps \in Nat /\ mishaps' \in 0 .. MaxMishaps /\ mishaps' # 0
      BY <1>1, <1>2, MishapAssumption DEF TypeOK
<1>5. /\ index' \in [Pages -> Docs] /\ claimed' \in [Rows -> Ages \cup {NoClaim}]
      /\ index[p] # Absent => index[p] <= content[p]
      BY <1>1, <1>2 DEF TypeOK, DocsInOrder
<1>6. Idle \in [step : Steps \ {"sift"}, row : Rows \cup {NoRow},
                doc : Docs, since : 0 .. Stale]
      BY WindowAssumption DEF Idle, Steps, Docs
<1>7. p \notin shared => Pending(p)'
      BY <1>1, <1>2, <1>3 DEF AloneAtPage, Pending, PageOf
<1> QED  BY <1>2, <1>3, <1>4, <1>5, <1>6, <1>7, WorkStep DEF Idle

\* Time moves the clocks alone.
LEMMA PassTimeInv == IInv /\ PassTime => IInv'
<1> SUFFICES ASSUME IInv, PassTime
             PROVE  IInv'
    OBVIOUS
<1>1. /\ TypeOK /\ AtItsRow /\ AloneAtPage /\ WritesWanted
      /\ DeleteIsAtWork /\ LagIsPendingAlone /\ RowsInOrder /\ DocsInOrder
      BY DEF IInv
<1>2. /\ UNCHANGED <<content, trashed, gone, op, queue, index, shared, mishaps>>
      /\ \A w \in Workers : Prompt(w)
      /\ claimed' = [r \in Rows |-> IF claimed[r] = NoClaim THEN NoClaim
                                    ELSE Older(claimed[r])]
      /\ at' = [x \in Processors |-> IF x \in Rows \/ at[x].step = "idle" THEN at[x]
                                     ELSE [at[x] EXCEPT !.since = @ + 1]]
      BY DEF PassTime, pageVars
<1>3. claimed' \in [Rows -> Ages \cup {NoClaim}]
  <2>1. \A a \in Ages : Older(a) \in Ages
        BY WindowAssumption DEF Older, Ages
  <2> QED  BY <1>1, <1>2, <2>1 DEF TypeOK
<1>4. at' \in [Processors -> [step : Steps, row : Rows \cup {NoRow},
                              doc : Docs, since : 0 .. Stale]]
  <2> SUFFICES ASSUME NEW x \in Processors
               PROVE  at'[x] \in [step : Steps, row : Rows \cup {NoRow},
                                  doc : Docs, since : 0 .. Stale]
      BY <1>2
  <2>1. CASE x \in Rows \/ at[x].step = "idle"
        BY <2>1, <1>1, <1>2 DEF TypeOK
  <2>2. CASE x \notin Rows /\ at[x].step # "idle"
    <3>1. at[x].since \in 0 .. Stale /\ at[x].since < Stale
          BY <2>2, <1>1, <1>2 DEF TypeOK, Processors, Prompt
    <3>2. at[x].since + 1 \in 0 .. Stale
          BY <3>1, WindowAssumption
    <3>3. at'[x] = [at[x] EXCEPT !.since = at[x].since + 1]
          BY <2>2, <1>2
    <3> QED  BY <3>2, <3>3, <1>1 DEF TypeOK
  <2> QED  BY <2>1, <2>2
<1>5. \A x \in Processors :
          /\ at'[x].step = at[x].step /\ at'[x].row = at[x].row /\ at'[x].doc = at[x].doc
      BY <1>1, <1>2 DEF TypeOK
<1>6. \A x \in Processors : /\ Busy(x)' <=> Busy(x)
                            /\ PageOf(x)' = PageOf(x) /\ (Other(x)' <=> Other(x))
      BY <1>2, <1>5 DEF Busy, PageOf, Other
<1>7. TypeOK'
      BY <1>1, <1>2, <1>3, <1>4, <1>5 DEF TypeOK
<1>8. AtItsRow'
      BY <1>1, <1>5, <1>6 DEF AtItsRow
<1>9. AloneAtPage'
      BY <1>1, <1>2, <1>5, <1>6 DEF AloneAtPage
<1>10. WritesWanted'
  <2>1. \A p \in Pages : /\ (Wanted(p))' = Wanted(p)
                         /\ Excuse(p)' <=> Excuse(p)
        BY <1>2 DEF Wanted, Excuse, Failed, EverTrashed
  <2> QED  BY <2>1, <1>1, <1>2, <1>5, <1>6, Committed DEF WritesWanted
<1>11. DeleteIsAtWork'
  <2>1. \A d \in queue : d \in Processors
        BY <1>1, Committed DEF Processors
  <2> QED  BY <2>1, <1>1, <1>2, <1>5 DEF DeleteIsAtWork
<1>12. LagIsPendingAlone'
       BY <1>1, <1>2 DEF LagIsPendingAlone, Pending, Wanted, Failed, EverTrashed
<1>13. RowsInOrder'
       BY <1>1, <1>2 DEF RowsInOrder
<1>14. DocsInOrder'
       BY <1>1, <1>2, <1>5, <1>6 DEF DocsInOrder
<1> QED  BY <1>7, <1>8, <1>9, <1>10, <1>11, <1>12, <1>13, <1>14 DEF IInv

----------------------------------------------------------------------------
(* The invariant, and what follows from it *)

\* Every step keeps the invariant.
LEMMA StepInv == IInv /\ [Next]_vars => IInv'
<1> SUFFICES ASSUME IInv, [Next]_vars
             PROVE  IInv'
    OBVIOUS
<1>1. ASSUME NEW r \in Rows, NEW p \in Pages, Mutate(r, p)
      PROVE  IInv'
      BY <1>1, EditInv, TrashInv, RestoreInv DEF Mutate
<1>2. ASSUME NEW t \in Tenants, RemoveTenant(t)
      PROVE  IInv'
      BY <1>2, RemoveTenantInv
<1>3. ASSUME NEW w \in Workers, Claim(w) \/ Sift(w)
      PROVE  IInv'
      BY <1>3, ClaimInv, SiftInv
<1>4. ASSUME NEW x \in Processors, Process(x) \/ Fail(x)
      PROVE  IInv'
      BY <1>4, ReadInv, WriteInv, RetireInv, FailInv DEF Process
<1>5. CASE PassTime
      BY <1>5, PassTimeInv
<1>6. CASE UNCHANGED vars
  <2>1. UNCHANGED <<content, trashed, gone, op, queue, claimed, index, at, shared, mishaps>>
        BY <1>6 DEF vars
  <2>2. TypeOK' /\ AtItsRow' /\ AloneAtPage' /\ DeleteIsAtWork' /\ RowsInOrder' /\ DocsInOrder'
        BY <2>1 DEF IInv, TypeOK, AtItsRow, AloneAtPage, DeleteIsAtWork, RowsInOrder,
                    DocsInOrder, Busy, PageOf
  <2>3. WritesWanted' /\ LagIsPendingAlone'
        BY <2>1 DEF IInv, WritesWanted, LagIsPendingAlone, Busy, PageOf, Other,
                    Excuse, Wanted, Pending, Failed, EverTrashed
  <2> QED  BY <2>2, <2>3 DEF IInv
<1> QED  BY <1>1, <1>2, <1>3, <1>4, <1>5, <1>6 DEF Next

\* The invariant always holds.
THEOREM Invariance == Spec => []IInv
<1> QED  BY InitInv, StepInv, PTL DEF Spec

\* Types hold, and whoever is at work is at a row that was committed.
THEOREM TypeCorrect == Spec => []TypeOK
<1>1. IInv => TypeOK
      BY DEF IInv
<1> QED  BY <1>1, Invariance, PTL

\* An index that lags behind a page has a row that will catch it up, whatever
\* fails, as long as the page was never worked on by two at a time.
THEOREM LagIsCaughtUp == Spec => []LagIsPendingAlone
<1>1. IInv => LagIsPendingAlone
      BY DEF IInv
<1> QED  BY <1>1, Invariance, PTL

\* What is found of a page worked on by one at a time never goes back.
THEOREM IndexNeverGoesBack == Spec => NeverBackwards
<1>1. ASSUME IInv, [Next]_vars
      PROVE  \A p \in Pages \ shared :
                index[p] # Absent /\ index'[p] # Absent => index[p] <= index'[p]
  <2> SUFFICES ASSUME NEW p \in Pages \ shared, index[p] # Absent, index'[p] # Absent
               PROVE  index[p] <= index'[p]
      OBVIOUS
  <2>1. index[p] \in Nat
        BY <1>1, Numbers DEF IInv, TypeOK
  <2>2. ASSUME NEW x \in Processors, Write(x)
        PROVE  index[p] <= index'[p]
    <3>1. at[x].step = "write" /\ index' = [index EXCEPT ![PageOf(x)] = at[x].doc]
          BY <2>2 DEF Write, PageOf
    <3>2. CASE PageOf(x) = p
      <4>1. index'[p] = at[x].doc
            BY <1>1, <3>1, <3>2 DEF IInv, TypeOK
      <4> QED  BY <1>1, <3>1, <3>2, <4>1 DEF IInv, DocsInOrder
    <3>3. CASE PageOf(x) # p
      <4>1. index'[p] = index[p]
            BY <1>1, <3>1, <3>3 DEF IInv, TypeOK
      <4> QED  BY <2>1, <4>1
    <3> QED  BY <3>2, <3>3
  <2>3. CASE index' = index
        BY <2>1, <2>3
  <2>4. ASSUME \A x \in Processors : ~Write(x)
        PROVE  index' = index
        BY <1>1, <2>4 DEF Next, vars, Mutate, Process, Edit, Trash, RestoreFromTrash, Enqueue,
           RemoveTenant, Claim, Sift, Read, Retire, Fail, PassTime, pageVars, tableVars
  <2> QED  BY <2>2, <2>3, <2>4
<1>2. IInv /\ [Next]_vars => [\A p \in Pages \ shared :
          index[p] # Absent /\ index'[p] # Absent => index[p] <= index'[p]]_vars
      BY <1>1
<1> QED  BY <1>2, Invariance, PTL DEF Spec, NeverBackwards
=============================================================================
