---------------------------- MODULE SearchIndex ----------------------------
(***************************************************************************)
(* The search index and its outbox (apps/server/src/search/outbox.ts).     *)
(*                                                                         *)
(* Every mutation of a page commits a row that says "reindex this page".   *)
(* Most of them also process their own row at once, in the background of   *)
(* the request and without claiming it; the drain worker claims whatever   *)
(* is in the table.  Either reads the page, writes the document to the     *)
(* index and deletes the row, three steps with nothing between them.       *)
(*                                                                         *)
(* A row carries no content: the document is built from the page as it is  *)
(* when the row is processed.  Rows are naturals in created_at order.      *)
(***************************************************************************)
EXTENDS Integers, FiniteSets

CONSTANTS
    Pages,
    TenantOf,    \* the workspace of a page
    Rows,        \* ids of search_outbox, in created_at order; bounds the mutations
    Workers,     \* server processes, one drain worker each
    Stale,       \* the stale window, in ticks of time
    MaxMishaps,  \* bound: crashes and failed calls
    NoRow, Absent

Tenants == {TenantOf[p] : p \in Pages}

ASSUME RowAssumption == Rows \subseteq Nat \ {0} /\ NoRow \notin Rows
ASSUME WorkerAssumption == Workers \cap Rows = {}
ASSUME AbsentAssumption == Absent \notin Nat
ASSUME WindowAssumption == Stale \in Nat \ {0}
ASSUME MishapAssumption == MaxMishaps \in Nat

VARIABLES
    content,   \* what search should find of a page: the mutation it is from
    trashed,   \* pages with deleted_at set
    gone,      \* workspaces whose tenants row is gone
    op,        \* rows committed so far: page and operation
    queue,     \* rows in the table
    claimed,   \* age of claimed_at; NoClaim when it is NULL
    index,     \* the indexed document of a page, or Absent
    at,        \* what each processor is at
    shared,    \* history: pages two processors were at at the same time
    mishaps

tableVars == <<op, queue, claimed>>
pageVars == <<content, trashed, gone>>
vars == <<content, trashed, gone, op, queue, claimed, index, at, shared, mishaps>>

\* Drain workers, and the background task of the mutation that wrote a row.
Processors == Workers \cup Rows
NoClaim == -1
Ages == 0 .. Stale + 1            \* Stale + 1 stands for every older age
Older(a) == IF a > Stale THEN a ELSE a + 1

Docs == Rows \cup {0, Absent}
NoOp == [page |-> Absent, kind |-> "none"]
Idle == [step |-> "idle", row |-> NoRow, doc |-> Absent, since |-> 0]
Steps == {"idle", "sift", "read", "write", "retire"}

Init ==
    /\ content = [p \in Pages |-> 0]
    /\ trashed = {}
    /\ gone = {}
    /\ op = [r \in Rows |-> NoOp]
    /\ queue = {}
    /\ claimed = [r \in Rows |-> NoClaim]
    /\ index = [p \in Pages |-> 0]
    /\ at = [x \in Processors |-> Idle]
    /\ shared = {}
    /\ mishaps = 0

Mishap == mishaps < MaxMishaps /\ mishaps' = mishaps + 1
Move(x, step) == at' = [at EXCEPT ![x].step = step]

\* DELETE FROM search_outbox: the row and its claim are gone.
Drop(r) == queue' = queue \ {r} /\ claimed' = [claimed EXCEPT ![r] = NoClaim]

At(p) == {x \in Processors : at[x].step # "idle" /\ op[at[x].row].page = p}
Join(p) == shared' = IF At(p) = {} THEN shared ELSE shared \cup {p}

----------------------------------------------------------------------------
(* Mutations: enqueueOutbox in the business transaction *)

NextRow(r) == op[r] = NoOp /\ \A q \in Rows : q < r => op[q] # NoOp

FirstStep(kind) == IF kind = "delete" THEN "write" ELSE "read"

\* The row commits with its mutation, which then works on it in the background;
\* restoring a revision leaves that to the workers.
Enqueue(r, p, kind) ==
    /\ NextRow(r) /\ TenantOf[p] \notin gone
    /\ op' = [op EXCEPT ![r] = [page |-> p, kind |-> kind]]
    /\ queue' = queue \cup {r}
    /\ \/ /\ at' = [at EXCEPT ![r] = [Idle EXCEPT !.step = FirstStep(kind), !.row = r]]
          /\ Join(p)
       \/ kind = "upsert" /\ UNCHANGED <<at, shared>>
    /\ UNCHANGED <<gone, claimed, index, mishaps>>

\* A page is renamed, or an earlier revision restored: what should be found
\* changes with the commit.
Edit(r, p) ==
    /\ p \notin trashed
    /\ Enqueue(r, p, "upsert")
    /\ content' = [content EXCEPT ![p] = r]
    /\ UNCHANGED trashed

Trash(r, p) ==
    /\ p \notin trashed
    /\ Enqueue(r, p, "delete")
    /\ trashed' = trashed \cup {p}
    /\ UNCHANGED content

RestoreFromTrash(r, p) ==
    /\ p \in trashed
    /\ Enqueue(r, p, "upsert")
    /\ trashed' = trashed \ {p}
    /\ UNCHANGED content

\* An operator removes a workspace with its pages; rows that name it stay.
RemoveTenant(t) ==
    /\ t \notin gone
    /\ gone' = gone \cup {t}
    /\ UNCHANGED <<content, trashed, tableVars, index, at, shared, mishaps>>

----------------------------------------------------------------------------
(* Processing a row: processOutboxAsync, and the loop body of drainOutbox *)

Due(r) == r \in queue /\ (claimed[r] = NoClaim \/ claimed[r] > Stale)

\* The shared claim; a batch is worked off one row after the other, each read
\* when its turn comes, so a batch of one has every interleaving of the pages.
Claim(w) ==
    /\ at[w].step = "idle"
    /\ \E r \in queue :
          /\ Due(r) /\ \A q \in queue : Due(q) => r <= q
          /\ claimed' = [claimed EXCEPT ![r] = 0]
          /\ at' = [at EXCEPT ![w] = [Idle EXCEPT !.step = "sift", !.row = r]]
          /\ Join(op[r].page)
    /\ UNCHANGED <<pageVars, op, queue, index, mishaps>>

\* Mutated form: orphans are worked on like the rest.
SiftNothing(w) ==
    /\ at[w].step = "sift"
    /\ Move(w, FirstStep(op[at[w].row].kind))
    /\ UNCHANGED <<pageVars, tableVars, index, shared, mishaps>>

\* dropOrphanedRows: a row of a workspace that is gone is deleted.
Sift(w) ==
    /\ at[w].step = "sift"
    /\ LET r == at[w].row
       IN IF TenantOf[op[r].page] \in gone
          THEN Drop(r) /\ at' = [at EXCEPT ![w] = Idle]
          ELSE /\ Move(w, FirstStep(op[r].kind))
               /\ UNCHANGED <<queue, claimed>>
    /\ UNCHANGED <<pageVars, op, index, shared, mishaps>>

\* Mutated form: the row carries the document of its own mutation.
ReadSnapshot(x) ==
    /\ at[x].step = "read"
    /\ at' = [at EXCEPT ![x].step = "write", ![x].doc = at[x].row]
    /\ UNCHANGED <<pageVars, tableVars, index, shared, mishaps>>

\* buildSearchDoc: nothing of a page in the trash; of a workspace that is gone
\* it throws, and the row is left to its claim.
Read(x) ==
    /\ at[x].step = "read"
    /\ LET p == op[at[x].row].page
       IN IF TenantOf[p] \in gone
          THEN at' = [at EXCEPT ![x] = Idle]
          ELSE at' = [at EXCEPT
                 ![x].step = "write",
                 ![x].doc = IF p \in trashed THEN Absent ELSE content[p]]
    /\ UNCHANGED <<pageVars, tableVars, index, shared, mishaps>>

\* upsertDoc or deleteDoc, confirmed.
Write(x) ==
    /\ at[x].step = "write"
    /\ index' = [index EXCEPT ![op[at[x].row].page] = at[x].doc]
    /\ at' = [at EXCEPT ![x].step = "retire", ![x].doc = Absent]
    /\ UNCHANGED <<pageVars, tableVars, shared, mishaps>>

Retire(x) ==
    /\ at[x].step = "retire"
    /\ Drop(at[x].row)
    /\ at' = [at EXCEPT ![x] = Idle]
    /\ UNCHANGED <<pageVars, op, index, shared, mishaps>>

\* Mutated form: the failure is taken for a success.
FailRetires(x) ==
    /\ at[x].step \notin {"idle", "sift"} /\ Mishap
    /\ Drop(at[x].row)
    /\ at' = [at EXCEPT ![x] = Idle]
    /\ UNCHANGED <<pageVars, op, index, shared>>

\* A call throws, or the process dies: the row is left where it is.
Fail(x) ==
    /\ at[x].step # "idle" /\ Mishap
    /\ at' = [at EXCEPT ![x] = Idle]
    /\ UNCHANGED <<pageVars, tableVars, index, shared>>

\* A worker is done with a row within the window; a background task takes as
\* long as it takes.
Prompt(w) == at[w].step # "idle" => at[w].since < Stale

PassTime ==
    /\ \A w \in Workers : Prompt(w)
    /\ claimed' = [r \in Rows |-> IF claimed[r] = NoClaim THEN NoClaim
                                  ELSE Older(claimed[r])]
    /\ at' = [x \in Processors |-> IF x \in Rows \/ at[x].step = "idle" THEN at[x]
                                   ELSE [at[x] EXCEPT !.since = @ + 1]]
    /\ UNCHANGED <<pageVars, op, queue, index, shared, mishaps>>

Mutate(r, p) == Edit(r, p) \/ Trash(r, p) \/ RestoreFromTrash(r, p)
Process(x) == Read(x) \/ Write(x) \/ Retire(x)
Drain(w) == Claim(w) \/ Sift(w) \/ Process(w)

Next ==
    \/ \E r \in Rows, p \in Pages : Mutate(r, p)
    \/ \E t \in Tenants : RemoveTenant(t)
    \/ \E w \in Workers : Claim(w) \/ Sift(w)
    \/ \E x \in Processors : Process(x) \/ Fail(x)
    \/ PassTime

\* Workers and background tasks go on, and time passes.
Fairness == /\ WF_vars(PassTime)
            /\ \A w \in Workers : WF_vars(Drain(w))
            /\ \A r \in Rows : WF_vars(Process(r))

Spec == Init /\ [][Next]_vars
FairSpec == Spec /\ Fairness

----------------------------------------------------------------------------
\* Types; whoever is at work is at a row that was committed.
TypeOK ==
    /\ content \in [Pages -> Rows \cup {0}]
    /\ trashed \subseteq Pages /\ gone \subseteq Tenants
    /\ op \in [Rows -> [page : Pages, kind : {"upsert", "delete"}] \cup {NoOp}]
    /\ queue \subseteq {r \in Rows : op[r] # NoOp}
    /\ claimed \in [Rows -> Ages \cup {NoClaim}]
    /\ index \in [Pages -> Docs]
    /\ at \in [Processors -> [step : Steps, row : Rows \cup {NoRow},
                              doc : Docs, since : 0 .. Stale]]
    /\ shared \subseteq Pages
    /\ mishaps \in 0 .. MaxMishaps
    /\ \A x \in Processors :
          at[x].step # "idle" => at[x].row \in Rows /\ op[at[x].row] # NoOp

\* What search should answer of a page.
Wanted(p) == IF p \in trashed THEN Absent ELSE content[p]
Pending(p) == \E r \in queue : op[r].page = p

Failed == mishaps > 0
EverTrashed(p) == \E r \in Rows : op[r] = [page |-> p, kind |-> "delete"]

\* An index that lags behind a page has a row that will catch it up: what is
\* recorded with the mutation is not forgotten ("the reindex intent is
\* atomically recorded"; "double processing is harmless", outbox.ts).
LagIsPending ==
    \A p \in Pages : index[p] # Wanted(p) => Pending(p) \/ TenantOf[p] \in gone

\* The same, whatever fails, of pages that were never worked on by two at a time.
\* Left out is a deletion that fails and is retried after the page came back.
LagIsPendingAlone ==
    \A p \in Pages \ shared :
        index[p] # Wanted(p) =>
            \/ Pending(p) \/ TenantOf[p] \in gone
            \/ Failed /\ EverTrashed(p)

\* What is found of a page never goes back to an earlier state of it, unless two
\* processors were at it.
NeverBackwards ==
    [][ \A p \in Pages \ shared :
          index[p] # Absent /\ index'[p] # Absent => index[p] <= index'[p] ]_vars

\* Every row leaves the table, orphans of removed workspaces included (#618:
\* they must not occupy the head of every batch).
RowsDrain == \A r \in Rows : r \in queue ~> r \notin queue
=============================================================================
