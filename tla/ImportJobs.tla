----------------------------- MODULE ImportJobs -----------------------------
(***************************************************************************)
(* Imports too large for one request (apps/server/src/import/jobs.ts): the *)
(* archive is staged in object storage, a row is queued, and a drain       *)
(* worker claims the row, creates the pages one by one as the member who   *)
(* asked, and settles the row.                                             *)
(*                                                                         *)
(* The row rides the shared lease only while it is queued.  From then on   *)
(* it is "running" and its claimed_at a heartbeat, refreshed as pages are  *)
(* created; a running row whose heartbeat is old is settled as failed by   *)
(* whichever worker comes by, and never run again.                         *)
(*                                                                         *)
(* Imports are naturals in created_at order, of one workspace.  Time is    *)
(* counted in ticks.                                                       *)
(***************************************************************************)
EXTENDS Integers, FiniteSets

CONSTANTS
    Imports,     \* uploads above the threshold
    SpaceOf,     \* the space of an upload
    Workers,     \* server processes, one drain worker each
    Nodes,       \* pages of an archive
    Stale,       \* OUTBOX_STALE_CLAIM, in ticks
    Dead,        \* IMPORT_STALE_CLAIM, in ticks
    Slow,        \* steps that may take longer than the window on them
    MaxMishaps,  \* bound: kinds of crashes, failed calls and lost writes
    NoJob

ASSUME ImportAssumption == Imports \subseteq Nat /\ NoJob \notin Imports
ASSUME NodesAssumption == Nodes \in Nat \ {0}
ASSUME WindowAssumption == Stale \in Nat /\ Dead \in Nat /\ Stale < Dead
ASSUME MishapAssumption == MaxMishaps \in Nat

VARIABLES
    status,    \* of the row; before it "none", "staged" or "refused"
    keyed,     \* rows whose archive_key is not NULL
    claimed,   \* age of claimed_at; NoClaim when it is NULL
    bytes,     \* archives in object storage
    pages,     \* pages of an import that exist
    at,        \* what each worker is at
    leaving,   \* whether the workspace is in its grace period
    runs,      \* workers that have opened the import's archive
    mishaps    \* kinds of what went wrong so far

rowVars == <<status, keyed, claimed>>
vars == <<status, keyed, claimed, bytes, pages, at, leaving, runs, mishaps>>

NoClaim == -1
Ages == 0 .. Dead + 1             \* Dead + 1 stands for every older age
Older(a) == IF a > Dead THEN a ELSE a + 1

Active == {"queued", "running"}
Settled == {"done", "failed"}
Statuses == {"none", "staged", "refused"} \cup Active \cup Settled
Writing == {"making", "attaching", "linking", "undoing"}
Steps == {"idle", "claim", "claimed", "opening", "done", "failing", "clean"}
             \cup Writing

ASSUME SlowAssumption == Slow \subseteq Steps

Idle == [step |-> "idle", job |-> NoJob, made |-> 0, cut |-> FALSE, since |-> 0]

Init ==
    /\ status = [j \in Imports |-> "none"]
    /\ keyed = {}
    /\ claimed = [j \in Imports |-> NoClaim]
    /\ bytes = {}
    /\ pages = [j \in Imports |-> 0]
    /\ at = [w \in Workers |-> Idle]
    /\ leaving = FALSE
    /\ runs = [j \in Imports |-> 0]
    /\ mishaps = {}

\* crash: a process dies; archive, heartbeat, page, verdict: a call on it fails;
\* attachment: the call fails with its page created; import: any other call.
Kinds == {"crash", "archive", "heartbeat", "page", "attachment", "import", "verdict"}

Mishap(kind) ==
    /\ kind \notin mishaps /\ Cardinality(mishaps) < MaxMishaps
    /\ mishaps' = mishaps \cup {kind}
Move(w, step) == at' = [at EXCEPT ![w].step = step]

----------------------------------------------------------------------------
(* The request: enqueueImportJob *)

\* Mutated form: the row first, the archive when there is time.
StageLater(j) ==
    /\ status[j] = "none"
    /\ status' = [status EXCEPT ![j] = "staged"]
    /\ UNCHANGED <<keyed, claimed, bytes, pages, at, leaving, runs, mishaps>>

\* putObject, before there is a row.
Stage(j) ==
    /\ status[j] = "none"
    /\ status' = [status EXCEPT ![j] = "staged"]
    /\ bytes' = bytes \cup {j}
    /\ UNCHANGED <<keyed, claimed, pages, at, leaving, runs, mishaps>>

\* imports_one_active_per_space decides.
SlotTaken(j) ==
    \E k \in Imports : SpaceOf[k] = SpaceOf[j] /\ status[k] \in Active

Insert(j) ==
    /\ status[j] = "staged" /\ ~SlotTaken(j)
    /\ \A k \in Imports : k > j => status[k] \in {"none", "staged", "refused"}
    /\ status' = [status EXCEPT ![j] = "queued"]
    /\ keyed' = keyed \cup {j}
    /\ UNCHANGED <<claimed, bytes, pages, at, leaving, runs, mishaps>>

\* 409: the staged archive is deleted again, if the storage answers.
Refuse(j) ==
    /\ status[j] = "staged" /\ SlotTaken(j)
    /\ status' = [status EXCEPT ![j] = "refused"]
    /\ \/ bytes' = bytes \ {j} /\ UNCHANGED mishaps
       \/ Mishap("archive") /\ UNCHANGED bytes
    /\ UNCHANGED <<keyed, claimed, pages, at, leaving, runs>>

\* The process dies between the two.
Vanish(j) ==
    /\ status[j] = "staged" /\ Mishap("crash")
    /\ status' = [status EXCEPT ![j] = "refused"]
    /\ UNCHANGED <<keyed, claimed, bytes, pages, at, leaving, runs>>

----------------------------------------------------------------------------
(* A drain pass: drainImportJobs *)

\* Mutated form: running rows are left to their worker.
ReapNever(w) ==
    /\ at[w].step = "idle"
    /\ Move(w, "claim")
    /\ UNCHANGED <<rowVars, bytes, pages, leaving, runs, mishaps>>

\* First statement: running rows without a heartbeat are settled.
Reap(w) ==
    /\ at[w].step = "idle"
    /\ status' = [j \in Imports |->
                    IF status[j] = "running" /\ claimed[j] > Dead /\ ~leaving
                    THEN "failed" ELSE status[j]]
    /\ Move(w, "claim")
    /\ UNCHANGED <<keyed, claimed, bytes, pages, leaving, runs, mishaps>>

\* Mutated form: the claim does not ask for the status.
DueAnyStatus(j) == /\ status[j] \in Active
                   /\ claimed[j] = NoClaim \/ claimed[j] > Stale
                   /\ ~leaving

Due(j) == /\ status[j] = "queued"
          /\ claimed[j] = NoClaim \/ claimed[j] > Stale
          /\ ~leaving

\* Second statement: the shared claim, with a batch of one.
Claim(w) ==
    /\ at[w].step = "claim"
    /\ LET due == {j \in Imports : Due(j)}
       IN IF due = {}
          THEN Move(w, "idle") /\ UNCHANGED claimed
          ELSE \E j \in due :
                 /\ \A k \in due : j <= k
                 /\ claimed' = [claimed EXCEPT ![j] = 0]
                 /\ at' = [at EXCEPT ![w] = [Idle EXCEPT !.step = "claimed",
                                                         !.job = j]]
    /\ UNCHANGED <<status, keyed, bytes, pages, leaving, runs, mishaps>>

\* Third statement, whatever the status is by now.
Start(w) ==
    /\ at[w].step = "claimed"
    /\ status' = [status EXCEPT ![at[w].job] = "running"]
    /\ Move(w, "opening")
    /\ UNCHANGED <<keyed, claimed, bytes, pages, leaving, runs, mishaps>>

\* Last: delete the archive, if the storage answers.
Clean(w) ==
    /\ at[w].step = "clean"
    /\ \/ bytes' = bytes \ {at[w].job} /\ UNCHANGED mishaps
       \/ Mishap("archive") /\ UNCHANGED bytes
    /\ at' = [at EXCEPT ![w] = Idle]
    /\ UNCHANGED <<rowVars, pages, leaving, runs>>

----------------------------------------------------------------------------
(* The import: runOneImport and materializeImport *)

\* getObject; without the archive the run fails.
Open(w) ==
    /\ at[w].step = "opening"
    /\ LET j == at[w].job
       IN IF j \in bytes
          THEN Move(w, "making") /\ runs' = [runs EXCEPT ![j] = @ + 1]
          ELSE Move(w, "failing") /\ UNCHANGED runs
    /\ UNCHANGED <<rowVars, bytes, pages, leaving, mishaps>>

\* createPage commits; its attachments come next.
Create(w) ==
    /\ at[w].step = "making"
    /\ pages' = [pages EXCEPT ![at[w].job] = @ + 1]
    /\ Move(w, "attaching")
    /\ UNCHANGED <<rowVars, bytes, leaving, runs, mishaps>>

\* Mutated form: the page is reported before it is remembered.
TrackAfterProgress(w) ==
    /\ at[w].step = "attaching"
    /\ LET j == at[w].job
           n == at[w].made + 1
       IN IF at[w].cut
          THEN Move(w, "undoing") /\ UNCHANGED claimed
          ELSE /\ claimed' = [claimed EXCEPT ![j] = 0]
               /\ at' = [at EXCEPT ![w] =
                    [step |-> IF n = Nodes THEN "linking" ELSE "making",
                     job |-> j, made |-> n, cut |-> leaving, since |-> 0]]
    /\ UNCHANGED <<status, keyed, bytes, pages, leaving, runs, mishaps>>

\* created.push, then onProgress: throw if the grace period was seen before,
\* else refresh the heartbeat and look again.  Nobody waits for the two; the
\* throttle skips both, which only the look can tell from a refresh in time.
Track(w) ==
    /\ at[w].step = "attaching"
    /\ LET j == at[w].job
           n == at[w].made + 1
           next == [at[w] EXCEPT
                      !.step = IF at[w].cut THEN "undoing"
                               ELSE IF n = Nodes THEN "linking" ELSE "making",
                      !.made = n]
       IN IF at[w].cut
          THEN at' = [at EXCEPT ![w] = next] /\ UNCHANGED <<claimed, mishaps>>
          ELSE \E seen \in {FALSE, leaving} :
               \/ /\ at' = [at EXCEPT ![w] = [next EXCEPT !.cut = seen, !.since = 0]]
                  /\ claimed' = [claimed EXCEPT ![j] = 0]
                  /\ UNCHANGED mishaps
               \/ /\ at' = [at EXCEPT ![w] = [next EXCEPT !.cut = seen]]
                  /\ Mishap("heartbeat")
                  /\ UNCHANGED claimed
    /\ UNCHANGED <<status, keyed, bytes, pages, leaving, runs>>

\* The second pass, links, bodies and publication, has no progress to report.
Link(w) ==
    /\ at[w].step = "linking"
    /\ Move(w, "done")
    /\ UNCHANGED <<rowVars, bytes, pages, leaving, runs, mishaps>>

\* Any call on the way throws.
Break(w) ==
    /\ at[w].step \in {"opening", "making", "attaching", "linking"}
    /\ Mishap(IF at[w].step = "attaching" THEN "attachment" ELSE "import")
    /\ Move(w, "undoing")
    /\ UNCHANGED <<rowVars, bytes, pages, leaving, runs>>

\* The compensating rollback, over the pages remembered; a page that cannot be
\* deleted is passed over.
Undo(w) ==
    /\ at[w].step = "undoing"
    /\ IF at[w].made = 0
       THEN Move(w, "failing") /\ UNCHANGED <<pages, mishaps>>
       ELSE /\ at' = [at EXCEPT ![w].made = @ - 1]
            /\ \/ pages' = [pages EXCEPT ![at[w].job] = @ - 1] /\ UNCHANGED mishaps
               \/ Mishap("page") /\ UNCHANGED pages
    /\ UNCHANGED <<rowVars, bytes, leaving, runs>>

\* UPDATE ... WHERE id AND status = 'running'.
Verdict(j, v) ==
    IF status[j] = "running"
    THEN /\ status' = [status EXCEPT ![j] = v]
         /\ keyed' = keyed \ {j}
    ELSE UNCHANGED <<status, keyed>>

\* Mutated form: the verdict is written whatever the row says.
SettleUnguarded(w) ==
    /\ at[w].step = "done"
    /\ status' = [status EXCEPT ![at[w].job] = "done"]
    /\ keyed' = keyed \ {at[w].job}
    /\ Move(w, "clean")
    /\ UNCHANGED <<claimed, bytes, pages, leaving, runs, mishaps>>

Settle(w) ==
    /\ at[w].step = "done"
    /\ \/ Verdict(at[w].job, "done") /\ Move(w, "clean") /\ UNCHANGED mishaps
       \/ Mishap("verdict") /\ Move(w, "failing") /\ UNCHANGED <<status, keyed>>
    /\ UNCHANGED <<claimed, bytes, pages, leaving, runs>>

Fail(w) ==
    /\ at[w].step = "failing"
    /\ Verdict(at[w].job, "failed")
    /\ Move(w, "clean")
    /\ UNCHANGED <<claimed, bytes, pages, leaving, runs, mishaps>>

\* The process dies, or a statement outside the inner try throws.
Die(w) ==
    /\ at[w].step # "idle" /\ Mishap("crash")
    /\ at' = [at EXCEPT ![w] = Idle]
    /\ UNCHANGED <<rowVars, bytes, pages, leaving, runs>>

----------------------------------------------------------------------------
(* The environment *)

\* The workspace enters its grace period, or is restored from it, by a hand on
\* tenants.deleted_at: this version reads the column and does not write it.
ToggleLeaving ==
    /\ leaving' = ~leaving
    /\ UNCHANGED <<rowVars, bytes, pages, at, runs, mishaps>>

\* A step that is not slow is over before its window is: the shared one until
\* the row is running, the import's own one until the verdict.
Prompt(w) ==
    LET step == at[w].step
    IN \/ step \in {"idle", "claim", "clean"} \cup Slow
       \/ at[w].since < (IF step = "claimed" THEN Stale ELSE Dead)

PassTime ==
    /\ \A w \in Workers : Prompt(w)
    /\ claimed' = [j \in Imports |-> IF claimed[j] = NoClaim THEN NoClaim
                                     ELSE Older(claimed[j])]
    /\ at' = [w \in Workers |->
                IF at[w].job = NoJob THEN at[w]
                ELSE [at[w] EXCEPT !.since = Older(@)]]
    /\ UNCHANGED <<status, keyed, bytes, pages, leaving, runs, mishaps>>

Upload(j) == Stage(j) \/ Insert(j) \/ Refuse(j) \/ Vanish(j)
Drain(w) == Reap(w) \/ Claim(w) \/ Start(w) \/ Clean(w)
Run(w) == Open(w) \/ Create(w) \/ Track(w) \/ Link(w) \/ Undo(w)
              \/ Settle(w) \/ Fail(w)

Next ==
    \/ \E j \in Imports : Upload(j)
    \/ \E w \in Workers : Drain(w) \/ Run(w) \/ Break(w) \/ Die(w)
    \/ ToggleLeaving
    \/ PassTime

\* Workers go on and time passes; nobody has to upload.
Fairness == /\ WF_vars(PassTime)
            /\ \A w \in Workers : WF_vars(Drain(w) \/ Run(w))

Spec == Init /\ [][Next]_vars
FairSpec == Spec /\ Fairness

----------------------------------------------------------------------------
\* Types; whoever is at work is at an import, and no import has lost a page it
\* never had.
TypeOK ==
    /\ status \in [Imports -> Statuses]
    /\ keyed \subseteq Imports /\ bytes \subseteq Imports
    /\ claimed \in [Imports -> Ages \cup {NoClaim}]
    /\ pages \in [Imports -> 0 .. Nodes]
    /\ at \in [Workers -> [step : Steps, job : Imports \cup {NoJob},
                           made : 0 .. Nodes, cut : BOOLEAN, since : Ages]]
    /\ leaving \in BOOLEAN
    /\ runs \in [Imports -> Nat]
    /\ mishaps \subseteq Kinds
    /\ \A w \in Workers : at[w].job = NoJob => at[w].step \in {"idle", "claim"}

\* "A queued row with no bytes would be a job that can only fail": whoever
\* crashes, an import that waits for a worker has its archive.
QueuedHasBytes == \A j \in Imports : status[j] = "queued" => j \in bytes \cap keyed

\* An import is not run again: pages created are real and would be doubled
\* (drainImportJobs's reaper), whoever dies and whichever heartbeat is lost.
RunsOnce == \A j \in Imports : runs[j] <= 1

\* What the status screen was told is final, also for a worker that was taken
\* for dead and comes back with a result (the guard of both verdicts).
VerdictFinal ==
    [][ \A j \in Imports : status[j] \in Settled => status'[j] = status[j] ]_vars

At(j) == {w \in Workers : at[w].job = j}

\* A partial import never lingers (materializeImport's rollback): once nobody
\* is at it, an import has all its pages or none, and all if it says so.  Left
\* out are a worker that died, a page the rollback could not delete, and a page
\* whose attachments failed, which the rollback does not know of.
AllOrNothing ==
    mishaps \cap {"crash", "page", "attachment"} = {} =>
        \A j \in Imports :
            status[j] \in Settled /\ At(j) = {} =>
                pages[j] \in (IF status[j] = "done" THEN {Nodes} ELSE {0, Nodes})

\* Every import is settled, or its workspace is being removed: a worker that
\* dies with it does not hold the space's one slot for ever.
EverySettles ==
    \A j \in Imports :
        status[j] \in Active ~> status[j] \in Settled \/ leaving

\* One import at a time writes to a space ("the bound exists to prevent").
OneWriterPerSpace ==
    \A v, w \in Workers :
        /\ v # w /\ at[v].step \in Writing /\ at[w].step \in Writing
        => SpaceOf[at[v].job] # SpaceOf[at[w].job]
=============================================================================
