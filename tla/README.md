# Wikistead, modelled and proved

TLA+ models of the parts of Wikistead where several actors share state: the
API server's processes and its PostgreSQL tables, the OpenFGA permission store,
the collab pods and Valkey. Each module is a translation of the source at this
commit; `PROJECT.json` names, for each definition, the lines it stands for.

## 1. Inventory

Wikistead is a multi-tenant wiki. `apps/server` is a Fastify API with
PostgreSQL (row-level security per tenant), OpenFGA for permissions, Valkey for
sessions and messages; `apps/collab` is the Hocuspocus server that holds live
Yjs documents; `apps/web` is the client. Several server processes and pods run
at once. Nothing spans database and permission store in one transaction: the
code's rule (ADR-003) is *rows first, store last, throw and roll back*, so the
store may have changed when a commit is lost, and two requests that read before
they write may cross.

| component | state | operations | what makes it correct |
|---|---|---|---|
| Outbox lease (`db/outbox-lease.ts`), ridden by every queue | queue rows with `claimed_at` | claim batch, handle, delete, tick | no intent lost, no double work inside the window, no starvation |
| Tuple-deletion queue (`db/tuple-outbox.ts`) | `fga_tuple_outbox` | enqueue, flush, drain | a removed member's tuples go |
| Members and seats (`auth/invites.ts`, `member-suspension.ts`, `routes/members.ts`, `auth/session.ts`, `scripts/plan-reconcile.ts`, `routes/billing.ts`) | `members`, `tenant#member`, `tenant#admin`, the plan | accept, sign in, suspend, reactivate, remove, set role, downgrade, upgrade | an active administrator remains, the cap holds, store and rows agree |
| Group mirror (`auth/group-sync.ts`) | `members.groups`, `member_connection_groups`, `group#member` | sign in, withdraw trust, suspend, remove | the store is the union of what the connections assert |
| Out-of-band edits (`collab-mcpedit.ts`, `collab/src/index.ts`) | per-document lock, pub/sub messages, live document | publish, elect, apply, store, answer, time out | an edit lands once and its answer is true |
| Import jobs (`import/jobs.ts`, `import/index.ts`) | `imports`, the staged archive, the pages created | stage, insert, claim, create pages, settle, reap, roll back | bytes before the row, one job per space, all the pages or none, a verdict is final |
| Search index (`search/outbox.ts`, `doc-builder.ts`) | `search_outbox`, the index | record with the mutation, process in the background, drain, drop orphans | an index that lags has a row, the index never goes back, the queue drains |
| E-mail outbox (`email/outbox.ts`) | `email_outbox` | claim, fold, send, retry, drop | no duplicate, bounded attempts |
| Page tree (`routes/pages.ts`: create, move, publish) | `pages.parent_id`, `space_id`, `published_at`; `page#space`, `page#parent` tuples | create, create as a guest, move within and across spaces, publish | no cycle, families stay in one space, a draft is linked to none, store and rows agree |
| Page trash (`routes/pages.ts`: trash, restore, purge, delete, sweep) | `deleted_at`/`deleted_root_id`, the trashed marker, the index rows | trash, restore, purge, direct deletion, hourly sweep | hidden if and only if listed, live under live, half-done work heals |
| Live documents (`collab/src/ydoc.ts`, `index.ts`, `collab-flush.ts`, `routes/revisions.ts`) | `pages.ydoc`, `published_md`, the badge, resident documents, tabs | load, edit, store with retries, compact, flush, publish, restore | no edit forgotten or doubled, no draft blanked, a publication covers what it saw |
| Roles and grants of a space (`routes/roles.ts`, `routes/spaces.ts`) | `role_assignments` with owned capabilities, `roles`, the leaves in the store | grant with sweep, revoke by row, noun or leaf, edit and delete a role | a row confers, a leaf has an owner, a replacement leaves no gap |
| Guests (`on-authenticate.ts`, `revoke.ts`, `routes/share-links.ts`) | share tuples, sockets | join, revoke | a revoked guest is out |
| Login methods, second factors, recovery codes, password reset | credentials, switches | open or close a door, consume a code | a way in remains, a code works once |
| Comments, templates, webhooks, audit, billing, domains | tables | request handlers | see `PROJECT.json` |

Hard behaviour, in the order it shaped the plan: two requests that read outside
a transaction and write inside one; the store written and the commit lost; a
worker that outlives its lease; messages every pod receives; a timeout that
races a late answer; a batch that dies between two statements. `PROJECT.json`
`hazards` places each at its line.

## 2. Modules

| module | models | abstracts |
|---|---|---|
| `OutboxPromise` | what a queue of intents promises: each is applied at least once before it is retired | everything else |
| `OutboxLease` | the claim statement, the 20-drain tick, the handler of the tuple queue, crashes and errors, the grace-period exclusion | time in ticks; the call is "lands / fails" |
| `Members` | eight operations as read, decide and write steps; the seat lock; refusals and lost commits of the store | names, e-mail, sessions, audit |
| `GroupMirror` | one subject's groups and slices, the store, the removal's queue rows, flush and drain, a write that fails in the middle or whose commit is lost | group names; the batch-then-single retry of a store call is its outcome, any part of the additions and then of the deletions |
| `McpEdit` | both ends of `edit_body`: call, timeout, retry; election, apply, store, answer and its loss; the lock's expiry and deletion, crash | the text; one document |
| `ImportJobs` | staging and the row, reap / claim / start as three statements, pages and attachments one by one, heartbeat, grace period, rollback, verdict | the archive's content; the second pass is one step |
| `SearchIndex` | the row of a mutation, its background task, the drain, orphans of a removed workspace | a document is the mutation it was built after; viewers and publication |
| `PageTree` | create, move, publish: what each reads before its transaction, the advisory lock per space, guard, write, the swap of the links, the tuples written after the commit | sibling order, titles, the home page of a space |
| `PageTrash` | trash (mark, stamp, compensate), restore, purge, direct deletion, move, the hourly sweep | retention is a flag; files and comments |
| `LiveDocument` | tabs, one pod's document, three store lanes with retries, a thrown error and the empty-flush guard, compaction, flush, publication, restore and its signal | a Yjs state is the set of operations it knows; markdown is how often each piece of text stands in it |
| `RoleGrants` | one principal in one space: both transactions of a grant and of a removal, the sweep, edit and deletion of a custom role | the catalogue of capabilities; origin `manual` only |

The `MC*` modules give the constants values. The proofs are in seven modules of
their own, each extending what it is about: `TupleQueue_proofs` (`OutboxLease` and
`GroupMirror`, which fills the queue and drains it), `Members_proofs`,
`McpEdit_proofs`, `ImportJobs_proofs`, `SearchIndex_proofs`, `PageTree_proofs` and
`LiveDocument_proofs`. Since two modules are extended together in the first, the
names in `OutboxLease` begin with `Lease` (`LeaseSpec`, `LeaseNext`); those of
`McpEdit` begin with `Edit` in the same way.
`SearchIndex` and `ImportJobs` repeat the lease's re-claim rule in their own
`Due`: both ride `claimOutboxBatch` with another meaning of a claimed row.

State and code. In `OutboxLease` `outbox`/`age` are the rows and the age of
`claimed_at`; `todo`/`sent` are a worker's local variables; `since` is a history
variable (age of the worker's own claim) used only in properties and in the
`Patience` assumption. In `Members` `rows` and `tuples` are the two stores,
`lock` the advisory lock `seats:<tenant>`, `req` the local variables of requests
(`seen` is the row as read). A transaction that takes the lock is modelled from
its first read to its commit as two actions (begin, finish) so that unlocked
operations run in between; `req.plan` is the plan the request was resolved under,
which the seat check uses whatever has become of the plan since. In `GroupMirror`
`req.seen` is the previous group list; `landed`, `adrift` (groups that a failed
write, a lost commit or a row read too early left different in row and store) and
`crossed` (groups another removal queued while a flush was between deleting
their tuples and dropping their rows) are history variables. In `McpEdit` `api` is what the caller
knows, `work` the handlers, `age` the time since publication; `tardy` (requests
elected with less of the wait left than the lock lives), `loose` (handlers whose lock expired or
was deleted by another), `unstored` and `unheard` are history variables. In `ImportJobs`
`at` is a worker's place in `drainImportJobs`, `runOneImport` and
`materializeImport`, with the pages it remembers (`made`) and whether it has seen
the grace period (`cut`); `runs` is a history variable. `tenants.deleted_at` is
read by this version and written by nobody in it, so `ToggleLeaving` is the hand
that will. In `SearchIndex` `at` is a processor's place between reading the page
and deleting the row; `shared` is a history variable.

In `PageTree` `req` holds what a handler read before its transaction (`from`,
`old`) and what the transaction has fixed (`tree`, `hadOld`); `lock` is
`pg_advisory_xact_lock` per space, taken in the order of the ids; `astray` is a
history variable: pages whose tuples a lost commit or a failed call left behind.
In `PageTrash` a page is in the trash twice, `stamp` in the row and `mark` in
the store, and `intent` is what the index was last told; `job` is a request's or
the sweep's local state; `astray` (pages of an operation that was cut short) and
`twice` (pages stamped when they were in the trash already) are history variables.
`Above` is what the recursive queries walk: the least set with the page and the
parents of its members, so that no depth bounds it. In `LiveDocument` `doc` is the pod's document, `write`
the stores under way with the state each captured, `ydoc` the column; `made`
says what an operation brings and wipes, so that merging is set union and a
blank document is one whose every item is wiped. An error of the database is
thrown out of a store (`Throw`): nothing retries, nothing is armed, the tabs stay
joined. History variables are `excused` (operations whose only copy went with a
pod, a store given up, refused or thrown, or under a writer that had not seen
them), `twice` (pieces a restore or a compaction brought again beside an original
it had not seen) and `pub.acked` (the answer came from the pod that has the
document). In `RoleGrants` `rows` and `owned` are the table, `leaf` the store,
`req.held` the leaves as read before the transaction, `req.row` the row inserted
or the rows to remove, `req.locks` its `FOR UPDATE`. History variables are
`strays` (leaves no row owns: from before rows, a lost commit, a cascade, rows
removed by who had read too early), `gaps` (leaves gone that a row confers, for
the same kind of reason), and in a request `came` and `news`: rows others
committed, and capabilities they came to confer, since it read.

## 3. Runs

| run | instance | shows |
|---|---|---|
| `lease` | 3 rows of 2 tenants, the oldest of them poison, 2 workers, batch of one, one mishap | intents survive, exclusion within the window, refinement of `OutboxPromise`, the good rows drain |
| `members` | 3 subjects, all operations, 2 requests, one lost commit; removals and role changes run alone (`Solo`) | the floor; nobody takes a seat that the plan his request was resolved under does not have; store and rows agree |
| `members_floor` | 2 subjects, 2 concurrent removals | refutes "Cannot remove the last admin" |
| `groups` | one group, 2 connections, 2 requests at once, 2 removals, one drain worker, one write that fails half way or loses its commit, a flush that may fail | what differs between row and store is written down or on record as lost, and what is queued lands |
| `edit` | one edit called twice, 2 pods, no bound on messages or handlers, one mishap (a pod dies, a store keeps nothing, an answer is lost) | one handler at a time, an answer is true, the lock comes free |
| `imports` | 2 uploads into one space, 2 workers, 2 pages each, one mishap of seven kinds, a second pass that may outlast the window (`Slow`) | bytes before the row, one run per row, all the pages or none, a verdict stays, every row settles |
| `search` | 3 mutations of one page, their background tasks, one drain worker, one failure, a removed workspace | a lag has a row unless two processors met; never backwards; rows drain |
| `tree` | a folder with a page, a page in another space, one to be created; 2 requests, 3 operations, one failed call (`Solo`) | no page among its own ancestors, families stay in one space, drafts are not linked, the store follows, moves do not deadlock |
| `tree_cycle` | 3 moves, `Solo = FALSE` | refutes "two opposite concurrent moves cannot commit a cycle" |
| `trash` | a folder with 2 pages, one of them in the trash; 2 requests, the sweep, one mishap (`Solo`) | hidden if and only if listed and out of the index, live under live, half-done work heals |
| `live` | one tab that edits, clears, leaves and returns; a draft or a page born published; three operations (`MaxMade`), a store with a retry, one publication, a restore, a compaction, one mishap, in any interleaving | nothing forgotten, nothing doubled, never blanked, a publication covers what the pod had, no spurious badge, edits reach the draft |
| `roles` | 3 capabilities, a noun of two, one custom role of three shapes; 3 requests, any two in flight in any interleaving, one mishap | a row confers, a leaf has an owner, an answered grant leaves one role, no gap on the way |

Type invariants are not among the properties of the runs, since nothing is learnt
from one: all are proved (section 4) but those of `PageTrash` and `RoleGrants`,
which TLC has found to hold at the bounds of their runs.

Bounds. Two of each actor are enough for every race here: each is between one
reader and one writer; the cycle of pages alone takes three. Three rows of the
lease give a poison row, a good one and one in a second tenant; three of the
search index give an edit, a deletion and a return. `Stale`, `Dead`, `LockTTL`
and `AckTimeout` keep the code's order (interval below window, shared window
below the import's, lock below wait) at the smallest numbers. `MaxLosses`,
`MaxFailures`, `MaxMishaps`, `MaxCrashes` and `MaxStoreFails` are one: each
property is about the first. `MaxRemovals` is two, since the queue's races need
a row of an earlier removal. `MaxDepth` of `PageTree` is two, so that a folder, its
page and one below fill it (`PageTrash` needs no such bound). `MaxAsked` of the
roles is three: a row there is, and two requests that race for it; each exception
in the properties of `roles` was taken out in turn and is needed at these bounds,
so the races do happen. `MaxMade` of `live` is three: an edit, what clears, restores or
compacts it, and one more beside.

Larger instances were run by hand for safety: `live` with four operations on a page
born published (5.7 million states) and on a draft (0.7 million).

In most modules every operation interleaves with every other, and what the code
then loses is named by the history variables above. In three, pairs of operations
that no lock of the code orders are kept apart in the passing run by a constant
(`Solo`), because with them the properties do not hold: the list below says which
and how. What such a run shows is what holds apart from those pairs: lost
commits, refused calls, crashes, the sweep, and every pair the code does order.

* `Members`: removals and role changes, which decide outside any lock, run alone.
  Suspensions, returns, invites, sign-ins, the plan batch, downgrades and upgrades
  meet as they may.
* `PageTree`: requests keep off a page another one is at work on, and off a
  subtree on its way to another space. Moves in one space still meet at the lock.
* `PageTrash`: requests keep off each other's families, restoring off the sweep.

Exceptions in properties are named in their comments:

* `LeaseExclusive` excepts a worker that has outlived the window.
* `GrantsMatchRows` speaks of runs in which no commit was lost.
* `DriftIsWrittenDown` excepts the groups `adrift`, until a later write settles
  them, and with `QueuedLands` those `crossed`.
* `OneAtATime` excepts handlers that are `loose`; `AnswersAreTrue` excepts of "ok" the edits
  `unstored`, of "timed out" the requests `tardy`, `loose` or `unheard` (a pod that
  died before answering is among the last; `collab-mcpedit.ts` 54-55 describes that gap).
* `AllOrNothing` excepts a crash, a page that cannot be deleted and the attachment
  whose page is not yet remembered.
* `LagIsPendingAlone` and `NeverBackwards` except pages two processors met at.
* `StoreFollowsRows` and `HiddenIffListed` except pages an operation was cut short
  at, `LiveUnderLive` pages that were stamped twice.
* `NothingForgotten` and `PublishCovers` except the operations `excused`, `NoDoubling`
  the pieces `twice`, `NeverBlanked` a step that writes over another row than its
  guard read (`Belated`); `PublishCovers` speaks of publications that were `acked`.
* `RowsConfer` excepts `gaps`, `LeafHasOwner` `strays`, `AnswerConverges` what
  `came`, and `NoGap` a row that was taken away under its grant.

Deadlock checking is off where the operations can be used up (calls, removals
and rows are bounded by their caps).

Fairness. A drain worker is a `setInterval` of a live process (weak fairness of
its steps and of time), and a store that is asked again and again in the end
answers (strong fairness of the delivery of a row that is not poison). A
background task of the search index goes on unless it fails. Requests owe
nothing in `Members`, `GroupMirror` and `RoleGrants`: they may be abandoned at
any step. In `McpEdit` handlers go on unless their pod dies, and time passes. In
`PageTree` a handler goes on unless its call fails, and PostgreSQL grants a lock
that comes free again and again (strong fairness of `TakeLock`). In `PageTrash`
the sweep is a timer of a live process and a request goes on unless it is
abandoned. In `LiveDocument` the debounce timer of a live pod fires, and the database calls of
the store it starts return; loads, compactions, restores, publications and tabs
owe nothing. `Patience` and `Slow` say how long a worker may be at a row: the code
assumes such a bound and does not enforce it. `lease` puts `Patience` at the
window, the proofs about the lease leave it open; `imports` leaves the second pass
without a bound; `McpEdit` has no such bound.

Known limit of the lease, by design of the code: with at least `Batch` poison
rows per interval of the window the head of the queue is always poison and good
rows starve; `lease` stays below that.

What the refuting runs do not list. These are further consequences of reading first
and writing later, most of them at lines under `hazards`. In the modules without
`Solo` they happen in the passing run and are what its exceptions name; in the
others, variants of the same instances show them:

* `Members` with `Solo = FALSE`: a sign-in
  re-creates the row of a member removed meanwhile; a role change read before a
  suspension writes `tenant#admin` for a suspended member; the batch freezes
  somebody promoted since it read the roles (`plan-reconcile.ts` 38). In the run: a
  downgrade between a request's start and its commit leaves the workspace over its
  new cap (`SeatGate` holds against the plan of the request, `invites.ts` 504-545). Alone: a batch that dies between
  committing the plan and freezing leaves the surplus (`plan-reconcile.ts` 77); a
  suspended member cannot be removed, since their tuple has gone (`members.ts`
  699); a returning member is refused their own seat at the cap.
* `GroupMirror`: a sign-in beside a removal leaves a tuple nobody queued
  (`members.ts` 635 reads the groups before the transaction, 710-711 says drift
  cannot survive it); two sign-ins diff against the same old list and leave a tuple
  neither asked for; a failure among the deletions (`group-sync.ts` 97-99) or a
  commit lost after the sync leaves the row claiming groups whose tuples are gone,
  with nothing queued; a queued deletion takes the tuple of a member who came back;
  the flush drops queue rows by tuple, another removal's included.
* `McpEdit`: a pod that gets the message after the first has released the lock
  applies it again (`collab/src/index.ts` 251 releases, 173-174 speaks of exactly
  one applier); a handler that takes longer than the lock lives deletes its
  successor's lock; one that is elected late lands after the timeout; a pod that
  dies after the store and before the answer, or an answer whose publication fails
  silently (206), leaves an edit its caller will repeat.
* `ImportJobs` with `Slow` holding "running" back: two imports of one space run at
  once after a reap (`OneWriterPerSpace`; `import/jobs.ts` 174 against 33-34 and
  migration 124:31); a page whose attachment fails is not in the rollback's list; a
  reaped row's archive is deleted by nobody.
* `SearchIndex`: two processors of one page (`LagIsPending`; `search/outbox.ts` 162
  against 65-66 "double processing is harmless"); a failed deletion that is retried
  after the page's return removes what the return wrote (102).
* `PageTree`: creations do not take a move's lock, so two of them, one below the
  other, between a move's check and its write give a tree deeper than the walks go,
  and the walks answer 500 without a cycle (2861-2863 "the only way to reach it is
  structural corruption"); a deeper instance than `tree` shows it, with `Solo`
  too, which is why `Rooted` speaks of cycles and not of the walks.
  With `Solo = FALSE`: a page created beside a move of its parent to another space stays in the old one (`NestingInSpace`, comment at 290); a
  publication beside such a move links the page to two spaces (2943-2945); two
  moves of one page leave the tuple of the first one's parent
  (`StoreFollowsRows`, stale `old`).
* `PageTrash` with `Solo = FALSE`: a purge passes its guard, a restore clears the
  stamp, and the purge erases a live page (3795, 3809, 3846-3848), for which there
  is no property, since nothing in the code stands against it; the
  sweep stamps a page again that was restored after it looked (3859); restoring a
  page beside the trashing of its folder leaves it live under trash
  (`LiveUnderLive`). Alone: a crash after only the folder was marked is healed for
  the folder only (3848-3852); two trashings, one of a page inside the other's
  folder, may both have read a page as live, and the second to commit stamps it with
  its own root, since the UPDATE at 3272 goes by the ids alone (against 3252, "a
  nested OLDER trash root keeps its own deleted_root_id"): a restoration of the one
  root leaves the page with the other, and its child, live, below it, which the purge
  of the other then takes along (`LiveUnderLive` without `twice`, in instances with one operation more than `trash` has); a restore to the top does not delete the old
  `page#parent` tuple; the row check that 3907 says `physicalDeletePage` makes is
  not there.
* `LiveDocument`: a restore whose signal is lost is overwritten by the next store of
  the resident document (`collab/src/index.ts` 103-105, `revisions.ts` 199-201); a
  restore beside a store loses one of the two (`revisions.ts` 190-192); a retried
  store lands after a newer one (`ydoc.ts` 98-99); an error thrown out of the store
  leaves the tabs joined and nothing armed, so that what they typed waits for the
  next edit (`ydoc.ts` 102-104, `collab/src/index.ts` 65-87); a tab off line brings
  back what was compacted (`ydoc.ts` 19-21). A publication takes the first answer,
  also that of a pod without the document: if `AnswerElsewhere` counted as
  acknowledged, `PublishCovers` would fail (`index.ts` 157-162). The badge may be
  down over a draft that has moved on, so only one direction of `ydoc.ts` 152-156
  ("accurately") is stated.
* `RoleGrants`: a role deleted beside a grant of it goes without its leaves (against
  `roles.ts` 1234-1237); two grants sweep each other, or a grant runs beside a
  revocation, and nothing is left (against `spaces.ts` 800); an edit beside a removal
  acts on leaves read before its transaction (`roles.ts` 822-823). Alone: a
  capability whose row outlived a lost revocation is granted again with success and
  without a leaf (366-368), and an edit that would delete such a leaf fails each time.

## 4. Proofs

`TupleQueue_proofs` proves of `OutboxLease`, for every set of rows, workers, tenants, every
batch, burst, window and number of mishaps (the assumptions are the `ASSUME`s of
`OutboxLease`; `TickEvery` between one and the window is the only one that binds):

* `LeaseTypeCorrect` — `LeaseSpec => []LeaseTypeOK`;
* `NothingLost` — `LeaseSpec => []NoIntentLost`, at-least-once;
* `LeaseExcludes` — `LeaseSpec => []LeaseExclusive`;
* `Refinement` — `LeaseSpec => PromiseKept`, the lease implements `OutboxPromise`.

The invariant is `LeaseInv`. `LeaseExclusive` alone is not inductive: nothing in it
says that the row a worker holds was stamped when it claimed it. `HeldIsClaimed`
adds that a held row that is still in the table is as old as, or younger than,
its holder's claim, so that a row another worker may claim (age above the
window) has a holder that has overstayed. `NoIntentLost` needs `SentLanded` (a
row about to be deleted has landed) and `Provenance` (rows and landed rows were
committed). `DrainsLeft` gives the bound of the burst. One lemma shows that
`Init` establishes it, one that each action keeps it; each theorem is then a
conjunct and one temporal step.

`ImportJobs_proofs` proves, for every set of uploads, spaces and workers, every
size of archive, both windows and whatever goes wrong, under one assumption,
`"claimed" \notin Slow` (a worker is not held up for longer than the shared
window between its claim and the next statement; an import that runs may take as
long as it likes):

* `TypeCorrect` — `Spec => []TypeOK`, no more pages than the archive has;
* `BytesBeforeRow` — `Spec => []QueuedHasBytes`;
* `RunOnce` — `Spec => []RunsOnce`;
* `VerdictsStay` — `Spec => VerdictFinal`;
* `NothingLingers` — `Spec => []AllOrNothing`.

`Start` writes "running" without asking for the status, so neither `RunsOnce` nor
`VerdictFinal` follows from a guard. `ClaimHolds` says why it may: between claim
and `Start` the row is queued and its claim within the window, hence not due for
anybody else. `SoleHolder` extends that to the whole run: a row that has begun is
never queued again, so nobody joins the worker that holds it, even after the
reaper has settled it. `RunsBegun` ties pages and runs to the status, and
`PagesKnown` the worker's list to the pages there are; without it a rollback could
count below zero. `StagedHasBytes` is what an insert needs. `Whole` carries
`AllOrNothing` through a run: for each place of a worker it says how many pages
there are (`Counted`), and of an import nobody is at that it is not running, so
that what the reaper settles always has a worker that will finish or undo it;
`OwnStep` reduces every step of a worker to its own import.

`McpEdit_proofs` proves, for every set of pods and edits, every number of attempts
and mishaps, however late a message arrives and however long a handler takes; the
only assumption about time is the code's own, `LockTTL < AckTimeout`:

* `EditTypeCorrect` — `EditSpec => []EditTypeOK`;
* `OneHandler` — `EditSpec => []OneAtATime`;
* `AnswersTrue` — `EditSpec => []AnswersAreTrue`.

`OneAtATime` says nothing of the lock, and the lock is deleted by whoever is done
with it. `HolderHasLock` closes that: a handler that is not `loose` is who the lock
names, alone at its request, and unless the request was elected late the lock is
old enough to expire before the caller stops waiting. `StoredIsLanded` and
`LandedIsHeard` tie what happened to the document to what the caller heard or is
about to hear.

`TupleQueue_proofs` proves of `GroupMirror`, for every set of groups, connections,
requests and drain workers, every number of removals and failures, in any
interleaving:

* `TypeCorrect` — `Spec => []TypeOK`;
* `DriftWritten` — `Spec => []DriftIsWrittenDown`;
* `NothingDropped` — a row leaves the queue only once its deletion was made: the
  safety half of `QueuedLands`, whose liveness stays with TLC.

The queue may be emptied by two hands, the flush by tuple and the drain by row.
`InHand` says what the flush may rely on between its deletion and its `DELETE`
(each row of what it claims has landed, or was queued across it), `DrainInHand` the
same of a worker. `TupleQueued` strengthens half of the property: the row that
accounts for a tuple is one nobody is about to drop (`Safe`). `GoneIsBare` says
that a member who is gone claims nothing, and `RowBacked` is the other half.

`LiveDocument_proofs` proves, for every set of tabs and operations, every number of
retries, publications and mishaps, whatever runs beside what:

* `TypeCorrect` — `Spec => []TypeOK`;
* `BadgeHonest` — `Spec => []NoSpuriousBadge`;
* `EditsKept` — `Spec => []NothingForgotten`;
* `PublicationCovers` — `Spec => []PublishCovers`;
* `BlankedKnowingly` — `Spec => NeverBlanked`;
* `TextStandsOnce` — `Spec => []NoDoubling`.

`EditsKept` and `PublicationCovers` follow one operation. `Safe` says of each place
that may hold it (a tab, the pod's document, a load, a store under way, the column)
where else it is then, so that no place that is emptied or overwritten was the last
but for the ways `excused` counts; `Covered` says the same of what a publication
wants, in the document while the request waits, in the store while that is under
way, in the draft until it is read. The draft is read later than the store that was
waited for lands, and another writer may come between: what that one had not seen
is accounted for. `AllMade` is why the new content of another operation changes
nothing: a state holds only what was made.

`BlankedKnowingly` rests on the refusal of a blank state that never saw the text:
`Seeing` says that a blank state that passed the check is one that blanks the row it
looked at by its own operations, so that only a row that changed in between
(`Belated`) is blanked unseen.

`TextStandsOnce` says of every two operations that bring one piece that one knows
the other or the piece is `twice` (`Linked`), that who knows another wipes it or is
its compaction (`Kinds`), and that no state anybody holds has both a compaction and
what it replaced (`Single`).

`PageTree_proofs` proves, for every tree, every set of spaces and requests, every
depth and number of mishaps, with `Solo` and without:

* `DraftsStayGated` — `Spec => []DraftsGated`;
* `TypeCorrect` — `Spec => []TypeOK`, if there is a space.

`DraftsGated` alone does not say that a request links only what is published; a
publication links after its commit, a move what it found linked under another
space long before. `LinksInHand` says so of what each request remembers, and
holds since a page that was published is not made a draft again.

For the types it needs only that a request is about a page that is there, which
stays so since no row is deleted (`Pertinent`). `Rooted`, `NestingInSpace` and `StoreFollowsRows` hold for families nobody else is
at work on, which no lock of the code ensures; they stay with TLC.

`Members_proofs` proves, for every set of subjects and requests, both plans and
every number of lost commits, under `Ordered`: `Solo`, or an instance without
removals and role changes (without `Solo` and with them, `members_floor` refutes
the first):

* `TypeCorrect` — `Spec => []TypeOK`;
* `FloorHolds` — `Spec => []AdminFloor`;
* `StoreFollowsRows` — `Spec => []GrantsMatchRows`;
* `SeatsHeld` — who has counted the seats under the lock still has one when he
  commits, under the plan of his request, and
* `SeatGated` — `Spec => SeatGate`, whatever downgrades and upgrades run beside.

None is inductive, since every operation commits on what an earlier step read.
`InHand` says what each request in flight still knows: the row is as it was seen,
another administrator is active, the frozen-to-be are no administrators.
`Bystander` is the argument for all pairs at once: a request keeps that knowledge
past any step that keeps rows and roles (`RowsKeep`) and, if it holds the lock,
past any step from outside the lock that spares active administrators,
suspensions and absent rows (`RestKeeps`); sign-ins, the batch and upgrades are
shown to be such steps. `Company` gives the pairs `Solo` excludes.
`FreezeSparesAdmins`, that nobody the batch froze is an administrator, is a part of
the invariant that holds under `Solo` alone and no result of its own. `SeatHeld`
counts against the plan of the request that holds the lock, which is why a
downgrade beside it disturbs nothing. `SeatGate` rests on `GrantsMatchRows`: a suspension of somebody the directory had removed
would bill the row again, and it is the store's refusal to delete absent tuples
that stops it.

`SearchIndex_proofs` proves, for every set of pages, rows and workers, every window,
whatever fails, crashes or outlives its lease:

* `TypeCorrect` — `Spec => []TypeOK`;
* `LagIsCaughtUp` — `Spec => []LagIsPendingAlone`;
* `IndexNeverGoesBack` — `Spec => NeverBackwards`.

Only `WorkerAssumption` is new, that a drain worker is nobody's background task.
That an index that lags has a row says nothing of the time between a row's document
being built and the row being deleted, and there the page may change.
`AloneAtPage` says that who is at a page that was never shared has the row still and
the page to themselves; `WritesWanted` that what they are about to write, or wrote
just before they delete the row, is what search should answer, or else another row
will have the page looked at again. `DeleteIsAtWork` covers a deletion, which has no
document to compare. For `NeverBackwards` rows and documents are ordered by the
mutation they come from (`RowsInOrder`, `DocsInOrder`): no document is newer than
its page, and none that is about to be written is older than what the index has of
a page that was never shared.

Only model-checked: the properties under fairness (`GoodRowsDrain`, `QueuedLands`,
`LockComesFree`, `EverySettles`, `RowsDrain`, `MovesEnd`, `OrphansHeal`,
`EditsReachDraft`), which the prover does not reach; `Rooted`, `NestingInSpace`,
`StoreFollowsRows`, `HiddenIffListed` and `LiveUnderLive`, which are checked under
`Solo`; and the four of `RoleGrants`, which are checked without any such
restriction and not proved yet. Of the theorems above only those of `Members` rest
on operations being kept apart (`Ordered`), and only those of `ImportJobs` on a
worker being in time.

## 5. Plan

1. Done, with proofs: `OutboxPromise` (as what `OutboxLease` implements),
   `OutboxLease`, `Members`, `ImportJobs`, `McpEdit`, `GroupMirror`, `LiveDocument`
   and `SearchIndex`. Checked, proved in part or not at all: `PageTree`,
   `PageTrash`, `RoleGrants`.
2. `PageTree` and `PageTrash` as one module: a move beside a trashing of the same
   family is in `PageTrash` only as a change of parent.
3. `EmailOutbox`: folding of siblings, backoff, the attempt limit. `ShareLinks`:
   authenticate against revoke. `LoginMethods`: the floors read before the write;
   recovery codes and reset links, consumed once.
4. `PageTree` and `PageTrash` without `Solo`, their exceptions carried by history
   variables as in `LiveDocument` and `RoleGrants`; then their proofs. The proof of
   `RoleGrants`: who may take a leaf away between another's reading and its commit.

## 6. Not modelled

The web client, renderers and importers' parsers, translations, the authorisation
model's relations, deployment: no shared state or pure conversion. PostgreSQL,
OpenFGA, Valkey, Yjs and Hocuspocus are external and appear as what the code
relies on: a statement is atomic, a store write is all or nothing and refuses
what is already so, publish reaches whoever listens now.
