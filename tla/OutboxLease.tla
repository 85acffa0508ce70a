---------------------------- MODULE OutboxLease ----------------------------
(***************************************************************************)
(* The outbox lease (apps/server/src/db/outbox-lease.ts) under one of the  *)
(* handlers that ride it unchanged (db/tuple-outbox.ts, drainTupleOutbox). *)
(*                                                                         *)
(* A row is an intent committed with a business transaction.  Each server  *)
(* process runs one periodic worker; a tick claims batches of due rows in  *)
(* ONE statement, performs the external call of each row outside any       *)
(* transaction, deletes the row on success and leaves it claimed on        *)
(* failure.  A claim older than the stale window can be claimed again.     *)
(*                                                                         *)
(* Rows are naturals in created_at order.  Time is counted in ticks.       *)
(***************************************************************************)
EXTENDS Integers, FiniteSets

CONSTANTS
    Rows,        \* ids of the outbox table, in created_at order
    Workers,     \* server processes, one drain worker each
    Tenants,     \* workspaces
    TenantOf,    \* the tenant_id of a row
    Poison,      \* rows whose external call always fails
    Batch,       \* LIMIT of the claim statement
    Burst,       \* drains one tick may run back to back (20 in the code)
    Stale,       \* the stale window, in ticks of time
    TickEvery,   \* the worker's interval, in ticks of time
    Patience,    \* longest time a batch is at work; above Stale, no limit
    MaxMishaps,  \* bound: crashes and database errors in one behaviour
    NoRow

ASSUME RowsAssumption == Rows \subseteq Nat /\ NoRow \notin Rows
ASSUME TenantAssumption == TenantOf \in [Rows -> Tenants]
ASSUME PoisonAssumption == Poison \subseteq Rows
ASSUME BatchAssumption == Batch \in Nat \ {0} /\ Burst \in Nat \ {0}
\* Every worker of the code polls more often than the two-minute window.
ASSUME WindowAssumption == /\ Stale \in Nat
                           /\ TickEvery \in 1 .. Stale
                           /\ Patience \in Nat \ {0}
ASSUME MishapAssumption == MaxMishaps \in Nat

VARIABLES
    outbox,     \* rows in the table
    age,       \* age of claimed_at; NoClaim when it is NULL
    frozen,    \* tenants with deleted_at set
    phase,     \* a worker's place in the loop of startOutboxDrainWorker
    pass,      \* drains run in this tick
    todo,      \* rows a worker claimed and has not finished with
    sent,      \* the row whose call has landed and whose DELETE is next
    drained,   \* whether this drain has retired a row
    since,     \* age of the worker's own last claim statement
    wait,      \* time since the worker's timer last fired
    applied,   \* rows whose external call has landed
    entered,   \* rows ever committed
    mishaps

tableVars == <<outbox, age, entered>>
workerVars == <<phase, pass, todo, sent, drained, since>>
leaseVars == <<outbox, age, frozen, phase, pass, todo, sent, drained, since,
          wait, applied, entered, mishaps>>

NoClaim == -1
Ages == 0 .. Stale + 1            \* Stale + 1 stands for every older age
Older(a) == IF a > Stale THEN a ELSE a + 1

Phases == {"idle", "claim", "handle"}

LeaseInit ==
    /\ outbox = {}
    /\ entered = {}
    /\ age = [r \in Rows |-> NoClaim]
    /\ frozen = {}
    /\ phase = [w \in Workers |-> "idle"]
    /\ pass = [w \in Workers |-> 0]
    /\ todo = [w \in Workers |-> {}]
    /\ sent = [w \in Workers |-> NoRow]
    /\ drained = [w \in Workers |-> FALSE]
    /\ since = [w \in Workers |-> Stale + 1]
    /\ wait = [w \in Workers |-> 0]
    /\ applied = {}
    /\ mishaps = 0

----------------------------------------------------------------------------
(* The claim statement *)

\* Mutated form: the stale window is off by everything, any claim is stale.
DueNoWindow(r) == r \in outbox /\ TenantOf[r] \notin frozen

\* The WHERE clause: unclaimed or stale, and not of a tenant being removed.
Due(r) == /\ r \in outbox
          /\ age[r] = NoClaim \/ age[r] > Stale
          /\ TenantOf[r] \notin frozen

\* ORDER BY created_at LIMIT batch: the oldest due rows, all of them if few.
OldestDue(S) ==
    LET due == {r \in Rows : Due(r)}
    IN  /\ S \subseteq due
        /\ \A r \in S, q \in due \ S : r < q
        /\ Cardinality(S) <= Batch
        /\ S # due => Cardinality(S) = Batch

\* One UPDATE ... WHERE id IN (SELECT ... FOR UPDATE SKIP LOCKED).
Claim(w) ==
    /\ phase[w] = "claim"
    /\ \E S \in SUBSET outbox :
          /\ OldestDue(S)
          /\ age' = [r \in Rows |-> IF r \in S THEN 0 ELSE age[r]]
          /\ todo' = [todo EXCEPT ![w] = S]
    /\ phase' = [phase EXCEPT ![w] = "handle"]
    /\ drained' = [drained EXCEPT ![w] = FALSE]
    /\ since' = [since EXCEPT ![w] = 0]
    /\ UNCHANGED <<outbox, entered, frozen, pass, sent, wait, applied, mishaps>>

----------------------------------------------------------------------------
(* The handler, one row at a time, outside any transaction *)

\* The external call lands, or is answered "already converged".
Deliver(w, r) ==
    /\ phase[w] = "handle" /\ sent[w] = NoRow
    /\ r \in todo[w] \ Poison
    /\ applied' = applied \cup {r}
    /\ sent' = [sent EXCEPT ![w] = r]
    /\ UNCHANGED <<tableVars, frozen, phase, pass, todo, drained, since, wait,
                   mishaps>>

\* Mutated form: the row is dropped although its call did not land.
FailDropsRow(w, r) ==
    /\ phase[w] = "handle" /\ sent[w] = NoRow
    /\ r \in todo[w]
    /\ outbox' = outbox \ {r}
    /\ todo' = [todo EXCEPT ![w] = @ \ {r}]
    /\ UNCHANGED <<age, entered, frozen, phase, pass, sent, drained, since,
                   wait, applied, mishaps>>

\* Mutated form: a failure releases the claim, and the same rows are next.
FailReleases(w, r) ==
    /\ phase[w] = "handle" /\ sent[w] = NoRow
    /\ r \in todo[w]
    /\ age' = [age EXCEPT ![r] = NoClaim]
    /\ todo' = [todo EXCEPT ![w] = @ \ {r}]
    /\ UNCHANGED <<outbox, entered, frozen, phase, pass, sent, drained, since,
                   wait, applied, mishaps>>

\* Any other answer: leave the row claimed, go on with the next.
Fail(w, r) ==
    /\ phase[w] = "handle" /\ sent[w] = NoRow
    /\ r \in todo[w]
    /\ todo' = [todo EXCEPT ![w] = @ \ {r}]
    /\ UNCHANGED <<tableVars, frozen, phase, pass, sent, drained, since, wait,
                   applied, mishaps>>

\* DELETE ... WHERE id, whoever holds the claim by now.
Delete(w) ==
    /\ sent[w] # NoRow
    /\ outbox' = outbox \ {sent[w]}
    /\ todo' = [todo EXCEPT ![w] = @ \ {sent[w]}]
    /\ sent' = [sent EXCEPT ![w] = NoRow]
    /\ drained' = [drained EXCEPT ![w] = TRUE]
    /\ UNCHANGED <<age, entered, frozen, phase, pass, since, wait, applied,
                   mishaps>>

----------------------------------------------------------------------------
(* The periodic worker *)

\* setInterval fires; a tick that finds the previous one running returns.
Tick(w) ==
    /\ wait[w] = TickEvery
    /\ wait' = [wait EXCEPT ![w] = 0]
    /\ IF phase[w] = "idle"
       THEN /\ phase' = [phase EXCEPT ![w] = "claim"]
            /\ pass' = [pass EXCEPT ![w] = 0]
       ELSE UNCHANGED <<phase, pass>>
    /\ UNCHANGED <<tableVars, frozen, todo, sent, drained, since, applied,
                   mishaps>>

\* A drain that retired something is followed by another, up to the cap.
EndDrain(w) ==
    /\ phase[w] = "handle" /\ todo[w] = {}
    /\ pass' = [pass EXCEPT ![w] = @ + 1]
    /\ phase' = [phase EXCEPT
                   ![w] = IF drained[w] /\ pass[w] + 1 < Burst
                          THEN "claim" ELSE "idle"]
    /\ UNCHANGED <<tableVars, frozen, todo, sent, drained, since, wait,
                   applied, mishaps>>

\* A worker forgets what it holds: the claims stay in the table.
Forget(w) ==
    /\ mishaps < MaxMishaps
    /\ mishaps' = mishaps + 1
    /\ phase' = [phase EXCEPT ![w] = "idle"]
    /\ todo' = [todo EXCEPT ![w] = {}]
    /\ sent' = [sent EXCEPT ![w] = NoRow]

\* The claim or the DELETE throws: the tick's catch swallows it.
Throw(w) ==
    /\ phase[w] = "claim" \/ sent[w] # NoRow
    /\ Forget(w)
    /\ UNCHANGED <<tableVars, frozen, pass, drained, since, wait, applied>>

\* The process dies and is started again, with a new timer.
Crash(w) ==
    /\ phase[w] # "idle"
    /\ Forget(w)
    /\ wait' = [wait EXCEPT ![w] = 0]
    /\ UNCHANGED <<tableVars, frozen, pass, drained, since, applied>>

----------------------------------------------------------------------------
(* The environment *)

\* The business transaction commits with its row.
Enqueue(r) ==
    /\ r \notin entered
    /\ entered' = entered \cup {r}
    /\ outbox' = outbox \cup {r}
    /\ UNCHANGED <<age, frozen, workerVars, wait, applied, mishaps>>

\* A workspace enters its grace period, or is restored from it.
Freeze(t) ==
    /\ frozen' = IF t \in frozen THEN frozen \ {t} ELSE frozen \cup {t}
    /\ UNCHANGED <<tableVars, workerVars, wait, applied, mishaps>>

\* With a Patience within the stale window, a claim statement runs at once and
\* a batch is through with its calls before its own claim is stale.
Prompt(w) == Patience <= Stale =>
                 /\ phase[w] # "claim"
                 /\ phase[w] = "handle" => since[w] < Patience

\* The clock; a timer that is due fires before it moves on.
PassTime ==
    /\ \A w \in Workers : wait[w] < TickEvery /\ Prompt(w)
    /\ wait' = [w \in Workers |-> wait[w] + 1]
    /\ age' = [r \in Rows |-> IF age[r] = NoClaim THEN NoClaim
                              ELSE Older(age[r])]
    /\ since' = [w \in Workers |-> Older(since[w])]
    /\ UNCHANGED <<outbox, entered, frozen, phase, pass, todo, sent, drained,
                   applied, mishaps>>

Work(w) == \/ Claim(w) \/ Delete(w) \/ EndDrain(w)
           \/ \E r \in Rows : Fail(w, r)

LeaseNext ==
    \/ \E w \in Workers : \/ Tick(w) \/ Work(w) \/ Throw(w) \/ Crash(w)
                          \/ \E r \in Rows : Deliver(w, r)
    \/ \E r \in Rows : Enqueue(r)
    \/ \E t \in Tenants : Freeze(t)
    \/ PassTime

(***************************************************************************)
(* A worker that can move does; time passes; a store that is asked again   *)
(* and again in the end answers.  Nothing is assumed of poison rows.       *)
(***************************************************************************)
LeaseFairness ==
    /\ WF_leaseVars(PassTime)
    /\ \A w \in Workers : WF_leaseVars(Tick(w)) /\ WF_leaseVars(Work(w))
    /\ \A r \in Rows : SF_leaseVars(\E w \in Workers : Deliver(w, r))

LeaseSpec == LeaseInit /\ [][LeaseNext]_leaseVars
LeaseFairSpec == LeaseSpec /\ LeaseFairness

----------------------------------------------------------------------------
\* Types; in particular one tick runs at most Burst drains
\* (startOutboxDrainWorker's capped loop).
LeaseTypeOK ==
    /\ outbox \subseteq Rows /\ applied \subseteq Rows /\ entered \subseteq Rows
    /\ age \in [Rows -> Ages \cup {NoClaim}]
    /\ frozen \subseteq Tenants
    /\ phase \in [Workers -> Phases]
    /\ pass \in [Workers -> 0 .. Burst]
    /\ todo \in [Workers -> SUBSET Rows]
    /\ sent \in [Workers -> Rows \cup {NoRow}]
    /\ drained \in [Workers -> BOOLEAN]
    /\ since \in [Workers -> Ages]
    /\ wait \in [Workers -> 0 .. TickEvery]
    /\ mishaps \in 0 .. MaxMishaps

\* At-least-once: whatever crashes, throws or is claimed twice, an intent that
\* was committed is still in the table or its external call has landed.
NoIntentLost == entered \subseteq outbox \cup applied

\* The lease excludes: two workers are at work on one row only when one of
\* them has overstayed the stale window (claimOutboxBatch's re-claim rule).
LeaseExclusive ==
    \A v, w \in Workers :
        v # w /\ todo[v] \cap todo[w] # {} => since[v] > Stale \/ since[w] > Stale

\* A row whose call can succeed leaves the table, or its tenant is frozen,
\* however many poison rows are older than it and whoever crashes.
GoodRowsDrain ==
    \A r \in Rows \ Poison : r \in outbox ~> r \notin outbox \/ TenantOf[r] \in frozen

\* The lease implements the promise.
Promise == INSTANCE OutboxPromise WITH pending <- outbox
PromiseKept == Promise!Spec
=============================================================================
