---------------------------- MODULE GroupMirror ----------------------------
(***************************************************************************)
(* One subject's groups: the union members.groups keeps of what each login *)
(* connection asserted, its mirror as group#member tuples in the           *)
(* permission store, and fga_tuple_outbox, the queue of tuple deletions a  *)
(* member removal leaves behind (auth/group-sync.ts, db/tuple-outbox.ts,   *)
(* and their callers in auth/session.ts, auth/member-suspension.ts and     *)
(* routes/members.ts).                                                     *)
(*                                                                         *)
(* Every caller reads the groups a moment before it writes the difference, *)
(* and syncs the store before it commits the row.  Two history variables   *)
(* remember the groups for which that went wrong: adrift, those whose row  *)
(* changed between read and write or was rolled back after the store had   *)
(* changed, and crossed, those queued between another removal's deletion   *)
(* of the tuple and its dropping of the rows that name it.                 *)
(***************************************************************************)
EXTENDS Integers, FiniteSets

CONSTANTS
    Groups, Conns,
    Reqs,         \* requests that may be in flight at once
    Drainers,     \* drain workers
    Ops,          \* operations of this instance
    MaxRemovals,  \* bound: removals in one behaviour
    MaxFailures   \* bound: transactions that fail once the store has changed

ASSUME OpsAssumption ==
    Ops \subseteq {"login", "remove", "suspend", "reactivate", "untrust"}
ASSUME BoundAssumption == MaxRemovals \in Nat /\ MaxFailures \in Nat

VARIABLES
    state,     \* "gone", "active" or "held": the members row
    groups,    \* members.groups
    slice,     \* member_connection_groups
    fga,       \* groups whose member tuple names the subject
    queue,     \* fga_tuple_outbox rows: [id, group]
    req,       \* requests in flight
    drain,     \* what each drain worker is at
    landed,    \* queue rows whose tuple was deleted since they were queued
    removals, failures,
    adrift,    \* history: groups a stale or failed write left unaccounted
    crossed    \* history: groups queued across another removal's flush

vars == <<state, groups, slice, fga, queue, req, drain, landed, removals, failures,
          adrift, crossed>>
rowVars == <<state, groups, slice>>
queueVars == <<queue, landed, removals, crossed>>

Intents == [id : 1 .. MaxRemovals, group : Groups]
Idle == [step |-> "idle", seen |-> {}, conn |-> "none", claim |-> {}]
Resting == [step |-> "rest", row |-> [id |-> 0, group |-> "none"]]

Union(sl) == UNION {sl[c] : c \in Conns}

Init ==
    /\ state = "active"
    /\ groups = {}
    /\ slice = [c \in Conns |-> {}]
    /\ fga = {}
    /\ queue = {}
    /\ req = [q \in Reqs |-> Idle]
    /\ drain = [w \in Drainers |-> Resting]
    /\ landed = {}
    /\ removals = 0 /\ failures = 0
    /\ adrift = {} /\ crossed = {}

Ready(q, op) == op \in Ops /\ req[q] = Idle
End(q) == req' = [req EXCEPT ![q] = Idle]
Read(q, step, c, claim) ==
    req' = [req EXCEPT ![q] = [step |-> step, seen |-> groups, conn |-> c,
                               claim |-> claim]]

----------------------------------------------------------------------------
(* syncMemberGroups: write what was added, then delete what was removed *)

Added(prev, next) == next \ prev
Removed(prev, next) == prev \ next

\* Mutated form: the store is only ever added to.
SyncedNoDelete(prev, next) == fga \cup Added(prev, next)

\* The store afterwards; a tuple already as wanted counts as done.
Synced(prev, next) == (fga \cup Added(prev, next)) \ Removed(prev, next)

\* Where a failure can leave the store: within the additions, within the
\* removals, or behind both with only the commit lost.
HalfSynced(prev, next) ==
    {fga \cup A : A \in SUBSET Added(prev, next)}
        \cup {(fga \cup Added(prev, next)) \ D : D \in SUBSET Removed(prev, next)}

\* The union the writer of request q will store: a suspension's is empty, and
\* a connection that is not trusted claims nothing.
Slices(q) == [slice EXCEPT ![req[q].conn] = req[q].claim]
Wanted(q) == IF req[q].step = "suspend" THEN {} ELSE Union(Slices(q))

Differ(S, T) == (S \ T) \cup (T \ S)

\* What the row had when q read it and has not now, or the other way round.
Outdated(q) == Differ(req[q].seen, groups)

\* A write settles the groups it writes a difference for, and no others.
Account(q) ==
    adrift' = (adrift \ Differ(req[q].seen, Wanted(q))) \cup Outdated(q)

\* The store refuses in the middle, or accepts all and the commit is lost:
\* the row rolls back.
SyncFail(q) ==
    /\ req[q].step \in {"login", "untrust", "suspend"} /\ failures < MaxFailures
    /\ failures' = failures + 1
    /\ fga' \in HalfSynced(req[q].seen, Wanted(q))
    /\ adrift' = adrift \cup Differ(fga, fga')
    /\ End(q)
    /\ UNCHANGED <<drain, rowVars, queueVars>>

----------------------------------------------------------------------------
(* Signing in through a connection: establishMemberSession *)

\* A member, or somebody the enrol policy or an invite seats again.
LoginBegin(q, c, claim) ==
    /\ Ready(q, "login") /\ state # "held"
    /\ Read(q, "login", c, claim)
    /\ IF state = "gone"
       THEN state' = "active" /\ UNCHANGED <<groups, slice>>
       ELSE UNCHANGED rowVars
    /\ UNCHANGED <<fga, drain, failures, adrift, queueVars>>

\* The upsert (which seats a row that has gone), the slice, the union, the sync.
LoginWrite(q) ==
    /\ req[q].step = "login"
    /\ slice' = Slices(q) /\ groups' = Wanted(q)
    /\ fga' = Synced(req[q].seen, Wanted(q))
    /\ state' = IF state = "gone" THEN "active" ELSE state
    /\ Account(q)
    /\ End(q)
    /\ UNCHANGED <<drain, failures, queueVars>>

----------------------------------------------------------------------------
(* A connection that is no longer trusted: revokeConnectionGroups *)

UntrustBegin(q, c) ==
    /\ Ready(q, "untrust") /\ state # "gone" /\ slice[c] # {}
    /\ Read(q, "untrust", c, {})
    /\ UNCHANGED <<fga, drain, failures, adrift, rowVars, queueVars>>

UntrustWrite(q) ==
    /\ req[q].step = "untrust"
    /\ slice' = Slices(q)
    /\ groups' = IF state = "gone" THEN groups ELSE Wanted(q)
    /\ fga' = Synced(req[q].seen, Wanted(q))
    /\ Account(q)
    /\ End(q)
    /\ UNCHANGED <<state, drain, failures, queueVars>>

----------------------------------------------------------------------------
(* Suspension clears the groups, not the slices; a return restores neither *)

\* One at a time, by the seat lock, from the read to the commit.
SeatLockFree == \A p \in Reqs : req[p].step # "suspend"

SuspendBegin(q) ==
    /\ Ready(q, "suspend") /\ state = "active" /\ SeatLockFree
    /\ Read(q, "suspend", "none", {})
    /\ UNCHANGED <<fga, drain, failures, adrift, rowVars, queueVars>>

\* Of a member removed meanwhile the tuples still go, before the store refuses
\* to delete the membership and the transaction rolls back.
SuspendWrite(q) ==
    /\ req[q].step = "suspend"
    /\ fga' = Synced(req[q].seen, Wanted(q))
    /\ IF state = "gone" THEN UNCHANGED <<state, groups>>
       ELSE state' = "held" /\ groups' = Wanted(q)
    /\ Account(q)
    /\ End(q)
    /\ UNCHANGED <<slice, drain, failures, queueVars>>

Reactivate(q) ==
    /\ Ready(q, "reactivate") /\ state = "held" /\ SeatLockFree
    /\ state' = "active"
    /\ UNCHANGED <<groups, slice, fga, req, drain, failures, adrift, queueVars>>

----------------------------------------------------------------------------
(* Removal: read, transaction with the queue rows, then the flush *)

RemoveBegin(q) ==
    /\ Ready(q, "remove") /\ state = "active" /\ removals < MaxRemovals
    /\ Read(q, "remove", "none", {})
    /\ UNCHANGED <<fga, drain, failures, adrift, rowVars, queueVars>>

\* Requests between their deletion of a tuple and the drop of its rows.
Flushing == {p \in Reqs : req[p].step = "drop"}

\* Refused, and rolled back, when the membership tuple has gone meanwhile.
RemoveTx(q) ==
    /\ req[q].step = "remove" /\ removals < MaxRemovals /\ state = "active"
    /\ state' = "gone" /\ groups' = {} /\ slice' = [c \in Conns |-> {}]
    /\ removals' = removals + 1
    /\ queue' = queue \cup {[id |-> removals', group |-> g] : g \in req[q].seen}
    /\ req' = [req EXCEPT ![q].step = "flush"]
    /\ adrift' = (adrift \ req[q].seen) \cup Outdated(q)
    /\ crossed' = crossed \cup UNION {req[p].claim : p \in Flushing}
    /\ UNCHANGED <<fga, landed, drain, failures>>

Deleted(g) == {e \in queue : e.group = g}

\* One intent of the flush: the store's delete lands, or is already so.
FlushDelete(q, g) ==
    /\ req[q].step = "flush" /\ g \in req[q].seen
    /\ fga' = fga \ {g}
    /\ landed' = landed \cup Deleted(g)
    /\ req' = [req EXCEPT ![q].step = "drop", ![q].claim = {g}]
    /\ UNCHANGED <<queue, removals, crossed, drain, failures, adrift, rowVars>>

\* dropRow: every queue row that names the tuple.
FlushDrop(q) ==
    /\ req[q].step = "drop"
    /\ queue' = {e \in queue : e.group \notin req[q].claim}
    /\ req' = [req EXCEPT ![q].step = "flush", ![q].claim = {},
                          ![q].seen = @ \ req[q].claim]
    /\ UNCHANGED <<fga, landed, removals, crossed, drain, failures, adrift, rowVars>>

\* Mutated form: the row is dropped although the store did not answer.
FlushSkipDrops(q) ==
    /\ req[q].step \in {"flush", "drop"} /\ req[q].seen # {}
    /\ \E g \in req[q].seen :
          /\ queue' = {e \in queue : e.group # g}
          /\ req' = [req EXCEPT ![q].step = "flush", ![q].claim = {},
                                ![q].seen = @ \ {g}]
    /\ UNCHANGED <<fga, landed, removals, crossed, drain, failures, adrift, rowVars>>

\* The store or the database fails one intent: the queue has it.
FlushSkip(q) ==
    /\ req[q].step \in {"flush", "drop"} /\ req[q].seen # {}
    /\ \E g \in req[q].seen :
          req' = [req EXCEPT ![q].step = "flush", ![q].claim = {},
                             ![q].seen = @ \ {g}]
    /\ UNCHANGED <<fga, drain, failures, adrift, rowVars, queueVars>>

FlushEnd(q) ==
    /\ req[q].step = "flush" /\ req[q].seen = {}
    /\ End(q)
    /\ UNCHANGED <<fga, drain, failures, adrift, rowVars, queueVars>>

\* The process dies, or a transaction is refused and rolls back.
Abandon(q) ==
    /\ req[q].step # "idle"
    /\ End(q)
    /\ UNCHANGED <<fga, drain, failures, adrift, rowVars, queueVars>>

----------------------------------------------------------------------------
(* drainTupleOutbox; the lease may hand a stale row to a second worker *)

DrainClaim(w, e) ==
    /\ drain[w].step = "rest" /\ e \in queue
    /\ drain' = [drain EXCEPT ![w] = [step |-> "delete", row |-> e]]
    /\ UNCHANGED <<fga, req, failures, adrift, rowVars, queueVars>>

DrainDelete(w) ==
    /\ drain[w].step = "delete"
    /\ fga' = fga \ {drain[w].row.group}
    /\ landed' = landed \cup Deleted(drain[w].row.group)
    /\ drain' = [drain EXCEPT ![w].step = "drop"]
    /\ UNCHANGED <<queue, removals, crossed, req, failures, adrift, rowVars>>

DrainDrop(w) ==
    /\ drain[w].step = "drop"
    /\ queue' = queue \ {drain[w].row}
    /\ drain' = [drain EXCEPT ![w] = Resting]
    /\ UNCHANGED <<fga, landed, removals, crossed, req, failures, adrift, rowVars>>

\* The store refuses, or the process dies: the row stays for another tick.
DrainGiveUp(w) ==
    /\ drain[w].step # "rest"
    /\ drain' = [drain EXCEPT ![w] = Resting]
    /\ UNCHANGED <<fga, req, failures, adrift, rowVars, queueVars>>

----------------------------------------------------------------------------
Request(q) ==
    \/ \E c \in Conns : \/ UntrustBegin(q, c)
                        \/ \E claim \in SUBSET Groups : LoginBegin(q, c, claim)
    \/ SuspendBegin(q) \/ Reactivate(q) \/ RemoveBegin(q)
    \/ LoginWrite(q) \/ UntrustWrite(q) \/ SuspendWrite(q) \/ SyncFail(q)
    \/ RemoveTx(q) \/ FlushDrop(q) \/ FlushSkip(q) \/ FlushEnd(q) \/ Abandon(q)
    \/ \E g \in Groups : FlushDelete(q, g)

Drain(w) == (\E e \in queue : DrainClaim(w, e)) \/ DrainDrop(w)

Next == \/ \E q \in Reqs : Request(q)
        \/ \E w \in Drainers : Drain(w) \/ DrainDelete(w) \/ DrainGiveUp(w)

(***************************************************************************)
(* A drain worker keeps running, and a store or database that is asked     *)
(* again and again in the end answers.  Requests owe nothing.              *)
(***************************************************************************)
Fairness == \A w \in Drainers : /\ WF_vars(\E e \in queue : DrainClaim(w, e))
                                /\ SF_vars(DrainDelete(w))
                                /\ SF_vars(DrainDrop(w))

Spec == Init /\ [][Next]_vars
FairSpec == Spec /\ Fairness

----------------------------------------------------------------------------
\* Types; a row that is gone leaves neither groups nor a connection's slice
\* that a later member of the same subject would inherit.
TypeOK ==
    /\ state \in {"gone", "active", "held"}
    /\ groups \subseteq Groups /\ fga \subseteq Groups
    /\ slice \in [Conns -> SUBSET Groups]
    /\ queue \subseteq Intents /\ landed \subseteq Intents
    /\ state = "gone" => groups = {} /\ Union(slice) = {}
    /\ removals \in 0 .. MaxRemovals /\ failures \in 0 .. MaxFailures
    /\ adrift \subseteq Groups /\ crossed \subseteq Groups

\* Row and store differ only where it is written down or went wrong in a way
\* that can be named.  A group the row claims and the store does not grant was
\* deleted by the queue row of an earlier removal, and a tuple no row claims is
\* queued for deletion (routes/members.ts, DELETE), except for the groups of a
\* write on a row that had changed since it was read, of one that was rolled
\* back after the store had changed, and of a removal across another's flush:
\* a suspension, a withdrawal of trust, a sign-in, a removal or a drain that
\* does none of this leaves no drift, whatever runs beside it.
DriftIsWrittenDown ==
    \A g \in Groups \ (adrift \cup crossed) :
        /\ g \in groups \ fga => \E e \in landed : e.group = g
        /\ g \in fga \ groups => \E e \in queue : e.group = g

\* What a removal wrote down is deleted from the store in the end, whatever
\* the flush met (the drain of db/tuple-outbox.ts); a row queued across the
\* flush of another removal may be dropped with that one's.
QueuedLands ==
    \A i \in Intents : i \in queue ~> i \in landed \/ i.group \in crossed
=============================================================================
