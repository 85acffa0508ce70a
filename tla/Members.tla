------------------------------ MODULE Members ------------------------------
(***************************************************************************)
(* The members of one workspace: their rows, the tenant#member and         *)
(* tenant#admin tuples in the permission store, the seats of the plan and  *)
(* the floor of one active administrator.                                  *)
(*                                                                         *)
(* Every operation that changes them is a request made of steps.  The      *)
(* invite, enrolment, suspend and reactivate transactions hold the         *)
(* tenant's seat lock (lockSeats) from their first read to their commit;   *)
(* removal, role change, the profile upsert and the plan batch read first  *)
(* and write later without it.  The seats of a request are those of the    *)
(* plan it was resolved under, whatever has become of the plan since.  A   *)
(* transaction writes the permission store last, all or nothing, and a     *)
(* refusal there rolls the rows back.                                      *)
(***************************************************************************)
EXTENDS Integers, FiniteSets

CONSTANTS
    Subs,       \* subjects that may be members
    Founder,    \* the administrator provisionTenant seats
    Reqs,       \* requests that may be in flight at once
    Ops,        \* the operations of this instance
    Solo,       \* whether operations that nothing orders keep apart
    HighCap,    \* seats of the larger plan
    LowCap,     \* seats of the smaller plan
    AutoEnrol,  \* whether the enrol policy admits every sign-in
    MaxLosses,  \* bound: commits lost after the store was written
    NoReq

AllOps == {"accept", "login", "suspend", "reactivate", "remove", "setrole",
           "downgrade", "upgrade"}

ASSUME FounderAssumption == Founder \in Subs /\ IsFiniteSet(Subs)
ASSUME ReqAssumption == NoReq \notin Reqs
ASSUME OpsAssumption == Ops \subseteq AllOps
ASSUME CapAssumption == /\ HighCap \in Nat \ {0} /\ LowCap \in Nat \ {0}
                        /\ LowCap <= HighCap
ASSUME SwitchAssumption == /\ AutoEnrol \in BOOLEAN /\ Solo \in BOOLEAN
                           /\ MaxLosses \in Nat

VARIABLES
    rows,    \* the members table
    tuples,  \* tenant#member and tenant#admin tuples: <<sub, relation>>
    cap,     \* seats of the plan in force
    lock,    \* holder of the seat advisory lock
    req,     \* requests in flight
    losses

vars == <<rows, tuples, cap, lock, req, losses>>

Roles == {"member", "admin"}
\* deactivation_reason, with "no" for an active member.
Holds == {"no", "admin", "scim", "frozen"}
Row == [role : Roles, held : Holds]
NoRow == [role |-> "none", held |-> "no"]

Steps == {"idle", "enrol", "seat", "heldcheck", "upsert", "join", "accept",
          "suspend", "return", "reactivate", "remove", "setrole", "freeze"}
Request == [step : Steps, sub : Subs, arg : Roles \cup Holds,
            seen : Row \cup {NoRow}, plan : {LowCap, HighCap},
            batch : SUBSET Subs]
Idle == [step |-> "idle", sub |-> Founder, arg |-> "no", seen |-> NoRow,
         plan |-> HighCap, batch |-> {}]

Present(s) == rows[s] # NoRow
Active(s) == Present(s) /\ rows[s].held = "no"

\* What the row's role is worth in the store.
Grants(s, role) == {<<s, "member">>} \cup
                   (IF role = "admin" THEN {<<s, "admin">>} ELSE {})

\* Rows that count against the plan: all but the directory's removals.
Billable == {s \in Subs : Present(s) /\ rows[s].held # "scim"}

\* Is there a seat left under the plan of request q?
SeatFree(q) == Cardinality(Billable) < req[q].plan

\* Mutated form: the count includes administrators who are suspended.
LastAdminCountsSuspended(s) == \A t \in Subs \ {s} : rows[t].role # "admin"

\* Would taking administration from s leave no active administrator?
LastAdmin(s) == \A t \in Subs \ {s} : ~(rows[t].role = "admin" /\ Active(t))

IsAdmin(a) == <<a, "admin">> \in tuples     \* requireTenantAdmin

Init ==
    /\ rows = [s \in Subs |-> IF s = Founder
                              THEN [role |-> "admin", held |-> "no"] ELSE NoRow]
    /\ tuples = Grants(Founder, "admin")
    /\ cap = HighCap
    /\ lock = NoReq
    /\ req = [q \in Reqs |-> Idle]
    /\ losses = 0

----------------------------------------------------------------------------
(* Requests and transactions *)

\* Transactions that have counted the seats and are about to take one.
Seating == {"accept", "seat", "reactivate"}

\* Callers of lockSeats, which hold it to the end of their transaction.
Locked == Seating \cup {"suspend"}

\* Removal and role change decide outside any lock on what a transaction
\* writes later.
Unordered == {"remove", "setrole"}
Clash(op, step) == op \in Unordered \/ step \in Unordered

Ready(q, op) ==
    /\ op \in Ops /\ req[q] = Idle
    /\ Solo => \A p \in Reqs : req[p] = Idle \/ ~Clash(op, req[p].step)

Unlock(q) == IF lock = q THEN NoReq ELSE lock

End(q) == /\ req' = [req EXCEPT ![q] = Idle]
          /\ lock' = Unlock(q)

\* The plan is the tenant's as the request was resolved.
Go(q, step, s, arg) ==
    req' = [req EXCEPT ![q] =
              [step |-> step, sub |-> s, arg |-> arg, seen |-> rows[s],
               plan |-> IF req[q] = Idle THEN cap ELSE req[q].plan,
               batch |-> {}]]

\* Mutated form: the lock is granted to everybody at once.
TakeLockShared(q) == lock' = q

TakeLock(q) == lock = NoReq /\ lock' = q

\* The store refuses to write what is there and to delete what is not.
Write(T) == T \cap tuples = {}
Erase(T) == T \subseteq tuples

\* The end of a transaction: the store accepts and the rows commit; or it
\* refuses and they roll back; or it accepts and the commit is lost.
Settle(q, accepted, newRows, newTuples) ==
    /\ \/ /\ accepted
          /\ rows' = newRows /\ tuples' = newTuples
          /\ UNCHANGED losses
       \/ /\ accepted /\ losses < MaxLosses
          /\ losses' = losses + 1 /\ tuples' = newTuples
          /\ UNCHANGED rows
       \/ /\ ~accepted
          /\ UNCHANGED <<rows, tuples, losses>>
    /\ End(q)
    /\ UNCHANGED cap

\* A refusal of a guard outside this model, a client gone, a dead process.
Abandon(q) == /\ req[q] # Idle
              /\ End(q)
              /\ UNCHANGED <<rows, tuples, cap, losses>>

Set(s, field, v) == [rows EXCEPT ![s] = IF @ = NoRow THEN @
                                        ELSE [@ EXCEPT ![field] = v]]
Put(s, role) == [rows EXCEPT ![s] = [role |-> role, held |-> "no"]]

----------------------------------------------------------------------------
(* Accepting an invite: enrolUnderSeatCap under the lock *)

AcceptAsk(q, s, role) ==
    /\ Ready(q, "accept")
    /\ Go(q, "join", s, role)
    /\ UNCHANGED <<rows, tuples, cap, lock, losses>>

AcceptBegin(q) ==
    /\ req[q].step = "join" /\ TakeLock(q)
    /\ ~Present(req[q].sub) /\ SeatFree(q)
    /\ Go(q, "accept", req[q].sub, req[q].arg)
    /\ UNCHANGED <<rows, tuples, cap, losses>>

AcceptFinish(q) ==
    /\ req[q].step = "accept"
    /\ LET s == req[q].sub
           G == Grants(s, req[q].arg)
       IN Settle(q, Write(G),
                 IF Present(s) THEN rows ELSE Put(s, req[q].arg), tuples \cup G)

----------------------------------------------------------------------------
(* Signing in: establishMemberSession *)

\* The membership tuple is the right to enter; without it, auto-enrolment.
LoginCheck(q, s) ==
    /\ Ready(q, "login")
    /\ IF <<s, "member">> \in tuples THEN Go(q, "heldcheck", s, "no")
       ELSE AutoEnrol /\ Go(q, "enrol", s, "no")
    /\ UNCHANGED <<rows, tuples, cap, lock, losses>>

\* The fortress again: an existing row is answered "exists", a full plan
\* refuses, and otherwise the seat is counted under the lock ...
LoginEnrol(q) ==
    /\ req[q].step = "enrol" /\ lock = NoReq
    /\ LET s == req[q].sub
       IN \/ /\ Present(s) /\ Go(q, "heldcheck", s, "no")
             /\ UNCHANGED lock
          \/ /\ ~Present(s) /\ SeatFree(q)
             /\ TakeLock(q) /\ Go(q, "seat", s, "member")
          \/ /\ ~Present(s) /\ ~SeatFree(q) /\ End(q)
    /\ UNCHANGED <<rows, tuples, cap, losses>>

\* ... and taken; a sign-in that was refused or whose commit was lost ends.
LoginSeat(q) ==
    /\ req[q].step = "seat"
    /\ LET s == req[q].sub
           G == Grants(s, "member")
       IN \/ /\ Write(G)
             /\ rows' = (IF Present(s) THEN rows ELSE Put(s, "member"))
             /\ tuples' = tuples \cup G
             /\ Go(q, "heldcheck", s, "no") /\ lock' = Unlock(q)
             /\ UNCHANGED losses
          \/ /\ Write(G) /\ losses < MaxLosses
             /\ losses' = losses + 1 /\ tuples' = tuples \cup G
             /\ End(q)
             /\ UNCHANGED rows
          \/ /\ ~Write(G) /\ End(q)
             /\ UNCHANGED <<rows, tuples, losses>>
    /\ UNCHANGED cap

LoginHeldCheck(q) ==
    /\ req[q].step = "heldcheck"
    /\ IF rows[req[q].sub].held = "no" THEN Go(q, "upsert", req[q].sub, "no")
       ELSE req' = [req EXCEPT ![q] = Idle]
    /\ UNCHANGED <<rows, tuples, cap, lock, losses>>

\* INSERT ... ON CONFLICT DO UPDATE of the profile: a row that has gone since
\* the check is inserted again, with the column's default role.
LoginUpsert(q) ==
    /\ req[q].step = "upsert"
    /\ LET s == req[q].sub
       IN rows' = IF Present(s) THEN rows ELSE Put(s, "member")
    /\ End(q)
    /\ UNCHANGED <<tuples, cap, losses>>

----------------------------------------------------------------------------
(* Suspension and return: auth/member-suspension.ts *)

\* A repeat of the same suspension; the directory never redoes another's.
AlreadyHeld(s, reason) ==
    rows[s].held = reason \/ (reason = "scim" /\ rows[s].held # "no")

SuspendBegin(q, s, reason) ==
    /\ Ready(q, "suspend") /\ TakeLock(q)
    /\ reason = "admin" => \E a \in Subs \ {s} : IsAdmin(a)   \* not oneself
    /\ Present(s) /\ ~AlreadyHeld(s, reason)
    /\ rows[s].role = "admin" => ~LastAdmin(s)
    /\ Go(q, "suspend", s, reason)
    /\ UNCHANGED <<rows, tuples, cap, losses>>

SuspendFinish(q) ==
    /\ req[q].step = "suspend"
    /\ LET s == req[q].sub
           G == Grants(s, req[q].seen.role)
       IN Settle(q, Erase(G), Set(s, "held", req[q].arg), tuples \ G)

ReactivateAsk(q, s, reason) ==
    /\ Ready(q, "reactivate")
    /\ reason = "admin" => \E a \in Subs : IsAdmin(a)
    /\ Go(q, "return", s, reason)
    /\ UNCHANGED <<rows, tuples, cap, lock, losses>>

\* Each caller may undo its own reason; the seat is counted again.
ReactivateBegin(q) ==
    /\ req[q].step = "return" /\ TakeLock(q)
    /\ Present(req[q].sub) /\ rows[req[q].sub].held = req[q].arg
    /\ SeatFree(q)
    /\ Go(q, "reactivate", req[q].sub, req[q].arg)
    /\ UNCHANGED <<rows, tuples, cap, losses>>

\* Mutated form: the administrator's tuple is not put back.
ReactivateFinishMemberOnly(q) ==
    /\ req[q].step = "reactivate"
    /\ LET s == req[q].sub
           G == Grants(s, "member")
       IN Settle(q, Write(G), Set(s, "held", "no"), tuples \cup G)

ReactivateFinish(q) ==
    /\ req[q].step = "reactivate"
    /\ LET s == req[q].sub
           G == Grants(s, req[q].seen.role)
       IN Settle(q, Write(G), Set(s, "held", "no"), tuples \cup G)

----------------------------------------------------------------------------
(* Removal and role change: routes/members.ts, without the lock *)

RemoveBegin(q, s) ==
    /\ Ready(q, "remove")
    /\ \E a \in Subs : IsAdmin(a)
    /\ Present(s)
    /\ rows[s].role = "admin" => ~LastAdmin(s)
    /\ Go(q, "remove", s, "no")
    /\ UNCHANGED <<rows, tuples, cap, lock, losses>>

RemoveFinish(q) ==
    /\ req[q].step = "remove"
    /\ LET s == req[q].sub
           G == Grants(s, req[q].seen.role)
       IN Settle(q, Erase(G), [rows EXCEPT ![s] = NoRow], tuples \ G)

SetRoleBegin(q, s, role) ==
    /\ Ready(q, "setrole")
    /\ \E a \in Subs : IsAdmin(a)
    /\ Active(s) /\ rows[s].role # role
    /\ role = "member" => ~LastAdmin(s)
    /\ Go(q, "setrole", s, role)
    /\ UNCHANGED <<rows, tuples, cap, lock, losses>>

SetRoleFinish(q) ==
    /\ req[q].step = "setrole"
    /\ LET s == req[q].sub
           G == {<<s, "admin">>}
       IN IF req[q].arg = "admin"
          THEN Settle(q, Write(G), Set(s, "role", "admin"), tuples \cup G)
          ELSE Settle(q, Erase(G), Set(s, "role", "member"), tuples \ G)

----------------------------------------------------------------------------
(* Plan changes: scripts/plan-reconcile.ts and the billing webhook *)

\* Non-administrators beyond the seats administrators leave; the code takes
\* the newest, any choice here.
OverCap(S) ==
    LET active == {s \in Subs : Active(s)}
        admins == {s \in active : rows[s].role = "admin"}
        others == active \ admins
    IN /\ S \subseteq others
       /\ LowCap <= Cardinality(admins) => S = others
       /\ LowCap > Cardinality(admins) =>
              \/ S = {} /\ Cardinality(active) <= LowCap
              \/ Cardinality(active \ S) = LowCap

\* The smaller plan is committed, then the surplus is read ...
DowngradeBegin(q) ==
    /\ Ready(q, "downgrade") /\ cap = HighCap
    /\ cap' = LowCap
    /\ \E S \in SUBSET Subs :
          /\ OverCap(S)
          /\ req' = [req EXCEPT ![q] = [Idle EXCEPT !.step = "freeze",
                                                    !.batch = S]]
    /\ UNCHANGED <<rows, tuples, lock, losses>>

\* ... and frozen one row at a time, tuples untouched.
FreezeOne(q) ==
    /\ req[q].step = "freeze"
    /\ IF req[q].batch = {}
       THEN End(q) /\ UNCHANGED rows
       ELSE \E s \in req[q].batch :
              /\ rows' = IF Active(s) THEN Set(s, "held", "frozen") ELSE rows
              /\ req' = [req EXCEPT ![q].batch = @ \ {s}]
              /\ UNCHANGED lock
    /\ UNCHANGED <<tuples, cap, losses>>

\* A larger plan takes effect at once and thaws whom a downgrade froze.
Upgrade(q) ==
    /\ Ready(q, "upgrade") /\ cap = LowCap
    /\ cap' = HighCap
    /\ rows' = [s \in Subs |-> IF rows[s].held = "frozen"
                               THEN [rows[s] EXCEPT !.held = "no"] ELSE rows[s]]
    /\ UNCHANGED <<tuples, lock, req, losses>>

----------------------------------------------------------------------------
Begin(q) ==
    \/ DowngradeBegin(q) \/ Upgrade(q)
    \/ \E s \in Subs :
          \/ LoginCheck(q, s) \/ RemoveBegin(q, s)
          \/ \E role \in Roles : AcceptAsk(q, s, role) \/ SetRoleBegin(q, s, role)
          \/ \E reason \in {"admin", "scim"} :
                SuspendBegin(q, s, reason) \/ ReactivateAsk(q, s, reason)

Continue(q) ==
    \/ AcceptBegin(q) \/ AcceptFinish(q)
    \/ LoginEnrol(q) \/ LoginSeat(q) \/ LoginHeldCheck(q) \/ LoginUpsert(q)
    \/ SuspendFinish(q) \/ ReactivateBegin(q) \/ ReactivateFinish(q)
    \/ RemoveFinish(q) \/ SetRoleFinish(q) \/ FreezeOne(q)

Next == \E q \in Reqs : Begin(q) \/ Continue(q) \/ Abandon(q)

Spec == Init /\ [][Next]_vars

----------------------------------------------------------------------------
\* Types; the lock is held by a request in one of the locked transactions.
TypeOK ==
    /\ rows \in [Subs -> Row \cup {NoRow}]
    /\ tuples \subseteq Subs \X {"member", "admin"}
    /\ cap \in {LowCap, HighCap}
    /\ lock \in Reqs \cup {NoReq}
    /\ req \in [Reqs -> Request]
    /\ losses \in 0 .. MaxLosses
    /\ \A q \in Reqs : lock = q <=> req[q].step \in Locked

\* The floor: some administrator is active (auth/last-admin.ts).
AdminFloor == \E s \in Subs : rows[s].role = "admin" /\ Active(s)

\* A step that adds a billable row is that of a transaction that counted the
\* seats, and leaves the workspace within the plan its request was resolved
\* under (enrolUnderSeatCap, reactivateMember), whoever else signs in, accepts
\* or returns meanwhile: overage only comes from a smaller plan, and from a
\* grant whose row was lost, which the next sign-in seats.
SeatGate ==
    [][ losses = 0 /\ Cardinality(Billable') > Cardinality(Billable)
          => \E q \in Reqs : /\ req[q].step \in Seating /\ req'[q] # req[q]
                             /\ Cardinality(Billable') <= req[q].plan ]_vars

\* The store grants what the rows say: a row that is active or frozen by the
\* plan has the tuples of its role, nobody else has any, as long as every
\* commit that followed a write of the store arrived.
GrantsMatchRows ==
    losses = 0 => \A s \in Subs :
        {t \in tuples : t[1] = s} =
            IF Present(s) /\ rows[s].held \in {"no", "frozen"}
            THEN Grants(s, rows[s].role) ELSE {}
=============================================================================
