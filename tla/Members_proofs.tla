--------------------------- MODULE Members_proofs ---------------------------
(***************************************************************************)
(* Theorems about Members for every set of subjects and requests, every    *)
(* plan and every number of lost commits.  Removal and role change decide  *)
(* on what they read outside any lock: either they run alone (Solo) or     *)
(* they are left out (Ordered); the operations that take the seat lock,    *)
(* sign-ins and plan changes then run in any interleaving.                 *)
(***************************************************************************)
EXTENDS Members, FiniteSetTheorems, TLAPS

\* Removal and role change keep to themselves.
Ordered == Solo \/ Ops \cap Unordered = {}

\* Some administrator other than s is active.
Another(s) == \E t \in Subs \ {s} : rows[t].role = "admin" /\ Active(t)

\* A row as it was read: there, and with that role.
AsSeen(r) == Present(r.sub) /\ rows[r.sub].role = r.seen.role

\* What a request in hand knows is so.
Sound(r) ==
    /\ r.step \in {"suspend", "remove"} =>
          AsSeen(r) /\ (r.seen.role = "admin" => Another(r.sub))
    /\ r.step = "suspend" => r.arg \in {"admin", "scim"}
    /\ r.step = "reactivate" =>
          AsSeen(r) /\ rows[r.sub].held = r.arg /\ r.arg \in {"admin", "scim"}
    /\ r.step = "setrole" =>
          /\ Active(r.sub) /\ r.arg \in Roles \ {rows[r.sub].role}
          /\ r.arg = "member" => Another(r.sub)
    /\ r.step \in {"join", "accept"} => r.arg \in Roles
    /\ r.step = "return" => r.arg \in {"admin", "scim"}
    /\ r.step \in {"accept", "seat"} => (losses = 0 => ~Present(r.sub))
    /\ r.step \in {"heldcheck", "upsert"} => (losses = 0 => Present(r.sub))
    /\ r.step = "freeze" =>
          \A s \in r.batch : Present(s) /\ rows[s].role # "admin"
    /\ r.step \in Unordered => r.step \in Ops

InHand == \A q \in Reqs : Sound(req[q])

\* A removal or a role change has no company.
Company ==
    Solo => \A p, q \in Reqs :
        req[p].step \in Unordered /\ req[q].step # "idle" => p = q

\* The rows whose role the store grants.
Worth(row) == row # NoRow /\ row.held \in {"no", "frozen"}
Granted(s) == Worth(rows[s])

\* GrantsMatchRows, tuple by tuple.
Matching ==
    losses = 0 => \A s \in Subs :
        /\ <<s, "member">> \in tuples <=> Granted(s)
        /\ <<s, "admin">> \in tuples <=> Granted(s) /\ rows[s].role = "admin"

\* Nobody the plan batch froze is an administrator: none was in the batch, and
\* none becomes one while it runs.
FreezeSparesAdmins ==
    \A s \in Subs : rows[s].held = "frozen" => rows[s].role # "admin"

IInv == TypeOK /\ Company /\ InHand /\ AdminFloor /\ FreezeSparesAdmins /\ Matching

\* Whoever holds the lock to add a row has a seat for it.
SeatHeld ==
    losses = 0 => \A q \in Reqs : req[q].step \in Seating => SeatFree(q)

\* What an action does to the rows others have read ...
RowsKeep ==
    \A s \in Subs : Present(s) => Present(s)' /\ rows'[s].role = rows[s].role

\* ... and what one outside the lock leaves alone besides.
RestKeeps ==
    \A s \in Subs :
        /\ rows[s].role = "admin" /\ Active(s) => Active(s)'
        /\ rows[s].held \in {"admin", "scim"} => rows'[s].held = rows[s].held
        /\ losses' = 0 /\ ~Present(s) => ~Present(s)'

Table == [Subs -> Row \cup {NoRow}]
Store == SUBSET (Subs \X {"member", "admin"})

\* A request at rest is well typed and knows nothing.
LEMMA Basics ==
    /\ NoRow \notin Row /\ NoRow.held = "no" /\ NoRow.role \notin Roles
    /\ Idle \in Request /\ Idle.step = "idle" /\ Sound(Idle)
    /\ "idle" \notin Locked /\ "idle" \notin Unordered
    /\ Locked \cap Unordered = {} /\ Seating \subseteq Locked
BY FounderAssumption, CapAssumption
   DEF Idle, NoRow, Row, Roles, Holds, Request, Steps, Locked, Seating, Unordered, Sound

\* Removal and role change have no company, and nobody has theirs.
LEMMA NoCompany ==
    ASSUME Ordered, Company, InHand, NEW q \in Reqs, NEW p \in Reqs, p # q
    PROVE  /\ req[q].step # "idle" => req[p].step \notin Unordered
           /\ req[q].step \in Unordered => req[p].step = "idle"
BY Basics DEF Ordered, Company, InHand, Sound

\* A request that looks on knows what it knew.
LEMMA Bystander ==
    ASSUME TypeOK, NEW p \in Reqs, Sound(req[p]), req'[p] = req[p],
           req[p].step \notin Unordered, RowsKeep, losses' = 0 => losses = 0,
           req[p].step \in Locked => RestKeeps
    PROVE  Sound(req[p])'
<1>1. /\ req[p].sub \in Subs /\ req[p].batch \subseteq Subs
      BY DEF TypeOK, Request
<1>2. \A s \in Subs : Another(s) /\ RestKeeps => Another(s)'
      BY DEF Another, RestKeeps, RowsKeep, Active
<1>3. req[p].step = "suspend" => Sound(req[p])'
      BY <1>1, <1>2 DEF Sound, AsSeen, RowsKeep, Locked, Seating, Unordered
<1>4. req[p].step = "reactivate" => Sound(req[p])'
      BY <1>1 DEF Sound, AsSeen, RowsKeep, RestKeeps, Locked, Seating, Unordered
<1>5. req[p].step \in {"accept", "seat"} => Sound(req[p])'
      BY <1>1 DEF Sound, RestKeeps, Locked, Seating, Unordered
<1>6. req[p].step \in {"heldcheck", "upsert", "freeze"} => Sound(req[p])'
      BY <1>1 DEF Sound, RowsKeep, Unordered
<1>7. req[p].step \in {"idle", "enrol", "join", "return"} => Sound(req[p])'
      BY DEF Sound, Unordered
<1> QED  BY <1>3, <1>4, <1>5, <1>6, <1>7 DEF TypeOK, Request, Steps, Unordered

\* The workspace as provisionTenant leaves it.
LEMMA InitInv == Init => IInv
<1> SUFFICES ASSUME Init
             PROVE  IInv
    OBVIOUS
<1> USE FounderAssumption, CapAssumption, SwitchAssumption, ReqAssumption, Basics
<1>1. /\ rows[Founder] = [role |-> "admin", held |-> "no"]
      /\ \A s \in Subs \ {Founder} : rows[s] = NoRow
      BY DEF Init
<1>2. TypeOK
      BY DEF Init, TypeOK, Row, Roles, Holds, Grants
<1>3. Company /\ InHand
      BY DEF Init, Company, InHand, Sound
<1>4. AdminFloor /\ FreezeSparesAdmins
      BY <1>1 DEF AdminFloor, FreezeSparesAdmins, Active, Present, NoRow
<1>5. Matching
      BY <1>1 DEF Init, Matching, Granted, Worth, Grants, NoRow
<1> QED  BY <1>2, <1>3, <1>4, <1>5 DEF IInv

\* The lock, the request and what it knows after a step of q.
LockMoves(q, r) ==
    \/ lock' = lock /\ (r.step \in Locked <=> req[q].step \in Locked)
    \/ TakeLock(q) /\ r.step \in Locked
    \/ lock' = Unlock(q) /\ r.step \notin Locked

Keeps(q, r) ==
    Solo => \A p \in Reqs \ {q} :
        /\ r.step \in Unordered => req[p].step = "idle"
        /\ r.step # "idle" => req[p].step \notin Unordered

\* Types, lock and company after a step that replaces one request.
LEMMA RequestStep ==
    ASSUME TypeOK, Company, NEW q \in Reqs, NEW r \in Request,
           req' = [req EXCEPT ![q] = r], LockMoves(q, r), Keeps(q, r)
    PROVE  /\ req' \in [Reqs -> Request] /\ lock' \in Reqs \cup {NoReq}
           /\ \A p \in Reqs : lock' = p <=> req'[p].step \in Locked
           /\ Company'
<1>1. req'[q] = r /\ \A p \in Reqs \ {q} : req'[p] = req[p]
      BY DEF TypeOK
<1>2. req' \in [Reqs -> Request] /\ lock' \in Reqs \cup {NoReq}
      BY DEF TypeOK, LockMoves, TakeLock, Unlock
<1>3. \A p \in Reqs : lock' = p <=> req'[p].step \in Locked
      BY <1>1, Basics, ReqAssumption DEF TypeOK, LockMoves, TakeLock, Unlock
<1>4. Company'
      BY <1>1 DEF Company, Keeps
<1> QED  BY <1>2, <1>3, <1>4

\* A step that only moves a request, to something it may know.
LEMMA MoveInv ==
    ASSUME IInv, NEW q \in Reqs, NEW r \in Request, Sound(r),
           req' = [req EXCEPT ![q] = r], LockMoves(q, r), Keeps(q, r),
           UNCHANGED <<rows, tuples, losses>>, cap' \in {LowCap, HighCap}
    PROVE  IInv'
<1>1. /\ req' \in [Reqs -> Request] /\ lock' \in Reqs \cup {NoReq}
      /\ \A p \in Reqs : lock' = p <=> req'[p].step \in Locked
      /\ Company'
      BY RequestStep DEF IInv
<1>2. TypeOK'
      BY <1>1 DEF IInv, TypeOK
<1>3. InHand'
  <2>1. \A p \in Reqs : Sound(req'[p])
        BY DEF IInv, TypeOK, InHand
  <2> QED  BY <2>1 DEF InHand, Sound, AsSeen, Another, Active, Present
<1>4. AdminFloor' /\ FreezeSparesAdmins' /\ Matching'
      BY DEF IInv, AdminFloor, FreezeSparesAdmins, Matching, Active, Present,
             Granted, Worth
<1> QED  BY <1>1, <1>2, <1>3, <1>4 DEF IInv

\* The end of a transaction that took the lock, or of a removal or role change.
LEMMA EndInv ==
    ASSUME Ordered, IInv, NEW q \in Reqs, End(q),
           req[q].step \in Locked \cup Unordered,
           rows' \in Table, tuples' \in Store, losses' \in 0 .. MaxLosses,
           losses' = 0 => losses = 0, cap' = cap,
           req[q].step \in Locked => RowsKeep,
           AdminFloor', FreezeSparesAdmins', Matching'
    PROVE  IInv'
<1>1. /\ req' \in [Reqs -> Request] /\ lock' \in Reqs \cup {NoReq}
      /\ \A p \in Reqs : lock' = p <=> req'[p].step \in Locked
      /\ Company'
      BY RequestStep, Basics DEF IInv, End, LockMoves, Keeps
<1>2. TypeOK'
      BY <1>1 DEF IInv, TypeOK, Table, Store
<1>3. ASSUME NEW p \in Reqs
      PROVE  Sound(req[p])'
  <2>1. CASE p = q
    <3>1. req'[p] = Idle
          BY <2>1 DEF IInv, TypeOK, End
    <3> QED  BY <3>1, Basics DEF Sound
  <2>2. CASE p # q /\ req[q].step \in Unordered
    <3>1. req'[p].step = "idle"
          BY <2>2, NoCompany DEF IInv, TypeOK, End
    <3> QED  BY <3>1 DEF Sound, Unordered
  <2>3. CASE p # q /\ req[q].step \in Locked
    <3>1. req'[p] = req[p]
          BY <2>3 DEF IInv, TypeOK, End
    <3>2. req[p].step \notin Locked
          BY <2>3 DEF IInv, TypeOK
    <3>3. req[p].step \notin Unordered
          BY <2>3, NoCompany, Basics DEF IInv
    <3> QED  BY <2>3, <3>1, <3>2, <3>3, Bystander DEF IInv, InHand
  <2> QED  BY <2>1, <2>2, <2>3
<1> QED  BY <1>1, <1>2, <1>3 DEF IInv, InHand

(* What starts a request *)

\* A request that may start has no removal or role change for company.
LEMMA ReadyCompany ==
    ASSUME Ordered, InHand, NEW q \in Reqs, NEW op, Ready(q, op)
    PROVE  /\ req[q].step = "idle"
           /\ \A p \in Reqs : req[p].step \notin Unordered
BY Basics DEF Ready, Clash, Ordered, InHand, Sound

\* It keeps the company of the others as it was.
LEMMA ReadyKeeps ==
    ASSUME NEW q \in Reqs, NEW op, Ready(q, op), NEW r,
           r.step \in Unordered => op \in Unordered
    PROVE  Keeps(q, r)
BY Basics DEF Ready, Clash, Keeps

Told(q, step, s, arg) ==
    [step |-> step, sub |-> s, arg |-> arg, seen |-> rows[s],
     plan |-> IF req[q] = Idle THEN cap ELSE req[q].plan, batch |-> {}]

\* A request as Go writes it.
LEMMA ToldTyped ==
    ASSUME TypeOK, NEW q \in Reqs, NEW step \in Steps, NEW s \in Subs,
           NEW arg \in Roles \cup Holds
    PROVE  /\ Told(q, step, s, arg) \in Request
           /\ Told(q, step, s, arg).step = step /\ Told(q, step, s, arg).sub = s
           /\ Told(q, step, s, arg).arg = arg /\ Told(q, step, s, arg).seen = rows[s]
BY DEF Told, Request, TypeOK

\* The floor guard of lastAdmin, read the other way.
LEMMA OtherAdmin == \A s : ~LastAdmin(s) => Another(s)
BY DEF LastAdmin, Another

\* No start of a request breaks the invariant.
LEMMA BeginInv ==
    ASSUME Ordered, IInv, NEW q \in Reqs, Begin(q)
    PROVE  IInv'
<1> USE Basics DEF IInv
<1>1. ASSUME NEW s \in Subs, NEW role \in Roles, AcceptAsk(q, s, role)
      PROVE  IInv'
  <2> DEFINE r == Told(q, "join", s, role)
  <2>1. r \in Request /\ r.step = "join" /\ r.arg = role
        BY ToldTyped DEF Steps
  <2>2. /\ req' = [req EXCEPT ![q] = r] /\ Ready(q, "accept")
        /\ UNCHANGED <<rows, tuples, cap, lock, losses>>
        BY <1>1 DEF AcceptAsk, Go, Told
  <2> HIDE DEF r
  <2>3. Sound(r)
        BY <2>1 DEF Sound, Unordered
  <2>4. Keeps(q, r) /\ LockMoves(q, r)
        BY <2>1, <2>2, ReadyKeeps, ReadyCompany DEF LockMoves, Locked, Seating, Unordered
  <2> QED  BY <2>1, <2>2, <2>3, <2>4, MoveInv DEF TypeOK
<1>2. ASSUME NEW s \in Subs, LoginCheck(q, s)
      PROVE  IInv'
  <2>1. PICK step \in {"heldcheck", "enrol"} :
            /\ step = "heldcheck" => <<s, "member">> \in tuples
            /\ req' = [req EXCEPT ![q] = Told(q, step, s, "no")]
        BY <1>2 DEF LoginCheck, Go, Told
  <2> DEFINE r == Told(q, step, s, "no")
  <2>2. r \in Request /\ r.step = step /\ r.sub = s
        BY ToldTyped DEF Steps, Holds
  <2>3. /\ UNCHANGED <<rows, tuples, cap, lock, losses>> /\ Ready(q, "login")
        BY <1>2 DEF LoginCheck
  <2> HIDE DEF r
  <2>4. Sound(r)
        BY <2>1, <2>2 DEF Sound, Unordered, Matching, Granted, Worth, Present
  <2>5. Keeps(q, r) /\ LockMoves(q, r)
        BY <2>1, <2>2, <2>3, ReadyKeeps, ReadyCompany DEF LockMoves, Locked, Seating, Unordered
  <2> QED  BY <2>1, <2>2, <2>3, <2>4, <2>5, MoveInv DEF TypeOK, r
<1>3. ASSUME NEW s \in Subs, NEW reason \in {"admin", "scim"}, SuspendBegin(q, s, reason)
      PROVE  IInv'
  <2> DEFINE r == Told(q, "suspend", s, reason)
  <2>1. /\ r \in Request /\ r.step = "suspend" /\ r.sub = s /\ r.arg = reason
        /\ r.seen = rows[s]
        BY ToldTyped DEF Steps, Holds
  <2>2. /\ req' = [req EXCEPT ![q] = r] /\ TakeLock(q) /\ Present(s)
        /\ rows[s].role = "admin" => ~LastAdmin(s)
        /\ UNCHANGED <<rows, tuples, losses, cap>> /\ Ready(q, "suspend")
        BY <1>3 DEF SuspendBegin, Go, Told
  <2> HIDE DEF r
  <2>3. Sound(r)
        BY <2>1, <2>2, OtherAdmin DEF Sound, AsSeen, Unordered
  <2>4. Keeps(q, r) /\ LockMoves(q, r)
        BY <2>1, <2>2, ReadyKeeps DEF LockMoves, Locked, Seating, Unordered
  <2> QED  BY <2>1, <2>2, <2>3, <2>4, MoveInv DEF TypeOK
<1>4. ASSUME NEW s \in Subs, NEW reason \in {"admin", "scim"}, ReactivateAsk(q, s, reason)
      PROVE  IInv'
  <2> DEFINE r == Told(q, "return", s, reason)
  <2>1. r \in Request /\ r.step = "return" /\ r.arg = reason
        BY ToldTyped DEF Steps, Holds
  <2>2. /\ req' = [req EXCEPT ![q] = r] /\ Ready(q, "reactivate")
        /\ UNCHANGED <<rows, tuples, cap, lock, losses>>
        BY <1>4 DEF ReactivateAsk, Go, Told
  <2> HIDE DEF r
  <2>3. Sound(r)
        BY <2>1 DEF Sound, Unordered
  <2>4. Keeps(q, r) /\ LockMoves(q, r)
        BY <2>1, <2>2, ReadyKeeps, ReadyCompany DEF LockMoves, Locked, Seating, Unordered
  <2> QED  BY <2>1, <2>2, <2>3, <2>4, MoveInv DEF TypeOK
<1>5. ASSUME NEW s \in Subs, RemoveBegin(q, s)
      PROVE  IInv'
  <2> DEFINE r == Told(q, "remove", s, "no")
  <2>1. r \in Request /\ r.step = "remove" /\ r.sub = s /\ r.seen = rows[s]
        BY ToldTyped DEF Steps, Holds
  <2>2. /\ req' = [req EXCEPT ![q] = r] /\ Present(s) /\ lock' = lock
        /\ rows[s].role = "admin" => ~LastAdmin(s)
        /\ UNCHANGED <<rows, tuples, losses, cap>> /\ Ready(q, "remove")
        BY <1>5 DEF RemoveBegin, Go, Told
  <2> HIDE DEF r
  <2>3. Sound(r)
        BY <2>1, <2>2, OtherAdmin DEF Sound, AsSeen, Unordered, Ready
  <2>4. Keeps(q, r) /\ LockMoves(q, r)
        BY <2>1, <2>2, ReadyKeeps, ReadyCompany DEF LockMoves, Locked, Seating, Unordered
  <2> QED  BY <2>1, <2>2, <2>3, <2>4, MoveInv DEF TypeOK
<1>6. ASSUME NEW s \in Subs, NEW role \in Roles, SetRoleBegin(q, s, role)
      PROVE  IInv'
  <2> DEFINE r == Told(q, "setrole", s, role)
  <2>1. r \in Request /\ r.step = "setrole" /\ r.sub = s /\ r.arg = role
        BY ToldTyped DEF Steps
  <2>2. /\ req' = [req EXCEPT ![q] = r] /\ Active(s) /\ lock' = lock
        /\ rows[s].role # role /\ (role = "member" => ~LastAdmin(s))
        /\ UNCHANGED <<rows, tuples, losses, cap>> /\ Ready(q, "setrole")
        BY <1>6 DEF SetRoleBegin, Go, Told
  <2> HIDE DEF r
  <2>3. Sound(r)
        BY <2>1, <2>2, OtherAdmin DEF Sound, Unordered, Ready
  <2>4. Keeps(q, r) /\ LockMoves(q, r)
        BY <2>1, <2>2, ReadyKeeps, ReadyCompany DEF LockMoves, Locked, Seating, Unordered
  <2> QED  BY <2>1, <2>2, <2>3, <2>4, MoveInv DEF TypeOK
<1>7. ASSUME DowngradeBegin(q)
      PROVE  IInv'
  <2>1. PICK S \in SUBSET Subs :
            /\ OverCap(S)
            /\ req' = [req EXCEPT ![q] = [Idle EXCEPT !.step = "freeze", !.batch = S]]
        BY <1>7 DEF DowngradeBegin
  <2> DEFINE r == [Idle EXCEPT !.step = "freeze", !.batch = S]
  <2>2. r \in Request /\ r.step = "freeze" /\ r.batch = S
        BY DEF Idle, Request, Steps
  <2>3. \A s \in S : Present(s) /\ rows[s].role # "admin"
        BY <2>1 DEF OverCap, Active
  <2>4. /\ UNCHANGED <<rows, tuples, lock, losses>> /\ cap' = LowCap
        /\ Ready(q, "downgrade")
        BY <1>7 DEF DowngradeBegin
  <2> HIDE DEF r
  <2>5. Sound(r)
        BY <2>2, <2>3 DEF Sound, Unordered
  <2>6. Keeps(q, r) /\ LockMoves(q, r)
        BY <2>2, <2>4, ReadyKeeps, ReadyCompany DEF LockMoves, Locked, Seating, Unordered
  <2> QED  BY <2>1, <2>2, <2>4, <2>5, <2>6, MoveInv DEF TypeOK, r
<1>8. ASSUME Upgrade(q)
      PROVE  IInv'
  <2>1. /\ Ready(q, "upgrade") /\ cap' = HighCap
        /\ UNCHANGED <<tuples, lock, req, losses>>
        BY <1>8 DEF Upgrade
  <2>2. /\ rows' \in [Subs -> Row \cup {NoRow}]
        /\ \A s \in Subs :
              /\ rows[s].held # "frozen" => rows'[s] = rows[s]
              /\ rows[s].held = "frozen" =>
                    /\ Present(s) /\ Present(s)' /\ rows'[s].role = rows[s].role
                    /\ rows'[s].held = "no"
        BY <1>8 DEF Upgrade, TypeOK, Row, Holds, Present
  <2>3. RowsKeep /\ RestKeeps
        BY <2>2 DEF RowsKeep, RestKeeps, Present, Active
  <2>4. TypeOK' /\ Company'
        BY <2>1, <2>2 DEF TypeOK, Company
  <2>5. InHand'
    <3>1. ASSUME NEW p \in Reqs
          PROVE  Sound(req[p])'
      <4>1. req[p].step \notin Unordered /\ Sound(req[p]) /\ req'[p] = req[p]
            BY <2>1, ReadyCompany DEF InHand
      <4> QED  BY <2>1, <2>3, <4>1, Bystander
    <3> QED  BY <3>1 DEF InHand
  <2>6. AdminFloor'
        BY <2>2 DEF AdminFloor, Active, Present
  <2>7. FreezeSparesAdmins'
        BY <2>2 DEF FreezeSparesAdmins
  <2>8. Matching'
        BY <2>1, <2>2 DEF Matching, Granted, Worth, Present
  <2> QED  BY <2>4, <2>5, <2>6, <2>7, <2>8
<1> QED  BY <1>1, <1>2, <1>3, <1>4, <1>5, <1>6, <1>7, <1>8 DEF Begin

(* What a request goes on with *)

\* A transaction ends: nothing happens, or the commit is lost, or what is left
\* to show of it.
LEMMA SettleInv ==
    ASSUME Ordered, IInv, NEW q \in Reqs, req[q].step \in Locked \cup Unordered,
           NEW acc \in BOOLEAN, NEW R \in Table, NEW T \in Store, Settle(q, acc, R, T),
           acc /\ rows' = R /\ tuples' = T /\ losses' = losses =>
              /\ AdminFloor' /\ FreezeSparesAdmins' /\ Matching'
              /\ req[q].step \in Locked => RowsKeep
    PROVE  IInv'
<1>1. End(q) /\ cap' = cap
      BY DEF Settle
<1>2. CASE acc /\ rows' = R /\ tuples' = T /\ losses' = losses
      BY <1>1, <1>2, EndInv DEF IInv, TypeOK
<1>3. CASE losses' = losses + 1 /\ losses < MaxLosses /\ tuples' = T /\ rows' = rows
  <2>1. losses' \in 0 .. MaxLosses /\ losses' # 0
        BY <1>3, SwitchAssumption DEF IInv, TypeOK
  <2>2. AdminFloor' /\ FreezeSparesAdmins' /\ Matching' /\ RowsKeep
        BY <1>3, <2>1 DEF IInv, AdminFloor, FreezeSparesAdmins, Matching, Active, Present,
                          RowsKeep
  <2> QED  BY <1>1, <1>3, <2>1, <2>2, EndInv DEF IInv, TypeOK, Table
<1>4. CASE UNCHANGED <<rows, tuples, losses>>
  <2>1. AdminFloor' /\ FreezeSparesAdmins' /\ Matching' /\ RowsKeep
        BY <1>4 DEF IInv, AdminFloor, FreezeSparesAdmins, Matching, Active, Present,
                    Granted, RowsKeep
  <2> QED  BY <1>1, <1>4, <2>1, EndInv DEF IInv, TypeOK, Table, Store
<1> QED  BY <1>2, <1>3, <1>4 DEF Settle

\* What a role is worth, tuple by tuple.
LEMMA GrantsAre ==
    \A s \in Subs : \A role :
        /\ Grants(s, role) \in Store
        /\ <<s, "member">> \in Grants(s, role)
        /\ <<s, "admin">> \in Grants(s, role) <=> role = "admin"
        /\ \A t, rel : <<t, rel>> \in Grants(s, role) => t = s
BY DEF Grants, Store

\* Store and rows agree again where one subject's did.
LEMMA Rematch ==
    ASSUME Matching, NEW s \in Subs, NEW R, NEW T,
           rows' = R, tuples' = T, losses' = losses,
           \A t \in Subs \ {s} : R[t] = rows[t],
           \A t \in Subs \ {s}, rel \in {"member", "admin"} :
               <<t, rel>> \in T <=> <<t, rel>> \in tuples,
           losses = 0 =>
              /\ <<s, "member">> \in T <=> Worth(R[s])
              /\ <<s, "admin">> \in T <=> Worth(R[s]) /\ R[s].role = "admin"
    PROVE  Matching'
<1>1. ASSUME losses = 0, NEW t \in Subs
      PROVE  /\ <<t, "member">> \in T <=> Worth(R[t])
             /\ <<t, "admin">> \in T <=> Worth(R[t]) /\ R[t].role = "admin"
  <2>1. CASE t = s
        BY <1>1, <2>1
  <2>2. CASE t # s
        BY <1>1, <2>2 DEF Matching, Granted
  <2> QED  BY <2>1, <2>2
<1> QED  BY <1>1 DEF Matching, Granted, Worth

\* What the store holds once tuples of one subject are written, or deleted.
With(s, role) == tuples \cup Grants(s, role)
Without(s, role) == tuples \ Grants(s, role)

\* Written: the subject has what its role is worth, others what they had.
LEMMA Adding ==
    ASSUME NEW s \in Subs, NEW role, tuples \in Store
    PROVE  /\ With(s, role) \in Store
           /\ \A t \in Subs \ {s}, rel \in {"member", "admin"} :
                  <<t, rel>> \in With(s, role) <=> <<t, rel>> \in tuples
           /\ <<s, "member">> \in With(s, role)
           /\ <<s, "admin">> \in With(s, role)
                  <=> <<s, "admin">> \in tuples \/ role = "admin"
<1>1. /\ Grants(s, role) \in Store /\ <<s, "member">> \in Grants(s, role)
      /\ <<s, "admin">> \in Grants(s, role) <=> role = "admin"
      /\ \A t, rel : <<t, rel>> \in Grants(s, role) => t = s
      BY GrantsAre
<1>2. With(s, role) \in Store
      BY <1>1 DEF Store, With
<1> QED  BY <1>1, <1>2 DEF With

\* Deleted: the subject has nothing left of its role.
LEMMA Taking ==
    ASSUME NEW s \in Subs, NEW role, tuples \in Store
    PROVE  /\ Without(s, role) \in Store
           /\ \A t \in Subs \ {s}, rel \in {"member", "admin"} :
                  <<t, rel>> \in Without(s, role) <=> <<t, rel>> \in tuples
           /\ <<s, "member">> \notin Without(s, role)
           /\ <<s, "admin">> \in Without(s, role)
                  <=> <<s, "admin">> \in tuples /\ role # "admin"
<1>1. /\ <<s, "member">> \in Grants(s, role)
      /\ <<s, "admin">> \in Grants(s, role) <=> role = "admin"
      /\ \A t, rel : <<t, rel>> \in Grants(s, role) => t = s
      BY GrantsAre
<1>2. Without(s, role) \in Store
      BY DEF Store, Without
<1> QED  BY <1>1, <1>2 DEF Without

\* An invite accepted: the seat lock kept everybody else away.
LEMMA AcceptInv ==
    ASSUME Ordered, IInv, NEW q \in Reqs, AcceptFinish(q)
    PROVE  IInv'
<1> DEFINE s == req[q].sub
           role == req[q].arg
           R == IF Present(s) THEN rows ELSE Put(s, role)
           T == tuples \cup Grants(s, role)
<1>1. /\ req[q].step = "accept" /\ s \in Subs /\ role \in Roles
      /\ losses = 0 => ~Present(s)
      BY DEF AcceptFinish, IInv, TypeOK, Request, InHand, Sound
<1>2. Settle(q, Write(Grants(s, role)), R, T) /\ Write(Grants(s, role)) \in BOOLEAN
      BY DEF AcceptFinish, Write
<1>3. R \in Table /\ tuples \in Store
      BY <1>1 DEF Put, Row, Holds, IInv, TypeOK, Table, Store
<1>4. /\ \A t \in Subs \ {s} : R[t] = rows[t]
      /\ Present(s) => R[s] = rows[s]
      /\ ~Present(s) => R[s] = [role |-> role, held |-> "no"]
      BY <1>1 DEF Put, IInv, TypeOK
<1>5. T = With(s, role)
      BY DEF With
<1> HIDE DEF s, role, R, T
<1>6. /\ T \in Store
      /\ \A t \in Subs \ {s}, rel \in {"member", "admin"} :
             <<t, rel>> \in T <=> <<t, rel>> \in tuples
      /\ <<s, "member">> \in T
      /\ <<s, "admin">> \in T <=> <<s, "admin">> \in tuples \/ role = "admin"
      BY <1>1, <1>3, <1>5, Adding
<1>7. ASSUME rows' = R, tuples' = T, losses' = losses
      PROVE  AdminFloor' /\ FreezeSparesAdmins' /\ Matching' /\ RowsKeep
  <2>1. RowsKeep
        BY <1>1, <1>4, <1>7 DEF RowsKeep, Present
  <2>2. AdminFloor'
        BY <1>1, <1>4, <1>7 DEF IInv, AdminFloor, Active, Present
  <2>3. FreezeSparesAdmins'
        BY <1>1, <1>4, <1>7 DEF IInv, FreezeSparesAdmins
  <2>4. ~Present(s) => Worth(R[s]) /\ R[s].role = role
        BY <1>1, <1>4, Basics DEF Worth
  <2>5. losses = 0 => <<s, "admin">> \notin tuples
        BY <1>1 DEF IInv, Matching, Granted, Worth, Present
  <2>6. Matching'
        BY <1>1, <1>4, <1>6, <1>7, <2>4, <2>5, Rematch DEF IInv
  <2> QED  BY <2>1, <2>2, <2>3, <2>6
<1> QED  BY <1>1, <1>2, <1>3, <1>6, <1>7, SettleInv DEF Locked, Seating

\* A suspension: the other administrator it saw is still there.
LEMMA SuspendInv ==
    ASSUME Ordered, IInv, NEW q \in Reqs, SuspendFinish(q)
    PROVE  IInv'
<1> DEFINE s == req[q].sub
           G == Grants(s, req[q].seen.role)
           R == Set(s, "held", req[q].arg)
           T == tuples \ G
<1>1. /\ req[q].step = "suspend" /\ s \in Subs /\ req[q].arg \in {"admin", "scim"}
      /\ Present(s) /\ rows[s].role = req[q].seen.role
      /\ rows[s].role = "admin" => Another(s)
      BY DEF SuspendFinish, IInv, TypeOK, Request, InHand, Sound, AsSeen
<1>2. Settle(q, Erase(G), R, T) /\ Erase(G) \in BOOLEAN
      BY DEF SuspendFinish, Erase
<1>3. /\ \A t \in Subs \ {s} : R[t] = rows[t]
      /\ R[s] = [role |-> rows[s].role, held |-> req[q].arg]
      /\ R \in Table
      BY <1>1 DEF Set, Row, Holds, Present, IInv, TypeOK, Table
<1>4. s \in Subs /\ tuples \in Store
      BY <1>1 DEF IInv, TypeOK, Store
<1>5. T = Without(s, rows[s].role)
      BY <1>1 DEF Without
<1> HIDE DEF s, G, R, T
<1>6. /\ T \in Store
      /\ \A t \in Subs \ {s}, rel \in {"member", "admin"} :
             <<t, rel>> \in T <=> <<t, rel>> \in tuples
      /\ <<s, "member">> \notin T
      /\ <<s, "admin">> \in T <=> <<s, "admin">> \in tuples /\ rows[s].role # "admin"
      BY <1>4, <1>5, Taking
<1>7. ASSUME rows' = R, tuples' = T, losses' = losses
      PROVE  AdminFloor' /\ FreezeSparesAdmins' /\ Matching' /\ RowsKeep
  <2>1. RowsKeep
        BY <1>1, <1>3, <1>7, Basics DEF RowsKeep, Present, Row, IInv, TypeOK, NoRow
  <2>2. AdminFloor'
    <3>1. CASE rows[s].role = "admin"
          BY <1>1, <1>3, <1>7, <3>1 DEF AdminFloor, Another, Active, Present
    <3>2. CASE rows[s].role # "admin"
          BY <1>1, <1>3, <1>7, <3>2 DEF IInv, AdminFloor, Active, Present
    <3> QED  BY <3>1, <3>2
  <2>3. FreezeSparesAdmins'
        BY <1>1, <1>3, <1>7 DEF IInv, FreezeSparesAdmins
  <2>4. ~Worth(R[s]) /\ (losses = 0 => <<s, "admin">> \notin T)
        BY <1>1, <1>3, <1>6 DEF IInv, Matching, Granted, Worth
  <2>5. Matching'
        BY <1>1, <1>3, <1>6, <1>7, <2>4, Rematch DEF IInv
  <2> QED  BY <2>1, <2>2, <2>3, <2>5
<1> QED  BY <1>1, <1>2, <1>3, <1>6, <1>7, SettleInv DEF Locked, Seating

\* A return: the row is still the one that was read.
LEMMA ReactivateInv ==
    ASSUME Ordered, IInv, NEW q \in Reqs, ReactivateFinish(q)
    PROVE  IInv'
<1> DEFINE s == req[q].sub
           G == Grants(s, req[q].seen.role)
           R == Set(s, "held", "no")
           T == tuples \cup G
<1>1. /\ req[q].step = "reactivate" /\ s \in Subs
      /\ Present(s) /\ rows[s].role = req[q].seen.role
      /\ rows[s].held \in {"admin", "scim"}
      BY DEF ReactivateFinish, IInv, TypeOK, Request, InHand, Sound, AsSeen
<1>2. Settle(q, Write(G), R, T) /\ Write(G) \in BOOLEAN
      BY DEF ReactivateFinish, Write
<1>3. /\ \A t \in Subs \ {s} : R[t] = rows[t]
      /\ R[s] = [role |-> rows[s].role, held |-> "no"]
      /\ R \in Table
      BY <1>1 DEF Set, Row, Holds, Present, IInv, TypeOK, Table
<1>4. s \in Subs /\ tuples \in Store
      BY <1>1 DEF IInv, TypeOK, Store
<1>5. T = With(s, rows[s].role)
      BY <1>1 DEF With
<1> HIDE DEF s, G, R, T
<1>6. /\ T \in Store
      /\ \A t \in Subs \ {s}, rel \in {"member", "admin"} :
             <<t, rel>> \in T <=> <<t, rel>> \in tuples
      /\ <<s, "member">> \in T
      /\ <<s, "admin">> \in T <=> <<s, "admin">> \in tuples \/ rows[s].role = "admin"
      BY <1>4, <1>5, Adding
<1>7. ASSUME rows' = R, tuples' = T, losses' = losses
      PROVE  AdminFloor' /\ FreezeSparesAdmins' /\ Matching' /\ RowsKeep
  <2>1. RowsKeep
        BY <1>1, <1>3, <1>7, Basics DEF RowsKeep, Present, Row, IInv, TypeOK, NoRow
  <2>2. AdminFloor'
        BY <1>1, <1>3, <1>7 DEF IInv, AdminFloor, Active, Present
  <2>3. FreezeSparesAdmins'
        BY <1>1, <1>3, <1>7 DEF IInv, FreezeSparesAdmins
  <2>4. Worth(R[s])
        BY <1>1, <1>3, <2>1, <1>7 DEF Worth, RowsKeep, Present
  <2>5. losses = 0 => <<s, "admin">> \notin tuples
        BY <1>1 DEF IInv, Matching, Granted, Worth
  <2>6. Matching'
        BY <1>1, <1>3, <1>6, <1>7, <2>4, <2>5, Rematch DEF IInv
  <2> QED  BY <2>1, <2>2, <2>3, <2>6
<1> QED  BY <1>1, <1>2, <1>3, <1>6, <1>7, SettleInv DEF Locked, Seating

\* A removal, alone since its guards were read.
LEMMA RemoveInv ==
    ASSUME Ordered, IInv, NEW q \in Reqs, RemoveFinish(q)
    PROVE  IInv'
<1> DEFINE s == req[q].sub
           G == Grants(s, req[q].seen.role)
           R == [rows EXCEPT ![s] = NoRow]
           T == tuples \ G
<1>1. /\ req[q].step = "remove" /\ s \in Subs
      /\ Present(s) /\ rows[s].role = req[q].seen.role
      /\ rows[s].role = "admin" => Another(s)
      BY DEF RemoveFinish, IInv, TypeOK, Request, InHand, Sound, AsSeen
<1>2. Settle(q, Erase(G), R, T) /\ Erase(G) \in BOOLEAN
      BY DEF RemoveFinish, Erase
<1>3. /\ \A t \in Subs \ {s} : R[t] = rows[t]
      /\ R[s] = NoRow /\ R \in Table
      BY <1>1 DEF IInv, TypeOK, Table
<1>4. s \in Subs /\ tuples \in Store
      BY <1>1 DEF IInv, TypeOK, Store
<1>5. T = Without(s, rows[s].role)
      BY <1>1 DEF Without
<1> HIDE DEF s, G, R, T
<1>6. /\ T \in Store
      /\ \A t \in Subs \ {s}, rel \in {"member", "admin"} :
             <<t, rel>> \in T <=> <<t, rel>> \in tuples
      /\ <<s, "member">> \notin T
      /\ <<s, "admin">> \in T <=> <<s, "admin">> \in tuples /\ rows[s].role # "admin"
      BY <1>4, <1>5, Taking
<1>7. ASSUME rows' = R, tuples' = T, losses' = losses
      PROVE  AdminFloor' /\ FreezeSparesAdmins' /\ Matching'
  <2>1. AdminFloor'
    <3>1. CASE rows[s].role = "admin"
          BY <1>1, <1>3, <1>7, <3>1 DEF AdminFloor, Another, Active, Present
    <3>2. CASE rows[s].role # "admin"
          BY <1>1, <1>3, <1>7, <3>2 DEF IInv, AdminFloor, Active, Present
    <3> QED  BY <3>1, <3>2
  <2>2. FreezeSparesAdmins'
        BY <1>1, <1>3, <1>7, Basics DEF IInv, FreezeSparesAdmins
  <2>3. ~Worth(R[s]) /\ (losses = 0 => <<s, "admin">> \notin T)
        BY <1>1, <1>3, <1>6 DEF IInv, Matching, Granted, Worth
  <2>4. Matching'
        BY <1>1, <1>3, <1>6, <1>7, <2>3, Rematch DEF IInv
  <2> QED  BY <2>1, <2>2, <2>4
<1> QED  BY <1>1, <1>2, <1>3, <1>6, <1>7, SettleInv, Basics DEF Unordered

\* A role change, alone since its guards were read.
LEMMA SetRoleInv ==
    ASSUME Ordered, IInv, NEW q \in Reqs, SetRoleFinish(q)
    PROVE  IInv'
<1> DEFINE s == req[q].sub
           role == req[q].arg
           G == {<<s, "admin">>}
           R == Set(s, "role", role)
           T == IF role = "admin" THEN tuples \cup G ELSE tuples \ G
           acc == IF role = "admin" THEN Write(G) ELSE Erase(G)
<1>1. /\ req[q].step = "setrole" /\ s \in Subs /\ Active(s)
      /\ role \in Roles \ {rows[s].role} /\ (role = "member" => Another(s))
      BY DEF SetRoleFinish, IInv, TypeOK, Request, InHand, Sound
<1>2. Settle(q, acc, R, T) /\ acc \in BOOLEAN
      BY <1>1 DEF SetRoleFinish, Write, Erase, Roles
<1>3. /\ \A t \in Subs \ {s} : R[t] = rows[t]
      /\ R[s] = [role |-> role, held |-> "no"]
      /\ R \in Table /\ T \in Store
      BY <1>1 DEF Set, Row, Holds, Active, Present, IInv, TypeOK, Table, Store
<1>4. /\ \A t \in Subs, rel \in {"member", "admin"} : t # s \/ rel # "admin" =>
             (<<t, rel>> \in T <=> <<t, rel>> \in tuples)
      /\ <<s, "admin">> \in T <=> role = "admin"
      OBVIOUS
<1> HIDE DEF s, role, G, R, T, acc
<1>5. ASSUME rows' = R, tuples' = T, losses' = losses
      PROVE  AdminFloor' /\ FreezeSparesAdmins' /\ Matching'
  <2>1. AdminFloor'
    <3>1. CASE role = "member"
          BY <1>1, <1>3, <1>5, <3>1 DEF AdminFloor, Another, Active, Present
    <3>2. CASE role = "admin"
          BY <1>1, <1>3, <1>5, <3>2, Basics DEF AdminFloor, Active, Present, NoRow, Roles
    <3> QED  BY <1>1, <3>1, <3>2 DEF Roles
  <2>2. FreezeSparesAdmins'
        BY <1>1, <1>3, <1>5 DEF IInv, FreezeSparesAdmins
  <2>3. Granted(s) /\ Worth(R[s]) /\ R[s].role = role
        BY <1>1, <1>3, Basics DEF Granted, Worth, Present, Active, Roles, NoRow
  <2>4. losses = 0 => <<s, "member">> \in T
        BY <1>1, <1>4, <2>3 DEF IInv, Matching
  <2>5. Matching'
        BY <1>1, <1>3, <1>4, <1>5, <2>3, <2>4, Rematch DEF IInv
  <2> QED  BY <2>1, <2>2, <2>5
<1> QED  BY <1>1, <1>2, <1>3, <1>5, SettleInv, Basics DEF Unordered

(* Sign-ins and the plan batch, with others on their way *)

\* A step of a sign-in or of the plan batch, past which the others look on.
LEMMA PassInv ==
    ASSUME Ordered, IInv, NEW q \in Reqs, NEW r \in Request,
           req[q].step \notin Unordered \cup {"idle"}, r.step \notin Unordered,
           req' = [req EXCEPT ![q] = r], LockMoves(q, r),
           rows' \in Table, tuples' \in Store, losses' \in 0 .. MaxLosses,
           losses' = 0 => losses = 0, cap' = cap, RowsKeep,
           \A p \in Reqs \ {q} : req[p].step \in Locked => RestKeeps,
           Sound(req[q])', AdminFloor', FreezeSparesAdmins', Matching'
    PROVE  IInv'
<1>1. \A p \in Reqs \ {q} : req[p].step \notin Unordered /\ req'[p] = req[p]
      BY NoCompany DEF IInv, TypeOK
<1>2. /\ req' \in [Reqs -> Request] /\ lock' \in Reqs \cup {NoReq}
      /\ \A p \in Reqs : lock' = p <=> req'[p].step \in Locked
      /\ Company'
      BY <1>1, RequestStep DEF IInv, Keeps
<1>3. TypeOK'
      BY <1>2 DEF IInv, TypeOK, Table, Store
<1>4. ASSUME NEW p \in Reqs \ {q}
      PROVE  Sound(req[p])'
      BY <1>1, <1>4, Bystander DEF IInv, InHand
<1> QED  BY <1>2, <1>3, <1>4 DEF IInv, InHand

\* A request that goes on without touching the tables.
LEMMA OnInv ==
    ASSUME Ordered, IInv, NEW q \in Reqs, NEW r \in Request, Sound(r),
           req[q].step \notin Locked \cup {"idle"}, r.step \notin Locked \cup Unordered,
           req' = [req EXCEPT ![q] = r], UNCHANGED <<rows, tuples, cap, lock, losses>>
    PROVE  IInv'
<1>1. Keeps(q, r)
      BY NoCompany DEF IInv, Keeps
<1> QED  BY <1>1, MoveInv DEF LockMoves, IInv, TypeOK

\* A request that takes the lock without touching the tables.
LEMMA TakeInv ==
    ASSUME Ordered, IInv, NEW q \in Reqs, NEW r \in Request, Sound(r),
           req[q].step # "idle", r.step \in Locked, TakeLock(q),
           req' = [req EXCEPT ![q] = r], UNCHANGED <<rows, tuples, cap, losses>>
    PROVE  IInv'
<1>1. Keeps(q, r)
      BY NoCompany, Basics DEF IInv, Keeps
<1> QED  BY <1>1, MoveInv DEF LockMoves, IInv, TypeOK

\* A request that ends without touching the tables.
LEMMA DropInv ==
    ASSUME Ordered, IInv, NEW q \in Reqs, req' = [req EXCEPT ![q] = Idle],
           lock' = Unlock(q) \/ (lock' = lock /\ req[q].step \notin Locked),
           UNCHANGED <<rows, tuples, cap, losses>>
    PROVE  IInv'
<1>1. Keeps(q, Idle) /\ LockMoves(q, Idle)
      BY Basics DEF Keeps, LockMoves
<1> QED  BY <1>1, Basics, MoveInv DEF IInv, TypeOK

\* An invite or a return that gets the lock finds what it will act on.
LEMMA LockBeginInv ==
    ASSUME Ordered, IInv, NEW q \in Reqs, AcceptBegin(q) \/ ReactivateBegin(q)
    PROVE  IInv'
<1> DEFINE s == req[q].sub
           arg == req[q].arg
           step == IF req[q].step = "join" THEN "accept" ELSE "reactivate"
           r == Told(q, step, s, arg)
<1>1. /\ s \in Subs /\ arg \in Roles \cup Holds /\ step \in Steps
      /\ Sound(req[q])
      BY DEF IInv, TypeOK, Request, InHand, Steps
<1>2. /\ r \in Request /\ r.step = step /\ r.sub = s /\ r.arg = arg
      /\ r.seen = rows[s]
      BY <1>1, ToldTyped DEF IInv
<1>3. /\ req[q].step \in {"join", "return"} /\ TakeLock(q)
      /\ req' = [req EXCEPT ![q] = r] /\ UNCHANGED <<rows, tuples, cap, losses>>
      /\ req[q].step = "join" => ~Present(s) /\ arg \in Roles
      /\ req[q].step = "return" =>
            Present(s) /\ rows[s].held = arg /\ arg \in {"admin", "scim"}
      BY <1>1 DEF AcceptBegin, ReactivateBegin, Go, Told, Sound
<1> HIDE DEF s, arg, r
<1>4. Sound(r)
  <2>1. CASE req[q].step = "join"
        BY <1>2, <1>3, <2>1 DEF Sound, Unordered
  <2>2. CASE req[q].step = "return"
        BY <1>2, <1>3, <2>2 DEF Sound, AsSeen, Unordered
  <2> QED  BY <1>3, <2>1, <2>2
<1>5. r.step \in Locked
      BY <1>2 DEF Locked, Seating
<1> QED  BY <1>2, <1>3, <1>4, <1>5, TakeInv

\* Auto-enrolment looks under the lock, and keeps it only to take a seat.
LEMMA LoginEnrolInv ==
    ASSUME Ordered, IInv, NEW q \in Reqs, LoginEnrol(q)
    PROVE  IInv'
<1> DEFINE s == req[q].sub
           r1 == Told(q, "heldcheck", s, "no")
           r2 == Told(q, "seat", s, "member")
<1>1. req[q].step = "enrol" /\ s \in Subs /\ UNCHANGED <<rows, tuples, cap, losses>>
      BY DEF LoginEnrol, IInv, TypeOK, Request
<1>2. /\ r1 \in Request /\ r1.step = "heldcheck" /\ r1.sub = s
      /\ r2 \in Request /\ r2.step = "seat" /\ r2.sub = s
      BY <1>1, ToldTyped DEF Steps, Holds, Roles, IInv
<1>3. \/ Present(s) /\ req' = [req EXCEPT ![q] = r1] /\ lock' = lock
      \/ ~Present(s) /\ req' = [req EXCEPT ![q] = r2] /\ TakeLock(q)
      \/ req' = [req EXCEPT ![q] = Idle] /\ lock' = Unlock(q)
      BY DEF LoginEnrol, Go, Told, End
<1>4. /\ req[q].step \notin Locked \cup {"idle"} /\ "seat" \in Locked
      /\ "heldcheck" \notin Locked \cup Unordered
      BY <1>1 DEF Unordered, Locked, Seating
<1> HIDE DEF s, r1, r2
<1>5. CASE Present(s) /\ req' = [req EXCEPT ![q] = r1] /\ lock' = lock
  <2>1. Sound(r1)
        BY <1>2, <1>5 DEF Sound, Unordered
  <2> QED  BY <1>1, <1>2, <1>4, <1>5, <2>1, OnInv
<1>6. CASE ~Present(s) /\ req' = [req EXCEPT ![q] = r2] /\ TakeLock(q)
  <2>1. Sound(r2)
        BY <1>2, <1>6 DEF Sound, Unordered
  <2> QED  BY <1>1, <1>2, <1>4, <1>6, <2>1, TakeInv
<1>7. CASE req' = [req EXCEPT ![q] = Idle] /\ lock' = Unlock(q)
      BY <1>1, <1>7, DropInv
<1> QED  BY <1>3, <1>5, <1>6, <1>7

\* Auto-enrolment commits under the lock, and signs in.
LEMMA LoginSeatInv ==
    ASSUME Ordered, IInv, NEW q \in Reqs, LoginSeat(q)
    PROVE  IInv'
<1> DEFINE s == req[q].sub
           r == Told(q, "heldcheck", s, "no")
           R == IF Present(s) THEN rows ELSE Put(s, "member")
           T == With(s, "member")
<1>1. /\ req[q].step = "seat" /\ s \in Subs /\ cap' = cap
      /\ losses = 0 => ~Present(s)
      BY DEF LoginSeat, IInv, TypeOK, Request, InHand, Sound
<1>2. /\ r \in Request /\ r.step = "heldcheck" /\ r.sub = s
      BY <1>1, ToldTyped DEF Steps, Holds, IInv
<1>3. /\ lock' = Unlock(q)
      /\ \/ /\ req' = [req EXCEPT ![q] = r]
            /\ rows' = R /\ tuples' = T /\ losses' = losses
         \/ /\ req' = [req EXCEPT ![q] = Idle] /\ tuples' = T /\ rows' = rows
            /\ losses < MaxLosses /\ losses' = losses + 1
         \/ req' = [req EXCEPT ![q] = Idle] /\ UNCHANGED <<rows, tuples, losses>>
      BY DEF LoginSeat, Go, Told, With, End
<1>4. R \in Table /\ tuples \in Store
      BY <1>1 DEF Put, Row, Roles, Holds, IInv, TypeOK, Table, Store
<1>5. /\ \A t \in Subs \ {s} : R[t] = rows[t]
      /\ Present(s) => R = rows
      /\ ~Present(s) => R[s] = [role |-> "member", held |-> "no"]
      BY <1>1 DEF Put, IInv, TypeOK
<1>6. /\ T \in Store
      /\ \A t \in Subs \ {s}, rel \in {"member", "admin"} :
             <<t, rel>> \in T <=> <<t, rel>> \in tuples
      /\ <<s, "member">> \in T
      /\ <<s, "admin">> \in T <=> <<s, "admin">> \in tuples
      BY <1>1, <1>4, Adding
<1>7. /\ req[q].step \notin Unordered \cup {"idle"} /\ "heldcheck" \notin Locked \cup Unordered
      /\ req[q].step \in Locked
      BY <1>1 DEF Unordered, Locked, Seating
<1>8. \A p \in Reqs \ {q} : req[p].step \notin Locked
      BY <1>7 DEF IInv, TypeOK
<1> HIDE DEF s, r, R, T
<1>9. CASE /\ req' = [req EXCEPT ![q] = r]
           /\ rows' = R /\ tuples' = T /\ losses' = losses
  <2>1. RowsKeep /\ rows'[s] # NoRow
        BY <1>1, <1>5, <1>9, Basics DEF RowsKeep, Present, Roles
  <2>2. AdminFloor' /\ FreezeSparesAdmins'
        BY <1>1, <1>5, <1>9 DEF IInv, AdminFloor, FreezeSparesAdmins, Active, Present
  <2>3. Matching'
    <3>1. ~Present(s) => Worth(R[s]) /\ R[s].role = "member"
          BY <1>5, Basics DEF Worth, Roles
    <3>2. losses = 0 => <<s, "admin">> \notin T
          BY <1>1, <1>6, <1>9 DEF IInv, Matching, Granted, Worth, Present
    <3> QED  BY <1>1, <1>5, <1>6, <1>9, <3>1, <3>2, Rematch DEF IInv
  <2>4. Sound(req[q])'
    <3>1. req'[q] = r
          BY <1>9 DEF IInv, TypeOK
    <3> QED  BY <1>2, <2>1, <3>1 DEF Sound, Present, Unordered
  <2>5. LockMoves(q, r)
        BY <1>2, <1>3, <1>7 DEF LockMoves
  <2> QED  BY <1>1, <1>2, <1>4, <1>6, <1>7, <1>8, <1>9, <2>1, <2>2, <2>3, <2>4, <2>5, PassInv
              DEF IInv, TypeOK
<1>10. CASE /\ req' = [req EXCEPT ![q] = Idle] /\ tuples' = T /\ rows' = rows
            /\ losses < MaxLosses /\ losses' = losses + 1
  <2>1. losses' \in 0 .. MaxLosses /\ losses' # 0
        BY <1>10, SwitchAssumption DEF IInv, TypeOK
  <2>2. AdminFloor' /\ FreezeSparesAdmins' /\ Matching' /\ RowsKeep
        BY <1>10, <2>1 DEF IInv, AdminFloor, FreezeSparesAdmins, Matching, Active, Present,
                           RowsKeep
  <2>3. Sound(req[q])'
    <3>1. req'[q] = Idle
          BY <1>10 DEF IInv, TypeOK
    <3> QED  BY <3>1, Basics DEF Sound, Unordered
  <2>4. LockMoves(q, Idle) /\ Idle.step \notin Unordered
        BY <1>3, Basics DEF LockMoves
  <2> QED  BY <1>1, <1>6, <1>7, <1>8, <1>10, <2>1, <2>2, <2>3, <2>4, Basics, PassInv
              DEF IInv, TypeOK, Table
<1>11. CASE req' = [req EXCEPT ![q] = Idle] /\ UNCHANGED <<rows, tuples, losses>>
       BY <1>1, <1>3, <1>11, DropInv
<1> QED  BY <1>3, <1>9, <1>10, <1>11

\* The held check reads one row and goes on or stops.
LEMMA LoginHeldCheckInv ==
    ASSUME Ordered, IInv, NEW q \in Reqs, LoginHeldCheck(q)
    PROVE  IInv'
<1> DEFINE s == req[q].sub
           r == Told(q, "upsert", s, "no")
<1>1. /\ req[q].step = "heldcheck" /\ s \in Subs /\ (losses = 0 => Present(s))
      /\ UNCHANGED <<rows, tuples, cap, lock, losses>>
      BY DEF LoginHeldCheck, IInv, TypeOK, Request, InHand, Sound
<1>2. r \in Request /\ r.step = "upsert" /\ r.sub = s
      BY <1>1, ToldTyped DEF Steps, Holds, IInv
<1>3. req' = [req EXCEPT ![q] = r] \/ req' = [req EXCEPT ![q] = Idle]
      BY DEF LoginHeldCheck, Go, Told
<1>4. req[q].step \notin Locked \cup {"idle"} /\ "upsert" \notin Locked \cup Unordered
      BY <1>1 DEF Unordered, Locked, Seating
<1> HIDE DEF s, r
<1>5. Sound(r)
      BY <1>1, <1>2 DEF Sound, Unordered
<1>6. CASE req' = [req EXCEPT ![q] = r]
      BY <1>1, <1>2, <1>4, <1>5, <1>6, OnInv
<1>7. CASE req' = [req EXCEPT ![q] = Idle]
      BY <1>1, <1>4, <1>7, DropInv
<1> QED  BY <1>3, <1>6, <1>7

\* A row that is inserted again belongs to nobody the store was asked about:
\* it can only be missing where a commit was lost.
LEMMA LoginUpsertInv ==
    ASSUME Ordered, IInv, NEW q \in Reqs, LoginUpsert(q)
    PROVE  IInv'
<1> DEFINE s == req[q].sub
           R == IF Present(s) THEN rows ELSE Put(s, "member")
<1>1. /\ req[q].step = "upsert" /\ s \in Subs /\ (losses = 0 => Present(s))
      /\ rows' = R /\ End(q) /\ UNCHANGED <<tuples, cap, losses>>
      BY DEF LoginUpsert, IInv, TypeOK, Request, InHand, Sound
<1>2. R \in Table
      BY <1>1 DEF Put, Row, Roles, Holds, IInv, TypeOK, Table
<1>3. /\ \A t \in Subs \ {s} : R[t] = rows[t]
      /\ Present(s) => R = rows
      /\ ~Present(s) => R[s] = [role |-> "member", held |-> "no"]
      BY <1>1 DEF Put, IInv, TypeOK
<1> HIDE DEF s, R
<1>4. RowsKeep
      BY <1>1, <1>3 DEF RowsKeep, Present
<1>5. RestKeeps
      BY <1>1, <1>3, Basics DEF RestKeeps, Present, Active
<1>6. AdminFloor' /\ FreezeSparesAdmins'
      BY <1>1, <1>3 DEF IInv, AdminFloor, FreezeSparesAdmins, Active, Present
<1>7. Matching'
      BY <1>1, <1>3 DEF IInv, Matching, Granted, Worth
<1>8. Sound(req[q])'
  <2>1. req'[q] = Idle
        BY <1>1 DEF IInv, TypeOK, End
  <2> QED  BY <2>1, Basics DEF Sound, Unordered
<1>9. /\ LockMoves(q, Idle) /\ Idle.step \notin Unordered
      /\ req[q].step \notin Unordered \cup {"idle"}
      /\ req' = [req EXCEPT ![q] = Idle]
      BY <1>1, Basics DEF LockMoves, End, Unordered
<1> QED  BY <1>1, <1>2, <1>4, <1>5, <1>6, <1>7, <1>8, <1>9, Basics, PassInv
            DEF IInv, TypeOK, Store

\* One row of the plan batch.
LEMMA FreezeInv ==
    ASSUME Ordered, IInv, NEW q \in Reqs, FreezeOne(q)
    PROVE  IInv'
<1>1. /\ req[q].step = "freeze" /\ req[q] \in Request
      /\ UNCHANGED <<tuples, cap, losses>>
      BY DEF FreezeOne, IInv, TypeOK
<1>2. CASE req[q].batch = {}
      BY <1>1, <1>2, DropInv DEF FreezeOne, End
<1>3. CASE req[q].batch # {}
  <2>1. PICK s \in req[q].batch :
            /\ rows' = IF Active(s) THEN Set(s, "held", "frozen") ELSE rows
            /\ req' = [req EXCEPT ![q].batch = @ \ {s}]
            /\ lock' = lock
        BY <1>3 DEF FreezeOne
  <2> DEFINE r == [req[q] EXCEPT !.batch = @ \ {s}]
  <2>2. /\ s \in Subs /\ Present(s) /\ rows[s].role # "admin"
        /\ \A t \in req[q].batch : Present(t) /\ rows[t].role # "admin"
        BY <1>1, <2>1 DEF IInv, InHand, Sound, Request
  <2>3. /\ r \in Request /\ r.step = "freeze" /\ r.batch = req[q].batch \ {s}
        BY <1>1 DEF Request
  <2>4. req' = [req EXCEPT ![q] = r]
        BY <2>1 DEF IInv, TypeOK
  <2> HIDE DEF r
  <2>5. /\ \A t \in Subs \ {s} : rows'[t] = rows[t]
        /\ ~Active(s) => rows'[s] = rows[s]
        /\ Active(s) => rows'[s] = [role |-> rows[s].role, held |-> "frozen"]
        /\ rows' \in Table
        BY <2>1, <2>2 DEF Set, Row, Roles, Holds, Present, Active, IInv, TypeOK, Table
  <2>6. RowsKeep
        BY <2>2, <2>5, Basics DEF RowsKeep, Present, Row, IInv, TypeOK, NoRow
  <2>7. RestKeeps
        BY <2>2, <2>5 DEF RestKeeps, Present, Active
  <2>8. AdminFloor' /\ FreezeSparesAdmins'
        BY <2>2, <2>5 DEF IInv, AdminFloor, FreezeSparesAdmins, Active, Present
  <2>9. Matching'
    <3>1. \A t \in Subs : Worth(rows'[t]) = Worth(rows[t]) /\ rows'[t].role = rows[t].role
          BY <2>2, <2>5, <2>6 DEF Worth, Active, Present, RowsKeep
    <3> QED  BY <1>1, <3>1 DEF IInv, Matching, Granted
  <2>10. Sound(req[q])'
    <3>1. req'[q] = r
          BY <2>4 DEF IInv, TypeOK
    <3>2. \A t \in r.batch : Present(t)' /\ rows'[t].role # "admin"
          BY <1>1, <2>2, <2>3, <2>6 DEF RowsKeep, Request
    <3> QED  BY <2>3, <3>1, <3>2 DEF Sound, Unordered
  <2>11. LockMoves(q, r) /\ r.step \notin Unordered /\ req[q].step \notin Unordered \cup {"idle"}
        BY <1>1, <2>1, <2>3 DEF LockMoves, Locked, Seating, Unordered
  <2> QED  BY <1>1, <2>3, <2>4, <2>5, <2>6, <2>7, <2>8, <2>9, <2>10, <2>11, PassInv
              DEF IInv, TypeOK, Store
<1> QED  BY <1>2, <1>3

\* Every step keeps the invariant.
LEMMA NextInv ==
    ASSUME Ordered, IInv, [Next]_vars
    PROVE  IInv'
<1>1. CASE UNCHANGED vars
  <2>1. IInv' = IInv
        BY <1>1 DEF vars, IInv, TypeOK, Company, InHand, Sound, AsSeen, Another,
                    AdminFloor, FreezeSparesAdmins, Matching, Granted, Active, Present
  <2> QED  BY <2>1
<1>2. ASSUME NEW q \in Reqs, Abandon(q)
      PROVE  IInv'
      BY <1>2, DropInv DEF Abandon, End
<1>3. ASSUME NEW q \in Reqs, Begin(q) \/ Continue(q) \/ Abandon(q)
      PROVE  IInv'
      BY <1>2, <1>3, BeginInv, AcceptInv, LockBeginInv, LoginEnrolInv, LoginSeatInv,
         LoginHeldCheckInv, LoginUpsertInv,
         SuspendInv, ReactivateInv, RemoveInv, SetRoleInv, FreezeInv DEF Continue
<1> QED  BY <1>1, <1>3 DEF Next

\* The inductive invariant holds in every state, whatever runs beside what.
THEOREM Invariance ==
    ASSUME Ordered
    PROVE  Spec => []IInv
<1>1. IInv /\ [Next]_vars => IInv'
      BY NextInv
<1> QED  BY <1>1, InitInv, PTL DEF Spec

(* The invariants the runs check *)

\* Types, and the lock is held by whoever is in a locked transaction.
THEOREM TypeCorrect ==
    ASSUME Ordered
    PROVE  Spec => []TypeOK
<1>1. IInv => TypeOK
      BY DEF IInv
<1> QED  BY <1>1, Invariance, PTL

\* Some administrator is always active: suspension looks under the lock, and
\* what another does meanwhile leaves it the administrator it saw.
THEOREM FloorHolds ==
    ASSUME Ordered
    PROVE  Spec => []AdminFloor
<1>1. IInv => AdminFloor
      BY DEF IInv
<1> QED  BY <1>1, Invariance, PTL

\* As long as no commit was lost, the store grants what the rows say.
THEOREM StoreFollowsRows ==
    ASSUME Ordered
    PROVE  Spec => []GrantsMatchRows
<1>1. ASSUME IInv, losses = 0, NEW s \in Subs
      PROVE  {t \in tuples : t[1] = s} =
                 IF Present(s) /\ rows[s].held \in {"no", "frozen"}
                 THEN Grants(s, rows[s].role) ELSE {}
  <2>1. tuples \subseteq Subs \X {"member", "admin"}
        BY <1>1 DEF IInv, TypeOK
  <2>2. /\ <<s, "member">> \in tuples <=> Granted(s)
        /\ <<s, "admin">> \in tuples <=> Granted(s) /\ rows[s].role = "admin"
        BY <1>1 DEF IInv, Matching
  <2>3. {t \in tuples : t[1] = s} =
            {t \in {<<s, "member">>, <<s, "admin">>} : t \in tuples}
        BY <2>1
  <2>4. CASE Granted(s)
        BY <2>2, <2>3, <2>4 DEF Granted, Worth, Present, Grants
  <2>5. CASE ~Granted(s)
        BY <2>2, <2>3, <2>5 DEF Granted, Worth, Present
  <2> QED  BY <2>4, <2>5
<1>2. IInv => GrantsMatchRows
      BY <1>1 DEF GrantsMatchRows
<1> QED  BY <1>2, Invariance, PTL

(* Seats *)

\* Counting seats: fewer rows leave free what was free, and one row more than
\* what left one free still fits.
LEMMA Counting ==
    /\ Billable' \subseteq Billable => ~(Cardinality(Billable') > Cardinality(Billable))
    /\ \A n \in Nat : Cardinality(Billable) < n /\ Billable' \subseteq Billable
          => Cardinality(Billable') < n
    /\ \A s : \A n \in Nat : Cardinality(Billable) < n /\ Billable' \subseteq Billable \cup {s}
          => Cardinality(Billable') <= n
<1>1. IsFiniteSet(Billable)
      BY FounderAssumption, FS_Subset DEF Billable
<1>2. Billable' \subseteq Billable =>
          /\ IsFiniteSet(Billable') /\ Cardinality(Billable') <= Cardinality(Billable)
      BY <1>1, FS_Subset
<1>3. Cardinality(Billable) \in Nat
      BY <1>1, FS_CardinalityType
<1>4. Billable' \subseteq Billable => Cardinality(Billable') \in Nat
      BY <1>2, FS_CardinalityType
<1>5. ASSUME NEW s, NEW n \in Nat, Cardinality(Billable) < n,
             Billable' \subseteq Billable \cup {s}
      PROVE  Cardinality(Billable') <= n
  <2>1. /\ IsFiniteSet(Billable \cup {s})
        /\ Cardinality(Billable \cup {s}) <= Cardinality(Billable) + 1
        BY <1>1, <1>3, FS_AddElement
  <2>2. /\ IsFiniteSet(Billable')
        /\ Cardinality(Billable') <= Cardinality(Billable \cup {s})
        BY <1>5, <2>1, FS_Subset
  <2>3. Cardinality(Billable') \in Nat /\ Cardinality(Billable \cup {s}) \in Nat
        BY <2>1, <2>2, FS_CardinalityType
  <2> QED  BY <1>3, <1>5, <2>1, <2>2, <2>3
<1> QED  BY <1>2, <1>3, <1>4, <1>5

\* A step that takes no seat and leaves whoever waits for one his.
Quiet == /\ Billable' \subseteq Billable
         /\ \A p \in Reqs : req'[p].step \in Seating =>
                               Cardinality(Billable) < req'[p].plan

\* A step of q after which nobody waits; it seats one where one seat was free.
Seated(q) ==
    /\ \A p \in Reqs : req'[p].step \notin Seating
    /\ \/ Billable' \subseteq Billable
       \/ /\ req[q].step \in Seating /\ SeatFree(q)
          /\ \E s \in Subs : Billable' \subseteq Billable \cup {s}

\* Where whoever waits holds the lock, the end of that transaction leaves none.
LEMMA SeatEnds ==
    ASSUME TypeOK, NEW q \in Reqs, req[q].step \in Locked, NEW r, r.step \notin Locked,
           req' = [req EXCEPT ![q] = r]
    PROVE  \A p \in Reqs : req'[p].step \notin Seating
BY Basics DEF TypeOK

\* A step that moves one request elsewhere than to a seat, or to one it counted.
LEMMA SeatWaits ==
    ASSUME IInv, SeatHeld, losses = 0, NEW q \in Reqs, NEW r,
           r.step \notin Seating \/ Cardinality(Billable) < r.plan,
           req' = [req EXCEPT ![q] = r], Billable' \subseteq Billable
    PROVE  Quiet
BY DEF Quiet, SeatHeld, SeatFree, IInv, TypeOK

\* Where rows stay, so does what is billed.
LEMMA SameRows == rows' = rows => Billable' = Billable
BY DEF Billable, Present

\* No start of a request takes a seat.
LEMMA BeginSeats ==
    ASSUME IInv, SeatHeld, losses = 0, NEW q \in Reqs, Begin(q)
    PROVE  Quiet
<1> USE DEF IInv
<1>1. ASSUME NEW s \in Subs, NEW x,
             \/ AcceptAsk(q, s, x) \/ ReactivateAsk(q, s, x)
             \/ LoginCheck(q, s) \/ SuspendBegin(q, s, x)
             \/ RemoveBegin(q, s) \/ SetRoleBegin(q, s, x)
      PROVE  Quiet
  <2>1. PICK r : r.step \notin Seating /\ req' = [req EXCEPT ![q] = r]
        BY <1>1 DEF AcceptAsk, ReactivateAsk, LoginCheck, SuspendBegin, RemoveBegin,
                    SetRoleBegin, Go, Seating
  <2>2. rows' = rows
        BY <1>1 DEF AcceptAsk, ReactivateAsk, LoginCheck, SuspendBegin, RemoveBegin,
                    SetRoleBegin
  <2> QED  BY <2>1, <2>2, SameRows, SeatWaits
<1>2. ASSUME DowngradeBegin(q)
      PROVE  Quiet
  <2>1. PICK r : r.step \notin Seating /\ req' = [req EXCEPT ![q] = r]
        BY <1>2 DEF DowngradeBegin, Seating, Idle
  <2> QED  BY <1>2, <2>1, SameRows, SeatWaits DEF DowngradeBegin
<1>3. ASSUME Upgrade(q)
      PROVE  Quiet
  <2>1. req' = req
        BY <1>3 DEF Upgrade
  <2>2. \A s \in Subs : rows'[s] = rows[s] \/ (Present(s) /\ rows[s].held = "frozen")
        BY <1>3, Basics DEF Upgrade, Present
  <2>3. Billable' \subseteq Billable
        BY <2>2 DEF Billable, Present
  <2> QED  BY <2>1, <2>3 DEF Quiet, SeatHeld, SeatFree
<1> QED  BY <1>1, <1>2, <1>3 DEF Begin

\* What becomes of the rows where a transaction ends.
LEMMA SettleRows ==
    ASSUME NEW q, NEW acc, NEW R, NEW T, Settle(q, acc, R, T)
    PROVE  req' = [req EXCEPT ![q] = Idle] /\ (rows' = R \/ rows' = rows)
BY DEF Settle, End

\* Who adds a row had a seat free for it; the store refuses the rest.
LEMMA ContinueSeats ==
    ASSUME IInv, SeatHeld, losses = 0, NEW q \in Reqs, Continue(q)
    PROVE  Quiet \/ Seated(q)
<1> USE DEF IInv
<1> DEFINE s == req[q].sub
<1>1. s \in Subs
      BY DEF TypeOK, Request
<1>2. ASSUME AcceptFinish(q) \/ ReactivateFinish(q) \/ LoginSeat(q)
      PROVE  Seated(q)
  <2>1. PICK r : r.step \notin Locked /\ req' = [req EXCEPT ![q] = r]
        BY <1>2, SettleRows, Basics
           DEF AcceptFinish, ReactivateFinish, LoginSeat, Go, End, Locked, Seating
  <2>2. /\ req[q].step \in Seating
        /\ rows' \in {rows, Put(s, req[q].arg), Put(s, "member"), Set(s, "held", "no")}
        BY <1>2, SettleRows DEF AcceptFinish, ReactivateFinish, LoginSeat, Seating
  <2>3. \A t \in Subs \ {s} : rows'[t] = rows[t]
        BY <1>1, <2>2 DEF Put, Set, TypeOK
  <2>4. Billable' \subseteq Billable \cup {s}
        BY <2>3 DEF Billable, Present
  <2>5. SeatFree(q) /\ \A p \in Reqs : req'[p].step \notin Seating
        BY <2>1, <2>2, SeatEnds, Basics DEF SeatHeld
  <2> QED  BY <1>1, <2>2, <2>4, <2>5 DEF Seated
<1>3. ASSUME SuspendFinish(q)
      PROVE  Quiet
  <2> DEFINE G == Grants(s, req[q].seen.role)
  <2>1. /\ req' = [req EXCEPT ![q] = Idle]
        /\ rows' = rows \/ (Erase(G) /\ rows' = Set(s, "held", req[q].arg))
        BY <1>3 DEF SuspendFinish, Settle, End
  <2>2. Erase(G) => Present(s) /\ rows[s].held # "scim"
        BY <1>1 DEF Erase, Grants, Matching, Granted, Worth, Present
  <2>3. Billable' \subseteq Billable
    <3>1. CASE rows' = rows
          BY <3>1, SameRows
    <3>2. CASE Erase(G) /\ rows' = Set(s, "held", req[q].arg)
      <4>1. \A t \in Subs \ {s} : rows'[t] = rows[t]
            BY <1>1, <3>2 DEF Set, TypeOK
      <4> QED  BY <2>2, <3>2, <4>1 DEF Billable, Present
    <3> QED  BY <2>1, <3>1, <3>2
  <2> QED  BY <2>1, <2>3, SeatWaits, Basics
<1>4. ASSUME RemoveFinish(q) \/ SetRoleFinish(q)
      PROVE  Quiet
  <2>1. /\ req' = [req EXCEPT ![q] = Idle]
        /\ rows' \in {rows, [rows EXCEPT ![s] = NoRow],
                      Set(s, "role", "admin"), Set(s, "role", "member")}
        BY <1>4, SettleRows DEF RemoveFinish, SetRoleFinish
  <2>2. \A t \in Subs : \/ rows'[t] = NoRow
                        \/ Present(t) /\ rows'[t].held = rows[t].held
    <3>1. \A t \in Subs \ {s} : rows'[t] = rows[t]
          BY <1>1, <2>1 DEF Set, TypeOK
    <3>2. ASSUME Present(s)
          PROVE  rows'[s] = NoRow \/ rows'[s].held = rows[s].held
          BY <1>1, <2>1, <3>2 DEF Set, Present, TypeOK, Row
    <3>3. ASSUME ~Present(s)
          PROVE  rows'[s] = NoRow
          BY <1>1, <2>1, <3>3 DEF Set, Present, TypeOK
    <3> QED  BY <3>1, <3>2, <3>3 DEF Present
  <2>3. Billable' \subseteq Billable
        BY <2>2 DEF Billable, Present
  <2> QED  BY <2>1, <2>3, Basics, SeatWaits
<1>5. ASSUME LoginEnrol(q) \/ AcceptBegin(q) \/ ReactivateBegin(q)
      PROVE  Quiet
  <2>1. rows' = rows /\ req[q] # Idle
        BY <1>5, Basics DEF LoginEnrol, AcceptBegin, ReactivateBegin
  <2>2. PICK r : /\ r.step \notin Seating \/ Cardinality(Billable) < r.plan
                 /\ req' = [req EXCEPT ![q] = r]
        BY <1>5, <2>1, Basics
           DEF LoginEnrol, AcceptBegin, ReactivateBegin, Go, End, SeatFree, Seating
  <2> QED  BY <2>1, <2>2, SameRows, SeatWaits
<1>6. ASSUME LoginHeldCheck(q) \/ LoginUpsert(q)
      PROVE  Quiet
  <2>1. rows' = rows
        BY <1>6 DEF LoginHeldCheck, LoginUpsert, InHand, Sound
  <2>2. PICK r : r.step \notin Seating /\ req' = [req EXCEPT ![q] = r]
        BY <1>6, Basics DEF LoginHeldCheck, LoginUpsert, End, Go, Seating
  <2> QED  BY <2>1, <2>2, SameRows, SeatWaits
<1>7. ASSUME FreezeOne(q)
      PROVE  Quiet
  <2>1. req[q].step = "freeze"
        BY <1>7 DEF FreezeOne
  <2>2. \A t \in Subs : \/ rows'[t] = rows[t]
                        \/ Present(t) /\ rows[t].held = "no"
    <3>1. CASE rows' = rows
          BY <3>1
    <3>2. ASSUME NEW x \in req[q].batch, Active(x), rows' = Set(x, "held", "frozen")
          PROVE  \A t \in Subs \ {x} : rows'[t] = rows[t]
          BY <3>2 DEF Set, TypeOK
    <3> QED  BY <1>7, <3>1, <3>2 DEF FreezeOne, Active
  <2>3. Billable' \subseteq Billable
        BY <2>2 DEF Billable, Present
  <2>4. req'[q].step \notin Seating /\ \A p \in Reqs \ {q} : req'[p] = req[p]
        BY <1>7, <2>1, Basics DEF FreezeOne, End, Seating, TypeOK, Request
  <2> QED  BY <2>3, <2>4 DEF Quiet, SeatHeld, SeatFree
<1> QED  BY <1>2, <1>3, <1>4, <1>5, <1>6, <1>7 DEF Continue

\* The same of every step.
LEMMA StepSeats ==
    ASSUME IInv, SeatHeld, losses = 0, [Next]_vars
    PROVE  Quiet \/ \E q \in Reqs : Seated(q)
<1> USE DEF IInv
<1>1. CASE UNCHANGED vars
      BY <1>1, SameRows DEF vars, Quiet, SeatHeld, SeatFree
<1>2. ASSUME NEW q \in Reqs, Abandon(q)
      PROVE  Quiet
      BY <1>2, SameRows, SeatWaits, Basics DEF Abandon, End
<1> QED  BY <1>1, <1>2, BeginSeats, ContinueSeats DEF Next

\* A lost commit is never made good.
LEMMA LossesLast == [Next]_vars /\ TypeOK /\ losses' = 0 => losses = 0
<1>1. \A q \in Reqs : \A acc, R, T : Settle(q, acc, R, T) => losses' \in {losses, losses + 1}
      BY DEF Settle
<1>2. losses' \in {losses, losses + 1} \/ ~[Next]_vars
  <2>1. SUFFICES ASSUME NEW q \in Reqs, Begin(q) \/ Continue(q) \/ Abandon(q)
                 PROVE  losses' \in {losses, losses + 1}
        BY DEF Next, vars
  <2>2. CASE Begin(q)
        BY <2>2 DEF Begin, AcceptAsk, LoginCheck, SuspendBegin, ReactivateAsk,
                    RemoveBegin, SetRoleBegin, DowngradeBegin, Upgrade
  <2>3. CASE \/ AcceptBegin(q) \/ ReactivateBegin(q) \/ LoginEnrol(q) \/ LoginSeat(q)
             \/ LoginHeldCheck(q) \/ LoginUpsert(q) \/ FreezeOne(q)
        BY <2>3 DEF AcceptBegin, ReactivateBegin, LoginEnrol, LoginSeat, LoginHeldCheck,
                    LoginUpsert, FreezeOne
  <2>4. CASE \/ AcceptFinish(q) \/ SuspendFinish(q) \/ ReactivateFinish(q)
             \/ RemoveFinish(q) \/ SetRoleFinish(q)
        BY <1>1, <2>4 DEF AcceptFinish, SuspendFinish, ReactivateFinish, RemoveFinish,
                          SetRoleFinish
  <2>5. CASE Abandon(q)
        BY <2>5 DEF Abandon
  <2> QED  BY <2>1, <2>2, <2>3, <2>4, <2>5 DEF Continue
<1> QED  BY <1>2 DEF TypeOK

\* Whoever has counted the seats and is about to take one still has it when he
\* commits, under the plan of his request, whatever sign-ins, freezes and plan
\* changes run beside: nobody outside the lock adds a row the store knows
\* nothing of.
THEOREM SeatsHeld ==
    ASSUME Ordered
    PROVE  Spec => []SeatHeld
<1>1. Init => SeatHeld
      BY Basics DEF Init, SeatHeld
<1>2. ASSUME IInv, SeatHeld, [Next]_vars
      PROVE  SeatHeld'
  <2>1. SUFFICES ASSUME losses' = 0, NEW p \in Reqs, req'[p].step \in Seating
                 PROVE  Cardinality(Billable') < req'[p].plan
        BY DEF SeatHeld, SeatFree
  <2>2. losses = 0
        BY <1>2, <2>1, LossesLast DEF IInv
  <2>3. Cardinality(Billable) < req'[p].plan /\ Billable' \subseteq Billable
        BY <1>2, <2>1, <2>2, StepSeats DEF Quiet, Seated
  <2>4. req'[p].plan \in Nat
        BY <1>2, NextInv, CapAssumption DEF IInv, TypeOK, Request
  <2> QED  BY <2>3, <2>4, Counting
<1> QED  BY <1>1, <1>2, Invariance, PTL DEF Spec

\* A step that adds a billable row is that of a transaction that counted the
\* seats, and leaves the workspace within the plan of its request, although
\* the plan may have changed since.
THEOREM SeatGated ==
    ASSUME Ordered
    PROVE  Spec => SeatGate
<1>1. ASSUME IInv, SeatHeld, [Next]_vars, losses = 0,
             Cardinality(Billable') > Cardinality(Billable)
      PROVE  \E q \in Reqs : /\ req[q].step \in Seating /\ req'[q] # req[q]
                             /\ Cardinality(Billable') <= req[q].plan
  <2>1. ~(Billable' \subseteq Billable)
        BY <1>1, Counting
  <2>2. PICK q \in Reqs :
            /\ req[q].step \in Seating /\ SeatFree(q) /\ req'[q].step \notin Seating
            /\ \E s \in Subs : Billable' \subseteq Billable \cup {s}
        BY <1>1, <2>1, StepSeats DEF Quiet, Seated
  <2>3. req[q].plan \in Nat
        BY <1>1, CapAssumption DEF IInv, TypeOK, Request
  <2> QED  BY <2>2, <2>3, Counting DEF SeatFree
<1> QED  BY <1>1, Invariance, SeatsHeld, PTL DEF Spec, SeatGate

=============================================================================
