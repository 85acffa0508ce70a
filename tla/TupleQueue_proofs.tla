--------------------------- MODULE TupleQueue_proofs ---------------------------
(***************************************************************************)
(* Theorems about the tuple-deletion queue, from both of its sides: the    *)
(* lease its drain workers ride (OutboxLease), and the group mirror and    *)
(* the member removal that put the rows there (GroupMirror).               *)
(***************************************************************************)
EXTENDS OutboxLease, GroupMirror, TLAPS

-----------------------------------------------------------------------------
(* OutboxLease: for every set of rows, workers and tenants and every size  *)
(* of batch, burst and window.                                             *)

\* Whatever a worker has in hand or has sent was committed, and so was
\* everything in the table or already applied.
Provenance ==
    /\ outbox \subseteq entered /\ applied \subseteq entered
    /\ \A w \in Workers : todo[w] \subseteq entered

\* A row is deleted only after its call has landed.
SentLanded ==
    \A w \in Workers : sent[w] # NoRow => /\ sent[w] \in todo[w] \cap applied
                                          /\ phase[w] = "handle"

\* A held row is marked claimed, at the time of the holder's claim or later.
HeldIsClaimed ==
    \A w \in Workers : \A r \in todo[w] :
        age[r] # NoClaim /\ age[r] <= since[w]

\* A worker in the loop has drains left in this tick.
DrainsLeft == \A w \in Workers : phase[w] # "idle" => pass[w] < Burst

LeaseInv == /\ LeaseTypeOK
        /\ DrainsLeft
        /\ NoIntentLost
        /\ Provenance
        /\ SentLanded
        /\ HeldIsClaimed
        /\ LeaseExclusive

\* Ageing stays within the ages there are.
LEMMA OlderInAges ==
    ASSUME NEW a \in Ages
    PROVE  Older(a) \in Ages /\ a <= Older(a) /\ (a > Stale => Older(a) > Stale)
BY WindowAssumption DEF Ages, Older

\* Growing two ages keeps their order.
LEMMA OlderMonotone ==
    ASSUME NEW a \in Ages, NEW b \in Ages, a <= b
    PROVE  Older(a) <= Older(b)
BY WindowAssumption DEF Ages, Older

\* The invariant holds at first.
LEMMA LeaseInitInv == LeaseInit => LeaseInv
BY RowsAssumption, WindowAssumption, BatchAssumption, MishapAssumption
   DEF LeaseInit, LeaseInv, LeaseTypeOK, NoIntentLost, Provenance, DrainsLeft, SentLanded,
       HeldIsClaimed, LeaseExclusive, Ages, NoClaim, Phases

\* Every step keeps the invariant.
LEMMA LeaseStepInv == LeaseInv /\ [LeaseNext]_leaseVars => LeaseInv'
<1> SUFFICES ASSUME LeaseInv, [LeaseNext]_leaseVars
             PROVE  LeaseInv'
    OBVIOUS
<1> USE RowsAssumption, WindowAssumption, BatchAssumption, MishapAssumption
    DEF LeaseInv, LeaseTypeOK, Provenance
<1>1. ASSUME NEW w \in Workers, Claim(w)
      PROVE  LeaseInv'
  <2> USE <1>1
  <2>1. PICK S \in SUBSET outbox :
            /\ OldestDue(S)
            /\ age' = [r \in Rows |-> IF r \in S THEN 0 ELSE age[r]]
            /\ todo' = [todo EXCEPT ![w] = S]
        BY DEF Claim
  <2>2. \A r \in S : age[r] = NoClaim \/ age[r] > Stale
        BY <2>1 DEF OldestDue, Due
  <2>3. LeaseTypeOK' /\ Provenance'
    <3>1. age' \in [Rows -> Ages \cup {NoClaim}]
          BY <2>1 DEF Ages
    <3>2. todo' \in [Workers -> SUBSET Rows]
          BY <2>1
    <3>3. since' \in [Workers -> Ages] /\ phase' \in [Workers -> Phases]
          BY DEF Claim, Ages, Phases
    <3>4. Provenance'
          BY <2>1 DEF Claim
    <3> QED  BY <3>1, <3>2, <3>3, <3>4 DEF Claim
  <2>4. NoIntentLost' /\ DrainsLeft'
        BY DEF Claim, NoIntentLost, DrainsLeft
  <2>5. \A v \in Workers \ {w} : \A r \in todo[v] \cap S : since[v] > Stale
        BY <2>2 DEF HeldIsClaimed, Ages, NoClaim
  <2>6. SentLanded'
    <3>1. sent[w] = NoRow
          BY DEF Claim, SentLanded
    <3> QED  BY <2>1, <3>1 DEF Claim, SentLanded
  <2>7. HeldIsClaimed'
        BY <2>1 DEF Claim, HeldIsClaimed, Ages, NoClaim
  <2>8. LeaseExclusive'
        BY <2>1, <2>5 DEF Claim, LeaseExclusive, Ages
  <2> QED  BY <2>3, <2>4, <2>6, <2>7, <2>8
<1>2. ASSUME NEW w \in Workers, NEW r \in Rows, Deliver(w, r)
      PROVE  LeaseInv'
      BY <1>2 DEF Deliver, tableVars, DrainsLeft, NoIntentLost, SentLanded, HeldIsClaimed,
                  LeaseExclusive
<1>3. ASSUME NEW w \in Workers, NEW r \in Rows, Fail(w, r)
      PROVE  LeaseInv'
      BY <1>3 DEF Fail, tableVars, DrainsLeft, NoIntentLost, SentLanded, HeldIsClaimed,
                  LeaseExclusive
<1>4. ASSUME NEW w \in Workers, Delete(w)
      PROVE  LeaseInv'
  <2>1. sent[w] \in Rows /\ sent[w] \in applied
        BY <1>4 DEF Delete, SentLanded
  <2>2. LeaseTypeOK' /\ Provenance'
        BY <1>4, <2>1 DEF Delete
  <2>3. NoIntentLost'
        BY <1>4, <2>1 DEF Delete, NoIntentLost
  <2>4. DrainsLeft' /\ LeaseExclusive'
        BY <1>4 DEF Delete, DrainsLeft, LeaseExclusive
  <2>5. SentLanded' /\ HeldIsClaimed'
    <3>1. \A v \in Workers : /\ todo'[v] \subseteq todo[v]
                            /\ sent'[v] \in {sent[v], NoRow}
                            /\ v # w => todo'[v] = todo[v]
          BY <1>4 DEF Delete
    <3> QED  BY <1>4, <3>1 DEF Delete, SentLanded, HeldIsClaimed
  <2> QED  BY <2>2, <2>3, <2>4, <2>5
<1>5. ASSUME NEW w \in Workers, Tick(w)
      PROVE  LeaseInv'
      BY <1>5 DEF Tick, tableVars, Phases, DrainsLeft, NoIntentLost, SentLanded,
                  HeldIsClaimed, LeaseExclusive
<1>6. ASSUME NEW w \in Workers, EndDrain(w)
      PROVE  LeaseInv'
      BY <1>6 DEF EndDrain, tableVars, Phases, DrainsLeft, NoIntentLost, SentLanded,
                  HeldIsClaimed, LeaseExclusive
<1>7. ASSUME NEW w \in Workers, Throw(w) \/ Crash(w)
      PROVE  LeaseInv'
  <2>1. Forget(w) /\ UNCHANGED <<outbox, age, entered, frozen, pass, drained,
                                 since, applied>>
        BY <1>7 DEF Throw, Crash, tableVars
  <2>2. wait' \in [Workers -> 0 .. TickEvery]
        BY <1>7 DEF Throw, Crash
  <2>3. LeaseTypeOK'
    <3>1. mishaps' \in 0 .. MaxMishaps
          BY <2>1 DEF Forget
    <3>2. /\ phase' \in [Workers -> Phases]
          /\ todo' \in [Workers -> SUBSET Rows]
          /\ sent' \in [Workers -> Rows \cup {NoRow}]
          BY <2>1 DEF Forget, Phases
    <3> QED  BY <2>1, <2>2, <3>1, <3>2
  <2>4. DrainsLeft' /\ NoIntentLost' /\ Provenance' /\ SentLanded'
        BY <2>1 DEF Forget, DrainsLeft, NoIntentLost, SentLanded
  <2>5. HeldIsClaimed' /\ LeaseExclusive'
        BY <2>1 DEF Forget, HeldIsClaimed, LeaseExclusive
  <2> QED  BY <2>3, <2>4, <2>5
<1>8. ASSUME NEW r \in Rows, Enqueue(r)
      PROVE  LeaseInv'
      BY <1>8 DEF Enqueue, workerVars, DrainsLeft, NoIntentLost, SentLanded, HeldIsClaimed,
                  LeaseExclusive
<1>9. ASSUME NEW t \in Tenants, Freeze(t)
      PROVE  LeaseInv'
      BY <1>9 DEF Freeze, tableVars, workerVars, DrainsLeft, NoIntentLost, SentLanded,
                  HeldIsClaimed, LeaseExclusive
<1>10. ASSUME PassTime
       PROVE  LeaseInv'
  <2> USE <1>10
  <2>1. LeaseTypeOK' /\ Provenance'
        BY OlderInAges DEF PassTime, Ages
  <2>2. NoIntentLost' /\ DrainsLeft' /\ SentLanded'
        BY DEF PassTime, DrainsLeft, NoIntentLost, SentLanded
  <2>3. HeldIsClaimed'
    <3> SUFFICES ASSUME NEW w \in Workers, NEW r \in todo'[w]
                 PROVE  age'[r] # NoClaim /\ age'[r] <= since'[w]
        BY DEF HeldIsClaimed
    <3>1. r \in Rows /\ age[r] # NoClaim /\ age[r] <= since[w]
          BY DEF PassTime, HeldIsClaimed
    <3>2. age'[r] = Older(age[r]) /\ since'[w] = Older(since[w])
          BY <3>1 DEF PassTime
    <3>3. age[r] \in Ages /\ since[w] \in Ages
          BY <3>1
    <3> QED  BY <3>1, <3>2, <3>3, OlderInAges, OlderMonotone DEF Ages, NoClaim
  <2>4. LeaseExclusive'
        BY OlderInAges DEF PassTime, LeaseExclusive
  <2> QED  BY <2>1, <2>2, <2>3, <2>4
<1>11. CASE UNCHANGED leaseVars
       BY <1>11 DEF leaseVars, DrainsLeft, NoIntentLost, SentLanded, HeldIsClaimed,
                    LeaseExclusive
<1> QED  BY <1>1, <1>2, <1>3, <1>4, <1>5, <1>6, <1>7, <1>8, <1>9, <1>10, <1>11
         DEF LeaseNext, Work

\* The inductive invariant holds of every behaviour.
THEOREM LeaseInvariance == LeaseSpec => []LeaseInv
BY LeaseInitInv, LeaseStepInv, PTL DEF LeaseSpec

\* Every variable keeps its type, and one tick never runs more than Burst drains.
THEOREM LeaseTypeCorrect == LeaseSpec => []LeaseTypeOK
<1>1. LeaseInv => LeaseTypeOK
      BY DEF LeaseInv
<1> QED  BY <1>1, LeaseInvariance, PTL

\* At-least-once: no committed intent leaves the table before its call landed.
THEOREM NothingLost == LeaseSpec => []NoIntentLost
<1>1. LeaseInv => NoIntentLost
      BY DEF LeaseInv
<1> QED  BY <1>1, LeaseInvariance, PTL

\* Two workers share a row only if one of them has overstayed the window.
THEOREM LeaseExcludes == LeaseSpec => []LeaseExclusive
<1>1. LeaseInv => LeaseExclusive
      BY DEF LeaseInv
<1> QED  BY <1>1, LeaseInvariance, PTL

\* The lease implements the outbox promise, step by step.
THEOREM Refinement == LeaseSpec => PromiseKept
<1>1. LeaseInit => Promise!Init
      BY DEF LeaseInit, Promise!Init
<1>2. LeaseInv /\ [LeaseNext]_leaseVars => [Promise!Next]_Promise!vars
  <2> SUFFICES ASSUME LeaseInv, [LeaseNext]_leaseVars
               PROVE  [Promise!Next]_Promise!vars
      OBVIOUS
  <2> USE DEF LeaseInv, LeaseTypeOK, Provenance, Promise!vars
  <2>1. ASSUME NEW w \in Workers, NEW r \in Rows, Deliver(w, r)
        PROVE  Promise!Next
    <3>1. r \in outbox \cup applied
          BY <2>1 DEF Deliver, NoIntentLost
    <3> QED  BY <2>1, <3>1 DEF Deliver, tableVars, Promise!Next, Promise!Apply
  <2>2. ASSUME NEW w \in Workers, Delete(w)
        PROVE  [Promise!Next]_Promise!vars
    <3>1. sent[w] \in applied /\ sent[w] \in Rows
          BY <2>2, RowsAssumption DEF Delete, SentLanded
    <3>2. CASE sent[w] \in outbox
          BY <2>2, <3>1, <3>2 DEF Delete, Promise!Next, Promise!Retire
    <3>3. CASE sent[w] \notin outbox
          BY <2>2, <3>3 DEF Delete
    <3> QED  BY <3>2, <3>3
  <2>3. ASSUME NEW r \in Rows, Enqueue(r)
        PROVE  Promise!Next
        BY <2>3 DEF Enqueue, Promise!Next, Promise!Commit
  <2>4. ASSUME NEW w \in Workers,
               \/ Claim(w) \/ Tick(w) \/ EndDrain(w) \/ Throw(w) \/ Crash(w)
               \/ \E r \in Rows : Fail(w, r)
        PROVE  UNCHANGED Promise!vars
        BY <2>4 DEF Claim, Tick, EndDrain, Throw, Crash, Forget, Fail, tableVars
  <2>5. ASSUME (\E t \in Tenants : Freeze(t)) \/ PassTime \/ UNCHANGED leaseVars
        PROVE  UNCHANGED Promise!vars
        BY <2>5 DEF Freeze, PassTime, leaseVars, tableVars
  <2> QED  BY <2>1, <2>2, <2>3, <2>4, <2>5 DEF LeaseNext, Work
<1> QED  BY <1>1, <1>2, LeaseInvariance, PTL DEF LeaseSpec, PromiseKept, Promise!Spec

-----------------------------------------------------------------------------
(* GroupMirror: for every set of groups, connections, requests and drain   *)
(* workers, every number of removals and of failed writes, in any          *)
(* interleaving, where any of them may stop at any step.                   *)

Steps == {"idle", "login", "untrust", "suspend", "remove", "flush", "drop"}
Handled == [step : Steps, seen : SUBSET Groups, conn : Conns \cup {"none"},
             claim : SUBSET Groups]
Row == [id : 0 .. MaxRemovals, group : Groups \cup {"none"}]

\* The types, in full: a queue row has the number of a removal that was.
Types ==
    /\ state \in {"gone", "active", "held"}
    /\ groups \in SUBSET Groups /\ fga \in SUBSET Groups
    /\ slice \in [Conns -> SUBSET Groups]
    /\ queue \in SUBSET Intents /\ landed \in SUBSET Intents
    /\ req \in [Reqs -> Handled]
    /\ drain \in [Drainers -> [step : {"rest", "delete", "drop"}, row : Row]]
    /\ removals \in 0 .. MaxRemovals /\ failures \in 0 .. MaxFailures
    /\ \A e \in queue : e.id <= removals
    /\ adrift \in SUBSET Groups /\ crossed \in SUBSET Groups

\* Groups a stale or failed write, or a removal across a flush, has a part in.
Excused == adrift \cup crossed

\* What a flush has still to delete is on the queue or has landed, and the rows
\* it is about to drop have landed.
Flushes(r) ==
    /\ r.step \in {"login", "untrust"} => r.conn \in Conns
    /\ r.step = "untrust" => r.claim = {}
    /\ r.step \in {"flush", "drop"} =>
          \A g \in r.seen \ crossed : \E e \in queue \cup landed : e.group = g
    /\ r.step = "drop" =>
          \A e \in queue : e.group \in r.claim \ crossed => e \in landed

InHand == \A q \in Reqs : Flushes(req[q])

\* A row in a worker's hands is on the queue or has landed; once its deletion was
\* made it has landed.
Drains(d) ==
    /\ d.step # "rest" => /\ d.row \in Intents /\ d.row.id <= removals
                          /\ d.row \in queue \cup landed \/ d.row.group \in crossed
    /\ d.step = "drop" => d.row \in landed \/ d.row.group \in crossed

DrainInHand == \A w \in Drainers : Drains(drain[w])

\* A member who is gone has neither groups nor slices.
GoneIsBare == state = "gone" => groups = {} /\ \A c \in Conns : slice[c] = {}

\* What the row claims and the store does not grant was deleted by a queue row.
RowBacked == \A g \in (groups \ fga) \ Excused : \E e \in landed : e.group = g

\* A queue row that nobody is about to drop.
Safe(e) == /\ \A w \in Drainers : drain[w].step = "drop" => drain[w].row # e
           /\ \A q \in Reqs : req[q].step = "drop" => e.group \notin req[q].claim

\* A tuple no row claims has one.
TupleQueued == \A g \in (fga \ groups) \ Excused : \E e \in queue : e.group = g /\ Safe(e)

IInv == Types /\ InHand /\ DrainInHand /\ GoneIsBare /\ RowBacked /\ TupleQueued

\* The invariant holds at the start.
LEMMA InitInv == Init => IInv
<1> SUFFICES ASSUME Init
             PROVE  IInv
    OBVIOUS
<1> USE BoundAssumption DEF Init, Idle, Resting
<1>1. Types
      BY DEF Types, Handled, Steps, Row
<1>2. InHand /\ DrainInHand /\ GoneIsBare /\ RowBacked /\ TupleQueued
      BY DEF InHand, Flushes, DrainInHand, Drains, GoneIsBare, RowBacked, TupleQueued
<1> QED  BY <1>1, <1>2 DEF IInv

\* Where the queue, the crossings and the workers stay, a request that is not
\* in a flush afterwards changes nothing of what requests and workers hold.
LEMMA HandsStay ==
    ASSUME Types, InHand, DrainInHand, NEW q \in Reqs, NEW r \in Handled,
           r.step \in {"login", "untrust"} => r.conn \in Conns,
           r.step = "untrust" => r.claim = {},
           r.step \notin {"flush", "drop"},
           req' = [req EXCEPT ![q] = r], UNCHANGED <<queue, landed, removals, crossed, drain>>
    PROVE  InHand' /\ DrainInHand' /\ \A e \in queue : Safe(e) => Safe(e)'
<1>1. req'[q] = r /\ \A p \in Reqs \ {q} : req'[p] = req[p]
      BY DEF Types
<1>2. ASSUME NEW p \in Reqs
      PROVE  Flushes(req[p])'
      BY <1>1 DEF InHand, Flushes
<1>3. DrainInHand'
      BY DEF DrainInHand, Drains
<1>4. ASSUME NEW e \in queue, Safe(e)
      PROVE  Safe(e)'
      BY <1>1, <1>4 DEF Safe
<1> QED  BY <1>2, <1>3, <1>4 DEF InHand

\* A step that begins or ends a request and changes neither row nor store.
LEMMA MoveInv ==
    ASSUME IInv, NEW q \in Reqs, NEW r \in Handled,
           r.step \in {"login", "untrust"} => r.conn \in Conns,
           r.step = "untrust" => r.claim = {},
           r.step \notin {"flush", "drop"}, req' = [req EXCEPT ![q] = r],
           UNCHANGED <<groups, slice, fga, failures, adrift, drain, queueVars>>,
           state' = state \/ (state' = "active" /\ state \in {"gone", "held"})
    PROVE  IInv'
<1> USE DEF IInv, queueVars
<1>1. InHand' /\ DrainInHand' /\ \A e \in queue : Safe(e) => Safe(e)'
      BY HandsStay
<1>2. Types'
      BY DEF Types
<1>3. GoneIsBare' /\ RowBacked'
      BY DEF GoneIsBare, RowBacked, Excused
<1>4. TupleQueued'
      BY <1>1 DEF TupleQueued, Excused
<1> QED  BY <1>1, <1>2, <1>3, <1>4

\* A request at rest, and what a reader notes.
LEMMA Records ==
    ASSUME Types
    PROVE  /\ Idle \in Handled /\ Idle.step = "idle"
           /\ \A step \in Steps, c \in Conns \cup {"none"}, claim \in SUBSET Groups :
                 [step |-> step, seen |-> groups, conn |-> c, claim |-> claim] \in Handled
BY DEF Types, Handled, Steps, Idle

\* The beginnings of the five operations, and the return.
LEMMA ReadInv ==
    ASSUME IInv, NEW q \in Reqs,
           \/ \E c \in Conns, claim \in SUBSET Groups : LoginBegin(q, c, claim)
           \/ \E c \in Conns : UntrustBegin(q, c)
           \/ SuspendBegin(q) \/ RemoveBegin(q) \/ Reactivate(q)
    PROVE  IInv'
<1>1. CASE \E c \in Conns, claim \in SUBSET Groups : LoginBegin(q, c, claim)
  <2>1. PICK c \in Conns, claim \in SUBSET Groups : LoginBegin(q, c, claim)
        BY <1>1
  <2> DEFINE r == [step |-> "login", seen |-> groups, conn |-> c, claim |-> claim]
  <2>2. r \in Handled /\ r.step = "login" /\ r.conn \in Conns
        BY Records DEF IInv, Steps
  <2>3. /\ req' = [req EXCEPT ![q] = r]
        /\ UNCHANGED <<groups, slice, fga, failures, adrift, drain, queueVars>>
        /\ state' = state \/ (state' = "active" /\ state \in {"gone", "held"})
        BY <2>1 DEF LoginBegin, Read, rowVars
  <2> QED  BY <2>2, <2>3, MoveInv
<1>2. CASE \E c \in Conns : UntrustBegin(q, c)
  <2>1. PICK c \in Conns : UntrustBegin(q, c)
        BY <1>2
  <2> DEFINE r == [step |-> "untrust", seen |-> groups, conn |-> c, claim |-> {}]
  <2>2. r \in Handled /\ r.step = "untrust" /\ r.conn \in Conns /\ r.claim = {}
        BY Records DEF IInv, Steps
  <2>3. /\ req' = [req EXCEPT ![q] = r] /\ state' = state
        /\ UNCHANGED <<groups, slice, fga, failures, adrift, drain, queueVars>>
        BY <2>1 DEF UntrustBegin, Read, rowVars
  <2> QED  BY <2>2, <2>3, MoveInv
<1>3. CASE SuspendBegin(q) \/ RemoveBegin(q)
  <2>1. PICK step \in {"suspend", "remove"} :
            req' = [req EXCEPT ![q] =
                      [step |-> step, seen |-> groups, conn |-> "none", claim |-> {}]]
        BY <1>3 DEF SuspendBegin, RemoveBegin, Read
  <2> DEFINE r == [step |-> step, seen |-> groups, conn |-> "none", claim |-> {}]
  <2>2. r \in Handled /\ r.step \in {"suspend", "remove"}
        BY Records DEF IInv, Steps
  <2>3. state' = state /\ UNCHANGED <<groups, slice, fga, failures, adrift, drain, queueVars>>
        BY <1>3 DEF SuspendBegin, RemoveBegin, rowVars
  <2> QED  BY <2>1, <2>2, <2>3, MoveInv
<1>4. CASE Reactivate(q)
  <2>1. /\ req' = [req EXCEPT ![q] = Idle] /\ state = "held" /\ state' = "active"
        /\ UNCHANGED <<groups, slice, fga, failures, adrift, drain, queueVars>>
        BY <1>4 DEF Reactivate, Ready, IInv, Types
  <2>2. Idle \in Handled /\ Idle.step = "idle"
        BY Records DEF IInv
  <2> QED  BY <2>1, <2>2, MoveInv
<1> QED  BY <1>1, <1>2, <1>3, <1>4

\* A write of the difference: the groups it settles are as the row has them,
\* and of the others row and store are as they were.
LEMMA WriteInv ==
    ASSUME IInv, NEW q \in Reqs, LoginWrite(q) \/ UntrustWrite(q) \/ SuspendWrite(q)
    PROVE  IInv'
<1> DEFINE seen == req[q].seen
           want == Wanted(q)
<1>1. req[q] \in Handled /\ Flushes(req[q])
      BY DEF IInv, Types, InHand
<1>2. /\ req' = [req EXCEPT ![q] = Idle]
      /\ UNCHANGED <<drain, failures, queueVars>>
      /\ fga' = (fga \cup (want \ seen)) \ (seen \ want)
      /\ adrift' = (adrift \ Differ(seen, want)) \cup Differ(seen, groups)
      BY DEF LoginWrite, UntrustWrite, SuspendWrite, End, Account, Outdated, Synced, Added,
             Removed
<1>3. want \in SUBSET Groups /\ slice' \in [Conns -> SUBSET Groups]
  <2>1. Slices(q) \in [Conns -> SUBSET Groups] \/ req[q].step = "suspend"
        BY <1>1 DEF Slices, IInv, Types, Handled, Flushes
  <2> QED  BY <2>1 DEF Wanted, Union, LoginWrite, UntrustWrite, SuspendWrite, IInv, Types
<1>4. \/ groups' = want /\ state' # "gone"
      \/ state = "gone" /\ state' = "gone" /\ groups' = {} /\ want = {} /\ groups = {}
  <2>1. CASE LoginWrite(q)
        BY <2>1 DEF LoginWrite
  <2>2. CASE SuspendWrite(q)
        BY <2>2 DEF SuspendWrite, Wanted, IInv, GoneIsBare
  <2>3. CASE UntrustWrite(q)
    <3>1. ASSUME state = "gone"
          PROVE  want = {} /\ groups = {}
      <4>1. groups = {} /\ \A c \in Conns : Slices(q)[c] = {}
            BY <1>1, <2>3, <3>1 DEF UntrustWrite, Slices, IInv, GoneIsBare, Types, Flushes
      <4>2. Union(Slices(q)) = {}
            BY <4>1 DEF Union
      <4> QED  BY <2>3, <4>1, <4>2 DEF UntrustWrite, Wanted
    <3> QED  BY <2>3, <3>1 DEF UntrustWrite
  <2> QED  BY <2>1, <2>2, <2>3
<1>5. state' = "gone" => \A c \in Conns : slice'[c] = {}
  <2>1. CASE UntrustWrite(q)
        BY <1>1, <2>1 DEF UntrustWrite, Slices, IInv, GoneIsBare, Types, Flushes
  <2>2. CASE LoginWrite(q)
        BY <2>2 DEF LoginWrite
  <2>3. CASE SuspendWrite(q)
        BY <2>3 DEF SuspendWrite, IInv, GoneIsBare
  <2> QED  BY <2>1, <2>2, <2>3
<1>6. state' \in {"gone", "active", "held"}
      BY DEF LoginWrite, UntrustWrite, SuspendWrite, IInv, Types
<1> HIDE DEF want
<1>7. Idle \in Handled /\ Idle.step = "idle" /\ seen \in SUBSET Groups
      BY <1>1, Records DEF IInv, Handled
<1>8. InHand' /\ DrainInHand' /\ \A e \in queue : Safe(e) => Safe(e)'
      BY <1>2, <1>7, HandsStay DEF IInv, queueVars
<1>9. Types'
      BY <1>2, <1>3, <1>4, <1>6, <1>7 DEF IInv, Types, queueVars, Differ
<1>10. GoneIsBare'
      BY <1>4, <1>5 DEF GoneIsBare
<1>11. groups' = want
      BY <1>4
<1>12. RowBacked'
  <2> SUFFICES ASSUME NEW g \in (groups' \ fga') \ Excused'
               PROVE  \E e \in landed : e.group = g
      BY <1>2 DEF RowBacked, queueVars
  <2>1. g \in (groups \ fga) \ Excused
        BY <1>2, <1>11 DEF Excused, Differ, queueVars
  <2> QED  BY <2>1 DEF IInv, RowBacked
<1>13. TupleQueued'
  <2> SUFFICES ASSUME NEW g \in (fga' \ groups') \ Excused'
               PROVE  \E e \in queue : e.group = g /\ Safe(e)'
      BY <1>2 DEF TupleQueued, queueVars
  <2>1. g \in (fga \ groups) \ Excused
        BY <1>2, <1>11 DEF Excused, Differ, queueVars
  <2> QED  BY <1>8, <2>1 DEF IInv, TupleQueued
<1> QED  BY <1>8, <1>9, <1>10, <1>12, <1>13 DEF IInv

\* A write that fails half way, or whose commit is lost: what the store has
\* changed is noted.
LEMMA FailInv ==
    ASSUME IInv, NEW q \in Reqs, SyncFail(q)
    PROVE  IInv'
<1>1. req[q] \in Handled /\ Flushes(req[q])
      BY DEF IInv, Types, InHand
<1>2. /\ req' = [req EXCEPT ![q] = Idle]
      /\ UNCHANGED <<drain, state, groups, slice, queueVars>>
      /\ failures' \in 0 .. MaxFailures
      /\ adrift' = adrift \cup Differ(fga, fga')
      BY BoundAssumption DEF SyncFail, End, rowVars, IInv, Types
<1>3. fga' \in SUBSET Groups
  <2>1. Wanted(q) \in SUBSET Groups
    <3>1. Slices(q) \in [Conns -> SUBSET Groups] \/ req[q].step = "suspend"
          BY <1>1 DEF SyncFail, Slices, IInv, Types, Handled, Flushes
    <3> QED  BY <3>1 DEF Wanted, Union
  <2> QED  BY <2>1 DEF SyncFail, HalfSynced, Added, Removed, IInv, Types
<1>4. Idle \in Handled /\ Idle.step = "idle"
      BY Records DEF IInv
<1>5. InHand' /\ DrainInHand' /\ \A e \in queue : Safe(e) => Safe(e)'
      BY <1>2, <1>4, HandsStay DEF IInv, queueVars
<1>6. Types'
      BY <1>2, <1>3, <1>4 DEF IInv, Types, queueVars, Differ
<1>7. GoneIsBare' /\ RowBacked'
      BY <1>2 DEF IInv, GoneIsBare, RowBacked, Excused, Differ, queueVars
<1>8. TupleQueued'
      BY <1>2, <1>5 DEF IInv, TupleQueued, Excused, Differ, queueVars
<1> QED  BY <1>5, <1>6, <1>7, <1>8 DEF IInv

\* A removal commits: each group it read has a new row, and the groups whose
\* rows another flush is about to drop are noted.
LEMMA RemoveInv ==
    ASSUME IInv, NEW q \in Reqs, RemoveTx(q)
    PROVE  IInv'
<1> DEFINE seen == req[q].seen
           new == {[id |-> removals + 1, group |-> g] : g \in seen}
           r == [req[q] EXCEPT !.step = "flush"]
<1>1. /\ req[q].step = "remove" /\ removals < MaxRemovals
      /\ state' = "gone" /\ groups' = {} /\ slice' = [c \in Conns |-> {}]
      /\ removals' = removals + 1 /\ queue' = queue \cup new
      /\ req' = [req EXCEPT ![q] = r]
      /\ adrift' = (adrift \ seen) \cup Differ(seen, groups)
      /\ crossed' = crossed \cup UNION {req[p].claim : p \in Flushing}
      /\ UNCHANGED <<fga, landed, drain, failures>>
      BY DEF RemoveTx, Outdated, IInv, Types
<1>2. /\ req[q] \in Handled /\ seen \in SUBSET Groups
      /\ r \in Handled /\ r.step = "flush" /\ r.seen = seen
      BY DEF IInv, Types, Handled, Steps
<1>3. /\ req'[q] = r /\ \A p \in Reqs \ {q} : req'[p] = req[p]
      /\ req' \in [Reqs -> Handled]
      BY <1>1, <1>2 DEF IInv, Types
<1>4. /\ new \subseteq Intents
      /\ \A e \in new : e.id = removals + 1 /\ e.group \in seen
      /\ \A g \in seen : \E e \in new : e.group = g
  <2>1. removals + 1 \in 1 .. MaxRemovals
        BY <1>1, BoundAssumption DEF IInv, Types
  <2>2. ASSUME NEW g \in seen
        PROVE  [id |-> removals + 1, group |-> g] \in Intents
        BY <1>2, <2>1 DEF Intents
  <2>3. new \subseteq Intents
        BY <2>2
  <2>4. ASSUME NEW g \in seen
        PROVE  \E e \in new : e.group = g
    <3>1. [id |-> removals + 1, group |-> g] \in new
          OBVIOUS
    <3> QED  BY <3>1
  <2> QED  BY <2>3, <2>4
<1>5. \A p \in Reqs : req[p].step = "drop" => req[p].claim \subseteq crossed'
      BY <1>1 DEF Flushing
<1> HIDE DEF seen, new, r
<1>6. crossed \subseteq crossed' /\ crossed' \in SUBSET Groups
      BY <1>1 DEF Flushing, IInv, Types, Handled
<1>7. Types'
  <2>1. \A e \in queue' : e.id <= removals'
        BY <1>1, <1>4 DEF IInv, Types, Intents
  <2> QED  BY <1>1, <1>2, <1>3, <1>4, <1>6, <2>1, BoundAssumption DEF IInv, Types, Differ
<1>8. InHand'
  <2>1. Flushes(req[q])'
        BY <1>1, <1>2, <1>3, <1>4 DEF Flushes
  <2>2. ASSUME NEW p \in Reqs \ {q}
        PROVE  Flushes(req[p])'
    <3>1. Flushes(req[p]) /\ req'[p] = req[p]
          BY <1>3 DEF IInv, InHand
    <3> QED  BY <1>1, <1>5, <1>6, <3>1 DEF Flushes
  <2> QED  BY <2>1, <2>2 DEF InHand
<1>9. DrainInHand'
      BY <1>1, <1>6 DEF IInv, Types, DrainInHand, Drains, Intents
<1>10. GoneIsBare' /\ RowBacked'
      BY <1>1 DEF GoneIsBare, RowBacked
<1>11. TupleQueued'
  <2> SUFFICES ASSUME NEW g \in fga \ Excused'
               PROVE  \E e \in queue' : e.group = g /\ Safe(e)'
      BY <1>1 DEF TupleQueued
  <2>1. \A p \in Reqs : req'[p].step = "drop" => g \notin req'[p].claim
        BY <1>2, <1>3, <1>5 DEF Excused
  <2>2. CASE g \in seen
    <3>1. PICK e \in new : e.group = g
          BY <1>4, <2>2
    <3>2. \A w \in Drainers : drain'[w].step = "drop" => drain'[w].row # e
          BY <1>1, <1>4 DEF IInv, Types, DrainInHand, Drains, Intents
    <3> QED  BY <1>1, <2>1, <3>1, <3>2 DEF Safe
  <2>3. CASE g \notin seen
    <3>1. g \in (fga \ groups) \ Excused
          BY <1>1, <1>6, <2>3 DEF Excused, Differ
    <3>2. PICK e \in queue : e.group = g /\ Safe(e)
          BY <3>1 DEF IInv, TupleQueued
    <3> QED  BY <1>1, <2>1, <3>2 DEF Safe
  <2> QED  BY <2>2, <2>3
<1> QED  BY <1>7, <1>8, <1>9, <1>10, <1>11 DEF IInv

\* One intent of a flush: its deletion, the drop of its rows, or neither.
LEMMA FlushInv ==
    ASSUME IInv, NEW q \in Reqs,
           (\E g \in Groups : FlushDelete(q, g)) \/ FlushDrop(q) \/ FlushSkip(q)
    PROVE  IInv'
<1>1. req[q] \in Handled /\ Flushes(req[q])
      BY DEF IInv, Types, InHand
<1>2. ASSUME NEW g \in Groups, FlushDelete(q, g)
      PROVE  IInv'
  <2> DEFINE r == [req[q] EXCEPT !.step = "drop", !.claim = {g}]
  <2>1. /\ req[q].step = "flush" /\ g \in req[q].seen /\ fga' = fga \ {g}
        /\ landed' = landed \cup {e \in queue : e.group = g}
        /\ req' = [req EXCEPT ![q] = r]
        /\ UNCHANGED <<queue, removals, crossed, drain, failures, adrift, state, groups, slice>>
        BY <1>2 DEF FlushDelete, Deleted, rowVars, IInv, Types
  <2>2. r \in Handled /\ r.step = "drop" /\ r.claim = {g} /\ r.seen = req[q].seen
        BY <1>1 DEF Handled, Steps
  <2> HIDE DEF r
  <2>3. req'[q] = r /\ \A p \in Reqs \ {q} : req'[p] = req[p]
        BY <2>1 DEF IInv, Types
  <2>4. Types'
        BY <2>1, <2>2 DEF IInv, Types
  <2>5. InHand'
    <3>1. Flushes(req[q])'
          BY <1>1, <2>1, <2>2, <2>3 DEF Flushes
    <3>2. ASSUME NEW p \in Reqs \ {q}
          PROVE  Flushes(req[p])'
          BY <2>1, <2>3 DEF IInv, InHand, Flushes
    <3> QED  BY <3>1, <3>2 DEF InHand
  <2>6. DrainInHand' /\ GoneIsBare'
        BY <2>1 DEF IInv, DrainInHand, Drains, GoneIsBare
  <2>7. RowBacked'
    <3> SUFFICES ASSUME NEW h \in (groups \ fga') \ Excused
                 PROVE  \E e \in landed' : e.group = h
        BY <2>1 DEF RowBacked, Excused
    <3>1. CASE h = g
          BY <1>1, <2>1, <3>1 DEF Flushes, Excused
    <3>2. CASE h # g
          BY <2>1, <3>2 DEF IInv, RowBacked
    <3> QED  BY <3>1, <3>2
  <2>8. TupleQueued'
    <3> SUFFICES ASSUME NEW h \in (fga' \ groups) \ Excused
                 PROVE  \E e \in queue : e.group = h /\ Safe(e)'
        BY <2>1 DEF TupleQueued, Excused
    <3>1. h # g /\ h \in (fga \ groups) \ Excused
          BY <2>1
    <3>2. PICK e \in queue : e.group = h /\ Safe(e)
          BY <3>1 DEF IInv, TupleQueued
    <3> QED  BY <2>1, <2>2, <2>3, <3>1, <3>2 DEF Safe
  <2> QED  BY <2>4, <2>5, <2>6, <2>7, <2>8 DEF IInv
<1>3. ASSUME FlushDrop(q) \/ FlushSkip(q)
      PROVE  IInv'
  <2>1. PICK rest \in SUBSET req[q].seen :
            /\ req[q].step \in {"flush", "drop"}
            /\ req' = [req EXCEPT ![q] = [req[q] EXCEPT !.step = "flush", !.claim = {},
                                                         !.seen = rest]]
            /\ UNCHANGED <<fga, landed, removals, crossed, drain, failures, adrift, state,
                           groups, slice>>
            /\ \/ queue' = queue
               \/ /\ req[q].step = "drop"
                  /\ queue' = {e \in queue : e.group \notin req[q].claim}
    <3>1. CASE FlushDrop(q)
      <4>1. req[q].seen \ req[q].claim \in SUBSET req[q].seen
            OBVIOUS
      <4> QED  BY <3>1, <4>1 DEF FlushDrop, rowVars, IInv, Types
    <3>2. CASE FlushSkip(q)
      <4>1. PICK g \in req[q].seen :
                req' = [req EXCEPT ![q].step = "flush", ![q].claim = {}, ![q].seen = @ \ {g}]
            BY <3>2 DEF FlushSkip
      <4>2. req[q].seen \ {g} \in SUBSET req[q].seen
            OBVIOUS
      <4>3. req' = [req EXCEPT ![q] = [req[q] EXCEPT !.step = "flush", !.claim = {},
                                                      !.seen = req[q].seen \ {g}]]
            BY <4>1 DEF IInv, Types
      <4>4. req[q].step \in {"flush", "drop"} /\ UNCHANGED queue
            BY <3>2 DEF FlushSkip, queueVars
      <4>5. UNCHANGED <<fga, landed, removals, crossed, drain, failures, adrift, state,
                        groups, slice>>
            BY <3>2 DEF FlushSkip, rowVars, queueVars
      <4> QED  BY <4>2, <4>3, <4>4, <4>5
    <3> QED  BY <1>3, <3>1, <3>2
  <2> DEFINE r == [req[q] EXCEPT !.step = "flush", !.claim = {}, !.seen = rest]
  <2>2. r \in Handled /\ r.step = "flush" /\ r.seen = rest
        BY <1>1 DEF Handled, Steps
  <2>3. req' = [req EXCEPT ![q] = r]
        BY <2>1
  <2> HIDE DEF r
  <2>4. req'[q] = r /\ \A p \in Reqs \ {q} : req'[p] = req[p]
        BY <2>3 DEF IInv, Types
  <2>5. /\ queue' \subseteq queue
        /\ \A e \in queue : e \in queue' \/ e \in landed \/ e.group \in crossed
        BY <1>1, <2>1 DEF Flushes
  <2>6. Types'
        BY <2>1, <2>2, <2>3, <2>5 DEF IInv, Types
  <2>7. InHand'
    <3>1. Flushes(req[q])'
          BY <1>1, <2>1, <2>2, <2>4, <2>5 DEF Flushes
    <3>2. ASSUME NEW p \in Reqs \ {q}
          PROVE  Flushes(req[p])'
      <4>1. Flushes(req[p]) /\ req'[p] = req[p]
            BY <2>4 DEF IInv, InHand
      <4> QED  BY <2>1, <2>5, <4>1 DEF Flushes
    <3> QED  BY <3>1, <3>2 DEF InHand
  <2>8. DrainInHand' /\ GoneIsBare' /\ RowBacked'
        BY <2>1, <2>5 DEF IInv, DrainInHand, Drains, GoneIsBare, RowBacked, Excused
  <2>9. TupleQueued'
    <3> SUFFICES ASSUME NEW g \in (fga \ groups) \ Excused
                 PROVE  \E e \in queue' : e.group = g /\ Safe(e)'
        BY <2>1 DEF TupleQueued, Excused
    <3>1. PICK e \in queue : e.group = g /\ Safe(e)
          BY DEF IInv, TupleQueued
    <3>2. e \in queue'
          BY <2>1, <3>1 DEF Safe
    <3>3. Safe(e)'
          BY <2>1, <2>2, <2>4, <3>1 DEF Safe
    <3> QED  BY <3>1, <3>2, <3>3
  <2> QED  BY <2>6, <2>7, <2>8, <2>9 DEF IInv
<1> QED  BY <1>2, <1>3

\* A drain worker takes a row, deletes its tuple, drops the row, or gives up.
LEMMA DrainInv ==
    ASSUME IInv, NEW w \in Drainers,
           \/ \E e \in queue : DrainClaim(w, e)
           \/ DrainDelete(w) \/ DrainDrop(w) \/ DrainGiveUp(w)
    PROVE  IInv'
<1>1. ASSUME NEW e \in queue, DrainClaim(w, e)
      PROVE  IInv'
  <2> DEFINE d == [step |-> "delete", row |-> e]
  <2>1. /\ drain[w].step = "rest" /\ drain' = [drain EXCEPT ![w] = d]
        /\ UNCHANGED <<state, groups, slice, fga, queue, req, landed, removals, failures,
                       adrift, crossed>>
        BY <1>1 DEF DrainClaim, rowVars, queueVars
  <2>2. e \in Intents /\ e.id <= removals /\ e \in Row
        BY DEF IInv, Types, Intents, Row
  <2>3. drain'[w] = d /\ \A v \in Drainers \ {w} : drain'[v] = drain[v]
        BY <2>1 DEF IInv, Types
  <2>4. Types'
        BY <2>1, <2>2 DEF IInv, Types
  <2>5. InHand' /\ GoneIsBare' /\ RowBacked'
        BY <2>1 DEF IInv, InHand, Flushes, GoneIsBare, RowBacked, Excused
  <2>6. DrainInHand'
        BY <2>1, <2>2, <2>3 DEF IInv, DrainInHand, Drains
  <2>7. TupleQueued'
        BY <2>1, <2>3 DEF IInv, TupleQueued, Safe, Excused
  <2> QED  BY <2>4, <2>5, <2>6, <2>7 DEF IInv
<1>2. CASE DrainDelete(w)
  <2> DEFINE e == drain[w].row
             d == [drain[w] EXCEPT !.step = "drop"]
  <2>1. /\ drain[w].step = "delete" /\ fga' = fga \ {e.group}
        /\ landed' = landed \cup {f \in queue : f.group = e.group}
        /\ drain' = [drain EXCEPT ![w] = d]
        /\ UNCHANGED <<state, groups, slice, queue, req, removals, failures, adrift, crossed>>
        BY <1>2 DEF DrainDelete, Deleted, rowVars, IInv, Types
  <2>2. /\ e \in Intents /\ e.id <= removals
        /\ e \in queue \cup landed \/ e.group \in crossed
        /\ e \in landed' \/ e.group \in crossed
        BY <2>1 DEF IInv, DrainInHand, Drains
  <2>3. /\ d \in [step : {"rest", "delete", "drop"}, row : Row]
        /\ d.step = "drop" /\ d.row = e
        BY DEF IInv, Types
  <2> HIDE DEF d
  <2>4. drain'[w] = d /\ \A v \in Drainers \ {w} : drain'[v] = drain[v]
        BY <2>1 DEF IInv, Types
  <2>5. Types'
        BY <2>1, <2>3 DEF IInv, Types
  <2>6. InHand' /\ GoneIsBare'
        BY <2>1 DEF IInv, InHand, Flushes, GoneIsBare
  <2>7. DrainInHand'
        BY <2>1, <2>2, <2>3, <2>4 DEF IInv, DrainInHand, Drains
  <2>8. RowBacked'
    <3> SUFFICES ASSUME NEW h \in (groups \ fga') \ Excused
                 PROVE  \E f \in landed' : f.group = h
        BY <2>1 DEF RowBacked, Excused
    <3>1. CASE h = e.group
          BY <2>2, <3>1 DEF Excused
    <3>2. CASE h # e.group
          BY <2>1, <3>2 DEF IInv, RowBacked
    <3> QED  BY <3>1, <3>2
  <2>9. TupleQueued'
    <3> SUFFICES ASSUME NEW h \in (fga' \ groups) \ Excused
                 PROVE  \E f \in queue : f.group = h /\ Safe(f)'
        BY <2>1 DEF TupleQueued, Excused
    <3>1. h # e.group
          BY <2>1
    <3>2. PICK f \in queue : f.group = h /\ Safe(f)
          BY <2>1 DEF IInv, TupleQueued
    <3> QED  BY <2>1, <2>3, <2>4, <3>1, <3>2 DEF Safe
  <2> QED  BY <2>5, <2>6, <2>7, <2>8, <2>9 DEF IInv
<1>3. CASE DrainDrop(w) \/ DrainGiveUp(w)
  <2>1. /\ drain' = [drain EXCEPT ![w] = Resting]
        /\ queue' = queue \/ (drain[w].step = "drop" /\ queue' = queue \ {drain[w].row})
        /\ UNCHANGED <<state, groups, slice, fga, req, landed, removals, failures, adrift,
                       crossed>>
        BY <1>3 DEF DrainDrop, DrainGiveUp, rowVars, queueVars
  <2>2. /\ Resting \in [step : {"rest", "delete", "drop"}, row : Row]
        /\ Resting.step = "rest"
        BY BoundAssumption DEF Resting, Row
  <2>3. drain'[w] = Resting /\ \A v \in Drainers \ {w} : drain'[v] = drain[v]
        BY <2>1 DEF IInv, Types
  <2>4. /\ queue' \subseteq queue
        /\ \A e \in queue : e \in queue' \/ e \in landed \/ e.group \in crossed
        BY <2>1 DEF IInv, DrainInHand, Drains
  <2>5. Types'
        BY <2>1, <2>2, <2>4 DEF IInv, Types
  <2>6. InHand'
    <3> SUFFICES ASSUME NEW p \in Reqs
                 PROVE  Flushes(req[p])'
        BY DEF InHand
    <3>1. Flushes(req[p])
          BY DEF IInv, InHand
    <3> QED  BY <2>1, <2>4, <3>1 DEF Flushes
  <2>7. DrainInHand'
    <3> SUFFICES ASSUME NEW v \in Drainers
                 PROVE  Drains(drain[v])'
        BY DEF DrainInHand
    <3>1. Drains(drain[v])
          BY DEF IInv, DrainInHand
    <3> QED  BY <2>1, <2>2, <2>3, <2>4, <3>1 DEF Drains
  <2>8. GoneIsBare' /\ RowBacked'
        BY <2>1 DEF IInv, GoneIsBare, RowBacked, Excused
  <2>9. TupleQueued'
    <3> SUFFICES ASSUME NEW h \in (fga \ groups) \ Excused
                 PROVE  \E f \in queue' : f.group = h /\ Safe(f)'
        BY <2>1 DEF TupleQueued, Excused
    <3>1. PICK f \in queue : f.group = h /\ Safe(f)
          BY DEF IInv, TupleQueued
    <3>2. f \in queue'
          BY <2>1, <3>1 DEF Safe
    <3> QED  BY <2>1, <2>2, <2>3, <3>1, <3>2 DEF Safe
  <2> QED  BY <2>5, <2>6, <2>7, <2>8, <2>9 DEF IInv
<1> QED  BY <1>1, <1>2, <1>3

\* Every step keeps it.
LEMMA StepInv == IInv /\ [Next]_vars => IInv'
<1> SUFFICES ASSUME IInv, [Next]_vars
             PROVE  IInv'
    OBVIOUS
<1>1. ASSUME NEW q \in Reqs, FlushEnd(q) \/ Abandon(q)
      PROVE  IInv'
  <2>1. /\ req' = [req EXCEPT ![q] = Idle] /\ state' = state
        /\ UNCHANGED <<groups, slice, fga, failures, adrift, drain, queueVars>>
        BY <1>1 DEF FlushEnd, Abandon, End, rowVars
  <2>2. Idle \in Handled /\ Idle.step = "idle"
        BY Records DEF IInv
  <2> QED  BY <2>1, <2>2, MoveInv
<1>2. ASSUME NEW q \in Reqs, Request(q)
      PROVE  IInv'
      BY <1>1, <1>2, ReadInv, WriteInv, FailInv, RemoveInv, FlushInv DEF Request
<1>3. ASSUME NEW w \in Drainers, Drain(w) \/ DrainDelete(w) \/ DrainGiveUp(w)
      PROVE  IInv'
      BY <1>3, DrainInv DEF Drain
<1>4. CASE UNCHANGED vars
      BY <1>4 DEF vars, IInv, Types, InHand, Flushes, DrainInHand, Drains, GoneIsBare,
                  RowBacked, TupleQueued, Safe, Excused
<1> QED  BY <1>2, <1>3, <1>4 DEF Next

\* The inductive invariant holds of every behaviour, however requests, flushes
\* and workers interleave.
THEOREM Invariance == Spec => []IInv
BY InitInv, StepInv, PTL DEF Spec

\* Every variable keeps its type; a member who is gone leaves neither groups nor
\* slices for the next one of the same name.
THEOREM TypeCorrect == Spec => []TypeOK
<1>1. IInv => TypeOK
  <2> SUFFICES ASSUME IInv
               PROVE  TypeOK
      OBVIOUS
  <2>1. state = "gone" => groups = {} /\ Union(slice) = {}
        BY DEF IInv, GoneIsBare, Union
  <2> QED  BY <2>1 DEF IInv, Types, TypeOK
<1> QED  BY <1>1, Invariance, PTL

\* Row and store differ only where a queue row accounts for it, or a stale or
\* failed write or a removal across a flush that no later write has settled.
THEOREM DriftWritten == Spec => []DriftIsWrittenDown
<1>1. IInv => DriftIsWrittenDown
      BY DEF IInv, RowBacked, TupleQueued, Excused, DriftIsWrittenDown
<1> QED  BY <1>1, Invariance, PTL

\* What is on the queue stays there until it has landed: no row is dropped of
\* which the deletion was never made, unless it was queued while the flush of
\* another removal stood between the deletion of that tuple and the drop.
THEOREM NothingDropped ==
    Spec => [][\A i \in Intents : i \in queue =>
                  i \in queue' \cup landed' \/ i.group \in crossed]_vars
<1>1. IInv /\ [Next]_vars =>
         [\A i \in Intents : i \in queue =>
             i \in queue' \cup landed' \/ i.group \in crossed]_vars
  <2> SUFFICES ASSUME IInv, [Next]_vars, NEW i \in queue, i \notin queue'
               PROVE  i \in landed' \/ i.group \in crossed
      OBVIOUS
  <2> USE DEF queueVars
  <2>1. ASSUME NEW q \in Reqs, FlushDrop(q)
        PROVE  i \in landed' \/ i.group \in crossed
        BY <2>1 DEF FlushDrop, IInv, InHand, Flushes
  <2>2. ASSUME NEW w \in Drainers, DrainDrop(w)
        PROVE  i \in landed' \/ i.group \in crossed
        BY <2>2 DEF DrainDrop, IInv, DrainInHand, Drains
  <2>3. ASSUME NEW q \in Reqs, RemoveTx(q)
        PROVE  FALSE
        BY <2>3 DEF RemoveTx
  <2>4. ASSUME NEW q \in Reqs, ~FlushDrop(q), ~RemoveTx(q), Request(q)
        PROVE  FALSE
        BY <2>4 DEF Request, UntrustBegin, LoginBegin, SuspendBegin, Reactivate,
                    RemoveBegin, LoginWrite, SyncFail, UntrustWrite, SuspendWrite,
                    FlushSkip, FlushEnd, Abandon, FlushDelete
  <2>5. ASSUME NEW w \in Drainers,
               (\E e \in queue : DrainClaim(w, e)) \/ DrainDelete(w) \/ DrainGiveUp(w)
        PROVE  FALSE
        BY <2>5 DEF DrainClaim, DrainDelete, DrainGiveUp
  <2>6. CASE UNCHANGED vars
        BY <2>6 DEF vars
  <2> QED  BY <2>1, <2>2, <2>3, <2>4, <2>5, <2>6 DEF Next, Drain
<1> QED  BY <1>1, Invariance, PTL DEF Spec
=============================================================================
