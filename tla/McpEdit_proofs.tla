--------------------------- MODULE McpEdit_proofs ---------------------------
(* McpEdit: for every set of pods and edits, every number of attempts and  *)
(* of mishaps, however late a message arrives and however long a handler   *)
(* takes.  The timing argument rests on LockTTL < AckTimeout alone.        *)
EXTENDS McpEdit, TLAPS

\* A handler that still has its lock is within it: it is the only one of its
\* request, and the lock was taken early enough to end before the caller's wait.
HolderHasLock ==
    \A p \in Pods, r \in Requests : AtWork(p, r) /\ r \notin loose =>
        /\ lock = r
        /\ \A q \in Pods : AtWork(q, r) => q = p
        /\ r \notin tardy => age[r] <= AckTimeout - LockTTL + lockAge

LockIsYoung == lockAge < LockTTL

\* A caller that has given up has waited.
WaitIsOver == \A r \in Requests : api[r] = "timedout" => age[r] >= AckTimeout

\* Nobody works on what was never published.
WorkIsAsked ==
    \A r \in Requests, p \in Pods :
        r \in inbox[p] \/ AtWork(p, r) => api[r] \notin {"unsent", "unavailable"}

\* What was stored is in the document, but for a store that kept nothing.
StoredIsLanded ==
    \A r \in Requests :
        /\ api[r] = "ok" => landed[r] > 0 \/ r \in unstored
        /\ \A p \in Pods : work[p][r] = "stored" => landed[r] > 0 \/ r \in unstored

\* What is in the document its caller heard of or is about to hear of.
LandedIsHeard ==
    \A r \in Requests : landed[r] > 0 =>
        \/ r \in tardy \cup loose \cup unheard
        \/ api[r] \in {"ok", "refused"}
        \/ \E p \in Pods : work[p][r] = "stored"

EditInv == /\ EditTypeOK /\ OneAtATime /\ HolderHasLock /\ LockIsYoung /\ WaitIsOver
           /\ WorkIsAsked /\ StoredIsLanded /\ LandedIsHeard

\* The invariant holds at the start.
LEMMA EditInitInv == EditInit => EditInv
<1> SUFFICES ASSUME EditInit
             PROVE  EditInv
    OBVIOUS
<1> USE DEF EditInit
<1>1. EditTypeOK /\ LockIsYoung
      BY TimeAssumption, BoundAssumption DEF EditTypeOK, LockIsYoung, Calls, Steps, AtWork
<1>2. OneAtATime /\ HolderHasLock /\ WaitIsOver /\ WorkIsAsked
      BY DEF OneAtATime, HolderHasLock, WaitIsOver, WorkIsAsked, AtWork
<1>3. StoredIsLanded /\ LandedIsHeard
      BY DEF StoredIsLanded, LandedIsHeard
<1> QED  BY <1>1, <1>2, <1>3 DEF EditInv

\* One handler moves on, and nothing else of the handlers does.
LEMMA StageMoves ==
    ASSUME EditTypeOK, NEW p \in Pods, NEW r \in Requests, NEW s \in Steps, Stage(p, r, s)
    PROVE  /\ work' \in [Pods -> [Requests -> Steps]]
           /\ work'[p][r] = s
           /\ \A q \in Pods, t \in Requests : <<q, t>> # <<p, r>> => work'[q][t] = work[q][t]
BY DEF EditTypeOK, Stage

\* A handler that is done, which answers or not, keeps the lock to itself.
LEMMA DoneInv ==
    ASSUME EditInv, NEW p \in Pods, NEW r \in Requests, AtWork(p, r),
           Release(r), Stage(p, r, "none"),
           UNCHANGED <<age, up, inbox, landed, tardy, unstored>>,
           unheard \subseteq unheard', unheard' \subseteq Requests,
           mishaps' \in 0 .. MaxMishaps,
           \/ Reply(r, "refused") \/ UNCHANGED api
           \/ Reply(r, "ok") /\ work[p][r] = "stored",
           work[p][r] = "stored" => r \in unheard' \/ Reply(r, "ok")
    PROVE  EditInv'
<1> USE TimeAssumption, NoReqAssumption
<1>1. /\ work' \in [Pods -> [Requests -> Steps]] /\ work'[p][r] = "none"
      /\ \A q \in Pods, t \in Requests : <<q, t>> # <<p, r>> => work'[q][t] = work[q][t]
      BY StageMoves DEF EditInv, Steps
<1>2. /\ loose \subseteq loose' /\ loose' \subseteq Requests
      /\ lock' \in Requests \cup {NoReq} /\ lockAge' \in 0 .. LockTTL /\ lockAge' < LockTTL
      /\ \A t \in Requests \ {r} : lock = t => t \in loose' \/ (lock' = t /\ lockAge' = lockAge)
      /\ lock = r => r \in loose' \/ lock' = NoReq \/ (lock' = r /\ lockAge' = lockAge)
      BY DEF Release, EditInv, EditTypeOK, LockIsYoung
<1>3. /\ api' \in [Requests -> Calls]
      /\ \A t \in Requests \ {r} : api'[t] = api[t]
      /\ api'[r] = api[r] \/ (api[r] = "waiting" /\ api'[r] \in {"ok", "refused"})
      /\ api'[r] = "ok" => api[r] = "ok" \/ work[p][r] = "stored"
      /\ Reply(r, "ok") /\ api[r] = "waiting" => api'[r] = "ok"
      BY DEF Reply, EditInv, EditTypeOK, Calls
<1>4. EditTypeOK'
      BY <1>1, <1>2, <1>3 DEF EditInv, EditTypeOK, AtWork
<1>5. OneAtATime'
      BY <1>1, <1>2 DEF EditInv, OneAtATime, AtWork
<1>6. HolderHasLock'
  <2> SUFFICES ASSUME NEW q \in Pods, NEW t \in Requests, AtWork(q, t)', t \notin loose'
               PROVE  /\ lock' = t
                      /\ \A o \in Pods : AtWork(o, t)' => o = q
                      /\ t \notin tardy => age[t] <= AckTimeout - LockTTL + lockAge'
      BY DEF HolderHasLock
  <2>1. <<q, t>> # <<p, r>> /\ AtWork(q, t) /\ t \notin loose
        BY <1>1, <1>2 DEF AtWork
  <2>2. /\ lock = t /\ \A o \in Pods : AtWork(o, t) => o = q
        /\ t \notin tardy => age[t] <= AckTimeout - LockTTL + lockAge
        BY <2>1 DEF EditInv, HolderHasLock
  <2>3. t # r
        BY <2>1, <2>2
  <2>4. lock' = t /\ lockAge' = lockAge
        BY <1>2, <2>2, <2>3
  <2> QED  BY <1>1, <2>2, <2>3, <2>4 DEF AtWork
<1>7. LockIsYoung' /\ WaitIsOver' /\ WorkIsAsked'
      BY <1>1, <1>2, <1>3 DEF EditInv, LockIsYoung, WaitIsOver, WorkIsAsked, AtWork
<1>8. StoredIsLanded'
      BY <1>1, <1>3 DEF EditInv, StoredIsLanded
<1>9. LandedIsHeard'
  <2> SUFFICES ASSUME NEW t \in Requests, landed[t] > 0,
                      t \notin tardy \cup loose' \cup unheard',
                      api'[t] \notin {"ok", "refused"}
               PROVE  \E q \in Pods : work'[q][t] = "stored"
      BY DEF LandedIsHeard
  <2>1. api[t] \notin {"ok", "refused"} /\ t \notin tardy \cup loose \cup unheard
        BY <1>2, <1>3
  <2>2. PICK q \in Pods : work[q][t] = "stored"
        BY <2>1 DEF EditInv, LandedIsHeard
  <2>3. CASE <<q, t>> = <<p, r>>
    <3>1. Reply(r, "ok") /\ AtWork(p, r) /\ r \notin loose \cup tardy
          BY <2>1, <2>2, <2>3
    <3>2. age[r] < AckTimeout
          BY <3>1 DEF EditInv, EditTypeOK, HolderHasLock, LockIsYoung
    <3>3. api[r] # "timedout"
          BY <3>2 DEF EditInv, EditTypeOK, WaitIsOver
    <3>4. api[r] \notin {"unsent", "unavailable"}
          BY <3>1 DEF EditInv, WorkIsAsked
    <3> QED  BY <1>3, <2>1, <2>3, <3>1, <3>3, <3>4 DEF EditInv, EditTypeOK, Calls
  <2>4. CASE <<q, t>> # <<p, r>>
        BY <1>1, <2>2, <2>4
  <2> QED  BY <2>3, <2>4
<1> QED  BY <1>4, <1>5, <1>6, <1>7, <1>8, <1>9 DEF EditInv

\* The caller publishes, or has waited long enough.
LEMMA CallInv ==
    ASSUME EditInv, NEW r \in Requests, Publish(r) \/ Timeout(r)
    PROVE  EditInv'
<1> USE TimeAssumption
<1>1. CASE Publish(r)
  <2>1. /\ api[r] = "unsent"
        /\ api' = [api EXCEPT ![r] = IF up = {} THEN "unavailable" ELSE "waiting"]
        /\ inbox' = [p \in Pods |-> IF p \in up THEN inbox[p] \cup {r} ELSE inbox[p]]
        /\ UNCHANGED <<age, up, work, lock, lockAge, landed, mishaps, tardy, loose, unstored,
                       unheard>>
        BY <1>1 DEF Publish, MayCall, history
  <2>2. EditTypeOK'
        BY <2>1 DEF EditInv, EditTypeOK, Calls, AtWork
  <2>3. OneAtATime' /\ HolderHasLock' /\ LockIsYoung' /\ WaitIsOver'
        BY <2>1 DEF EditInv, EditTypeOK, OneAtATime, HolderHasLock, LockIsYoung, WaitIsOver,
                    AtWork
  <2>4. WorkIsAsked'
        BY <2>1 DEF EditInv, EditTypeOK, WorkIsAsked, AtWork
  <2>5. StoredIsLanded' /\ LandedIsHeard'
        BY <2>1 DEF EditInv, EditTypeOK, StoredIsLanded, LandedIsHeard
  <2> QED  BY <2>2, <2>3, <2>4, <2>5 DEF EditInv
<1>2. CASE Timeout(r)
  <2>1. /\ api[r] = "waiting" /\ age[r] >= AckTimeout
        /\ api' = [api EXCEPT ![r] = "timedout"]
        /\ UNCHANGED <<age, up, inbox, work, lock, lockAge, landed, mishaps, tardy, loose,
                       unstored, unheard>>
        BY <1>2 DEF Timeout, history
  <2>2. EditTypeOK'
        BY <2>1 DEF EditInv, EditTypeOK, Calls, AtWork
  <2>3. OneAtATime' /\ HolderHasLock' /\ LockIsYoung' /\ WorkIsAsked' /\ WaitIsOver'
        BY <2>1 DEF EditInv, EditTypeOK, OneAtATime, HolderHasLock, LockIsYoung, WaitIsOver,
                    WorkIsAsked, AtWork
  <2>4. StoredIsLanded' /\ LandedIsHeard'
        BY <2>1 DEF EditInv, EditTypeOK, StoredIsLanded, LandedIsHeard
  <2> QED  BY <2>2, <2>3, <2>4 DEF EditInv
<1> QED  BY <1>1, <1>2

\* A message is taken: the lock is free, is another's, or cannot be asked for.
LEMMA ElectInv ==
    ASSUME EditInv, NEW p \in Pods, NEW r \in Requests, Elect(p, r) \/ Balk(p, r)
    PROVE  EditInv'
<1> USE TimeAssumption, NoReqAssumption
<1>1. /\ p \in up /\ r \in inbox[p] /\ inbox' = [inbox EXCEPT ![p] = @ \ {r}]
      /\ UNCHANGED <<age, up, landed, mishaps, loose, unstored, unheard>>
      BY DEF Elect, Balk, Take, history
<1>2. /\ inbox' \in [Pods -> SUBSET Requests]
      /\ \A q \in Pods : inbox'[q] \subseteq inbox[q]
      BY <1>1 DEF EditInv, EditTypeOK
<1>3. CASE Elect(p, r) /\ lock = NoReq
  <2>1. /\ lock' = r /\ lockAge' = 0 /\ Stage(p, r, "elected") /\ api' = api
        /\ tardy' = tardy \cup Tardy(r)
        BY <1>3 DEF Elect
  <2>2. /\ work' \in [Pods -> [Requests -> Steps]] /\ work'[p][r] = "elected"
        /\ \A q \in Pods, t \in Requests : <<q, t>> # <<p, r>> => work'[q][t] = work[q][t]
        BY <2>1, StageMoves DEF EditInv, Steps
  <2>3. \A q \in Pods, t \in Requests : AtWork(q, t) => t \in loose
        BY <1>3 DEF EditInv, HolderHasLock
  <2>4. EditTypeOK'
        BY <1>1, <1>2, <2>1, <2>2 DEF EditInv, EditTypeOK, AtWork, Tardy
  <2>5. OneAtATime'
        BY <1>1, <2>2, <2>3 DEF OneAtATime, AtWork
  <2>6. HolderHasLock'
    <3>1. r \notin tardy' => age[r] <= AckTimeout - LockTTL
          BY <2>1 DEF Tardy, EditInv, EditTypeOK
    <3> QED  BY <1>1, <2>1, <2>2, <2>3, <3>1 DEF HolderHasLock, AtWork
  <2>7. LockIsYoung' /\ WaitIsOver'
        BY <1>1, <2>1 DEF EditInv, LockIsYoung, WaitIsOver
  <2>8. WorkIsAsked'
        BY <1>1, <1>2, <2>1, <2>2 DEF EditInv, WorkIsAsked, AtWork
  <2>9. StoredIsLanded'
        BY <1>1, <2>1, <2>2 DEF EditInv, StoredIsLanded
  <2>10. LandedIsHeard'
    <3> SUFFICES ASSUME NEW t \in Requests, landed[t] > 0, t \notin tardy' \cup loose \cup unheard,
                        api[t] \notin {"ok", "refused"}
                 PROVE  \E q \in Pods : work'[q][t] = "stored"
        BY <1>1, <2>1 DEF LandedIsHeard
    <3>1. PICK q \in Pods : work[q][t] = "stored"
          BY <2>1 DEF EditInv, LandedIsHeard
    <3> QED  BY <2>3, <3>1 DEF AtWork
  <2> QED  BY <2>4, <2>5, <2>6, <2>7, <2>8, <2>9, <2>10 DEF EditInv
<1>4. CASE ~(Elect(p, r) /\ lock = NoReq)
  <2>1. /\ UNCHANGED <<work, lock, lockAge, tardy>>
        /\ api' \in [Requests -> Calls]
        /\ \A t \in Requests : api'[t] = api[t] \/ (api[t] = "waiting" /\ api'[t] = "refused")
        BY <1>4 DEF Elect, Balk, Reply, history, EditInv, EditTypeOK, Calls
  <2>2. EditTypeOK'
        BY <1>1, <1>2, <2>1 DEF EditInv, EditTypeOK, AtWork
  <2>3. OneAtATime' /\ HolderHasLock' /\ LockIsYoung' /\ WaitIsOver'
        BY <1>1, <2>1 DEF EditInv, OneAtATime, HolderHasLock, LockIsYoung, WaitIsOver, AtWork
  <2>4. WorkIsAsked'
        BY <1>2, <2>1 DEF EditInv, WorkIsAsked, AtWork
  <2>5. StoredIsLanded' /\ LandedIsHeard'
        BY <1>1, <2>1 DEF EditInv, StoredIsLanded, LandedIsHeard
  <2> QED  BY <2>2, <2>3, <2>4, <2>5 DEF EditInv
<1> QED  BY <1>3, <1>4

\* The edit is applied in memory, or stored.
LEMMA WorkInv ==
    ASSUME EditInv, NEW p \in Pods, NEW r \in Requests, Apply(p, r) \/ Persist(p, r)
    PROVE  EditInv'
<1>1. PICK s \in {"applied", "stored"} :
          /\ Stage(p, r, s) /\ work[p][r] \in {"elected", "applied"}
          /\ s = "stored" => landed'[r] > 0 \/ r \in unstored'
      BY DEF Apply, Persist, EditInv, EditTypeOK
<1>2. /\ UNCHANGED <<api, age, up, inbox, lock, lockAge, tardy, loose, unheard>>
      /\ unstored \subseteq unstored' /\ unstored' \subseteq Requests
      /\ mishaps' \in 0 .. MaxMishaps /\ landed' \in [Requests -> Nat]
      /\ \A t \in Requests : landed'[t] = landed[t] \/ (landed'[t] > 0 /\ t = r /\ s = "stored")
      BY <1>1, BoundAssumption DEF Apply, Persist, Mishap, Stage, history, EditInv, EditTypeOK
<1>3. /\ work' \in [Pods -> [Requests -> Steps]] /\ work'[p][r] = s
      /\ \A q \in Pods, t \in Requests : <<q, t>> # <<p, r>> => work'[q][t] = work[q][t]
      BY <1>1, StageMoves DEF EditInv, Steps
<1>4. \A q \in Pods, t \in Requests : AtWork(q, t)' = AtWork(q, t)
      BY <1>1, <1>3 DEF AtWork
<1>5. EditTypeOK'
      BY <1>2, <1>3, <1>4 DEF EditInv, EditTypeOK
<1>6. OneAtATime' /\ HolderHasLock' /\ LockIsYoung' /\ WaitIsOver' /\ WorkIsAsked'
      BY <1>2, <1>4 DEF EditInv, OneAtATime, HolderHasLock, LockIsYoung, WaitIsOver,
                        WorkIsAsked
<1>7. StoredIsLanded'
  <2> SUFFICES ASSUME NEW t \in Requests
               PROVE  /\ api[t] = "ok" => landed'[t] > 0 \/ t \in unstored'
                      /\ \A q \in Pods : work'[q][t] = "stored" =>
                                          landed'[t] > 0 \/ t \in unstored'
      BY <1>2 DEF StoredIsLanded
  <2>1. landed[t] > 0 \/ t \in unstored => landed'[t] > 0 \/ t \in unstored'
        BY <1>2
  <2> QED  BY <1>1, <1>3, <2>1 DEF EditInv, StoredIsLanded
<1>8. LandedIsHeard'
      BY <1>1, <1>2, <1>3 DEF EditInv, LandedIsHeard
<1> QED  BY <1>5, <1>6, <1>7, <1>8 DEF EditInv

\* A pod dies or comes back.
LEMMA FaultInv ==
    ASSUME EditInv, NEW p \in Pods, PodDies(p) \/ Restart(p)
    PROVE  EditInv'
<1>1. CASE PodDies(p)
  <2>1. /\ UNCHANGED <<api, age, lock, lockAge, landed, tardy, loose, unstored>>
        /\ mishaps' \in 0 .. MaxMishaps /\ up' = up \ {p}
        /\ inbox' = [inbox EXCEPT ![p] = {}]
        /\ work' = [work EXCEPT ![p] = [r \in Requests |-> "none"]]
        /\ unheard' = unheard \cup {r \in Requests : work[p][r] = "stored"}
        BY <1>1, BoundAssumption DEF PodDies, Mishap, EditInv, EditTypeOK
  <2>2. \A q \in Pods, t \in Requests :
            IF q = p THEN work'[q][t] = "none" /\ inbox'[q] = {}
            ELSE work'[q][t] = work[q][t] /\ inbox'[q] = inbox[q]
        BY <2>1 DEF EditInv, EditTypeOK
  <2>3. EditTypeOK'
        BY <2>1, <2>2 DEF EditInv, EditTypeOK, AtWork, Steps
  <2>4. OneAtATime' /\ HolderHasLock' /\ LockIsYoung' /\ WaitIsOver'
        BY <2>1, <2>2 DEF EditInv, OneAtATime, HolderHasLock, LockIsYoung, WaitIsOver, AtWork
  <2>5. WorkIsAsked' /\ StoredIsLanded' /\ LandedIsHeard'
        BY <2>1, <2>2 DEF EditInv, WorkIsAsked, StoredIsLanded, LandedIsHeard, AtWork
  <2> QED  BY <2>3, <2>4, <2>5 DEF EditInv
<1>2. CASE Restart(p)
  <2>1. /\ UNCHANGED <<api, age, inbox, work, lock, lockAge, landed, mishaps, tardy, loose,
                       unstored, unheard>>
        /\ up' = up \cup {p}
        BY <1>2 DEF Restart, history
  <2> QED  BY <2>1 DEF EditInv, EditTypeOK, OneAtATime, HolderHasLock, LockIsYoung, WaitIsOver,
                       WorkIsAsked, StoredIsLanded, LandedIsHeard, AtWork
<1> QED  BY <1>1, <1>2

\* A tick: the lock of whoever is still at work with it may go.
LEMMA TickInv ==
    ASSUME EditInv, Tick
    PROVE  EditInv'
<1> USE TimeAssumption, NoReqAssumption
<1>1. /\ UNCHANGED <<api, up, inbox, work, landed, mishaps, tardy, unstored, unheard>>
      /\ age' = [r \in Requests |-> IF Ageing(r) THEN age[r] + 1 ELSE age[r]]
      BY DEF Tick
<1>2. /\ age' \in [Requests -> 0 .. AckTimeout]
      /\ \A r \in Requests : age'[r] \in {age[r], age[r] + 1}
      BY <1>1 DEF Ageing, EditInv, EditTypeOK
<1>3. /\ lock' \in Requests \cup {NoReq} /\ lockAge' \in 0 .. LockTTL /\ lockAge' < LockTTL
      /\ loose \subseteq loose' /\ loose' \subseteq Requests
      BY DEF Tick, Expire, EditInv, EditTypeOK, LockIsYoung
<1>4. EditTypeOK'
      BY <1>1, <1>2, <1>3 DEF EditInv, EditTypeOK, AtWork
<1>5. OneAtATime'
      BY <1>1, <1>3 DEF EditInv, OneAtATime, AtWork
<1>6. HolderHasLock'
  <2> SUFFICES ASSUME NEW p \in Pods, NEW r \in Requests, AtWork(p, r), r \notin loose'
               PROVE  /\ lock' = r /\ \A q \in Pods : AtWork(q, r) => q = p
                      /\ r \notin tardy => age'[r] <= AckTimeout - LockTTL + lockAge'
      BY <1>1 DEF HolderHasLock, AtWork
  <2>1. /\ lock = r /\ \A q \in Pods : AtWork(q, r) => q = p
        /\ r \notin tardy => age[r] <= AckTimeout - LockTTL + lockAge
        BY <1>3 DEF EditInv, HolderHasLock
  <2>2. lock' = lock /\ lockAge' = lockAge + 1
        BY <2>1 DEF Tick, Expire
  <2>3. age[r] \in Nat /\ lockAge \in Nat /\ age'[r] \in {age[r], age[r] + 1}
        BY <1>2 DEF EditInv, EditTypeOK
  <2> QED  BY <2>1, <2>2, <2>3
<1>7. LockIsYoung' /\ WorkIsAsked'
      BY <1>1, <1>3 DEF EditInv, LockIsYoung, WorkIsAsked, AtWork
<1>8. WaitIsOver'
  <2> SUFFICES ASSUME NEW r \in Requests, api[r] = "timedout"
               PROVE  age'[r] >= AckTimeout
      BY <1>1 DEF WaitIsOver
  <2>1. age[r] \in Nat /\ age[r] >= AckTimeout
        BY DEF EditInv, EditTypeOK, WaitIsOver
  <2> QED  BY <1>2, <2>1
<1>9. StoredIsLanded' /\ LandedIsHeard'
      BY <1>1, <1>3 DEF EditInv, StoredIsLanded, LandedIsHeard
<1> QED  BY <1>4, <1>5, <1>6, <1>7, <1>8, <1>9 DEF EditInv

\* Every step keeps it.
LEMMA EditStepInv == EditInv /\ [EditNext]_editVars => EditInv'
<1> SUFFICES ASSUME EditInv, [EditNext]_editVars
             PROVE  EditInv'
    OBVIOUS
<1>1. ASSUME NEW p \in Pods, NEW r \in Requests, Refuse(p, r)
      PROVE  EditInv'
  <2>1. /\ AtWork(p, r) /\ work[p][r] # "stored" /\ mishaps \in 0 .. MaxMishaps
        /\ unheard \subseteq Requests
        BY <1>1 DEF Refuse, AtWork, EditInv, EditTypeOK
  <2> QED  BY <1>1, <2>1, DoneInv DEF Refuse
<1>2. ASSUME NEW p \in Pods, NEW r \in Requests, Finish(p, r)
      PROVE  EditInv'
  <2>1. /\ AtWork(p, r) /\ mishaps' \in 0 .. MaxMishaps
        /\ unheard \subseteq unheard' /\ unheard' \subseteq Requests
        /\ r \in unheard' \/ Reply(r, "ok")
        /\ UNCHANGED api \/ Reply(r, "ok")
        BY <1>2, BoundAssumption DEF Finish, Mishap, AtWork, EditInv, EditTypeOK
  <2> QED  BY <1>2, <2>1, DoneInv DEF Finish
<1>3. CASE UNCHANGED editVars
      BY <1>3 DEF editVars, history, EditInv, EditTypeOK, OneAtATime, HolderHasLock,
                  LockIsYoung, WaitIsOver, WorkIsAsked, StoredIsLanded, LandedIsHeard, AtWork
<1> QED  BY <1>1, <1>2, <1>3, CallInv, ElectInv, WorkInv, FaultInv, TickInv
         DEF EditNext, Caller, Handler, Fault

\* The inductive invariant holds of every behaviour.
THEOREM EditInvariance == EditSpec => []EditInv
BY EditInitInv, EditStepInv, PTL DEF EditSpec

\* Every variable keeps its type, and a pod that is down handles nothing.
THEOREM EditTypeCorrect == EditSpec => []EditTypeOK
<1>1. EditInv => EditTypeOK
      BY DEF EditInv
<1> QED  BY <1>1, EditInvariance, PTL

\* Of two handlers at work at once one has lost the lock, whoever dies and
\* however long anybody takes.
THEOREM OneHandler == EditSpec => []OneAtATime
<1>1. EditInv => OneAtATime
      BY DEF EditInv
<1> QED  BY <1>1, EditInvariance, PTL

\* "ok" means stored unless this edit's store kept nothing; "timed out" means
\* not in the document, unless the request was elected late, went on without
\* the lock, or its answer was lost.
THEOREM AnswersTrue == EditSpec => []AnswersAreTrue
<1>1. EditInv => AnswersAreTrue
  <2> SUFFICES ASSUME EditInv, NEW r \in Requests
               PROVE  /\ api[r] = "ok" => landed[r] > 0 \/ r \in unstored
                      /\ api[r] = "timedout" => landed[r] = 0 \/ r \in tardy \cup loose \cup unheard
      BY DEF AnswersAreTrue
  <2>1. api[r] = "ok" => landed[r] > 0 \/ r \in unstored
        BY DEF EditInv, StoredIsLanded
  <2>2. ASSUME api[r] = "timedout", landed[r] # 0, r \notin tardy \cup loose \cup unheard
        PROVE  FALSE
    <3>1. landed[r] > 0
          BY <2>2 DEF EditInv, EditTypeOK
    <3>2. PICK p \in Pods : work[p][r] = "stored"
          BY <2>2, <3>1 DEF EditInv, LandedIsHeard
    <3>3. age[r] <= AckTimeout - LockTTL + lockAge /\ lockAge < LockTTL
          BY <2>2, <3>2 DEF EditInv, HolderHasLock, LockIsYoung, AtWork
    <3>4. age[r] >= AckTimeout
          BY <2>2 DEF EditInv, WaitIsOver
    <3>5. age[r] \in Nat /\ lockAge \in Nat
          BY DEF EditInv, EditTypeOK
    <3> QED  BY <3>3, <3>4, <3>5, TimeAssumption
  <2> QED  BY <2>1, <2>2
<1> QED  BY <1>1, EditInvariance, PTL
=============================================================================
