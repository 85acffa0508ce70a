------------------------------ MODULE McpEdit ------------------------------
(***************************************************************************)
(* Editing a page body from outside the editor: mcpEditDraft on the API    *)
(* side publishes the edit and waits for an answer; every collab pod       *)
(* receives it, a per-document lock with a time to live elects who applies *)
(* it to the live document, and a client whose call timed out tries again. *)
(*                                                                         *)
(* One document.  Time is counted in ticks.  A message may arrive and a    *)
(* handler may work for as long as it likes; history variables remember    *)
(* the requests that were elected too late, that went on without the lock, *)
(* whose store kept nothing and whose answer was lost.                     *)
(***************************************************************************)
EXTENDS Integers, FiniteSets

CONSTANTS
    Pods,           \* collab pods
    BodyEdits,      \* edits clients want made, each once
    Attempts,       \* bound: calls a client makes for one edit
    LockTTL,        \* MCP_EDIT_LOCK_TTL_MS, in ticks
    AckTimeout,     \* the API's wait for the answer, in ticks
    MaxMishaps,     \* bound: pods that die, stores and answers that are lost
    NoReq

ASSUME PodAssumption == IsFiniteSet(Pods) /\ Pods # {}
ASSUME TimeAssumption == /\ LockTTL \in Nat \ {0}
                         /\ AckTimeout \in Nat /\ LockTTL < AckTimeout
ASSUME BoundAssumption == Attempts \in Nat \ {0} /\ MaxMishaps \in Nat

Requests == BodyEdits \X (1 .. Attempts)
ASSUME NoReqAssumption == NoReq \notin Requests

VARIABLES
    api,      \* what the caller of each request knows
    age,      \* ticks its caller has waited since the publication
    up,       \* pods running and subscribed
    inbox,    \* messages published and not yet handled, per pod
    work,     \* the step of each pod's handler for each request
    lock,     \* the request whose value the lock key carries
    lockAge,
    landed,   \* how often each request's edit was persisted
    mishaps,
    tardy,    \* history: elected with less than the lock's life left to wait
    loose,    \* history: at work when the lock expired or another deleted it
    unstored, \* history: stored without a row being written
    unheard   \* history: persisted, and the answer lost

history == <<tardy, loose, unstored, unheard>>
editVars == <<api, age, up, inbox, work, lock, lockAge, landed, mishaps, history>>

Calls == {"unsent", "waiting", "ok", "refused", "timedout", "unavailable"}
\* elected: holds the lock; applied: transacted in memory; stored: disconnected.
Steps == {"none", "elected", "applied", "stored"}

EditInit ==
    /\ api = [r \in Requests |-> "unsent"]
    /\ age = [r \in Requests |-> 0]
    /\ up = Pods
    /\ inbox = [p \in Pods |-> {}]
    /\ work = [p \in Pods |-> [r \in Requests |-> "none"]]
    /\ lock = NoReq /\ lockAge = 0
    /\ landed = [r \in Requests |-> 0]
    /\ mishaps = 0
    /\ tardy = {} /\ loose = {} /\ unstored = {} /\ unheard = {}

AtWork(p, r) == work[p][r] # "none"
Mishap == mishaps < MaxMishaps /\ mishaps' = mishaps + 1

----------------------------------------------------------------------------
(* The API: collab-mcpedit.ts and its caller in routes/mcp.ts *)

\* A first call, or one more after an answer that asks to retry.
MayCall(r) ==
    /\ api[r] = "unsent"
    /\ r[2] > 1 => api[<<r[1], r[2] - 1>>] \in {"timedout", "unavailable"}

\* PUBLISH reaches the pods subscribed at that moment; none, and it fails.
Publish(r) ==
    /\ MayCall(r)
    /\ api' = [api EXCEPT ![r] = IF up = {} THEN "unavailable" ELSE "waiting"]
    /\ inbox' = [p \in Pods |-> IF p \in up THEN inbox[p] \cup {r} ELSE inbox[p]]
    /\ UNCHANGED <<age, up, work, lock, lockAge, landed, mishaps, history>>

\* Mutated form: the wait is shorter than the lock's life.
TimeoutEarly(r) ==
    /\ api[r] = "waiting" /\ age[r] >= 1
    /\ api' = [api EXCEPT ![r] = "timedout"]
    /\ UNCHANGED <<age, up, inbox, work, lock, lockAge, landed, mishaps, history>>

Timeout(r) ==
    /\ api[r] = "waiting" /\ age[r] >= AckTimeout
    /\ api' = [api EXCEPT ![r] = "timedout"]
    /\ UNCHANGED <<age, up, inbox, work, lock, lockAge, landed, mishaps, history>>

\* The answer, heard only by a caller that still waits.
Reply(r, a) == api' = IF api[r] = "waiting" THEN [api EXCEPT ![r] = a] ELSE api

----------------------------------------------------------------------------
(* A pod: the wks:mcpedit subscriber of apps/collab/src/index.ts *)

Stage(p, r, s) == work' = [work EXCEPT ![p][r] = s]

Take(p, r) == inbox' = [inbox EXCEPT ![p] = @ \ {r}]

\* The lock's life would outlast what is left of its caller's wait.
Tardy(r) == IF age[r] > AckTimeout - LockTTL THEN {r} ELSE {}

\* Mutated form: SET without NX, the later request takes the lock over.
ElectAnyway(p, r) ==
    /\ p \in up /\ r \in inbox[p] /\ Take(p, r)
    /\ lock' = r /\ lockAge' = 0 /\ Stage(p, r, "elected")
    /\ tardy' = tardy \cup Tardy(r)
    /\ UNCHANGED <<api, age, up, landed, mishaps, loose, unstored, unheard>>

\* SET NX PX: the first to arrive proceeds, a loser stays silent.
Elect(p, r) ==
    /\ p \in up /\ r \in inbox[p] /\ Take(p, r)
    /\ IF lock = NoReq
       THEN /\ lock' = r /\ lockAge' = 0 /\ Stage(p, r, "elected")
            /\ tardy' = tardy \cup Tardy(r)
       ELSE UNCHANGED <<work, lock, lockAge, tardy>>
    /\ UNCHANGED <<api, age, up, landed, mishaps, loose, unstored, unheard>>

\* SET itself fails: an answer without an election.
Balk(p, r) ==
    /\ p \in up /\ r \in inbox[p] /\ Take(p, r)
    /\ Reply(r, "refused")
    /\ UNCHANGED <<age, up, work, lock, lockAge, landed, mishaps, history>>

\* finally: the key is deleted, whoever's value it carries by now; a delete
\* that fails leaves it to expire.
Release(r) ==
    \/ /\ lock' = NoReq /\ lockAge' = 0
       /\ loose' = loose \cup ({lock} \ {r, NoReq})
    \/ UNCHANGED <<lock, lockAge, loose>>

\* Another tenant, no permission, or an edit that does not apply.
Refuse(p, r) ==
    /\ work[p][r] = "elected"
    /\ Reply(r, "refused") /\ Release(r) /\ Stage(p, r, "none")
    /\ UNCHANGED <<age, up, inbox, landed, mishaps, tardy, unstored, unheard>>

\* openDirectConnection and the Y.Text transaction, in memory.
Apply(p, r) ==
    /\ work[p][r] = "elected"
    /\ Stage(p, r, "applied")
    /\ UNCHANGED <<api, age, up, inbox, lock, lockAge, landed, mishaps, history>>

\* Mutated form: the answer leaves before the document is stored.
StoreAfterAnswer(p, r) ==
    /\ work[p][r] = "applied"
    /\ Reply(r, "ok")
    /\ Stage(p, r, "stored")
    /\ landed' \in {landed, [landed EXCEPT ![r] = @ + 1]}
    /\ UNCHANGED <<age, up, inbox, lock, lockAge, mishaps, history>>

\* disconnect() stores the document; a store that persists nothing (no row
\* matched, or an error, which is caught) does not change what follows.
Persist(p, r) ==
    /\ work[p][r] = "applied"
    /\ \/ landed' = [landed EXCEPT ![r] = @ + 1] /\ UNCHANGED <<mishaps, unstored>>
       \/ Mishap /\ unstored' = unstored \cup {r} /\ UNCHANGED landed
    /\ Stage(p, r, "stored")
    /\ UNCHANGED <<api, age, up, inbox, lock, lockAge, tardy, loose, unheard>>

\* The answer, whose publication may fail and nobody is told.
Finish(p, r) ==
    /\ work[p][r] = "stored"
    /\ \/ Reply(r, "ok") /\ UNCHANGED <<mishaps, unheard>>
       \/ Mishap /\ unheard' = unheard \cup {r} /\ UNCHANGED api
    /\ Release(r) /\ Stage(p, r, "none")
    /\ UNCHANGED <<age, up, inbox, landed, tardy, unstored>>

\* A pod dies: its messages, its handlers and the edit it had only in memory.
PodDies(p) ==
    /\ p \in up /\ Mishap
    /\ up' = up \ {p}
    /\ inbox' = [inbox EXCEPT ![p] = {}]
    /\ work' = [work EXCEPT ![p] = [r \in Requests |-> "none"]]
    /\ unheard' = unheard \cup {r \in Requests : work[p][r] = "stored"}
    /\ UNCHANGED <<api, age, lock, lockAge, landed, tardy, loose, unstored>>

Restart(p) ==
    /\ p \notin up
    /\ up' = up \cup {p}
    /\ UNCHANGED <<api, age, inbox, work, lock, lockAge, landed, mishaps, history>>

----------------------------------------------------------------------------
Ageing(r) == api[r] = "waiting" /\ age[r] < AckTimeout

\* Mutated form: the key has no time to live.
ExpireNever ==
    /\ lockAge' = IF lockAge < LockTTL THEN lockAge + 1 ELSE lockAge
    /\ UNCHANGED <<lock, loose>>

\* PX: the key goes when its time is over, whoever is still at work.
Expire ==
    IF lock = NoReq THEN UNCHANGED <<lock, lockAge, loose>>
    ELSE IF lockAge + 1 < LockTTL THEN lockAge' = lockAge + 1 /\ UNCHANGED <<lock, loose>>
    ELSE /\ lock' = NoReq /\ lockAge' = 0
         /\ loose' = IF \E p \in Pods : AtWork(p, lock) THEN loose \cup {lock} ELSE loose

Tick ==
    /\ lock # NoReq \/ \E r \in Requests : Ageing(r)
    /\ age' = [r \in Requests |-> IF Ageing(r) THEN age[r] + 1 ELSE age[r]]
    /\ Expire
    /\ UNCHANGED <<api, up, inbox, work, landed, mishaps, tardy, unstored, unheard>>

Caller(r) == Publish(r) \/ Timeout(r)
Handler(p, r) ==
    Elect(p, r) \/ Balk(p, r) \/ Refuse(p, r) \/ Apply(p, r) \/ Persist(p, r) \/ Finish(p, r)
Fault(p) == PodDies(p) \/ Restart(p)

EditNext ==
    \/ \E r \in Requests : Caller(r) \/ \E p \in Pods : Handler(p, r)
    \/ \E p \in Pods : Fault(p)
    \/ Tick

EditSpec == EditInit /\ [][EditNext]_editVars

\* Running handlers go on and time passes; a client need not call, and
\* nothing is promised of crashes.
Fairness ==
    /\ WF_editVars(Tick)
    /\ \A r \in Requests, p \in Pods : WF_editVars(Handler(p, r))

EditFairSpec == EditSpec /\ Fairness

----------------------------------------------------------------------------
\* Types; a pod that is down handles nothing.
EditTypeOK ==
    /\ api \in [Requests -> Calls]
    /\ age \in [Requests -> 0 .. AckTimeout]
    /\ up \subseteq Pods
    /\ inbox \in [Pods -> SUBSET Requests]
    /\ work \in [Pods -> [Requests -> Steps]]
    /\ lock \in Requests \cup {NoReq}
    /\ lockAge \in 0 .. LockTTL
    /\ landed \in [Requests -> Nat]
    /\ mishaps \in 0 .. MaxMishaps
    /\ tardy \subseteq Requests /\ loose \subseteq Requests
    /\ unstored \subseteq Requests /\ unheard \subseteq Requests
    /\ \A p \in Pods \ up, r \in Requests : ~AtWork(p, r) /\ r \notin inbox[p]

\* The election: two handlers between SET NX and their answers at once are
\* two of which one has lost the lock, because it outlived the time to live or
\* because one that had outlived it deleted the key of its successor.
OneAtATime ==
    \A p1, p2 \in Pods, r1, r2 \in Requests :
        AtWork(p1, r1) /\ AtWork(p2, r2) =>
            <<p1, r1>> = <<p2, r2>> \/ r1 \in loose \/ r2 \in loose

\* The answer a caller gets is true.  Told that the edit succeeded, it is in the
\* stored document, unless the store of this very edit kept nothing and said
\* nothing.  Told that the call timed out, which invites another, nothing of it
\* is in the document (the lock's time to live is shorter than the wait, as the
\* comments of both sides claim), unless it was elected late, went on without
\* the lock, or was stored and the answer lost, with the pod or on the way.
AnswersAreTrue ==
    \A r \in Requests :
        /\ api[r] = "ok" => landed[r] > 0 \/ r \in unstored
        /\ api[r] = "timedout" => landed[r] = 0 \/ r \in tardy \cup loose \cup unheard

\* A pod that dies while holding the lock does not close the page to edits.
LockComesFree == []<>(lock = NoReq)
=============================================================================
