-------------------------- MODULE ImportJobs_proofs --------------------------
(***************************************************************************)
(* Theorems about ImportJobs for every set of uploads, spaces and workers, *)
(* every size of archive and every window, whatever goes wrong and however *)
(* slow an import is once it runs.  The one thing asked of a worker is     *)
(* that it is not slow between its claim and the change to "running".      *)
(***************************************************************************)
EXTENDS ImportJobs, TLAPS

Begun == {"running"} \cup Settled

\* An upload that has no row yet has its archive.
StagedHasBytes == \A j \in Imports : status[j] = "staged" => j \in bytes

\* A worker is at an import exactly between its claim and the end of the pass.
JobAtWork ==
    \A w \in Workers : at[w].job = NoJob <=> at[w].step \in {"idle", "claim"}

\* Nobody else is at a worker's import.
SoleHolder ==
    \A v, w \in Workers : at[v].job = at[w].job /\ at[v].job # NoJob => v = w

\* A row that was just claimed is still queued, and its claim within the window.
ClaimHolds ==
    \A w \in Workers : at[w].step = "claimed" =>
        /\ status[at[w].job] = "queued"
        /\ claimed[at[w].job] # NoClaim /\ claimed[at[w].job] <= at[w].since
        /\ at[w].since <= Stale
        /\ at[w].made = 0

\* After that it runs, or somebody has settled it.
WorkBegun ==
    \A w \in Workers : at[w].step \notin {"idle", "claim", "claimed"} =>
        status[at[w].job] \in Begun

\* A run starts from no pages, and only of a row that left the queue.
RunsBegun ==
    /\ \A j \in Imports : IF runs[j] = 0 THEN pages[j] = 0 ELSE status[j] \in Begun
    /\ \A w \in Workers : at[w].step = "opening" =>
           runs[at[w].job] = 0 /\ at[w].made = 0
    /\ \A w \in Workers : at[w].step \in {"making", "attaching"} =>
           runs[at[w].job] # 0

\* The pages a worker remembers exist.
PagesKnown ==
    \A w \in Workers :
        LET made == at[w].made
            there == pages[at[w].job]
        IN /\ at[w].step = "making" => made < Nodes /\ there = made
           /\ at[w].step = "attaching" => made < Nodes /\ there = made + 1
           /\ at[w].step \in {"linking", "undoing"} => made <= there

IInv == /\ TypeOK
        /\ QueuedHasBytes /\ StagedHasBytes
        /\ JobAtWork /\ SoleHolder
        /\ ClaimHolds /\ WorkBegun
        /\ RunsOnce /\ RunsBegun /\ PagesKnown

\* Ageing stays within the ages there are.
LEMMA OlderInAges ==
    ASSUME NEW a \in Ages
    PROVE  Older(a) \in Ages /\ a <= Older(a) /\ (a < Stale => Older(a) = a + 1)
BY WindowAssumption DEF Ages, Older

\* The older of two stays the older.
LEMMA OlderMonotone ==
    ASSUME NEW a \in Ages, NEW b \in Ages, a <= b
    PROVE  Older(a) <= Older(b)
BY WindowAssumption DEF Ages, Older

\* What a worker may be at, the type of at[w].
Place == [step : Steps, job : Imports \cup {NoJob},
          made : 0 .. Nodes, cut : BOOLEAN, since : Ages]

\* The invariant holds at first.
LEMMA InitInv == Init => IInv
<1> SUFFICES ASSUME Init
             PROVE  IInv
    OBVIOUS
<1> USE ImportAssumption, NodesAssumption, WindowAssumption DEF Init
<1>1. \A w \in Workers : at[w] = Idle
      OBVIOUS
<1>2. TypeOK
  <2>1. Idle \in Place
        BY DEF Place, Idle, Steps, Ages
  <2>2. status \in [Imports -> Statuses] /\ mishaps \subseteq Kinds
        BY DEF Statuses
  <2> QED  BY <1>1, <2>1, <2>2 DEF TypeOK, Place, Idle
<1>3. JobAtWork /\ SoleHolder /\ ClaimHolds /\ WorkBegun /\ PagesKnown
      BY <1>1 DEF JobAtWork, SoleHolder, ClaimHolds, WorkBegun, PagesKnown, Idle
<1>4. QueuedHasBytes /\ StagedHasBytes /\ RunsOnce /\ RunsBegun
      BY <1>1 DEF QueuedHasBytes, StagedHasBytes, RunsOnce, RunsBegun, Idle
<1> QED  BY <1>2, <1>3, <1>4 DEF IInv

\* Every step keeps the invariant.
LEMMA StepInv ==
    ASSUME "claimed" \notin Slow
    PROVE  IInv /\ [Next]_vars => IInv'
<1> SUFFICES ASSUME IInv, [Next]_vars
             PROVE  IInv'
    OBVIOUS
<1> USE ImportAssumption, NodesAssumption, WindowAssumption, MishapAssumption
    DEF IInv, TypeOK, QueuedHasBytes, StagedHasBytes, JobAtWork, SoleHolder,
       ClaimHolds, WorkBegun, RunsOnce, RunsBegun, PagesKnown, rowVars, Move, Mishap,
       Statuses, Active, Settled, Begun, Steps, Writing, Idle, Place
<1>1. ASSUME NEW j \in Imports, Stage(j)
      PROVE  IInv'
      BY <1>1 DEF Stage
<1>2. ASSUME NEW j \in Imports, Insert(j)
      PROVE  IInv'
      BY <1>2 DEF Insert
<1>3. ASSUME NEW j \in Imports, Refuse(j)
      PROVE  IInv'
  <2>1. TypeOK'
        BY <1>3 DEF Refuse, Kinds
  <2>2. QueuedHasBytes' /\ StagedHasBytes' /\ RunsOnce' /\ RunsBegun'
        BY <1>3 DEF Refuse
  <2>3. JobAtWork' /\ SoleHolder' /\ ClaimHolds' /\ WorkBegun' /\ PagesKnown'
        BY <1>3 DEF Refuse, Kinds
  <2> QED  BY <2>1, <2>2, <2>3
<1>4. ASSUME NEW j \in Imports, Vanish(j)
      PROVE  IInv'
      BY <1>4 DEF Vanish, Kinds
<1>5. ASSUME NEW w \in Workers, Reap(w)
      PROVE  IInv'
  <2>1. /\ at[w].step = "idle" /\ at' = [at EXCEPT ![w].step = "claim"]
        /\ UNCHANGED <<keyed, claimed, bytes, pages, leaving, runs, mishaps>>
        BY <1>5 DEF Reap
  <2>2. /\ status' \in [Imports -> Statuses]
        /\ \A j \in Imports : status'[j] # status[j] =>
               status[j] = "running" /\ status'[j] = "failed"
        BY <1>5 DEF Reap
  <2>3. TypeOK'
    <3>1. at' \in [Workers -> Place]
          BY <2>1
    <3> QED  BY <2>1, <2>2, <3>1
  <2>4. QueuedHasBytes' /\ StagedHasBytes' /\ RunsOnce'
        BY <2>1, <2>2
  <2>5. JobAtWork' /\ SoleHolder'
        BY <2>1
  <2>6. ClaimHolds'
        BY <2>1, <2>2
  <2>7. WorkBegun'
        BY <2>1, <2>2
  <2>8. RunsBegun'
        BY <2>1, <2>2
  <2>9. PagesKnown'
        BY <2>1
  <2> QED  BY <2>3, <2>4, <2>5, <2>6, <2>7, <2>8, <2>9
<1>6. ASSUME NEW w \in Workers, Claim(w)
      PROVE  IInv'
  <2>1. \A v \in Workers \ {w} : at'[v] = at[v]
    <3>1. at \in [Workers -> Place]
          BY ONLY IInv DEF IInv, TypeOK, Place
    <3>2. \E p : at' = [at EXCEPT ![w] = p]
          BY ONLY <1>6 DEF Claim, Move
    <3> QED  BY ONLY <3>1, <3>2
  <2>2. CASE claimed' = claimed /\ at' = [at EXCEPT ![w].step = "idle"]
    <3>1. /\ at[w].step = "claim" /\ at'[w].step = "idle"
          /\ at'[w].job = at[w].job /\ at[w].job = NoJob
      <4>1. at[w].step = "claim"
            BY <1>6 DEF Claim
      <4> QED  BY <2>2, <4>1
    <3>2. UNCHANGED <<status, keyed, claimed, bytes, pages, leaving, runs, mishaps>>
          BY <1>6, <2>2 DEF Claim
    <3>3. TypeOK'
          BY <2>2, <3>1, <3>2
    <3>4. JobAtWork' /\ SoleHolder'
          BY <2>1, <3>1
    <3>5. ClaimHolds' /\ WorkBegun' /\ PagesKnown'
      <4>1. \A v \in Workers : at'[v] = at[v] \/ at'[v].step = "idle"
            BY <2>1, <3>1
      <4> QED  BY <3>2, <4>1
    <3>6. QueuedHasBytes' /\ StagedHasBytes' /\ RunsOnce' /\ RunsBegun'
          BY <2>1, <3>1, <3>2
    <3> QED  BY <3>3, <3>4, <3>5, <3>6
  <2>3. CASE \E j \in Imports :
               /\ Due(j) /\ claimed' = [claimed EXCEPT ![j] = 0]
               /\ at' = [at EXCEPT ![w] = [Idle EXCEPT !.step = "claimed",
                                                       !.job = j]]
    <3>1. PICK j \in Imports :
               /\ Due(j) /\ claimed' = [claimed EXCEPT ![j] = 0]
               /\ at' = [at EXCEPT ![w] = [Idle EXCEPT !.step = "claimed",
                                                       !.job = j]]
          BY <2>3
    <3>2. at'[w] = [step |-> "claimed", job |-> j, made |-> 0, cut |-> FALSE,
                    since |-> 0]
          BY <3>1
    <3>3. \A v \in Workers : at[v].job # j
          BY <3>1 DEF Due, Ages, NoClaim
    <3>4. UNCHANGED <<status, keyed, bytes, pages, leaving, runs, mishaps>>
          BY <1>6 DEF Claim
    <3>5. claimed' \in [Imports -> Ages \cup {NoClaim}] /\ claimed'[j] = 0
          BY <3>1 DEF Ages
    <3>6. TypeOK'
      <4>1. at'[w] \in Place
            BY <3>2 DEF Ages
      <4> QED  BY <3>1, <3>2, <3>4, <3>5, <2>1, <4>1
    <3>7. JobAtWork' /\ SoleHolder'
          BY <3>2, <3>3, <2>1
    <3>8. ClaimHolds'
      <4>1. \A v \in Workers \ {w} : claimed'[at[v].job] = claimed[at[v].job]
            BY <3>1, <3>3
      <4> QED  BY <3>1, <3>2, <3>4, <3>5, <2>1, <4>1 DEF Due, NoClaim
    <3>9. WorkBegun' /\ PagesKnown'
          BY <3>2, <3>4, <2>1
    <3>10. QueuedHasBytes' /\ StagedHasBytes' /\ RunsOnce' /\ RunsBegun'
          BY <3>2, <3>4, <2>1
    <3> QED  BY <3>6, <3>7, <3>8, <3>9, <3>10
  <2> QED  BY <1>6, <2>2, <2>3 DEF Claim, Due
<1>7. ASSUME NEW w \in Workers, Start(w)
      PROVE  IInv'
      BY <1>7 DEF Start
<1>8. ASSUME NEW w \in Workers, Clean(w)
      PROVE  IInv'
  <2>1. TypeOK'
    <3>1. Idle \in Place
          BY DEF Ages
    <3>2. bytes' \subseteq Imports /\ mishaps' \subseteq Kinds
          BY <1>8 DEF Clean, Kinds
    <3> QED  BY <1>8, <3>1, <3>2 DEF Clean
  <2>2. QueuedHasBytes' /\ StagedHasBytes' /\ RunsOnce' /\ RunsBegun'
        BY <1>8 DEF Clean, Kinds, Ages
  <2>3. JobAtWork' /\ SoleHolder' /\ ClaimHolds' /\ WorkBegun' /\ PagesKnown'
        BY <1>8 DEF Clean, Kinds, Ages
  <2> QED  BY <2>1, <2>2, <2>3
<1>9. ASSUME NEW w \in Workers, Open(w)
      PROVE  IInv'
  <2>1. /\ at[w].step = "opening" /\ at[w].made = 0
        /\ \/ /\ at' = [at EXCEPT ![w].step = "making"]
              /\ runs' = [runs EXCEPT ![at[w].job] = @ + 1]
           \/ at' = [at EXCEPT ![w].step = "failing"] /\ runs' = runs
        /\ UNCHANGED <<status, keyed, claimed, bytes, pages, leaving, mishaps>>
        BY <1>9 DEF Open
  <2>2. at[w].job \in Imports /\ runs[at[w].job] = 0
        BY <2>1
  <2>3. TypeOK'
        BY <2>1, <2>2
  <2>4. QueuedHasBytes' /\ StagedHasBytes' /\ RunsOnce'
        BY <2>1, <2>2
  <2>5. JobAtWork' /\ SoleHolder'
        BY <2>1
  <2>6. ClaimHolds' /\ WorkBegun'
        BY <2>1, <2>2
  <2>7. RunsBegun'
        BY <2>1, <2>2
  <2>8. PagesKnown'
        BY <2>1, <2>2
  <2> QED  BY <2>3, <2>4, <2>5, <2>6, <2>7, <2>8
<1>10. ASSUME NEW w \in Workers, Create(w)
      PROVE  IInv'
  <2>1. TypeOK'
        BY <1>10 DEF Create
  <2>2. QueuedHasBytes' /\ StagedHasBytes' /\ RunsOnce' /\ RunsBegun'
        BY <1>10 DEF Create
  <2>3. JobAtWork' /\ SoleHolder' /\ ClaimHolds' /\ WorkBegun' /\ PagesKnown'
        BY <1>10 DEF Create
  <2> QED  BY <2>1, <2>2, <2>3
<1>11. ASSUME NEW w \in Workers, Track(w)
      PROVE  IInv'
  <2> DEFINE j == at[w].job
             n == at[w].made + 1
  <2>1. /\ at[w].step = "attaching"
        /\ UNCHANGED <<status, keyed, bytes, pages, leaving, runs>>
        BY <1>11 DEF Track
  <2>2. j \in Imports /\ n \in 1 .. Nodes /\ pages[j] = n
        BY <2>1
  <2> DEFINE step == IF n = Nodes THEN "linking" ELSE "making"
  <2>3. PICK new \in Place :
            /\ at' = [at EXCEPT ![w] = new]
            /\ new.job = j /\ new.made = n
            /\ new.step = "undoing" \/ new.step = step
    <3>1. at[w] \in Place /\ n \in 0 .. Nodes /\ 0 \in Ages
          BY <2>2 DEF Ages
    <3>2. CASE at[w].cut
      <4>1. at' = [at EXCEPT ![w] = [at[w] EXCEPT !.step = "undoing", !.made = n]]
            BY <1>11, <3>2 DEF Track
      <4>2. "undoing" \in Steps
            OBVIOUS
      <4> DEFINE q == [at[w] EXCEPT !.step = "undoing", !.made = n]
      <4>3. q \in Place /\ q.step = "undoing" /\ q.job = j /\ q.made = n
            BY ONLY <3>1, <4>2 DEF Place
      <4> HIDE DEF q, step
      <4>4. at' = [at EXCEPT ![w] = q]
            BY ONLY <4>1 DEF q
      <4> QED  BY ONLY <4>3, <4>4
    <3>3. CASE ~at[w].cut
      <4>1. PICK seen \in {FALSE, leaving} :
               \/ at' = [at EXCEPT ![w] = [at[w] EXCEPT !.step = step, !.made = n,
                                                       !.cut = seen, !.since = 0]]
               \/ at' = [at EXCEPT ![w] = [at[w] EXCEPT !.step = step, !.made = n,
                                                       !.cut = seen]]
            BY ONLY <1>11, <3>3 DEF Track
      <4>2. step \in Steps /\ seen \in BOOLEAN
            OBVIOUS
      <4> DEFINE p == [at[w] EXCEPT !.step = step, !.made = n, !.cut = seen]
                 q == [at[w] EXCEPT !.step = step, !.made = n, !.cut = seen,
                                    !.since = 0]
      <4> HIDE DEF step
      <4>3. p \in Place /\ p.step = step /\ p.job = j /\ p.made = n
            BY ONLY <3>1, <4>2 DEF Place
      <4>4. q \in Place /\ q.step = step /\ q.job = j /\ q.made = n
            BY ONLY <3>1, <4>2 DEF Place
      <4> HIDE DEF p, q
      <4>5. at' = [at EXCEPT ![w] = p] \/ at' = [at EXCEPT ![w] = q]
            BY ONLY <4>1 DEF p, q
      <4> QED  BY ONLY <4>3, <4>4, <4>5
    <3> QED  BY <3>2, <3>3
  <2>4. /\ claimed' \in {claimed, [claimed EXCEPT ![j] = 0]}
        /\ mishaps' \subseteq Kinds
        BY <1>11 DEF Track, Kinds
  <2>5. TypeOK' /\ JobAtWork' /\ SoleHolder'
        BY <2>1, <2>2, <2>3, <2>4 DEF Ages
  <2>6. ClaimHolds'
    <3>1. \A v \in Workers \ {w} : at[v].step = "claimed" => at[v].job # j
          BY <2>1, <2>2
    <3>2. \A v \in Workers \ {w} : at[v].step = "claimed" =>
              at[v].job \in Imports /\ claimed'[at[v].job] = claimed[at[v].job]
      <4>1. \A v \in Workers : at[v].step = "claimed" => at[v].job \in Imports
            OBVIOUS
      <4>2. \A i \in Imports \ {j} : claimed'[i] = claimed[i]
            BY <2>2, <2>4
      <4> QED  BY ONLY <3>1, <4>1, <4>2
    <3>3. \A v \in Workers \ {w} : at'[v] = at[v]
          BY <2>3
    <3>4. at'[w].step # "claimed"
          BY <2>3
    <3> QED  BY <2>1, <3>2, <3>3, <3>4
  <2>7. WorkBegun' /\ RunsOnce'
        BY <2>1, <2>2, <2>3
  <2>8. QueuedHasBytes' /\ StagedHasBytes'
        BY <2>1
  <2>9. RunsBegun'
        BY <2>1, <2>2, <2>3
  <2>10. PagesKnown'
        BY <2>1, <2>2, <2>3
  <2> QED  BY <2>5, <2>6, <2>7, <2>8, <2>9, <2>10
<1>12. ASSUME NEW w \in Workers, Link(w)
      PROVE  IInv'
      BY <1>12 DEF Link
<1>13. ASSUME NEW w \in Workers, Undo(w)
      PROVE  IInv'
  <2>1. /\ at[w].step = "undoing" /\ mishaps' \subseteq Kinds
        /\ UNCHANGED <<status, keyed, claimed, bytes, leaving, runs>>
        BY <1>13 DEF Undo, Kinds
  <2>2. /\ at[w].job \in Imports /\ at[w].made <= pages[at[w].job]
        /\ at[w] \in Place /\ pages[at[w].job] \in 0 .. Nodes
        BY <2>1
  <2>3. \/ /\ at' = [at EXCEPT ![w].step = "failing"] /\ pages' = pages
        \/ /\ at' = [at EXCEPT ![w].made = @ - 1] /\ at[w].made # 0
           /\ pages' \in {pages, [pages EXCEPT ![at[w].job] = @ - 1]}
        BY <1>13 DEF Undo
  <2>4. PICK new \in Place :
            /\ at' = [at EXCEPT ![w] = new] /\ new.job = at[w].job
            /\ \/ new.step = "failing" /\ pages' = pages
               \/ /\ new.step = "undoing" /\ new.made = at[w].made - 1
                  /\ at[w].made # 0
                  /\ pages' \in {pages, [pages EXCEPT ![at[w].job] = @ - 1]}
    <3>1. CASE at' = [at EXCEPT ![w].step = "failing"] /\ pages' = pages
      <4> DEFINE q == [at[w] EXCEPT !.step = "failing"]
      <4>1. q \in Place /\ q.job = at[w].job /\ q.step = "failing"
            BY ONLY <2>2 DEF Place, Steps
      <4>2. at' = [at EXCEPT ![w] = q]
            BY ONLY <3>1
      <4> HIDE DEF q
      <4> QED  BY ONLY <3>1, <4>1, <4>2
    <3>2. CASE /\ at' = [at EXCEPT ![w].made = @ - 1] /\ at[w].made # 0
               /\ pages' \in {pages, [pages EXCEPT ![at[w].job] = @ - 1]}
      <4> DEFINE q == [at[w] EXCEPT !.made = @ - 1]
      <4>1. q \in Place /\ q.job = at[w].job /\ q.step = "undoing"
            /\ q.made = at[w].made - 1
            BY ONLY <2>1, <2>2, <3>2, NodesAssumption DEF Place
      <4>2. at' = [at EXCEPT ![w] = q]
            BY ONLY <3>2
      <4> HIDE DEF q
      <4> QED  BY ONLY <3>2, <4>1, <4>2
    <3> QED  BY ONLY <2>3, <3>1, <3>2
  <2>5. QueuedHasBytes' /\ StagedHasBytes' /\ RunsOnce'
        BY <2>1
  <2>6. JobAtWork' /\ SoleHolder'
        BY <2>1, <2>4
  <2>7. \A j \in Imports \ {at[w].job} : pages'[j] = pages[j]
        BY <2>2, <2>4
  <2>8. pages' \in [Imports -> 0 .. Nodes]
        BY <2>2, <2>4
  <2>9. TypeOK'
        BY <2>1, <2>2, <2>4, <2>8
  <2>10. ClaimHolds' /\ WorkBegun'
    <3>1. \A v \in Workers : \/ at'[v] = at[v]
                             \/ at'[v].step \in {"undoing", "failing"} /\ v = w
          BY <2>4
    <3> QED  BY <2>1, <2>2, <2>4, <3>1
  <2>11. RunsBegun'
        BY <2>1, <2>2, <2>4, <2>7
  <2>12. PagesKnown'
    <3>1. \A v \in Workers \ {w} :
              /\ at'[v] = at[v]
              /\ at[v].step \in Writing => pages'[at[v].job] = pages[at[v].job]
      <4>1. \A v \in Workers \ {w} : at'[v] = at[v]
            BY <2>4
      <4>2. \A v \in Workers \ {w} : at[v].job # at[w].job
            BY <2>2
      <4>3. \A v \in Workers : at[v].step \in Writing => at[v].job \in Imports
            BY ONLY IInv DEF IInv, TypeOK, Writing
      <4> QED  BY ONLY <2>7, <4>1, <4>2, <4>3
    <3>2. at'[w].step = "undoing" => at'[w].made <= pages'[at'[w].job]
          BY <2>2, <2>4
    <3> QED  BY <2>1, <2>4, <3>1, <3>2
  <2> QED  BY <2>5, <2>6, <2>9, <2>10, <2>11, <2>12
<1>14. ASSUME NEW w \in Workers, Settle(w)
      PROVE  IInv'
  <2>1. /\ at' = [at EXCEPT ![w].step = at'[w].step]
        /\ at'[w].step \in {"clean", "failing"}
        /\ mishaps' \subseteq Kinds
        BY <1>14 DEF Settle, Kinds
  <2>2. /\ \A i \in Imports : status'[i] # status[i] =>
                status[i] = "running" /\ status'[i] = "done" /\ i \notin keyed'
        /\ status' \in [Imports -> Statuses] /\ keyed' \subseteq Imports
        /\ \A i \in Imports : status[i] # "running" => (i \in keyed => i \in keyed')
        BY <1>14 DEF Settle, Verdict
  <2>3. UNCHANGED <<claimed, bytes, pages, leaving, runs>>
        BY <1>14 DEF Settle
  <2>4. at[w].step = "done"
        BY <1>14 DEF Settle
  <2>5. TypeOK'
    <3>1. at' \in [Workers -> Place]
          BY <2>1
    <3> QED  BY <2>1, <2>2, <2>3, <2>4, <3>1
  <2>6. QueuedHasBytes' /\ StagedHasBytes' /\ RunsOnce'
        BY <2>2, <2>3
  <2>7. JobAtWork' /\ SoleHolder'
        BY <2>1, <2>4
  <2>8. ClaimHolds'
        BY <2>1, <2>2, <2>3, <2>4
  <2>9. WorkBegun'
        BY <2>1, <2>2, <2>4
  <2>10. RunsBegun'
        BY <2>1, <2>2, <2>3, <2>4
  <2>11. PagesKnown'
        BY <2>1, <2>3, <2>4
  <2> QED  BY <2>5, <2>6, <2>7, <2>8, <2>9, <2>10, <2>11
<1>15. ASSUME NEW w \in Workers, Fail(w)
      PROVE  IInv'
  <2>1. /\ at[w].step = "failing"
        /\ at' = [at EXCEPT ![w].step = "clean"]
        /\ UNCHANGED <<claimed, bytes, pages, leaving, runs, mishaps>>
        BY <1>15 DEF Fail
  <2>2. \/ UNCHANGED <<status, keyed>>
        \/ /\ status[at[w].job] = "running"
           /\ status' = [status EXCEPT ![at[w].job] = "failed"]
           /\ keyed' = keyed \ {at[w].job}
        BY <1>15 DEF Fail, Verdict
  <2>3. TypeOK' /\ JobAtWork' /\ SoleHolder'
        BY <2>1, <2>2
  <2>4. QueuedHasBytes' /\ StagedHasBytes' /\ RunsOnce' /\ RunsBegun'
        BY <2>1, <2>2
  <2>5. ClaimHolds' /\ WorkBegun' /\ PagesKnown'
        BY <2>1, <2>2
  <2> QED  BY <2>3, <2>4, <2>5
<1>16. ASSUME NEW w \in Workers, Break(w)
      PROVE  IInv'
      BY <1>16 DEF Break, Kinds
<1>17. ASSUME NEW w \in Workers, Die(w)
      PROVE  IInv'
      BY <1>17 DEF Die, Kinds, Ages
<1>18. ASSUME ToggleLeaving
      PROVE  IInv'
      BY <1>18 DEF ToggleLeaving
<1>19. ASSUME PassTime
      PROVE  IInv'
  <2>1. /\ UNCHANGED <<status, keyed, bytes, pages, leaving, runs, mishaps>>
        /\ claimed' = [k \in Imports |-> IF claimed[k] = NoClaim THEN NoClaim
                                         ELSE Older(claimed[k])]
        /\ at' = [v \in Workers |-> IF at[v].job = NoJob THEN at[v]
                                    ELSE [at[v] EXCEPT !.since = Older(@)]]
        BY <1>19 DEF PassTime
  <2>2. \A v \in Workers : /\ at'[v].step = at[v].step /\ at'[v].job = at[v].job
                           /\ at'[v].made = at[v].made
        BY <2>1
  <2>3. TypeOK'
    <3>1. claimed' \in [Imports -> Ages \cup {NoClaim}]
          BY <2>1, OlderInAges
    <3>2. at' \in [Workers -> Place]
          BY <2>1, OlderInAges
    <3> QED  BY <2>1, <2>2, <3>1, <3>2
  <2>4. ClaimHolds'
    <3> SUFFICES ASSUME NEW v \in Workers, at[v].step = "claimed"
                 PROVE  LET k == at[v].job
                        IN /\ claimed'[k] # NoClaim /\ claimed'[k] <= at'[v].since
                           /\ at'[v].since <= Stale
        BY <2>1, <2>2
    <3>1. at[v].job \in Imports /\ claimed[at[v].job] \in Ages
      <4>1. at[v].job \in Imports
            OBVIOUS
      <4>2. claimed[at[v].job] # NoClaim
            OBVIOUS
      <4>3. claimed \in [Imports -> Ages \cup {NoClaim}]
            OBVIOUS
      <4> QED  BY ONLY <4>1, <4>2, <4>3
    <3>2. at[v].since < Stale
          BY <1>19 DEF PassTime, Prompt
    <3>3. /\ claimed'[at[v].job] = Older(claimed[at[v].job])
          /\ at'[v].since = Older(at[v].since)
          BY <2>1, <3>1
    <3>4. Older(at[v].since) = at[v].since + 1 /\ Older(claimed[at[v].job]) \in Ages
          BY <3>1, <3>2, OlderInAges
    <3>5. Older(claimed[at[v].job]) <= Older(at[v].since)
          BY <3>1, OlderMonotone
    <3> QED  BY <3>2, <3>3, <3>4, <3>5 DEF Ages, NoClaim
  <2>5. QueuedHasBytes' /\ StagedHasBytes' /\ JobAtWork' /\ SoleHolder'
        BY <2>1, <2>2
  <2>6. WorkBegun' /\ RunsOnce' /\ RunsBegun' /\ PagesKnown'
        BY <2>1, <2>2
  <2> QED  BY <2>3, <2>4, <2>5, <2>6
<1>20. CASE UNCHANGED vars
      BY <1>20 DEF vars
<1> QED  BY <1>1, <1>2, <1>3, <1>4, <1>5, <1>6, <1>7, <1>8, <1>9, <1>10, <1>11, <1>12,
            <1>13, <1>14, <1>15, <1>16, <1>17, <1>18, <1>19, <1>20
         DEF Next, Upload, Drain, Run

\* The inductive invariant holds of every behaviour.
THEOREM Invariance ==
    ASSUME "claimed" \notin Slow
    PROVE  Spec => []IInv
<1>1. IInv /\ [Next]_vars => IInv'
      BY StepInv
<1> QED  BY <1>1, InitInv, PTL DEF Spec

\* Every variable keeps its type: in particular no import ever has more pages
\* than its archive, nor fewer than none.
THEOREM TypeCorrect ==
    ASSUME "claimed" \notin Slow
    PROVE  Spec => []TypeOK
<1>1. IInv => TypeOK
      BY DEF IInv
<1> QED  BY <1>1, Invariance, PTL

\* An import that waits for a worker has its archive.
THEOREM BytesBeforeRow ==
    ASSUME "claimed" \notin Slow
    PROVE  Spec => []QueuedHasBytes
<1>1. IInv => QueuedHasBytes
      BY DEF IInv
<1> QED  BY <1>1, Invariance, PTL

\* No archive is opened by a second run, whoever dies or is reaped alive.
THEOREM RunOnce ==
    ASSUME "claimed" \notin Slow
    PROVE  Spec => []RunsOnce
<1>1. IInv => RunsOnce
      BY DEF IInv
<1> QED  BY <1>1, Invariance, PTL

\* A settled import keeps its verdict: only the reaper and the two guarded
\* verdicts write over "running", and what is claimed is still queued.
THEOREM VerdictsStay ==
    ASSUME "claimed" \notin Slow
    PROVE  Spec => VerdictFinal
<1>1. IInv /\ [Next]_vars =>
         [\A j \in Imports : status[j] \in Settled => status'[j] = status[j]]_vars
  <2> SUFFICES ASSUME IInv, [Next]_vars, NEW j \in Imports, status[j] \in Settled
               PROVE  status'[j] = status[j]
      OBVIOUS
  <2> USE DEF IInv, TypeOK, Settled, Active, Move
  <2>1. ASSUME NEW i \in Imports, Upload(i)
        PROVE  status'[j] = status[j]
        BY <2>1 DEF Upload, Stage, Insert, Refuse, Vanish
  <2>2. ASSUME NEW w \in Workers, Start(w)
        PROVE  status'[j] = status[j]
        BY <2>2 DEF Start, ClaimHolds
  <2>3. ASSUME NEW w \in Workers, Reap(w)
        PROVE  status'[j] = status[j]
        BY <2>3 DEF Reap
  <2>4. ASSUME NEW w \in Workers, Settle(w) \/ Fail(w)
        PROVE  status'[j] = status[j]
        BY <2>4 DEF Settle, Fail, Verdict
  <2>5. ASSUME NEW w \in Workers,
               \/ Claim(w) \/ Clean(w) \/ Open(w) \/ Create(w) \/ Track(w)
               \/ Link(w) \/ Undo(w) \/ Break(w) \/ Die(w)
        PROVE  UNCHANGED status
        BY <2>5 DEF Claim, Clean, Open, Create, Track, Link, Undo, Break, Die, rowVars
  <2>6. ASSUME ToggleLeaving \/ PassTime \/ UNCHANGED vars
        PROVE  UNCHANGED status
        BY <2>6 DEF ToggleLeaving, PassTime, vars, rowVars
  <2> QED  BY <2>1, <2>2, <2>3, <2>4, <2>5, <2>6 DEF Next, Drain, Run
<1> QED  BY <1>1, Invariance, PTL DEF Spec, VerdictFinal
(* All the pages or none *)

\* What AllOrNothing leaves out has not happened.
Mild == mishaps \cap {"crash", "page", "attachment"} = {}

\* An import nobody is at: not running, and whole or empty once it is settled.
Ended(st, n) ==
    /\ st # "running"
    /\ st \in Settled => n \in (IF st = "done" THEN {Nodes} ELSE {0, Nodes})

\* An import a worker is at, by the place of the worker.
Counted(p, st, n) ==
    /\ p.step = "undoing" => n = p.made
    /\ p.step = "linking" => p.made = Nodes
    /\ p.step \in {"linking", "done"} => n = Nodes
    /\ p.step = "failing" => n \in {0, Nodes}
    /\ IF p.step = "clean" THEN st \in Settled /\ Ended(st, n) ELSE st # "done"

Whole ==
    Mild =>
        /\ \A w \in Workers : at[w].job # NoJob =>
               Counted(at[w], status[at[w].job], pages[at[w].job])
        /\ \A j \in Imports :
               (\A w \in Workers : at[w].job # j) => Ended(status[j], pages[j])

\* What the invariant says of the row a worker is at.
LEMMA AtWork ==
    ASSUME IInv, NEW w \in Workers, at[w].job # NoJob
    PROVE  /\ at[w].job \in Imports
           /\ status[at[w].job] \in Begun \cup {"queued"}
           /\ at[w].step \in {"idle", "claim", "claimed"} \/ status[at[w].job] \in Begun
           /\ at[w].step \notin {"idle", "claim"}
           /\ \A v \in Workers \ {w} : at[v].job # at[w].job
BY DEF IInv, TypeOK, ClaimHolds, WorkBegun, JobAtWork, SoleHolder

\* A worker's step about its own import concerns nobody else.
LEMMA OwnStep ==
    ASSUME IInv, Whole, Mild, NEW w \in Workers, at[w].job # NoJob,
           \A v \in Workers \ {w} : at'[v] = at[v],
           \A j \in Imports \ {at[w].job} : status'[j] = status[j] /\ pages'[j] = pages[j],
           \/ /\ at'[w].job = at[w].job
              /\ Counted(at'[w], status'[at[w].job], pages'[at[w].job])
           \/ /\ at'[w].job = NoJob
              /\ Ended(status'[at[w].job], pages'[at[w].job])
    PROVE  Whole'
<1> DEFINE k == at[w].job
<1>1. k \in Imports /\ \A v \in Workers \ {w} : at[v].job # k
      BY AtWork
<1>2. \A v \in Workers : at[v].job \in Imports \cup {NoJob}
      BY DEF IInv, TypeOK
<1> HIDE DEF k
<1>3. ASSUME NEW v \in Workers, at'[v].job # NoJob
      PROVE  Counted(at'[v], status'[at'[v].job], pages'[at'[v].job])
  <2>1. CASE v = w
        BY <1>3, <2>1
  <2>2. CASE v # w
    <3>1. at'[v] = at[v] /\ at[v].job \in Imports \ {k}
          BY <1>1, <1>2, <1>3, <2>2
    <3>2. status'[at[v].job] = status[at[v].job] /\ pages'[at[v].job] = pages[at[v].job]
          BY <3>1 DEF k
    <3> QED  BY <1>3, <3>1, <3>2 DEF Whole
  <2> QED  BY <2>1, <2>2
<1>4. ASSUME NEW j \in Imports, \A v \in Workers : at'[v].job # j
      PROVE  Ended(status'[j], pages'[j])
  <2>1. CASE j = k
        BY <1>4, <2>1 DEF k
  <2>2. CASE j # k
    <3>1. \A v \in Workers : at[v].job # j
          BY <1>4, <2>2 DEF k
    <3>2. Ended(status[j], pages[j])
          BY <3>1 DEF Whole
    <3> QED  BY <2>2, <3>2 DEF k
  <2> QED  BY <2>1, <2>2
<1> QED  BY <1>3, <1>4 DEF Whole

\* Who is at work on a row nobody has begun has just claimed it.
LEMMA UploadWhole ==
    ASSUME IInv, Whole, Mild, NEW j \in Imports, Upload(j)
    PROVE  Whole'
<1>1. /\ status[j] \in {"none", "staged"}
      /\ status' = [status EXCEPT ![j] = status'[j]]
      /\ status'[j] \in {"staged", "queued", "refused"}
      /\ UNCHANGED <<at, pages>>
      BY DEF Upload, Stage, Insert, Refuse, Vanish, IInv, TypeOK
<1>2. \A w \in Workers : at[w].job # j
      BY <1>1, AtWork, ImportAssumption DEF Begun, Settled
<1>3. \A i \in Imports \ {j} : status'[i] = status[i]
      BY <1>1 DEF IInv, TypeOK
<1>4. ASSUME NEW w \in Workers, at[w].job # NoJob
      PROVE  Counted(at[w], status'[at[w].job], pages[at[w].job])
      BY <1>2, <1>3, <1>4, AtWork DEF Whole
<1>5. ASSUME NEW i \in Imports, \A w \in Workers : at[w].job # i
      PROVE  Ended(status'[i], pages[i])
  <2>1. CASE i = j
        BY <1>1, <2>1 DEF Ended, Settled
  <2>2. CASE i # j
        BY <1>3, <1>5, <2>2 DEF Whole
  <2> QED  BY <2>1, <2>2
<1> QED  BY <1>1, <1>4, <1>5 DEF Whole

\* The reaper settles what somebody is at, or was when a crash took it.
LEMMA ReapWhole ==
    ASSUME IInv, Whole, Mild, NEW w \in Workers, Reap(w)
    PROVE  Whole'
<1>1. /\ at[w].step = "idle" /\ at[w].job = NoJob
      /\ at' = [at EXCEPT ![w].step = "claim"] /\ pages' = pages
      /\ \A j \in Imports : \/ status'[j] = status[j]
                            \/ status[j] = "running" /\ status'[j] = "failed"
      BY DEF Reap, Move, IInv, JobAtWork
<1>2. /\ \A v \in Workers \ {w} : at'[v] = at[v]
      /\ at'[w].job = NoJob
      BY <1>1 DEF IInv, TypeOK
<1>3. ASSUME NEW v \in Workers, at'[v].job # NoJob
      PROVE  Counted(at'[v], status'[at'[v].job], pages'[at'[v].job])
  <2>1. at'[v] = at[v] /\ at[v].job \in Imports
        BY <1>2, <1>3, AtWork
  <2>2. Counted(at[v], status[at[v].job], pages[at[v].job])
        BY <1>3, <2>1 DEF Whole
  <2> QED  BY <1>1, <2>1, <2>2 DEF Counted, Settled
<1>4. ASSUME NEW j \in Imports, \A v \in Workers : at'[v].job # j
      PROVE  Ended(status'[j], pages'[j])
  <2>1. \A v \in Workers : at[v].job # j
        BY <1>1, <1>2, <1>4, ImportAssumption
  <2>2. Ended(status[j], pages[j])
        BY <2>1 DEF Whole
  <2> QED  BY <1>1, <2>2 DEF Ended
<1> QED  BY <1>3, <1>4 DEF Whole

\* What is claimed is queued.
LEMMA ClaimWhole ==
    ASSUME IInv, Whole, Mild, NEW w \in Workers, Claim(w)
    PROVE  Whole'
<1>1. /\ at[w].step = "claim" /\ at[w].job = NoJob /\ UNCHANGED <<status, pages>>
      BY DEF Claim, IInv, JobAtWork
<1>2. PICK p : /\ at' = [at EXCEPT ![w] = p]
               /\ \/ p.job = NoJob
                  \/ p.job \in Imports /\ p.step = "claimed" /\ status[p.job] = "queued"
  <2>1. CASE at' = [at EXCEPT ![w].step = "idle"]
    <3>1. at' = [at EXCEPT ![w] = [at[w] EXCEPT !.step = "idle"]]
          BY <2>1
    <3>2. [at[w] EXCEPT !.step = "idle"].job = NoJob
          BY <1>1 DEF IInv, TypeOK
    <3> QED  BY <3>1, <3>2
  <2>2. CASE \E j \in Imports :
               /\ Due(j) /\ at' = [at EXCEPT ![w] = [Idle EXCEPT !.step = "claimed",
                                                                 !.job = j]]
    <3>1. PICK j \in Imports :
               /\ Due(j) /\ at' = [at EXCEPT ![w] = [Idle EXCEPT !.step = "claimed",
                                                                 !.job = j]]
          BY <2>2
    <3> DEFINE p == [Idle EXCEPT !.step = "claimed", !.job = j]
    <3>2. p.job = j /\ p.step = "claimed"
          BY DEF Idle
    <3>3. at' = [at EXCEPT ![w] = p] /\ status[j] = "queued"
          BY <3>1 DEF Due
    <3> HIDE DEF p
    <3> QED  BY <3>2, <3>3
  <2> QED  BY <2>1, <2>2 DEF Claim, Move
<1>3. at'[w] = p /\ \A v \in Workers \ {w} : at'[v] = at[v]
      BY <1>2 DEF IInv, TypeOK
<1>4. ASSUME NEW v \in Workers, at'[v].job # NoJob
      PROVE  Counted(at'[v], status'[at'[v].job], pages'[at'[v].job])
      BY <1>1, <1>2, <1>3, <1>4 DEF Whole, Counted
<1>5. ASSUME NEW j \in Imports, \A v \in Workers : at'[v].job # j
      PROVE  Ended(status'[j], pages'[j])
  <2>1. \A v \in Workers : at[v].job # j
        BY <1>1, <1>3, <1>5, ImportAssumption
  <2> QED  BY <1>1, <2>1 DEF Whole
<1> QED  BY <1>4, <1>5 DEF Whole

\* The steps of a worker that leave pages alone.
LEMMA PassWhole ==
    ASSUME IInv, Whole, Mild, NEW w \in Workers,
           Start(w) \/ Clean(w) \/ Open(w) \/ Link(w) \/ Settle(w) \/ Fail(w)
    PROVE  Whole'
<1> DEFINE k == at[w].job
<1>1. at[w].step \notin {"idle", "claim"} /\ k \in Imports
      BY AtWork DEF Start, Clean, Open, Link, Settle, Fail, IInv, JobAtWork
<1>2. k # NoJob /\ Counted(at[w], status[k], pages[k]) /\ pages' = pages
      BY <1>1, ImportAssumption
         DEF Whole, Start, Clean, Open, Link, Settle, Fail, rowVars
<1>3. at \in [Workers -> Place] /\ status \in [Imports -> Statuses]
      BY DEF IInv, TypeOK, Place
<1> HIDE DEF k
<1> USE DEF Counted, Ended, Settled
<1>4. /\ \A v \in Workers \ {w} : at'[v] = at[v]
      /\ \A j \in Imports \ {k} : status'[j] = status[j]
      BY <1>3 DEF k, Start, Clean, Open, Link, Settle, Fail, Verdict, Move, rowVars
<1>5. ASSUME Clean(w)
      PROVE  at'[w].job = NoJob /\ Ended(status'[k], pages'[k])
      BY <1>2, <1>3, <1>5 DEF Clean, Idle, rowVars
<1>6. ASSUME Start(w)
      PROVE  at'[w].job = k /\ Counted(at'[w], status'[k], pages'[k])
      BY <1>1, <1>2, <1>3, <1>6 DEF k, Start, Move, Place
<1>7. ASSUME Open(w)
      PROVE  at'[w].job = k /\ Counted(at'[w], status'[k], pages'[k])
  <2>1. at[w].step = "opening" /\ pages[k] = 0 /\ status' = status
        BY <1>1, <1>7 DEF k, Open, IInv, RunsBegun, rowVars
  <2>2. at'[w].job = k /\ at'[w].step \in {"making", "failing"}
        BY <1>3, <1>7 DEF k, Open, Move, Place
  <2> QED  BY <1>2, <2>1, <2>2
<1>8. ASSUME Link(w)
      PROVE  at'[w].job = k /\ Counted(at'[w], status'[k], pages'[k])
      BY <1>2, <1>3, <1>8 DEF k, Link, Move, Place, rowVars
<1>9. status[k] \in Begun \/ at[w].step \in {"idle", "claim", "claimed"}
      BY <1>2, AtWork DEF k
<1>10. ASSUME Settle(w)
       PROVE  at'[w].job = k /\ Counted(at'[w], status'[k], pages'[k])
  <2>1. at[w].step = "done" /\ at'[w].job = k
        BY <1>3, <1>10 DEF k, Settle, Move, Place
  <2>2. CASE at'[w].step = "failing" /\ status' = status
        BY <1>2, <2>1, <2>2
  <2>3. CASE at'[w].step = "clean" /\ Verdict(k, "done")
    <3>1. status'[k] = IF status[k] = "running" THEN "done" ELSE status[k]
          BY <1>1, <1>3, <2>3 DEF Verdict
    <3> QED  BY <1>2, <1>9, <2>1, <2>3, <3>1 DEF Begun
  <2> QED  BY <1>3, <1>10, <2>2, <2>3 DEF k, Settle, Move, Place
<1>11. ASSUME Fail(w)
       PROVE  at'[w].job = k /\ Counted(at'[w], status'[k], pages'[k])
  <2>1. at[w].step = "failing" /\ at'[w].job = k /\ at'[w].step = "clean"
        BY <1>3, <1>11 DEF k, Fail, Move, Place
  <2>2. status'[k] = IF status[k] = "running" THEN "failed" ELSE status[k]
        BY <1>1, <1>3, <1>11 DEF k, Fail, Verdict
  <2> QED  BY <1>2, <1>9, <2>1, <2>2 DEF Begun
<1> QED  BY <1>2, <1>4, <1>5, <1>6, <1>7, <1>8, <1>10, <1>11, OwnStep DEF k

\* The steps that create and delete pages, and the error that leads there.
LEMMA PagesWhole ==
    ASSUME IInv, Whole, Mild, Mild', NEW w \in Workers,
           Create(w) \/ Track(w) \/ Undo(w) \/ Break(w)
    PROVE  Whole'
<1> DEFINE k == at[w].job
           st == status[k]
<1>1. /\ k \in Imports /\ k # NoJob /\ status' = status
      /\ at[w].step \notin {"idle", "claim"}
      BY AtWork, ImportAssumption
         DEF Create, Track, Undo, Break, IInv, JobAtWork, rowVars
<1>2. Counted(at[w], st, pages[k])
      BY <1>1 DEF Whole
<1>3. at \in [Workers -> Place] /\ pages \in [Imports -> 0 .. Nodes]
      BY DEF IInv, TypeOK, Place
<1> HIDE DEF k, st
<1>4. /\ \A v \in Workers \ {w} : at'[v] = at[v]
      /\ \A j \in Imports \ {k} : pages'[j] = pages[j]
      BY <1>3 DEF k, Create, Track, Undo, Break, Move, rowVars
<1> USE DEF Counted
<1>5. ASSUME Create(w)
      PROVE  at'[w].job = k /\ Counted(at'[w], st, pages'[k])
      BY <1>2, <1>3, <1>5 DEF k, Create, Move, Place
<1>6. ASSUME Track(w)
      PROVE  at'[w].job = k /\ Counted(at'[w], st, pages'[k])
  <2>1. at[w].step = "attaching" /\ pages[k] = at[w].made + 1 /\ pages' = pages
        BY <1>6 DEF k, Track, IInv, PagesKnown
  <2>2. /\ at'[w].job = k /\ at'[w].made = at[w].made + 1
        /\ \/ at'[w].step \in {"undoing", "making"}
           \/ at'[w].step = "linking" /\ at[w].made + 1 = Nodes
    <3> DEFINE n == at[w].made + 1
               step == IF n = Nodes THEN "linking" ELSE "making"
    <3>1. \/ at' = [at EXCEPT ![w] = [at[w] EXCEPT !.step = "undoing", !.made = n]]
          \/ \E seen : \/ at' = [at EXCEPT ![w] = [at[w] EXCEPT !.step = step, !.made = n,
                                                            !.cut = seen, !.since = 0]]
                      \/ at' = [at EXCEPT ![w] = [at[w] EXCEPT !.step = step, !.made = n,
                                                            !.cut = seen]]
          BY ONLY <1>6 DEF Track
    <3> HIDE DEF n, step
    <3>2. at[w] \in Place /\ at[w].job = k
          BY <1>3 DEF k
    <3>3. CASE at' = [at EXCEPT ![w] = [at[w] EXCEPT !.step = "undoing", !.made = n]]
      <4>1. at'[w] = [at[w] EXCEPT !.step = "undoing", !.made = n]
            BY ONLY <1>3, <3>3
      <4> QED  BY ONLY <3>2, <4>1 DEF Place, n
    <3>4. ASSUME NEW seen,
                 \/ at' = [at EXCEPT ![w] = [at[w] EXCEPT !.step = step, !.made = n,
                                                          !.cut = seen, !.since = 0]]
                 \/ at' = [at EXCEPT ![w] = [at[w] EXCEPT !.step = step, !.made = n,
                                                          !.cut = seen]]
          PROVE  at'[w].job = k /\ at'[w].made = n /\ at'[w].step = step
      <4>1. \/ at'[w] = [at[w] EXCEPT !.step = step, !.made = n, !.cut = seen, !.since = 0]
            \/ at'[w] = [at[w] EXCEPT !.step = step, !.made = n, !.cut = seen]
            BY ONLY <1>3, <3>4
      <4> QED  BY ONLY <3>2, <4>1 DEF Place
    <3>5. step \in {"linking", "making"} /\ (step = "linking" => n = Nodes)
          BY DEF step
    <3> QED  BY <3>1, <3>3, <3>4, <3>5 DEF n
  <2> QED  BY <1>2, <2>1, <2>2
<1>7. ASSUME Undo(w)
      PROVE  at'[w].job = k /\ Counted(at'[w], st, pages'[k])
  <2>1. at[w].step = "undoing" /\ pages[k] = at[w].made
        BY <1>2, <1>7 DEF Undo
  <2>2. CASE at[w].made = 0
        BY <1>2, <1>3, <1>7, <2>1, <2>2 DEF k, Undo, Move, Place
  <2>3. CASE at[w].made # 0
    <3>1. pages' = [pages EXCEPT ![k] = @ - 1]
          BY <1>7, <2>3 DEF k, Undo, Mishap, Mild
    <3>2. at'[w].job = k /\ at'[w].step = "undoing" /\ at'[w].made = at[w].made - 1
          BY <1>3, <1>7, <2>1, <2>3 DEF k, Undo, Place
    <3> QED  BY <1>1, <1>2, <1>3, <2>1, <3>1, <3>2
  <2> QED  BY <2>2, <2>3
<1>8. ASSUME Break(w)
      PROVE  at'[w].job = k /\ Counted(at'[w], st, pages'[k])
  <2>1. at[w].step \in {"opening", "making", "linking"}
        BY <1>8 DEF Break, Mishap, Mild
  <2>2. pages[k] = at[w].made
        BY <1>1, <1>2, <2>1 DEF k, IInv, RunsBegun, PagesKnown
  <2>3. at'[w].job = k /\ at'[w].step = "undoing" /\ at'[w].made = at[w].made
        /\ pages' = pages
        BY <1>3, <1>8 DEF k, Break, Move, Place
  <2> QED  BY <1>2, <2>1, <2>2, <2>3
<1> QED  BY <1>1, <1>4, <1>5, <1>6, <1>7, <1>8, OwnStep DEF k, st

\* Whatever happens, what went wrong is remembered.
LEMMA MishapsStay == [Next]_vars => mishaps \subseteq mishaps'
BY DEF Next, Upload, Stage, Insert, Refuse, Vanish, Drain, Reap, Claim, Start, Clean, Run,
       Open, Create, Track, Link, Undo, Settle, Fail, Break, Die, ToggleLeaving, PassTime,
       vars, Mishap

\* Every step keeps imports whole.
LEMMA WholeStep ==
    ASSUME IInv, Whole, [Next]_vars
    PROVE  Whole'
<1> SUFFICES ASSUME Mild'
             PROVE  Whole'
    BY DEF Whole
<1>1. Mild
      BY MishapsStay DEF Mild
<1>2. ASSUME ToggleLeaving \/ PassTime \/ UNCHANGED vars
      PROVE  Whole'
  <2>1. /\ UNCHANGED <<status, pages>>
        /\ \A w \in Workers : /\ at'[w].step = at[w].step /\ at'[w].job = at[w].job
                              /\ at'[w].made = at[w].made
        BY <1>2 DEF ToggleLeaving, PassTime, vars, rowVars, IInv, TypeOK
  <2> QED  BY <1>1, <2>1 DEF Whole, Counted, Ended
<1>3. \A w \in Workers : ~Die(w)
      BY DEF Die, Mishap, Mild
<1> QED  BY <1>1, <1>2, <1>3, UploadWhole, ReapWhole, ClaimWhole, PassWhole, PagesWhole
            DEF Next, Drain, Run

\* A partial import never lingers: once nobody is at it, an import has all its
\* pages or none, and all if it says so.
THEOREM NothingLingers ==
    ASSUME "claimed" \notin Slow
    PROVE  Spec => []AllOrNothing
<1>1. Init => Whole
      BY DEF Init, Whole, Idle, Ended, Settled
<1>2. IInv /\ Whole /\ [Next]_vars => Whole'
      BY WholeStep
<1>3. Whole => AllOrNothing
      BY DEF Whole, AllOrNothing, Mild, At, Ended
<1> QED  BY <1>1, <1>2, <1>3, Invariance, PTL DEF Spec
=============================================================================
