------------------------- MODULE LiveDocument_proofs -------------------------
(***************************************************************************)
(* Theorems about LiveDocument for every set of tabs and operations, every *)
(* number of retries, publications and mishaps, whatever runs beside what. *)
(*                                                                         *)
(* Types: TInv also says that nothing is anywhere that nobody made, and    *)
(* that a lane or a tab at rest holds nothing.                             *)
(*                                                                         *)
(* Edits and publications: the argument follows one operation e.  Safe(e)  *)
(* says where else e is when a place that may empty has it: what is loaded *)
(* and what an unarmed pod holds is in the draft, or in the store under    *)
(* way, or accounted for (excused); and where an operation a publication   *)
(* wants is at each step of it.  Knows(m, s, e) is "e is in Known(s)" with *)
(* the map made as a parameter, since making an operation changes made     *)
(* everywhere else.                                                        *)
(*                                                                         *)
(* Blanking: Seeing says what a store that passed the check may still do   *)
(* to the row it looked at.  Doubling: of two operations that bring one    *)
(* piece, one knows the other (Linked) or the piece is accounted for       *)
(* (twice); who knows it wipes it, or is its compaction, and no state has  *)
(* both a compaction and what it replaced (Single).                        *)
(***************************************************************************)
EXTENDS LiveDocument, FiniteSetTheorems, TLAPS

\* An operation that was made brings something, a state holds only such.
Sound(m, s) == s \in Docs /\ \A o \in s : m[o] # None

Lane == [step : {"none", "check", "update"}, state : Docs,
         tries : 0 .. Retries, asker : 0 .. MaxPublishes, seen : Docs]
Publication == [step : {"none", "flushing", "read", "noop", "commit"},
                want : Docs, state : Docs, acked : BOOLEAN]
Restoring == [step : {"none", "commit", "signal"}, op : Ops \cup {None}, base : Docs]

\* The types, in full.
Types ==
    /\ made \in [Ops -> Pieces \cup {None}]
    /\ tab \in [Tabs -> {"closed", "joined", "offline"}]
    /\ copy \in [Tabs -> Docs]
    /\ doc \in Docs \cup {None} /\ dirty \in BOOLEAN
    /\ asked \subseteq 1 .. MaxPublishes
    /\ load \in [step : {"none", "read", "compacting"}, base : Docs]
    /\ write \in [Lanes -> Lane]
    /\ ydoc \in Docs /\ badge \in BOOLEAN /\ history \subseteq Docs
    /\ pub \in Publication /\ rst \in Restoring
    /\ pubs \in 0 .. MaxPublishes /\ mishaps \in 0 .. MaxMishaps
    /\ excused \subseteq Ops /\ twice \subseteq Typed

\* Nothing is anywhere that nobody made.
AllMade ==
    /\ Sound(made, ydoc) /\ (doc # None => Sound(made, doc))
    /\ \A t \in Tabs : Sound(made, copy[t])
    /\ Sound(made, load.base)
    /\ \A w \in Lanes : Sound(made, write[w].state)
    /\ Sound(made, rst.base)
    /\ rst.step # "none" => rst.op \in Ops /\ made[rst.op] # None

\* A document that is joined, or has a store armed, is resident.
Attended == (dirty \/ \E t \in Tabs : tab[t] = "joined") => doc # None

TInv == Types /\ AllMade /\ Attended

\* Making an operation leaves sound states sound, with or without it.
LEMMA NewSound ==
    ASSUME made \in [Ops -> Pieces \cup {None}],
           NEW o \in Ops, NEW rec \in Pieces, New(o, rec)
    PROVE  /\ made' \in [Ops -> Pieces \cup {None}]
           /\ made'[o] = rec /\ made'[o] # None
           /\ \A k \in Ops : made[k] # None => made'[k] = made[k]
           /\ \A s : Sound(made, s) => Sound(made', s) /\ Sound(made', s \cup {o})
           /\ Sound(made', {o})
           /\ (twice \subseteq Typed => twice' \subseteq Typed)
<1>2. twice \subseteq Typed => twice' \subseteq Typed
      BY DEF New, Unseen, Pieces
<1>1. /\ made' \in [Ops -> Pieces \cup {None}] /\ made[o] = None
      /\ made'[o] = rec /\ made'[o] # None
      /\ \A k \in Ops : made[k] # None => made'[k] = made[k]
      BY NoneAssumption DEF New
<1> QED  BY <1>1, <1>2 DEF Sound, Docs

\* What a state knows of is made of operations.
LEMMA KnownInDocs ==
    ASSUME made \in [Ops -> Pieces \cup {None}], NEW s, Sound(made, s)
    PROVE  Known(s) \in Docs
<1>1. \A o \in s : made[o].over \in Docs
      BY DEF Sound, Docs, Pieces
<1> QED  BY <1>1 DEF Sound, Docs, Known

\* Only typed text can be seen.
LEMMA ShowsTyped == \A s : Shows(s) \subseteq Typed
BY DEF Shows, Visible

\* What is at rest is well typed.
LEMMA Defaults ==
    /\ {} \in Docs /\ NoWrite \in Lane /\ NoPub \in Publication /\ NoRst \in Restoring
    /\ Cold \in [step : {"none", "read", "compacting"}, base : Docs]
<1>1. {} \in Docs /\ 0 \in 0 .. Retries /\ 0 \in 0 .. MaxPublishes
      BY LiveBoundAssumption DEF Docs
<1> QED  BY <1>1 DEF NoWrite, Lane, NoPub, Publication, NoRst, Restoring, Cold

\* An answer to a flush keeps the publication well typed.
LEMMA AnswerTyped ==
    ASSUME pub \in Publication, NEW n, NEW b \in BOOLEAN, Answer(n, b)
    PROVE  pub' \in Publication
BY DEF Answer, Publication

\* A store that begins, and one that ends.
LEMMA StoreTyped ==
    ASSUME write \in [Lanes -> Lane], NEW w \in Lanes, NEW s \in Docs,
           NEW n \in 0 .. MaxPublishes, Store(w, s, n)
    PROVE  /\ write' \in [Lanes -> Lane]
           /\ write'[w].state = s /\ write'[w].step = FirstStep(s)
           /\ write'[w].asker = n /\ FirstStep(s) \in {"check", "update"}
           /\ \A v \in Lanes \ {w} : write'[v] = write[v]
<1> DEFINE new == [NoWrite EXCEPT !.step = FirstStep(s), !.state = s, !.asker = n]
<1>1. FirstStep(s) \in {"check", "update"} /\ 0 \in 0 .. Retries
      BY LiveBoundAssumption DEF FirstStep
<1>2. new \in Lane /\ new.state = s /\ new.step = FirstStep(s) /\ new.asker = n
      BY <1>1 DEF Lane, NoWrite, Docs
<1>3. write' = [write EXCEPT ![w] = new]
      BY DEF Store
<1> HIDE DEF new
<1> QED  BY <1>1, <1>2, <1>3

\* What a compaction writes.
LEMMA CompactTyped ==
    ASSUME NEW st \in {"check", "update"}, NEW s \in Docs
    PROVE  /\ [NoWrite EXCEPT !.step = st, !.state = s] \in Lane
           /\ [NoWrite EXCEPT !.step = st, !.state = s].state = s
BY Defaults DEF Lane, NoWrite

\* A store that ends answers its asker and frees the lane.
LEMMA SettleTyped ==
    ASSUME write \in [Lanes -> Lane], pub \in Publication, NEW w \in Lanes,
           NEW b \in BOOLEAN, Settle(w, b)
    PROVE  /\ write' \in [Lanes -> Lane] /\ pub' \in Publication
           /\ write'[w] = NoWrite /\ write'[w].state = {} /\ write'[w].step = "none"
           /\ \A v \in Lanes \ {w} : write'[v] = write[v]
<1>1. write' = [write EXCEPT ![w] = NoWrite]
      BY DEF Settle
<1>2. write' \in [Lanes -> Lane] /\ write'[w] = NoWrite
      BY <1>1, Defaults
<1>3. pub' \in Publication
      BY AnswerTyped DEF Settle
<1> QED  BY <1>1, <1>2, <1>3 DEF NoWrite

\* Types hold at the start.
LEMMA TInit == Init => TInv
<1> SUFFICES ASSUME Init
             PROVE  TInv
    OBVIOUS
<1> USE LiveAssumption, LiveBoundAssumption, NoneAssumption DEF Init
<1>1. Types
  <2>1. /\ made \in [Ops -> Pieces \cup {None}] /\ copy \in [Tabs -> Docs]
        /\ write \in [Lanes -> Lane]
        BY Defaults
  <2>2. /\ tab \in [Tabs -> {"closed", "joined", "offline"}]
        /\ ydoc \in Docs /\ load \in [step : {"none", "read", "compacting"}, base : Docs]
        /\ pub \in Publication /\ rst \in Restoring
        BY Defaults
  <2>3. /\ doc \in Docs \cup {None} /\ dirty \in BOOLEAN /\ asked \subseteq 1 .. MaxPublishes
        /\ badge \in BOOLEAN /\ history \subseteq Docs
        BY DEF Docs
  <2>4. /\ pubs \in 0 .. MaxPublishes /\ mishaps \in 0 .. MaxMishaps /\ excused \subseteq Ops
        /\ twice \subseteq Typed
        OBVIOUS
  <2> QED  BY ONLY <2>1, <2>2, <2>3, <2>4 DEF Types
<1>2. AllMade /\ Attended
      BY DEF AllMade, Attended, Sound, Docs, NoWrite, NoRst, Cold
<1> QED  BY <1>1, <1>2 DEF TInv

\* What an operation says it knows, and what a piece may meet, is well typed.
LEMMA LossesTyped ==
    ASSUME TInv
    PROVE  /\ Known(ydoc) \subseteq Ops /\ (doc # None => Known(doc) \subseteq Ops)
           /\ \A w \in Lanes : Known(write[w].state) \subseteq Ops
           /\ \A s : Doubled(s) \subseteq Typed
BY KnownInDocs DEF TInv, Types, AllMade, Sound, Docs, Doubled

\* Every step keeps the types.
LEMMA TStep == TInv /\ [Next]_vars => TInv'
<1> SUFFICES ASSUME TInv, [Next]_vars
             PROVE  TInv'
    OBVIOUS
<1> USE LiveAssumption, LiveBoundAssumption, NoneAssumption
    DEF TInv, Types, AllMade, Attended, Restoring, Sound,
        clients, row, bounds, counts, losses, Resident, Joined, Mishap, Lanes
<1>1. ASSUME NEW t \in Tabs, NEW e \in Edits, Edit(t, e)
      PROVE  TInv'
  <2>1. /\ tab[t] # "closed" /\ Append(t, e)
        /\ UNCHANGED <<tab, asked, load, write, row, pub, rst, counts, excused>>
        BY <1>1 DEF Edit
  <2>2. Seen(t) \in Docs /\ Sound(made, Seen(t)) /\ e \in Ops
        BY DEF Seen, Ops
  <2>3. PICK rec \in Pieces : New(e, rec)
    <3>1. CASE e \in Typed /\ New(e, Brings({e}, {}, FALSE))
      <4>1. Brings({e}, {}, FALSE) \in Pieces
            BY <3>1 DEF Brings, Pieces, Docs
      <4> QED  BY <3>1, <4>1
    <3>2. CASE New(e, Brings({}, Known(Seen(t)), TRUE))
      <4>1. Brings({}, Known(Seen(t)), TRUE) \in Pieces
            BY <2>2, KnownInDocs DEF Brings, Pieces
      <4> QED  BY <3>2, <4>1
    <3> QED  BY <1>1, <3>1, <3>2 DEF Edit
  <2> HIDE DEF Sound
  <2>4. /\ made' \in [Ops -> Pieces \cup {None}]
        /\ \A k \in Ops : made[k] # None => made'[k] # None
        /\ \A s : Sound(made, s) => Sound(made', s) /\ Sound(made', s \cup {e})
        /\ twice' \subseteq Typed
        BY <2>2, <2>3, NewSound
  <2>5. CASE tab[t] = "joined"
    <3>1. doc' = doc \cup {e} /\ dirty' = TRUE /\ UNCHANGED copy
          BY <2>1, <2>5 DEF Append
    <3>2. Sound(made', doc') /\ doc' \in Docs /\ doc' # None
          BY <2>2, <2>4, <2>5, <3>1 DEF Sound
    <3> QED  BY <2>1, <2>4, <3>1, <3>2
  <2>6. CASE tab[t] # "joined"
    <3>1. copy' = [copy EXCEPT ![t] = @ \cup {e}] /\ UNCHANGED <<doc, dirty>>
          BY <2>1, <2>6 DEF Append
    <3>2. \A u \in Tabs : Sound(made', copy'[u])
          BY <2>4, <3>1
    <3>3. copy' \in [Tabs -> Docs]
          BY <3>1, <3>2 DEF Sound
    <3> QED  BY <2>1, <2>4, <3>1, <3>2, <3>3
  <2> QED  BY <2>5, <2>6
<1>2. ASSUME NEW t \in Tabs, Join(t)
      PROVE  TInv'
  <2>1. twice' \subseteq Typed
        BY <1>2, LossesTyped DEF Join, Doubled
  <2> QED  BY <1>2, <2>1 DEF Join, Docs
<1>3. ASSUME NEW t \in Tabs, Close(t)
      PROVE  TInv'
      BY <1>3 DEF Close
<1>4. ASSUME NEW t \in Tabs, Drop(t)
      PROVE  TInv'
      BY <1>4 DEF Drop, Part
<1>5. ASSUME BeginLoad
      PROVE  TInv'
      BY <1>5 DEF BeginLoad
<1>6. ASSUME NEW o \in Compacts, Compact(o)
      PROVE  TInv'
  <2> DEFINE rec == Brings(Shows(load.base), Known(load.base), FALSE)
             new == [NoWrite EXCEPT
                       !.step = IF Shows(load.base) = {} THEN "check" ELSE "update",
                       !.state = {o}]
  <2>1. /\ New(o, rec) /\ load' = [step |-> "compacting", base |-> {o}]
        /\ write' = [write EXCEPT !["compact"] = new]
        /\ UNCHANGED <<clients, doc, dirty, asked, row, pub, rst, counts, excused>>
        BY <1>6 DEF Compact
  <2>2. rec \in Pieces /\ o \in Ops
        BY KnownInDocs, ShowsTyped DEF Brings, Pieces, Ops
  <2>3. new \in Lane /\ new.state = {o}
    <3> DEFINE st == IF Shows(load.base) = {} THEN "check" ELSE "update"
    <3>1. st \in {"check", "update"} /\ {o} \in Docs /\ {} \in Docs
          BY <2>2 DEF Docs
    <3> HIDE DEF st, Docs
    <3>2. new = [NoWrite EXCEPT !.step = st, !.state = {o}]
          BY DEF st
    <3> HIDE DEF new
    <3>3. /\ [NoWrite EXCEPT !.step = st, !.state = {o}] \in Lane
          /\ [NoWrite EXCEPT !.step = st, !.state = {o}].state = {o}
          BY <3>1, CompactTyped
    <3> QED  BY <3>2, <3>3
  <2> HIDE DEF Sound, rec, new
  <2>4. /\ made' \in [Ops -> Pieces \cup {None}]
        /\ \A k \in Ops : made[k] # None => made'[k] # None
        /\ \A s : Sound(made, s) => Sound(made', s)
        /\ Sound(made', {o}) /\ {o} \in Docs /\ twice' \subseteq Typed
        BY <2>1, <2>2, NewSound DEF Docs
  <2>5. write' \in [Lanes -> Lane] /\ \A w \in Lanes : Sound(made', write'[w].state)
        BY <2>1, <2>3, <2>4
  <2>6. load' \in [step : {"none", "read", "compacting"}, base : Docs] /\ load'.base = {o}
        BY <2>1, <2>4
  <2> QED  BY <2>1, <2>4, <2>5, <2>6
<1>7. ASSUME Loaded
      PROVE  TInv'
      BY <1>7 DEF Loaded, Cold, Docs, Loading
<1>8. ASSUME Save
      PROVE  TInv'
  <2>1. Store("save", doc, 0) /\ doc \in Docs /\ Sound(made, doc) /\ 0 \in 0 .. MaxPublishes
        BY <1>8 DEF Save
  <2>2. write' \in [Lanes -> Lane] /\ \A w \in Lanes : Sound(made, write'[w].state)
        BY <2>1, StoreTyped
  <2> QED  BY <1>8, <2>2 DEF Save
<1>9. ASSUME Unload
      PROVE  TInv'
      BY <1>9 DEF Unload
<1>10. ASSUME NEW w \in Lanes, Check(w)
      PROVE  TInv'
  <2>1. CASE IsUnloadedEmptyFlush(ydoc, write[w].state)
    <3>1. Settle(w, TRUE) /\ excused' = excused \cup Known(write[w].state)
          BY <1>10, <2>1 DEF Check
    <3>2. write' \in [Lanes -> Lane] /\ pub' \in Publication
          BY <3>1, SettleTyped
    <3>3. \A v \in Lanes : Sound(made, write'[v].state)
      <4>1. /\ write'[w].state = {}
            /\ \A v \in Lanes \ {w} : write'[v] = write[v]
            BY <3>1, SettleTyped
      <4> QED  BY <4>1 DEF Docs
    <3>5. excused' \subseteq Ops
          BY <3>1, LossesTyped
    <3> QED  BY <1>10, <3>2, <3>3, <3>5 DEF Check
  <2>2. CASE ~IsUnloadedEmptyFlush(ydoc, write[w].state)
    <3>1. /\ write' = [write EXCEPT ![w].step = "update", ![w].seen = ydoc]
          /\ UNCHANGED <<pub, excused>>
          BY <1>10, <2>2 DEF Check
    <3>2. write' \in [Lanes -> Lane] /\ \A v \in Lanes : write'[v].state = write[v].state
          BY <3>1 DEF Lane
    <3> QED  BY <1>10, <3>1, <3>2 DEF Check
  <2> QED  BY <2>1, <2>2
<1>11. ASSUME NEW w \in Lanes, Land(w)
      PROVE  TInv'
  <2>1. Settle(w, TRUE) /\ ydoc' = write[w].state /\ badge' \in BOOLEAN
        BY <1>11 DEF Land
  <2>2. write' \in [Lanes -> Lane] /\ pub' \in Publication
        BY <2>1, SettleTyped
  <2>3. \A v \in Lanes : Sound(made, write'[v].state)
    <3>1. /\ write'[w].state = {}
          /\ \A v \in Lanes \ {w} : write'[v] = write[v]
          BY <2>1, SettleTyped
    <3> QED  BY <3>1 DEF Docs
  <2>4. Sound(made, ydoc') /\ ydoc' \in Docs
        BY <2>1
  <2>5. excused' \subseteq Ops
        BY <1>11, LossesTyped DEF Land, Overwrites
  <2> QED  BY <1>11, <2>1, <2>2, <2>3, <2>4, <2>5 DEF Land
<1>12. ASSUME NEW w \in Lanes, Retry(w)
      PROVE  TInv'
  <2>1. /\ write[w].tries + 1 \in 0 .. Retries
        /\ FirstStep(write[w].state) \in {"check", "update"}
        BY <1>12 DEF Retry, FirstStep, Lane
  <2>2. write' \in [Lanes -> Lane] /\ \A v \in Lanes : write'[v].state = write[v].state
        BY <1>12, <2>1 DEF Retry, Lane
  <2>3. mishaps' \in 0 .. MaxMishaps
        BY <1>12 DEF Retry
  <2> QED  BY <1>12, <2>2, <2>3 DEF Retry
<1>13. ASSUME NEW w \in Lanes, GiveUp(w) \/ Throw(w)
      PROVE  TInv'
  <2>1. Settle(w, FALSE) /\ Unstored(w)
        BY <1>13 DEF GiveUp, Throw
  <2>2. write' \in [Lanes -> Lane] /\ pub' \in Publication
        BY <2>1, SettleTyped
  <2>3. \A v \in Lanes : Sound(made, write'[v].state)
    <3>1. /\ write'[w].state = {}
          /\ \A v \in Lanes \ {w} : write'[v] = write[v]
          BY <2>1, SettleTyped
    <3> QED  BY <3>1 DEF Docs
  <2>4. excused' \subseteq Ops
        BY <2>1, LossesTyped DEF Unstored
  <2>5. CASE GiveUp(w)
    <3>1. /\ tab' \in [Tabs -> {"closed", "joined", "offline"}]
          /\ copy' \in [Tabs -> Docs] /\ \A t \in Tabs : Sound(made, copy'[t])
          /\ \A t \in Tabs : tab'[t] = "joined" => tab[t] = "joined"
          BY <2>5 DEF GiveUp, Part
    <3>2. mishaps' \in 0 .. MaxMishaps
          BY <2>5 DEF GiveUp
    <3> QED  BY <2>5, <2>2, <2>3, <2>4, <3>1, <3>2 DEF GiveUp
  <2>6. CASE Throw(w)
    <3>1. /\ load' \in [step : {"none", "read", "compacting"}, base : Docs]
          /\ Sound(made, load'.base) /\ mishaps' \in 0 .. MaxMishaps
          BY <2>6, Defaults DEF Throw, Cold
    <3> QED  BY <2>6, <2>2, <2>3, <2>4, <3>1 DEF Throw
  <2> QED  BY <1>13, <2>5, <2>6
<1>14. ASSUME Crash
      PROVE  TInv'
  <2>1. /\ write' = [w \in Lanes |-> NoWrite] /\ load' = Cold /\ doc' = None
        /\ dirty' = FALSE /\ asked' = {} /\ Part(Joined) /\ mishaps' = mishaps + 1
        /\ mishaps < MaxMishaps
        /\ UNCHANGED <<made, row, pub, rst, pubs, twice>>
        BY <1>14 DEF Crash
  <2>2. /\ write' \in [Lanes -> Lane] /\ \A w \in Lanes : write'[w].state = {}
        /\ load' \in [step : {"none", "read", "compacting"}, base : Docs] /\ load'.base = {}
        BY <2>1, Defaults DEF NoWrite, Cold
  <2>3. /\ tab' \in [Tabs -> {"closed", "joined", "offline"}]
        /\ copy' \in [Tabs -> Docs] /\ \A t \in Tabs : Sound(made, copy'[t])
        /\ \A t \in Tabs : tab'[t] # "joined"
        BY <2>1 DEF Part
  <2>4. excused' \subseteq Ops
        BY <1>14, LossesTyped DEF Crash
  <2>5. /\ doc' \in Docs \cup {None} /\ dirty' \in BOOLEAN /\ asked' \subseteq 1 .. MaxPublishes
        BY <2>1
  <2>6. mishaps' \in 0 .. MaxMishaps
        BY <2>1
  <2>7. Types'
        BY <2>1, <2>2, <2>3, <2>4, <2>5, <2>6
  <2>8. AllMade' /\ Attended'
        BY <2>1, <2>2, <2>3, Defaults
  <2> QED  BY <2>7, <2>8
<1>15. ASSUME AskFlush \/ AnswerElsewhere \/ FlushTimeout \/ ReadDraft \/ PublishNothing \/ PublishFails
      PROVE  TInv'
  <2>1. UNCHANGED <<made, clients, doc, dirty, load, write, ydoc, history, rst, mishaps, losses>>
        BY <1>15 DEF AskFlush, AnswerElsewhere, FlushTimeout, ReadDraft, PublishNothing, PublishFails
  <2>2. badge' \in BOOLEAN /\ pubs' \in 0 .. MaxPublishes /\ asked' \subseteq 1 .. MaxPublishes
    <3>1. CASE AskFlush
          BY <3>1 DEF AskFlush
    <3>2. CASE ~AskFlush
          BY <1>15, <3>2 DEF AnswerElsewhere, FlushTimeout, ReadDraft, PublishNothing,
                             PublishFails
    <3> QED  BY <3>1, <3>2
  <2>3. pub' \in Publication
    <3>1. CASE AskFlush
          BY <3>1, Defaults DEF AskFlush, NoPub, Publication
    <3>2. CASE AnswerElsewhere
          BY <3>2, AnswerTyped DEF AnswerElsewhere
    <3>3. CASE FlushTimeout \/ ReadDraft
          BY <3>3 DEF FlushTimeout, ReadDraft, Publication
    <3>4. CASE PublishNothing \/ PublishFails
          BY <3>4, Defaults DEF PublishNothing, PublishFails
    <3> QED  BY <1>15, <3>1, <3>2, <3>3, <3>4
  <2> QED  BY <2>1, <2>2, <2>3
<1>16. ASSUME CommitPublish
      PROVE  TInv'
  <2>1. pub' = NoPub /\ badge' = FALSE /\ history' = history \cup {pub.state}
        /\ UNCHANGED <<made, clients, doc, dirty, asked, load, write, ydoc, rst, bounds>>
        BY <1>16 DEF CommitPublish
  <2>2. pub.state \in Docs
        BY DEF Publication
  <2> QED  BY <2>1, <2>2, Defaults
<1>17. ASSUME NEW n \in asked, HandleFlush(n)
      PROVE  TInv'
  <2>1. n \in 0 .. MaxPublishes /\ asked' \subseteq 1 .. MaxPublishes
        BY <1>17 DEF HandleFlush
  <2>2. CASE doc # None
    <3>1. Store("flush", doc, n) /\ doc \in Docs /\ UNCHANGED pub
          BY <1>17, <2>2 DEF HandleFlush
    <3>2. write' \in [Lanes -> Lane] /\ \A w \in Lanes : Sound(made, write'[w].state)
          BY <2>1, <2>2, <3>1, StoreTyped
    <3> QED  BY <1>17, <2>1, <3>1, <3>2 DEF HandleFlush
  <2>3. CASE doc = None
    <3>1. Answer(n, TRUE) /\ UNCHANGED write
          BY <1>17, <2>3 DEF HandleFlush
    <3>2. pub' \in Publication
          BY <3>1, AnswerTyped
    <3> QED  BY <1>17, <2>1, <3>1, <3>2 DEF HandleFlush
  <2> QED  BY <2>2, <2>3
<1>18. ASSUME NEW o \in Restores, NEW rev \in history, BeginRestore(o, rev)
      PROVE  TInv'
  <2> DEFINE rec == Brings(Shows(rev), Known(ydoc), TRUE)
             new == [step |-> "commit", op |-> o, base |-> ydoc]
  <2>1. /\ New(o, rec) /\ rst' = new
        /\ UNCHANGED <<clients, doc, dirty, asked, load, write, row, pub, counts, excused>>
        BY <1>18 DEF BeginRestore
  <2>2. rec \in Pieces /\ o \in Ops
        BY KnownInDocs, ShowsTyped DEF Brings, Pieces, Ops
  <2>3. new \in Restoring /\ new.op = o /\ new.base = ydoc
        BY <2>2
  <2> HIDE DEF Sound, rec, new
  <2>4. /\ made' \in [Ops -> Pieces \cup {None}]
        /\ \A k \in Ops : made[k] # None => made'[k] # None
        /\ \A s : Sound(made, s) => Sound(made', s)
        /\ made'[o] # None /\ twice' \subseteq Typed
        BY <2>1, <2>2, NewSound
  <2> QED  BY <2>1, <2>2, <2>3, <2>4
<1>19. ASSUME CommitRestore
      PROVE  TInv'
  <2>1. excused' \subseteq Ops
        BY <1>19, LossesTyped DEF CommitRestore, Overwrites
  <2> QED  BY <1>19, <2>1 DEF CommitRestore, Docs
<1>20. ASSUME RestoreFails \/ Signal \/ LoseSignal
      PROVE  TInv'
  <2>1. rst' = NoRst /\ rst'.step = "none" /\ rst'.base = {}
        BY <1>20 DEF RestoreFails, Signal, LoseSignal, NoRst
  <2>2. /\ UNCHANGED <<made, clients, asked, load, write, row, pub, pubs, excused>>
        /\ mishaps' \in 0 .. MaxMishaps /\ twice' \subseteq Typed
        BY <1>20, LossesTyped DEF RestoreFails, Signal, LoseSignal
  <2>3. CASE doc' = doc /\ dirty' = dirty
        BY <2>1, <2>2, <2>3, Defaults
  <2>4. CASE doc # None /\ doc' = doc \cup {rst.op} /\ dirty' = TRUE /\ rst.step = "signal"
    <3>1. Sound(made, doc') /\ doc' # None
          BY <2>4 DEF Docs
    <3> QED  BY <2>1, <2>2, <2>4, <3>1, Defaults
  <2> QED  BY <1>20, <2>3, <2>4 DEF RestoreFails, Signal, LoseSignal
<1>21. CASE UNCHANGED vars
      BY <1>21 DEF vars
<1> QED  BY <1>1, <1>2, <1>3, <1>4, <1>5, <1>6, <1>7, <1>8, <1>9, <1>10, <1>11, <1>12,
            <1>13, <1>14, <1>15, <1>16, <1>17, <1>18, <1>19, <1>20, <1>21
         DEF Next, Writes, Publishes

----------------------------------------------------------------------------
(* The badge *)

VisibleBy(m, s) == {x \in s \X Typed :
                      /\ x[2] \in m[x[1]].text
                      /\ \A k \in s : m[k].wipes => x[1] \notin m[k].over}

\* The text of a state depends on its own operations only.
LEMMA SameText ==
    ASSUME NEW m1, NEW m2, NEW s, \A o \in s : m1[o] = m2[o]
    PROVE  TextOf(VisibleBy(m1, s)) = TextOf(VisibleBy(m2, s))
<1>1. VisibleBy(m1, s) = VisibleBy(m2, s)
      BY DEF VisibleBy
<1> QED  BY <1>1

\* What was made stays as it was made.
LEMMA MadeStays ==
    ASSUME TInv, [Next]_vars
    PROVE  \A k \in Ops : made[k] # None => made'[k] = made[k]
<1> USE DEF TInv, Types
<1>1. ASSUME NEW o \in Ops, NEW rec, New(o, rec)
      PROVE  \A k \in Ops : made[k] # None => made'[k] = made[k]
      BY <1>1 DEF New
<1>2. ASSUME NEW t \in Tabs, NEW e \in Edits, Edit(t, e)
      PROVE  \A k \in Ops : made[k] # None => made'[k] = made[k]
      BY <1>1, <1>2 DEF Edit, Ops
<1>3. ASSUME NEW o \in Compacts, Compact(o)
      PROVE  \A k \in Ops : made[k] # None => made'[k] = made[k]
      BY <1>1, <1>3 DEF Compact, Ops
<1>4. ASSUME NEW o \in Restores, NEW rev \in history, BeginRestore(o, rev)
      PROVE  \A k \in Ops : made[k] # None => made'[k] = made[k]
      BY <1>1, <1>4 DEF BeginRestore, Ops
<1>5. ASSUME NEW t \in Tabs, Join(t) \/ Close(t) \/ Drop(t)
      PROVE  UNCHANGED made
      BY <1>5 DEF Join, Close, Drop
<1>6. ASSUME BeginLoad \/ Loaded \/ Save \/ Unload \/ Crash
      PROVE  UNCHANGED made
      BY <1>6 DEF BeginLoad, Loaded, Save, Unload, Crash
<1>7. ASSUME NEW w \in Lanes, Check(w) \/ Land(w) \/ Retry(w) \/ GiveUp(w) \/ Throw(w)
      PROVE  UNCHANGED made
      BY <1>7 DEF Check, Land, Retry, GiveUp, Throw
<1>8. ASSUME NEW n \in asked, HandleFlush(n)
      PROVE  UNCHANGED made
      BY <1>8 DEF HandleFlush
<1>9. ASSUME \/ AskFlush \/ AnswerElsewhere \/ Publishes \/ PublishFails
             \/ CommitRestore \/ RestoreFails \/ Signal \/ LoseSignal \/ UNCHANGED vars
      PROVE  UNCHANGED made
      BY <1>9 DEF AskFlush, AnswerElsewhere, Publishes, FlushTimeout, ReadDraft,
                  PublishNothing, CommitPublish, PublishFails, CommitRestore,
                  RestoreFails, Signal, LoseSignal, vars
<1> QED  BY <1>2, <1>3, <1>4, <1>5, <1>6, <1>7, <1>8, <1>9 DEF Next, Writes

\* An operation that is made changes no text there is.
LEMMA TextKept ==
    ASSUME TInv, [Next]_vars, UNCHANGED ydoc
    PROVE  Text(ydoc)' = Text(ydoc)
<1>1. \A o \in ydoc : made'[o] = made[o]
      BY MadeStays DEF TInv, AllMade, Sound, Docs
<1> QED  BY <1>1, SameText DEF Text, Visible, VisibleBy

\* Every step keeps the badge honest.
LEMMA BadgeStep ==
    ASSUME TInv, NoSpuriousBadge, [Next]_vars
    PROVE  NoSpuriousBadge'
<1>1. ASSUME UNCHANGED <<ydoc, published, badge>>
      PROVE  NoSpuriousBadge'
      BY <1>1, TextKept DEF NoSpuriousBadge
<1>2. ASSUME badge' = FALSE
      PROVE  NoSpuriousBadge'
      BY <1>2 DEF NoSpuriousBadge
<1>3. ASSUME NEW w \in Lanes, Land(w)
      PROVE  NoSpuriousBadge'
  <2>1. /\ badge' = (published # Text(write[w].state))
        /\ ydoc' = write[w].state /\ made' = made /\ published' = published
        BY <1>3 DEF Land
  <2>2. Text(ydoc)' = Text(write[w].state)
        BY <2>1 DEF Text, Visible
  <2> QED  BY <2>1, <2>2 DEF NoSpuriousBadge
<1>4. ASSUME PublishNothing \/ CommitPublish \/ CommitRestore
      PROVE  badge' = FALSE
      BY <1>4 DEF PublishNothing, CommitPublish, CommitRestore
<1> USE DEF row
<1>5. ASSUME BeginLoad \/ Loaded \/ Save \/ Unload \/ Crash \/ \E o \in Compacts : Compact(o)
      PROVE  UNCHANGED <<ydoc, published, badge>>
      BY <1>5 DEF BeginLoad, Loaded, Save, Unload, Crash, Compact
<1>6. ASSUME NEW w \in Lanes, Check(w) \/ Retry(w) \/ GiveUp(w) \/ Throw(w)
      PROVE  UNCHANGED <<ydoc, published, badge>>
      BY <1>6 DEF Check, Retry, GiveUp, Throw
<1>7. ASSUME \/ \E n \in asked : HandleFlush(n)
             \/ AskFlush \/ AnswerElsewhere \/ FlushTimeout \/ ReadDraft \/ PublishFails
      PROVE  UNCHANGED <<ydoc, published, badge>>
      BY <1>7 DEF HandleFlush, AskFlush, AnswerElsewhere, FlushTimeout, ReadDraft,
                  PublishFails
<1>8. ASSUME \/ \E o \in Restores, rev \in history : BeginRestore(o, rev)
             \/ RestoreFails \/ Signal \/ LoseSignal \/ UNCHANGED vars
      PROVE  UNCHANGED <<ydoc, published, badge>>
      BY <1>8 DEF BeginRestore, RestoreFails, Signal, LoseSignal, vars
<1>9. CASE \E t \in Tabs : Join(t) \/ Close(t) \/ Drop(t) \/ \E e \in Edits : Edit(t, e)
  <2>1. UNCHANGED <<ydoc, published, badge>>
        BY <1>9 DEF Edit, Join, Close, Drop
  <2> QED  BY <1>1, <2>1
<1> QED  BY <1>1, <1>2, <1>3, <1>4, <1>5, <1>6, <1>7, <1>8, <1>9
         DEF Next, Writes, Publishes

----------------------------------------------------------------------------
(* At rest *)

\* A lane at rest writes nothing and a tab that is joined keeps nothing; requests
\* are numbered in order; what a publication and a guard remember was made.
AtRest ==
    /\ \A w \in Lanes : write[w].step = "none" => write[w].state = {}
    /\ \A t \in Tabs : tab[t] = "joined" => copy[t] = {}
    /\ \A n \in asked : n <= pubs
    /\ \A w \in Lanes : write[w].asker <= pubs
    /\ pub.step = "flushing" => ~pub.acked
    /\ Sound(made, pub.want) /\ Sound(made, pub.state)
    /\ \A w \in Lanes : Sound(made, write[w].seen)

\* What was sound stays so.
LEMMA SoundStays ==
    ASSUME TInv, [Next]_vars
    PROVE  \A s : Sound(made, s) => Sound(made', s)
BY MadeStays, NoneAssumption DEF Sound, Docs, TInv, Types

\* An answer is heard by the publication that waits for it, and changes nothing
\* else of it.
LEMMA AnswerHeard ==
    ASSUME pub \in Publication, NEW n, NEW b \in BOOLEAN, Answer(n, b)
    PROVE  /\ pub'.want = pub.want /\ pub'.state = pub.state
           /\ \/ pub' = pub
              \/ /\ pub.step = "flushing" /\ pubs = n
                 /\ pub'.step = "read" /\ pub'.acked = b
           /\ pubs = n => pub'.step # "flushing"
BY DEF Answer, Publication

\* A store that ends, and what its asker hears.
LEMMA SettleHeard ==
    ASSUME pub \in Publication, NEW w \in Lanes, NEW b \in BOOLEAN, Settle(w, b)
    PROVE  /\ pub'.want = pub.want /\ pub'.state = pub.state
           /\ \/ pub' = pub
              \/ /\ w = "flush" /\ pub.step = "flushing" /\ pubs = write[w].asker
                 /\ pub'.step = "read" /\ pub'.acked = b
           /\ w = "flush" /\ pubs = write[w].asker => pub'.step # "flushing"
BY AnswerHeard DEF Settle

\* Every step leaves at rest what is at rest.
LEMMA AtRestStep ==
    ASSUME TInv, AtRest, [Next]_vars
    PROVE  AtRest'
<1> USE DEF clients, row, bounds, counts, losses, Resident, Joined
<1>1. \A s : Sound(made, s) => Sound(made', s)
      BY SoundStays
<1>2. Sound(made', {})
      BY Defaults DEF Sound
<1>3. /\ write \in [Lanes -> Lane] /\ pub \in Publication /\ pubs \in Nat
      /\ tab \in [Tabs -> {"closed", "joined", "offline"}] /\ copy \in [Tabs -> Docs]
      /\ NoWrite.step = "none" /\ NoWrite.state = {} /\ NoWrite.asker = 0 /\ NoWrite.seen = {}
      BY LiveBoundAssumption DEF TInv, Types, NoWrite
<1>4. ASSUME UNCHANGED <<tab, copy, asked, write, pub, pubs>>
      PROVE  AtRest'
      BY <1>1, <1>4 DEF AtRest
<1>5. ASSUME NEW w \in Lanes, NEW b \in BOOLEAN, Settle(w, b),
             UNCHANGED <<asked, pubs>>,
             \A t \in Tabs : tab'[t] = "joined" => tab[t] = "joined" /\ copy'[t] = copy[t]
      PROVE  AtRest'
  <2>1. write'[w] = NoWrite /\ \A v \in Lanes \ {w} : write'[v] = write[v]
        BY <1>3, <1>5, SettleTyped
  <2>2. /\ pub'.want = pub.want /\ pub'.state = pub.state
        /\ pub' = pub \/ pub'.step = "read"
        BY <1>3, <1>5, SettleHeard
  <2>3. ASSUME NEW v \in Lanes
        PROVE  /\ write'[v].step = "none" => write'[v].state = {}
               /\ write'[v].asker <= pubs /\ Sound(made', write'[v].seen)
    <3>1. write'[v].step = "none" => write'[v].state = {}
          BY <1>3, <2>1 DEF AtRest
    <3>2. write'[v].asker <= pubs
          BY <1>3, <2>1 DEF AtRest
    <3>3. Sound(made', write'[v].seen)
          BY <1>1, <1>2, <1>3, <2>1 DEF AtRest
    <3> QED  BY <3>1, <3>2, <3>3
  <2> QED  BY <1>1, <1>5, <2>2, <2>3 DEF AtRest
<1>6. ASSUME NEW w \in Lanes, NEW n \in 0 .. MaxPublishes, n <= pubs, Store(w, doc, n),
             doc # None, UNCHANGED <<tab, copy, pub, pubs>>, asked' \subseteq asked
      PROVE  AtRest'
  <2>1. /\ write' = [write EXCEPT ![w] = [NoWrite EXCEPT !.step = FirstStep(doc),
                                                       !.state = doc, !.asker = n]]
        BY <1>6 DEF Store
  <2>2. /\ write'[w].step # "none" /\ write'[w].asker = n
        /\ \A v \in Lanes \ {w} : write'[v] = write[v]
        BY <1>3, <1>6, StoreTyped DEF TInv, Types
  <2>3. write'[w].seen = {}
        BY <1>3, <2>1 DEF NoWrite
  <2> QED  BY <1>1, <1>2, <1>6, <2>2, <2>3 DEF AtRest
<1>7. ASSUME NEW t \in Tabs, NEW e \in Edits, Edit(t, e)
      PROVE  AtRest'
  <2>1. /\ UNCHANGED <<tab, asked, write, pub, pubs>>
        /\ \A u \in Tabs : tab[u] = "joined" => copy'[u] = copy[u]
        BY <1>3, <1>7 DEF Edit, Append
  <2> QED  BY <1>1, <2>1 DEF AtRest
<1>8. ASSUME NEW t \in Tabs, Join(t) \/ Close(t) \/ Drop(t)
      PROVE  AtRest'
  <2>1. /\ UNCHANGED <<asked, write, pub, pubs>>
        /\ \A u \in Tabs : tab'[u] = "joined" =>
              copy'[u] = {} \/ (tab[u] = "joined" /\ copy'[u] = copy[u])
        BY <1>3, <1>8 DEF Join, Close, Drop, Part
  <2> QED  BY <1>1, <2>1 DEF AtRest
<1>9. ASSUME NEW o \in Compacts, Compact(o)
      PROVE  AtRest'
  <2> DEFINE st == IF Shows(load.base) = {} THEN "check" ELSE "update"
             rec == [NoWrite EXCEPT !.step = st, !.state = {o}]
  <2>1. /\ write' = [write EXCEPT !["compact"] = rec]
        /\ UNCHANGED <<tab, copy, asked, pub, pubs>>
        BY <1>9 DEF Compact
  <2>2. rec.step # "none" /\ rec.asker = 0 /\ rec.seen = {}
        BY DEF NoWrite
  <2> HIDE DEF rec
  <2>3. /\ write'["compact"] = rec
        /\ \A v \in Lanes \ {"compact"} : write'[v] = write[v]
        BY <1>3, <2>1 DEF Lanes
  <2>4. ASSUME NEW v \in Lanes
        PROVE  /\ write'[v].step = "none" => write'[v].state = {}
               /\ write'[v].asker <= pubs /\ Sound(made', write'[v].seen)
    <3>1. write'[v].step = "none" => write'[v].state = {}
          BY <1>3, <2>1, <2>2, <2>3 DEF AtRest
    <3>2. write'[v].asker <= pubs
          BY <1>3, <2>1, <2>2, <2>3 DEF AtRest
    <3>3. Sound(made', write'[v].seen)
          BY <1>1, <1>2, <1>3, <2>1, <2>2, <2>3 DEF AtRest
    <3> QED  BY <3>1, <3>2, <3>3
  <2> QED  BY <1>1, <2>1, <2>4 DEF AtRest
<1>10. ASSUME NEW w \in Lanes, Check(w)
       PROVE  AtRest'
  <2>1. CASE IsUnloadedEmptyFlush(ydoc, write[w].state)
        BY <1>5, <1>10, <2>1 DEF Check
  <2>2. CASE ~IsUnloadedEmptyFlush(ydoc, write[w].state)
    <3>1. /\ write' = [write EXCEPT ![w].step = "update", ![w].seen = ydoc]
          /\ UNCHANGED <<tab, copy, asked, pub, pubs>>
          BY <1>10, <2>2 DEF Check
    <3>2. /\ write'[w].step = "update" /\ write'[w].seen = ydoc
          /\ write'[w].asker = write[w].asker
          /\ \A v \in Lanes \ {w} : write'[v] = write[v]
          BY <1>3, <3>1 DEF Lane
    <3>3. Sound(made, ydoc)
          BY DEF TInv, AllMade
    <3> QED  BY <1>1, <3>1, <3>2, <3>3 DEF AtRest
  <2> QED  BY <2>1, <2>2
<1>11. ASSUME NEW w \in Lanes, Land(w) \/ Throw(w)
       PROVE  AtRest'
  <2>1. PICK b \in BOOLEAN : Settle(w, b)
        BY <1>11 DEF Land, Throw
  <2> QED  BY <1>5, <1>11, <2>1 DEF Land, Throw
<1>12. ASSUME NEW w \in Lanes, GiveUp(w)
       PROVE  AtRest'
  <2>1. Settle(w, FALSE) /\ UNCHANGED <<asked, pubs>>
        BY <1>12 DEF GiveUp
  <2>2. \A t \in Tabs : tab'[t] = "joined" => tab[t] = "joined" /\ copy'[t] = copy[t]
        BY <1>3, <1>12 DEF GiveUp, Part
  <2> QED  BY <1>5, <2>1, <2>2
<1>13. ASSUME NEW w \in Lanes, Retry(w)
       PROVE  AtRest'
  <2>1. /\ write' = [write EXCEPT ![w].tries = @ + 1, ![w].step = FirstStep(write[w].state)]
        /\ UNCHANGED <<tab, copy, asked, pub, pubs>>
        BY <1>13 DEF Retry
  <2>2. /\ write'[w].step # "none" /\ write'[w].seen = write[w].seen
        /\ write'[w].asker = write[w].asker
        /\ \A v \in Lanes \ {w} : write'[v] = write[v]
        BY <1>3, <2>1 DEF Lane, FirstStep
  <2> QED  BY <1>1, <2>1, <2>2 DEF AtRest
<1>14. ASSUME Crash
       PROVE  AtRest'
  <2>1. /\ write' = [w \in Lanes |-> NoWrite] /\ asked' = {} /\ UNCHANGED <<pub, pubs>>
        /\ \A t \in Tabs : tab'[t] # "joined"
        BY <1>3, <1>14 DEF Crash, Part
  <2>2. ASSUME NEW v \in Lanes
        PROVE  /\ write'[v].step = "none" => write'[v].state = {}
               /\ write'[v].asker <= pubs /\ Sound(made', write'[v].seen)
    <3>1. write'[v].step = "none" => write'[v].state = {}
          BY <1>3, <2>1 DEF AtRest
    <3>2. write'[v].asker <= pubs
          BY <1>3, <2>1 DEF AtRest
    <3>3. Sound(made', write'[v].seen)
          BY <1>1, <1>2, <1>3, <2>1 DEF AtRest
    <3> QED  BY <3>1, <3>2, <3>3
  <2> QED  BY <1>1, <2>1, <2>2 DEF AtRest
<1>15. ASSUME Save
       PROVE  AtRest'
  <2>1. Store("save", doc, 0) /\ doc # None /\ "save" \in Lanes /\ 0 \in 0 .. MaxPublishes
        /\ 0 <= pubs /\ UNCHANGED <<tab, copy, asked, pub, pubs>>
        BY <1>3, <1>15, LiveBoundAssumption DEF Save, Lanes
  <2> QED  BY <1>6, <2>1
<1>16. ASSUME NEW n \in asked, HandleFlush(n)
       PROVE  AtRest'
  <2>1. n <= pubs /\ n \in 0 .. MaxPublishes /\ "flush" \in Lanes
        /\ asked' = asked \ {n} /\ UNCHANGED <<tab, copy, pubs>>
        BY <1>16 DEF HandleFlush, AtRest, TInv, Types, Lanes
  <2>2. CASE doc # None
        BY <1>6, <1>16, <2>1, <2>2 DEF HandleFlush
  <2>3. CASE doc = None
    <3>1. Answer(n, TRUE) /\ UNCHANGED write
          BY <1>16, <2>3 DEF HandleFlush
    <3>2. /\ pub'.want = pub.want /\ pub'.state = pub.state
          /\ pub' = pub \/ pub'.step = "read"
          BY <1>3, <3>1, AnswerHeard
    <3> QED  BY <1>1, <2>1, <3>1, <3>2 DEF AtRest
  <2> QED  BY <2>2, <2>3
<1>17. ASSUME AskFlush
       PROVE  AtRest'
  <2>1. /\ pubs' = pubs + 1 /\ asked' = asked \cup {pubs + 1}
        /\ pub' = [NoPub EXCEPT !.step = "flushing", !.want = IF doc # None THEN doc ELSE {}]
        /\ UNCHANGED <<tab, copy, write>>
        BY <1>17 DEF AskFlush
  <2>2. ~pub'.acked /\ pub'.state = {} /\ pub'.want = (IF doc # None THEN doc ELSE {})
        BY <2>1 DEF NoPub
  <2>3. Sound(made', pub'.want) /\ Sound(made', pub'.state)
        BY <1>1, <1>2, <2>2 DEF TInv, AllMade
  <2>4. \A w \in Lanes : write[w].asker \in Nat
        BY <1>3, LiveBoundAssumption DEF Lane
  <2>5. \A n \in asked : n \in Nat
        BY DEF TInv, Types
  <2> QED  BY <1>1, <1>3, <2>1, <2>2, <2>3, <2>4, <2>5 DEF AtRest
<1>18. ASSUME AnswerElsewhere
       PROVE  AtRest'
  <2>1. Answer(pubs, FALSE) /\ UNCHANGED <<tab, copy, asked, write, pubs>>
        BY <1>18 DEF AnswerElsewhere
  <2>2. /\ pub'.want = pub.want /\ pub'.state = pub.state
        /\ pub' = pub \/ pub'.step = "read"
        BY <1>3, <2>1, AnswerHeard
  <2> QED  BY <1>1, <2>1, <2>2 DEF AtRest
<1>19. ASSUME FlushTimeout \/ ReadDraft
       PROVE  AtRest'
  <2>1. /\ pub'.want = pub.want /\ pub'.state \in {pub.state, ydoc}
        /\ pub'.step # "flushing" /\ UNCHANGED <<tab, copy, asked, write, pubs>>
        BY <1>3, <1>19 DEF FlushTimeout, ReadDraft, Publication
  <2>2. Sound(made, ydoc)
        BY DEF TInv, AllMade
  <2> QED  BY <1>1, <2>1, <2>2 DEF AtRest
<1>20. ASSUME PublishNothing \/ CommitPublish \/ PublishFails
       PROVE  AtRest'
  <2>1. pub' = NoPub /\ UNCHANGED <<tab, copy, asked, write, pubs>>
        BY <1>20 DEF PublishNothing, CommitPublish, PublishFails
  <2>2. pub'.step = "none" /\ pub'.want = {} /\ pub'.state = {}
        BY <2>1 DEF NoPub
  <2> QED  BY <1>1, <1>2, <2>1, <2>2 DEF AtRest
<1>21. ASSUME \/ BeginLoad \/ Loaded \/ Unload
              \/ \E o \in Restores, rev \in history : BeginRestore(o, rev)
              \/ CommitRestore \/ RestoreFails \/ Signal \/ LoseSignal \/ UNCHANGED vars
       PROVE  AtRest'
  <2>1. UNCHANGED <<tab, copy, asked, write, pub, pubs>>
        BY <1>21 DEF BeginLoad, Loaded, Unload, BeginRestore, CommitRestore, RestoreFails,
                     Signal, LoseSignal, vars
  <2> QED  BY <1>4, <2>1
<1> QED  BY <1>7, <1>8, <1>9, <1>10, <1>11, <1>12, <1>13, <1>14, <1>15, <1>16, <1>17,
            <1>18, <1>19, <1>20, <1>21 DEF Next, Writes, Publishes

\* A document is loaded once.
Loads == load.step # "none" => doc = None

\* Nothing gives the pod a document but the load that ends.
LEMMA LoadsStep ==
    ASSUME TInv, Loads, [Next]_vars
    PROVE  Loads'
<1> USE DEF Loads, Resident, Loading
<1>1. ASSUME NEW t \in Tabs, Join(t) \/ Close(t) \/ Drop(t) \/ \E e \in Edits : Edit(t, e)
      PROVE  Loads'
  <2>1. UNCHANGED load /\ (doc' = doc \/ doc # None)
        BY <1>1 DEF Join, Close, Drop, Edit, Append, TInv, Attended
  <2> QED  BY <2>1
<1>2. ASSUME BeginLoad \/ Loaded \/ Save \/ Unload \/ Crash \/ \E o \in Compacts : Compact(o)
      PROVE  Loads'
  <2>1. CASE Loaded \/ Crash
        BY <2>1 DEF Loaded, Crash, Cold
  <2>2. CASE BeginLoad \/ Unload
        BY <2>2 DEF BeginLoad, Unload
  <2>3. CASE Save \/ \E o \in Compacts : Compact(o)
    <3>1. doc' = doc /\ (load' = load \/ load.step = "read")
          BY <2>3 DEF Save, Compact
    <3> QED  BY <3>1
  <2> QED  BY <1>2, <2>1, <2>2, <2>3
<1>3. ASSUME NEW w \in Lanes, Check(w) \/ Land(w) \/ Retry(w) \/ GiveUp(w) \/ Throw(w)
      PROVE  Loads'
  <2>1. doc' = doc /\ (load' = load \/ load' = Cold)
        BY <1>3 DEF Check, Land, Retry, GiveUp, Throw
  <2> QED  BY <2>1 DEF Cold
<1>4. ASSUME \/ \E n \in asked : HandleFlush(n)
             \/ AskFlush \/ AnswerElsewhere \/ Publishes \/ PublishFails
             \/ \E o \in Restores, rev \in history : BeginRestore(o, rev)
             \/ CommitRestore \/ RestoreFails \/ Signal \/ LoseSignal \/ UNCHANGED vars
      PROVE  Loads'
  <2>1. UNCHANGED load /\ (doc' = doc \/ doc # None)
        BY <1>4 DEF HandleFlush, AskFlush, AnswerElsewhere, Publishes, FlushTimeout, ReadDraft,
                    PublishNothing, CommitPublish, PublishFails, BeginRestore, CommitRestore,
                    RestoreFails, Signal, LoseSignal, vars
  <2> QED  BY <2>1
<1> QED  BY <1>1, <1>2, <1>3, <1>4 DEF Next, Writes

----------------------------------------------------------------------------
(* Edits and publications *)

Knows(m, s, e) == e \in s \/ \E o \in s : e \in m[o].over

Stored(e) == Knows(made, ydoc, e)
InDoc(e) == doc # None /\ Knows(made, doc, e)
InLoad(e) == Knows(made, load.base, e)
InCopy(e, t) == Knows(made, copy[t], e)
InWrite(e, w) == Knows(made, write[w].state, e)
Wanted(e) == Knows(made, pub.want, e)
InPub(e) == Knows(made, pub.state, e)
Gone(e) == e \in excused

\* In the draft, or accounted for.
Firm(e) == Stored(e) \/ Gone(e)

\* Where else an operation is that a place has which may empty, and that an edit
\* that was made is somewhere.
Safe(e) ==
    /\ InDoc(e) /\ ~dirty => Firm(e) \/ InWrite(e, "save")
    /\ InLoad(e) => Firm(e)
    /\ e \in Edits /\ made[e] # None => Firm(e) \/ InDoc(e) \/ \E t \in Tabs : InCopy(e, t)

\* Where what a publication wants is, by the publication's step: in the document
\* until the request is handled, in the store until that is over, in the draft
\* until it is read.
Covered(e) == Wanted(e) =>
    /\ pub.step = "flushing" /\ pubs \in asked => Firm(e) \/ InDoc(e)
    /\ pub.step = "flushing" /\ write["flush"].step # "none" /\ write["flush"].asker = pubs =>
         Firm(e) \/ InWrite(e, "flush")
    /\ pub.step = "read" /\ pub.acked => Firm(e)
    /\ pub.step \in {"noop", "commit"} /\ pub.acked => Gone(e) \/ InPub(e)

\* Knows is Known with the map made as a parameter.
LEMMA KnownKnows == \A s, e : e \in Known(s) <=> Knows(made, s, e)
BY DEF Known, Knows

LEMMA KnowsFacts ==
    /\ \A m, e : ~Knows(m, {}, e)
    /\ \A m, s, t, e : Knows(m, s \cup t, e) <=> Knows(m, s, e) \/ Knows(m, t, e)
    /\ \A m, o, e : Knows(m, {o}, e) <=> e = o \/ e \in m[o].over
BY DEF Knows

\* What a sound state knows does not change with what is made elsewhere.
LEMMA Steady ==
    ASSUME TInv, [Next]_vars, NEW s, Sound(made, s), NEW e
    PROVE  Knows(made', s, e) <=> Knows(made, s, e)
<1>1. \A o \in s : made'[o] = made[o]
      BY MadeStays DEF TInv, AllMade, Sound, Docs
<1> QED  BY <1>1 DEF Knows

\* Whatever overwrites the row accounts for what the row had.
LEMMA FirmStays ==
    ASSUME TInv, NEW s, NEW e, Overwrites(s), ydoc' = s, UNCHANGED made
    PROVE  /\ Gone(e) => Gone(e)'
           /\ Stored(e)' <=> Knows(made, s, e)
           /\ Firm(e) => Firm(e)'
<1>1. e \in Known(ydoc) <=> Stored(e)
      BY KnownKnows DEF Stored
<1>2. e \in Known(s) <=> Knows(made, s, e)
      BY KnownKnows
<1>3. Stored(e)' <=> Knows(made, s, e)
      BY DEF Stored
<1> QED  BY <1>1, <1>2, <1>3 DEF Overwrites, Firm, Gone

\* Where no place moves, an operation stays where it is.
LEMMA QuietKeeps ==
    ASSUME TInv, AtRest, [Next]_vars, NEW e, Safe(e), Covered(e), made'[e] = made[e],
           UNCHANGED <<ydoc, doc, dirty, copy, load, excused, asked, pub, pubs>>,
           \A w \in Lanes : /\ write'[w].state = write[w].state
                            /\ write'[w].asker = write[w].asker
                            /\ write'[w].step = "none" <=> write[w].step = "none"
    PROVE  Safe(e)' /\ Covered(e)'
<1>1. Stored(e)' <=> Stored(e)
      BY Steady DEF TInv, AllMade, Stored
<1>2. InDoc(e)' <=> InDoc(e)
      BY Steady DEF TInv, AllMade, InDoc
<1>3. InLoad(e)' <=> InLoad(e)
      BY Steady DEF TInv, AllMade, InLoad
<1>4. \A t \in Tabs : InCopy(e, t)' <=> InCopy(e, t)
      BY Steady DEF TInv, AllMade, InCopy
<1>5. \A w \in Lanes : InWrite(e, w)' <=> InWrite(e, w)
      BY Steady DEF TInv, AllMade, InWrite
<1>6. (Wanted(e)' <=> Wanted(e)) /\ (InPub(e)' <=> InPub(e))
      BY Steady DEF AtRest, Wanted, InPub
<1> QED  BY <1>1, <1>2, <1>3, <1>4, <1>5, <1>6 DEF Safe, Covered, Firm, Gone, Lanes

\* Every step keeps an operation safe and covered, one case per action.
LEMMA KeptStep ==
    ASSUME TInv, AtRest, Loads, [Next]_vars, NEW e \in Ops \ Compacts, Safe(e), Covered(e)
    PROVE  Safe(e)' /\ Covered(e)'
<1>1. /\ Knows(made', ydoc, e) <=> Stored(e)
      /\ doc # None => (Knows(made', doc, e) <=> InDoc(e))
      /\ Knows(made', load.base, e) <=> InLoad(e)
      /\ \A t \in Tabs : Knows(made', copy[t], e) <=> InCopy(e, t)
      /\ \A w \in Lanes : Knows(made', write[w].state, e) <=> InWrite(e, w)
      /\ Knows(made', pub.want, e) <=> Wanted(e)
      /\ Knows(made', pub.state, e) <=> InPub(e)
      BY Steady DEF TInv, AllMade, AtRest, Stored, InDoc, InLoad, InCopy, InWrite, Wanted,
                    InPub
<1>2. /\ write \in [Lanes -> Lane] /\ pub \in Publication /\ Lanes = {"save", "flush", "compact"}
      /\ doc # None => doc \in Docs
      BY DEF TInv, Types, Lanes
<1>3. \A m : ~Knows(m, {}, e)
      BY KnowsFacts
<1> USE DEF clients, row, bounds, counts, losses, Resident, Joined, Loading
<1>4. ASSUME NEW t \in Tabs, NEW x \in Edits, Edit(t, x)
      PROVE  Safe(e)' /\ Covered(e)'
  <2>1. /\ Append(t, x) /\ tab[t] # "closed"
        /\ UNCHANGED <<tab, asked, load, write, ydoc, pub, pubs, excused>>
        BY <1>4 DEF Edit
  <2>2. made'[e] # None => made[e] # None \/ e = x
        BY <1>4 DEF Edit, New, TInv, Types, Ops
  <2>3. /\ Stored(e)' <=> Stored(e)
        /\ InLoad(e)' <=> InLoad(e)
        /\ \A w \in Lanes : InWrite(e, w)' <=> InWrite(e, w)
        /\ Wanted(e)' <=> Wanted(e)
        /\ InPub(e)' <=> InPub(e)
        BY <1>1, <2>1 DEF Stored, InLoad, InWrite, Wanted, InPub
  <2>4. CASE tab[t] = "joined"
    <3>1. doc' = doc \cup {x} /\ dirty' = TRUE /\ copy' = copy /\ doc # None
          BY <2>1, <2>4 DEF Append, TInv, Attended
    <3>2. doc' # None
          BY <3>1, NoneAssumption DEF TInv, Types, Docs, Ops
    <3>3. (InDoc(e) => InDoc(e)') /\ (e = x => InDoc(e)')
          BY <1>1, <3>1, <3>2, KnowsFacts DEF InDoc
    <3>4. \A u \in Tabs : InCopy(e, u)' <=> InCopy(e, u)
          BY <1>1, <3>1 DEF InCopy
    <3> QED  BY <2>1, <2>2, <2>3, <3>1, <3>3, <3>4 DEF Safe, Covered, Firm, Gone, Lanes
  <2>5. CASE tab[t] # "joined"
    <3>1. /\ UNCHANGED <<doc, dirty>> /\ copy'[t] = copy[t] \cup {x}
          /\ \A u \in Tabs \ {t} : copy'[u] = copy[u]
          BY <2>1, <2>5 DEF Append, TInv, Types
    <3>2. InDoc(e)' <=> InDoc(e)
          BY <1>1, <3>1 DEF InDoc
    <3>3. \A u \in Tabs : InCopy(e, u) => InCopy(e, u)'
          BY <1>1, <3>1, KnowsFacts DEF InCopy
    <3>4. e = x => InCopy(e, t)'
          BY <3>1 DEF InCopy, Knows
    <3> QED  BY <2>1, <2>2, <2>3, <3>1, <3>2, <3>3, <3>4 DEF Safe, Covered, Firm, Gone, Lanes
  <2> QED  BY <2>4, <2>5
<1>5. ASSUME NEW t \in Tabs, Join(t)
      PROVE  Safe(e)' /\ Covered(e)'
  <2>1. /\ doc # None /\ doc' = doc \cup copy[t] /\ copy[t] \in Docs /\ doc \in Docs
        /\ dirty' = (dirty \/ ~(copy[t] \subseteq doc))
        /\ \A u \in Tabs \ {t} : copy'[u] = copy[u]
        /\ UNCHANGED <<made, asked, load, write, ydoc, pub, pubs, excused>>
        BY <1>5 DEF Join, TInv, Types
  <2>2. doc' # None
        BY <2>1, NoneAssumption DEF Docs
  <2>3. InDoc(e)' <=> InDoc(e) \/ InCopy(e, t)
        BY <1>1, <2>1, <2>2, KnowsFacts DEF InDoc
  <2>4. \A u \in Tabs \ {t} : InCopy(e, u)' <=> InCopy(e, u)
        BY <1>1, <2>1 DEF InCopy
  <2>5. ~dirty' => ~dirty /\ (InDoc(e)' <=> InDoc(e))
    <3>1. ~dirty' => ~dirty /\ doc' = doc
          BY <2>1
    <3> QED  BY <1>1, <2>1, <2>2, <3>1 DEF InDoc
  <2>6. /\ Stored(e)' <=> Stored(e)
        /\ InLoad(e)' <=> InLoad(e)
        /\ \A w \in Lanes : InWrite(e, w)' <=> InWrite(e, w)
        /\ Wanted(e)' <=> Wanted(e)
        /\ InPub(e)' <=> InPub(e)
        BY <2>1 DEF Stored, InLoad, InWrite, Wanted, InPub
  <2> QED  BY <2>1, <2>3, <2>4, <2>5, <2>6 DEF Safe, Covered, Firm, Gone, Lanes
<1>6. ASSUME NEW tabs, tabs \subseteq Joined, Part(tabs), tabs # {} => doc # None
      PROVE  \A t \in Tabs : InCopy(e, t) => Knows(made, copy'[t], e)
  <2> SUFFICES ASSUME NEW t \in Tabs, InCopy(e, t)
               PROVE  Knows(made, copy'[t], e)
      OBVIOUS
  <2>1. CASE t \in tabs
    <3>1. copy[t] = {}
          BY <1>6, <2>1 DEF AtRest
    <3> QED  BY <3>1, <1>3 DEF InCopy
  <2>2. CASE t \notin tabs
        BY <1>6, <2>2 DEF Part, InCopy
  <2> QED  BY <2>1, <2>2
<1>7. ASSUME NEW t \in Tabs, Drop(t)
      PROVE  Safe(e)' /\ Covered(e)'
  <2>1. /\ Part({t}) /\ {t} \subseteq Joined /\ doc # None
        /\ UNCHANGED <<made, doc, dirty, asked, load, write, ydoc, pub, pubs, excused>>
        BY <1>7 DEF Drop, TInv, Attended
  <2>2. \A u \in Tabs : InCopy(e, u) => InCopy(e, u)'
        BY <1>6, <2>1 DEF InCopy
  <2>3. /\ Stored(e)' <=> Stored(e)
        /\ InDoc(e)' <=> InDoc(e)
        /\ InLoad(e)' <=> InLoad(e)
        /\ \A w \in Lanes : InWrite(e, w)' <=> InWrite(e, w)
        /\ Wanted(e)' <=> Wanted(e)
        /\ InPub(e)' <=> InPub(e)
        BY <2>1 DEF Stored, InDoc, InLoad, InWrite, Wanted, InPub
  <2> QED  BY <2>1, <2>2, <2>3 DEF Safe, Covered, Firm, Gone, Lanes
<1>8. ASSUME BeginLoad
      PROVE  Safe(e)' /\ Covered(e)'
  <2>1. /\ load'.base = ydoc
        /\ UNCHANGED <<made, copy, doc, dirty, asked, write, ydoc, pub, pubs, excused>>
        BY <1>8 DEF BeginLoad
  <2>2. /\ InLoad(e)' <=> Stored(e)
        /\ Stored(e)' <=> Stored(e)
        /\ InDoc(e)' <=> InDoc(e)
        /\ \A t \in Tabs : InCopy(e, t)' <=> InCopy(e, t)
        /\ \A w \in Lanes : InWrite(e, w)' <=> InWrite(e, w)
        /\ Wanted(e)' <=> Wanted(e)
        /\ InPub(e)' <=> InPub(e)
        BY <2>1 DEF Stored, InDoc, InLoad, InCopy, InWrite, Wanted, InPub
  <2> QED  BY <2>1, <2>2 DEF Safe, Covered, Firm, Gone, Lanes
<1>9. ASSUME NEW o \in Compacts, Compact(o)
      PROVE  Safe(e)' /\ Covered(e)'
  <2>1. /\ New(o, Brings(Shows(load.base), Known(load.base), FALSE)) /\ load'.base = {o}
        /\ UNCHANGED <<copy, doc, dirty, asked, ydoc, pub, pubs, excused>>
        /\ o \in Ops /\ e # o
        BY <1>9 DEF Compact, Ops
  <2>2. \A w \in Lanes \ {"compact"} : write'[w] = write[w]
        BY <1>2, <1>9 DEF Compact
  <2>3. made'[e] = made[e] /\ (e \in made'[o].over <=> InLoad(e))
        BY <2>1, KnownKnows DEF New, Brings, TInv, Types, InLoad
  <2>4. InLoad(e)' <=> InLoad(e)
    <3>1. InLoad(e)' <=> Knows(made', {o}, e)
          BY <2>1 DEF InLoad
    <3> QED  BY <2>1, <2>3, <3>1, KnowsFacts
  <2>5. \A w \in Lanes \ {"compact"} : InWrite(e, w)' <=> InWrite(e, w)
        BY <1>1, <2>2 DEF InWrite
  <2>6. /\ Stored(e)' <=> Stored(e)
        /\ InDoc(e)' <=> InDoc(e)
        /\ \A t \in Tabs : InCopy(e, t)' <=> InCopy(e, t)
        /\ Wanted(e)' <=> Wanted(e)
        /\ InPub(e)' <=> InPub(e)
        BY <1>1, <2>1 DEF Stored, InDoc, InCopy, Wanted, InPub
  <2> QED  BY <2>1, <2>2, <2>3, <2>4, <2>5, <2>6 DEF Safe, Covered, Firm, Gone, Lanes
<1>10. ASSUME Loaded
       PROVE  Safe(e)' /\ Covered(e)'
  <2>1. /\ doc' = load.base /\ load.base \in Docs /\ load' = Cold
        /\ UNCHANGED <<made, copy, dirty, asked, write, ydoc, pub, pubs, excused>>
        BY <1>10 DEF Loaded, TInv, Types
  <2>2. doc' # None /\ load'.base = {}
        BY <2>1, NoneAssumption DEF Cold
  <2>3. InDoc(e)' <=> InLoad(e)
        BY <2>1, <2>2 DEF InDoc, InLoad
  <2>4. ~InLoad(e)' /\ (InDoc(e)' => Firm(e)) /\ (InDoc(e) => FALSE)
    <3>1. ~InLoad(e)'
          BY <1>3, <2>2 DEF InLoad
    <3>2. doc = None
          BY <1>10 DEF Loaded, Loads
    <3> QED  BY <2>3, <3>1, <3>2 DEF Safe, InDoc
  <2>5. /\ Stored(e)' <=> Stored(e)
        /\ \A t \in Tabs : InCopy(e, t)' <=> InCopy(e, t)
        /\ \A w \in Lanes : InWrite(e, w)' <=> InWrite(e, w)
        /\ Wanted(e)' <=> Wanted(e)
        /\ InPub(e)' <=> InPub(e)
        BY <2>1 DEF Stored, InCopy, InWrite, Wanted, InPub
  <2> QED  BY <2>1, <2>3, <2>4, <2>5 DEF Safe, Covered, Firm, Gone, Lanes
<1>11. ASSUME NEW n \in 0 .. MaxPublishes, NEW w \in {"save", "flush"}, Store(w, doc, n), doc # None
       PROVE  /\ write'[w].state = doc /\ write'[w].asker = n
              /\ \A v \in Lanes \ {w} : write'[v] = write[v]
              /\ write[w].step = "none"
  <2>1. w \in Lanes /\ doc \in Docs
        BY <1>2, <1>11
  <2>2. write[w].step = "none"
        BY <1>11 DEF Store
  <2>3. /\ write'[w].state = doc /\ write'[w].asker = n
        /\ \A v \in Lanes \ {w} : write'[v] = write[v]
        BY ONLY <1>2, <1>11, <2>1, StoreTyped
  <2> QED  BY <2>2, <2>3
<1>12. ASSUME Save
       PROVE  Safe(e)' /\ Covered(e)'
  <2>1. /\ doc # None /\ dirty' = FALSE /\ Store("save", doc, 0)
        /\ UNCHANGED <<made, copy, doc, asked, load, ydoc, pub, pubs, excused>>
        BY <1>12 DEF Save
  <2>2. write'["save"].state = doc /\ \A v \in Lanes \ {"save"} : write'[v] = write[v]
        BY <1>11, <2>1, LiveBoundAssumption
  <2>3. InDoc(e)' => InWrite(e, "save")'
        BY <2>1, <2>2 DEF InDoc, InWrite
  <2>4. InWrite(e, "flush")' <=> InWrite(e, "flush")
        BY <1>2, <2>1, <2>2 DEF InWrite
  <2>5. /\ Stored(e)' <=> Stored(e)
        /\ InDoc(e)' <=> InDoc(e)
        /\ InLoad(e)' <=> InLoad(e)
        /\ \A t \in Tabs : InCopy(e, t)' <=> InCopy(e, t)
        /\ Wanted(e)' <=> Wanted(e)
        /\ InPub(e)' <=> InPub(e)
        BY <2>1 DEF Stored, InDoc, InLoad, InCopy, Wanted, InPub
  <2> QED  BY <1>2, <2>1, <2>2, <2>3, <2>4, <2>5 DEF Safe, Covered, Firm, Gone
<1>13. ASSUME Unload
       PROVE  Safe(e)' /\ Covered(e)'
  <2>1. /\ doc' = None /\ ~dirty /\ write["save"].step = "none"
        /\ UNCHANGED <<made, copy, dirty, asked, load, write, ydoc, pub, pubs, excused>>
        BY <1>13 DEF Unload
  <2>2. ~InWrite(e, "save")
        BY <1>2, <1>3, <2>1 DEF AtRest, InWrite
  <2>3. InDoc(e) => Firm(e)
        BY <2>1, <2>2 DEF Safe
  <2>4. /\ ~InDoc(e)'
        /\ Stored(e)' <=> Stored(e)
        /\ InLoad(e)' <=> InLoad(e)
        /\ \A t \in Tabs : InCopy(e, t)' <=> InCopy(e, t)
        /\ \A w \in Lanes : InWrite(e, w)' <=> InWrite(e, w)
        /\ Wanted(e)' <=> Wanted(e)
        /\ InPub(e)' <=> InPub(e)
        BY <2>1 DEF Stored, InDoc, InLoad, InCopy, InWrite, Wanted, InPub
  <2> QED  BY <1>2, <2>1, <2>3, <2>4 DEF Safe, Covered, Firm, Gone
<1>14. ASSUME NEW w \in Lanes, NEW b \in BOOLEAN, Settle(w, b), UNCHANGED <<made, asked, pubs>>
       PROVE  /\ ~InWrite(e, w)' /\ write'[w].step = "none"
              /\ \A v \in Lanes \ {w} : /\ write'[v] = write[v]
                                        /\ InWrite(e, v)' <=> InWrite(e, v)
              /\ Wanted(e)' <=> Wanted(e)
              /\ InPub(e)' <=> InPub(e)
              /\ \/ pub' = pub
                 \/ /\ w = "flush" /\ pub.step = "flushing" /\ pubs = write[w].asker
                    /\ pub'.step = "read" /\ pub'.acked = b
  <2>1. /\ write'[w] = NoWrite /\ write'[w].state = {} /\ write'[w].step = "none"
        /\ \A v \in Lanes \ {w} : write'[v] = write[v]
        BY <1>2, <1>14, SettleTyped
  <2>2. /\ pub'.want = pub.want /\ pub'.state = pub.state
        /\ \/ pub' = pub
           \/ /\ w = "flush" /\ pub.step = "flushing" /\ pubs = write[w].asker
              /\ pub'.step = "read" /\ pub'.acked = b
        BY <1>2, <1>14, SettleHeard
  <2> QED  BY <1>3, <1>14, <2>1, <2>2 DEF InWrite, Wanted, InPub
<1>15. ASSUME NEW w \in Lanes, Land(w)
       PROVE  Safe(e)' /\ Covered(e)'
  <2>1. /\ write[w].step # "none" /\ ydoc' = write[w].state /\ Settle(w, TRUE)
        /\ Overwrites(write[w].state)
        /\ UNCHANGED <<made, copy, doc, dirty, asked, load, pubs>>
        BY <1>15 DEF Land
  <2>2. /\ Gone(e) => Gone(e)'
        /\ Stored(e)' <=> InWrite(e, w)
        /\ Firm(e) => Firm(e)'
        BY <2>1, FirmStays DEF InWrite
  <2>3. /\ InDoc(e)' <=> InDoc(e)
        /\ InLoad(e)' <=> InLoad(e)
        /\ \A t \in Tabs : InCopy(e, t)' <=> InCopy(e, t)
        BY <2>1 DEF InDoc, InLoad, InCopy
  <2>4. InWrite(e, w) => Firm(e)'
        BY <2>2 DEF Firm
  <2>5. Safe(e)'
    <3>1. InWrite(e, "save") => Firm(e)' \/ InWrite(e, "save")'
          BY <1>2, <1>14, <2>1, <2>4
    <3> QED  BY <2>1, <2>2, <2>3, <3>1 DEF Safe
  <2>6. Covered(e)'
    <3>1. /\ Wanted(e)' <=> Wanted(e)
          /\ InPub(e)' <=> InPub(e)
          /\ \/ pub' = pub
             \/ /\ w = "flush" /\ pub.step = "flushing" /\ pubs = write[w].asker
                /\ pub'.step = "read" /\ pub'.acked = TRUE
          BY <1>14, <2>1
    <3>2. \/ w = "flush" /\ write'["flush"].step = "none"
          \/ write'["flush"] = write["flush"] /\ (InWrite(e, "flush")' <=> InWrite(e, "flush"))
          BY <1>2, <1>14, <2>1
    <3> QED  BY <2>1, <2>2, <2>3, <2>4, <3>1, <3>2 DEF Covered
  <2> QED  BY <2>5, <2>6
<1>16. ASSUME NEW w \in Lanes, NEW b \in BOOLEAN, Settle(w, b), write[w].step # "none",
              UNCHANGED <<made, doc, dirty, asked, ydoc, pubs>>,
              \A t \in Tabs : InCopy(e, t) => InCopy(e, t)',
              load' = load \/ load' = Cold, Gone(e) => Gone(e)',
              InWrite(e, w) /\ (w = "save" \/ b) => Gone(e)'
       PROVE  Safe(e)' /\ Covered(e)'
  <2>1. /\ Stored(e)' <=> Stored(e)
        /\ InDoc(e)' <=> InDoc(e)
        /\ Firm(e) => Firm(e)'
        BY <1>16 DEF Stored, InDoc, Firm
  <2>2. InLoad(e)' => InLoad(e)
        BY <1>3, <1>16 DEF InLoad, Cold
  <2>3. /\ ~InWrite(e, w)' /\ write'[w].step = "none"
        /\ \A v \in Lanes \ {w} : /\ write'[v] = write[v]
                                  /\ InWrite(e, v)' <=> InWrite(e, v)
        /\ Wanted(e)' <=> Wanted(e)
        /\ InPub(e)' <=> InPub(e)
        /\ \/ pub' = pub
           \/ /\ w = "flush" /\ pub.step = "flushing" /\ pubs = write[w].asker
              /\ pub'.step = "read" /\ pub'.acked = b
        BY <1>14, <1>16
  <2>4. Safe(e)'
    <3>1. InWrite(e, "save") => Gone(e)' \/ InWrite(e, "save")'
          BY <1>2, <1>16, <2>3
    <3> QED  BY <1>16, <2>1, <2>2, <3>1 DEF Safe, Firm
  <2>5. Covered(e)'
    <3>1. \/ w = "flush" /\ write'["flush"].step = "none"
          \/ write'["flush"] = write["flush"] /\ (InWrite(e, "flush")' <=> InWrite(e, "flush"))
          BY <1>2, <2>3
    <3>2. w = "flush" /\ pub.step = "flushing" /\ pubs = write[w].asker /\ b /\ Wanted(e) => Firm(e)'
          BY <1>16, <2>1 DEF Covered, Firm
    <3> QED  BY <1>16, <2>1, <2>3, <3>1, <3>2 DEF Covered
  <2> QED  BY <2>4, <2>5
<1>17. ASSUME NEW w \in Lanes, Check(w)
       PROVE  Safe(e)' /\ Covered(e)'
  <2>1. CASE IsUnloadedEmptyFlush(ydoc, write[w].state)
    <3>1. /\ Settle(w, TRUE) /\ excused' = excused \cup Known(write[w].state)
          /\ write[w].step # "none"
          /\ UNCHANGED <<made, copy, doc, dirty, asked, load, ydoc, pubs>>
          BY <1>17, <2>1 DEF Check
    <3>2. (Gone(e) => Gone(e)') /\ (InWrite(e, w) => Gone(e)')
          BY <3>1, KnownKnows DEF Gone, InWrite
    <3>3. \A t \in Tabs : InCopy(e, t) => InCopy(e, t)'
          BY <3>1 DEF InCopy
    <3> QED  BY <1>16, <3>1, <3>2, <3>3
  <2>2. CASE ~IsUnloadedEmptyFlush(ydoc, write[w].state)
    <3>1. /\ write' = [write EXCEPT ![w].step = "update", ![w].seen = ydoc]
          /\ UNCHANGED <<made, copy, doc, dirty, asked, load, ydoc, pub, pubs, excused>>
          /\ write[w].step # "none"
          BY <1>17, <2>2 DEF Check
    <3>2. \A v \in Lanes : /\ write'[v].state = write[v].state
                           /\ write'[v].asker = write[v].asker
                           /\ write'[v].step = "none" <=> write[v].step = "none"
          BY <1>2, <3>1 DEF Lane
    <3> QED  BY <3>1, <3>2, QuietKeeps
  <2> QED  BY <2>1, <2>2
<1>18. ASSUME NEW w \in Lanes, Retry(w)
       PROVE  Safe(e)' /\ Covered(e)'
  <2>1. /\ write' = [write EXCEPT ![w].tries = @ + 1, ![w].step = FirstStep(write[w].state)]
        /\ UNCHANGED <<made, copy, doc, dirty, asked, load, ydoc, pub, pubs, excused>>
        /\ write[w].step # "none"
        BY <1>18 DEF Retry
  <2>2. \A v \in Lanes : /\ write'[v].state = write[v].state
                         /\ write'[v].asker = write[v].asker
                         /\ write'[v].step = "none" <=> write[v].step = "none"
        BY <1>2, <2>1 DEF Lane, FirstStep
  <2> QED  BY <2>1, <2>2, QuietKeeps
<1>19. ASSUME NEW w \in Lanes, GiveUp(w) \/ Throw(w)
       PROVE  Safe(e)' /\ Covered(e)'
  <2>1. /\ Settle(w, FALSE) /\ Unstored(w) /\ write[w].step # "none"
        /\ load' = load \/ load' = Cold
        /\ UNCHANGED <<made, doc, dirty, asked, ydoc, pubs>>
        BY <1>19 DEF GiveUp, Throw
  <2>2. (Gone(e) => Gone(e)') /\ (InWrite(e, w) /\ w = "save" => Gone(e)')
        BY <2>1, KnownKnows DEF Unstored, Gone, InWrite
  <2>3. \A t \in Tabs : InCopy(e, t) => InCopy(e, t)'
    <3>1. CASE copy' = copy
          BY <2>1, <3>1 DEF InCopy
    <3>2. CASE Part(Joined) /\ doc # None
      <4>1. \A t \in Tabs : InCopy(e, t) => Knows(made, copy'[t], e)
            BY <1>6, <3>2
      <4> QED  BY <2>1, <4>1 DEF InCopy
    <3> QED  BY <1>19, <3>1, <3>2 DEF GiveUp, Throw
  <2> QED  BY <1>16, <2>1, <2>2, <2>3
<1>20. ASSUME Crash
       PROVE  Safe(e)' /\ Covered(e)'
  <2>1. /\ doc' = None /\ asked' = {} /\ load' = Cold /\ Part(Joined)
        /\ write' = [w \in Lanes |-> NoWrite]
        /\ excused' = IF Joined = {} /\ doc # None THEN excused \cup Known(doc) ELSE excused
        /\ UNCHANGED <<made, ydoc, pub, pubs>>
        BY <1>20 DEF Crash
  <2>2. /\ Stored(e)' <=> Stored(e)
        /\ ~InDoc(e)' /\ ~InLoad(e)' /\ write'["flush"].step = "none"
        /\ Wanted(e)' <=> Wanted(e)
        /\ InPub(e)' <=> InPub(e)
        BY <1>2, <1>3, <2>1 DEF Stored, InDoc, InLoad, Wanted, InPub, Cold, NoWrite
  <2>3. Gone(e) => Gone(e)'
        BY <2>1 DEF Gone
  <2>4. \A t \in Tabs : InCopy(e, t) => InCopy(e, t)'
    <3>1. Joined # {} => doc # None
          BY DEF TInv, Attended
    <3>2. \A t \in Tabs : InCopy(e, t) => Knows(made, copy'[t], e)
          BY <1>6, <2>1, <3>1
    <3> QED  BY <2>1, <3>2 DEF InCopy
  <2>5. InDoc(e) => Gone(e)' \/ \E t \in Tabs : InCopy(e, t)'
    <3>1. CASE Joined = {}
          BY <2>1, <3>1, KnownKnows DEF InDoc, Gone
    <3>2. ASSUME NEW t \in Joined
          PROVE  InDoc(e) => \E u \in Tabs : InCopy(e, u)'
      <4>1. copy'[t] = doc /\ t \in Tabs
            BY <2>1, <3>2 DEF Part
      <4> QED  BY <2>1, <4>1 DEF InDoc, InCopy
    <3> QED  BY <3>1, <3>2
  <2> QED  BY <2>1, <2>2, <2>3, <2>4, <2>5 DEF Safe, Covered, Firm
<1>21. ASSUME UNCHANGED <<made, copy, doc, dirty, load, ydoc, excused>>
       PROVE  /\ Safe(e) /\ (\A w \in Lanes : InWrite(e, w) => InWrite(e, w)') => Safe(e)'
              /\ Firm(e)' <=> Firm(e)
              /\ Gone(e)' <=> Gone(e)
              /\ Stored(e)' <=> Stored(e)
              /\ InDoc(e)' <=> InDoc(e)
  <2>1. /\ Stored(e)' <=> Stored(e)
        /\ InDoc(e)' <=> InDoc(e)
        /\ InLoad(e)' <=> InLoad(e)
        /\ \A t \in Tabs : InCopy(e, t)' <=> InCopy(e, t)
        /\ Gone(e)' <=> Gone(e)
        BY <1>21 DEF Stored, InDoc, InLoad, InCopy, Gone
  <2> QED  BY <1>2, <1>21, <2>1 DEF Safe, Firm
<1>22. ASSUME AskFlush
       PROVE  Safe(e)' /\ Covered(e)'
  <2>1. /\ pubs' = pubs + 1
        /\ pub' = [NoPub EXCEPT !.step = "flushing", !.want = IF doc # None THEN doc ELSE {}]
        /\ UNCHANGED <<made, copy, doc, dirty, load, write, ydoc, excused>>
        BY <1>22 DEF AskFlush
  <2>2. pub'.step = "flushing" /\ (doc = None => pub'.want = {}) /\ (doc # None => pub'.want = doc)
        BY <2>1 DEF NoPub
  <2>3. Wanted(e)' => InDoc(e)'
        BY <1>3, <2>1, <2>2 DEF Wanted, InDoc
  <2>4. write'["flush"].asker # pubs'
    <3>1. write["flush"].asker <= pubs /\ write["flush"].asker \in Nat /\ pubs \in Nat
          BY <1>2, LiveBoundAssumption DEF AtRest, Lane, TInv, Types
    <3> QED  BY <2>1, <3>1
  <2>5. Safe(e)'
        BY <1>21, <2>1 DEF InWrite
  <2> QED  BY <2>2, <2>3, <2>4, <2>5 DEF Covered
<1>23. ASSUME NEW n \in asked, HandleFlush(n)
       PROVE  Safe(e)' /\ Covered(e)'
  <2>1. /\ n \in 0 .. MaxPublishes /\ asked' = asked \ {n}
        /\ UNCHANGED <<made, copy, doc, dirty, load, ydoc, pubs, excused>>
        BY <1>23 DEF HandleFlush, TInv, Types
  <2>2. CASE doc # None
    <3>1. Store("flush", doc, n) /\ UNCHANGED pub
          BY <1>23, <2>2 DEF HandleFlush
    <3>2. /\ write'["flush"].state = doc /\ write'["flush"].asker = n
          /\ \A v \in Lanes \ {"flush"} : write'[v] = write[v]
          /\ write["flush"].step = "none"
          BY <1>11, <2>1, <2>2, <3>1
    <3>3. /\ InDoc(e) <=> InWrite(e, "flush")'
          /\ InWrite(e, "save")' <=> InWrite(e, "save")
          /\ Wanted(e)' <=> Wanted(e)
          /\ InPub(e)' <=> InPub(e)
          BY <1>2, <2>1, <2>2, <3>1, <3>2 DEF InDoc, InWrite, Wanted, InPub
    <3>4. Safe(e)'
      <4>1. ~InWrite(e, "flush")
            BY <1>2, <1>3, <3>2 DEF AtRest, InWrite
      <4>2. \A w \in Lanes : InWrite(e, w) => InWrite(e, w)'
            BY <1>2, <2>1, <3>2, <4>1 DEF InWrite
      <4> QED  BY <1>21, <2>1, <4>2
    <3> QED  BY <1>21, <1>23, <2>1, <3>1, <3>2, <3>3, <3>4 DEF Covered
  <2>3. CASE doc = None
    <3>1. Answer(n, TRUE) /\ UNCHANGED write
          BY <1>23, <2>3 DEF HandleFlush
    <3>2. /\ pub'.want = pub.want /\ pub'.state = pub.state
          /\ \/ pub' = pub
             \/ /\ pub.step = "flushing" /\ pubs = n
                /\ pub'.step = "read" /\ pub'.acked = TRUE
          BY <1>2, <3>1, AnswerHeard
    <3>3. /\ ~InDoc(e)
          /\ InWrite(e, "flush")' <=> InWrite(e, "flush")
          /\ Wanted(e)' <=> Wanted(e)
          /\ InPub(e)' <=> InPub(e)
          BY <2>1, <2>3, <3>1, <3>2 DEF InDoc, InWrite, Wanted, InPub
    <3>4. Safe(e)'
          BY <1>21, <2>1, <3>1 DEF InWrite
    <3> QED  BY <1>21, <1>23, <2>1, <3>1, <3>2, <3>3, <3>4 DEF Covered
  <2> QED  BY <2>2, <2>3
<1>24. ASSUME AnswerElsewhere \/ FlushTimeout
       PROVE  Safe(e)' /\ Covered(e)'
  <2>1. UNCHANGED <<made, copy, doc, dirty, asked, load, write, ydoc, pubs, excused>>
        BY <1>24 DEF AnswerElsewhere, FlushTimeout
  <2>2. /\ pub'.want = pub.want /\ pub'.state = pub.state
        /\ pub' = pub \/ (pub'.step = "read" /\ ~pub'.acked)
    <3>1. CASE AnswerElsewhere
          BY <1>2, <3>1, AnswerHeard DEF AnswerElsewhere
    <3>2. CASE FlushTimeout
          BY <1>2, <3>2 DEF FlushTimeout, Publication, AtRest
    <3> QED  BY <1>24, <3>1, <3>2
  <2>3. /\ InWrite(e, "flush")' <=> InWrite(e, "flush")
        /\ Wanted(e)' <=> Wanted(e)
        /\ InPub(e)' <=> InPub(e)
        BY <2>1, <2>2 DEF InWrite, Wanted, InPub
  <2>4. Safe(e)'
        BY <1>21, <2>1 DEF InWrite
  <2> QED  BY <1>21, <2>1, <2>2, <2>3, <2>4 DEF Covered
<1>25. ASSUME ReadDraft
       PROVE  Safe(e)' /\ Covered(e)'
  <2>1. /\ pub.step = "read" /\ pub'.want = pub.want /\ pub'.state = ydoc
        /\ pub'.acked = pub.acked /\ pub'.step \in {"noop", "commit"}
        /\ UNCHANGED <<made, copy, doc, dirty, load, write, ydoc, excused>>
        BY <1>2, <1>25 DEF ReadDraft, Publication
  <2>2. /\ Wanted(e)' <=> Wanted(e)
        /\ InPub(e)' <=> Stored(e)
        BY <2>1 DEF Wanted, InPub, Stored
  <2>3. Safe(e)'
        BY <1>21, <2>1 DEF InWrite
  <2> QED  BY <1>21, <2>1, <2>2, <2>3 DEF Covered, Firm
<1>26. ASSUME PublishNothing \/ CommitPublish \/ PublishFails
       PROVE  Safe(e)' /\ Covered(e)'
  <2>1. pub' = NoPub /\ UNCHANGED <<made, copy, doc, dirty, load, write, ydoc, excused>>
        BY <1>26 DEF PublishNothing, CommitPublish, PublishFails
  <2>2. ~Wanted(e)'
    <3>1. pub'.want = {}
          BY <2>1 DEF NoPub
    <3> QED  BY <1>3, <3>1 DEF Wanted
  <2>3. Safe(e)'
        BY <1>21, <2>1 DEF InWrite
  <2> QED  BY <2>2, <2>3 DEF Covered
<1>27. ASSUME NEW o \in Restores, NEW rev \in history, BeginRestore(o, rev)
       PROVE  Safe(e)' /\ Covered(e)'
  <2>1. /\ New(o, Brings(Shows(rev), Known(ydoc), TRUE)) /\ o \in Ops /\ o \notin Edits
        /\ UNCHANGED <<copy, doc, dirty, asked, load, write, ydoc, pub, pubs, excused>>
        BY <1>27, LiveAssumption DEF BeginRestore, Ops
  <2>2. \A k \in Ops \ {o} : made'[k] = made[k]
        BY <2>1 DEF New, TInv, Types
  <2>3. e \in Edits => made'[e] = made[e]
        BY <2>1, <2>2
  <2>4. /\ Stored(e)' <=> Stored(e)
        /\ InDoc(e)' <=> InDoc(e)
        /\ InLoad(e)' <=> InLoad(e)
        /\ \A t \in Tabs : InCopy(e, t)' <=> InCopy(e, t)
        /\ \A w \in Lanes : InWrite(e, w)' <=> InWrite(e, w)
        /\ Wanted(e)' <=> Wanted(e)
        /\ InPub(e)' <=> InPub(e)
        BY <1>1, <2>1 DEF Stored, InDoc, InLoad, InCopy, InWrite, Wanted, InPub
  <2> QED  BY <1>2, <2>1, <2>3, <2>4 DEF Safe, Covered, Firm, Gone
<1>28. ASSUME CommitRestore
       PROVE  Safe(e)' /\ Covered(e)'
  <2>1. /\ ydoc' = rst.base \cup {rst.op} /\ Overwrites(rst.base \cup {rst.op})
        /\ UNCHANGED <<made, copy, doc, dirty, asked, load, write, pub, pubs>>
        BY <1>28 DEF CommitRestore
  <2>2. (Gone(e) => Gone(e)') /\ (Firm(e) => Firm(e)')
        BY <2>1, FirmStays
  <2>3. /\ InDoc(e)' <=> InDoc(e)
        /\ InLoad(e)' <=> InLoad(e)
        /\ \A t \in Tabs : InCopy(e, t)' <=> InCopy(e, t)
        /\ \A w \in Lanes : InWrite(e, w)' <=> InWrite(e, w)
        /\ Wanted(e)' <=> Wanted(e)
        /\ InPub(e)' <=> InPub(e)
        BY <2>1 DEF InDoc, InLoad, InCopy, InWrite, Wanted, InPub
  <2> QED  BY <1>2, <2>1, <2>2, <2>3 DEF Safe, Covered
<1>29. ASSUME Signal
       PROVE  Safe(e)' /\ Covered(e)'
  <2>1. UNCHANGED <<made, copy, asked, load, write, ydoc, pub, pubs, excused>>
        BY <1>29 DEF Signal
  <2>2. /\ InDoc(e) => InDoc(e)'
        /\ ~dirty' => ~dirty /\ (InDoc(e)' <=> InDoc(e))
    <3>1. CASE doc = None
          BY <1>29, <2>1, <3>1 DEF Signal, InDoc
    <3>2. CASE doc # None
      <4>1. doc' = doc \cup {rst.op} /\ dirty' = TRUE /\ doc \in Docs /\ rst.op \in Ops
            BY <1>2, <1>29, <3>2 DEF Signal, TInv, AllMade
      <4>2. doc' # None
            BY <4>1, NoneAssumption DEF Docs
      <4> QED  BY <2>1, <4>1, <4>2, KnowsFacts DEF InDoc
    <3> QED  BY <3>1, <3>2
  <2>3. /\ Stored(e)' <=> Stored(e)
        /\ InLoad(e)' <=> InLoad(e)
        /\ \A t \in Tabs : InCopy(e, t)' <=> InCopy(e, t)
        /\ \A w \in Lanes : InWrite(e, w)' <=> InWrite(e, w)
        /\ Wanted(e)' <=> Wanted(e)
        /\ InPub(e)' <=> InPub(e)
        BY <2>1 DEF Stored, InLoad, InCopy, InWrite, Wanted, InPub
  <2> QED  BY <1>2, <2>1, <2>2, <2>3 DEF Safe, Covered, Firm, Gone
<1>30. ASSUME \/ \E t \in Tabs : Close(t)
              \/ RestoreFails \/ LoseSignal \/ UNCHANGED vars
       PROVE  Safe(e)' /\ Covered(e)'
  <2>1. UNCHANGED <<made, copy, doc, dirty, asked, load, write, ydoc, pub, pubs, excused>>
        BY <1>30 DEF Close, RestoreFails, LoseSignal, vars
  <2> QED  BY <2>1, QuietKeeps
<1> QED  BY <1>4, <1>5, <1>7, <1>8, <1>9, <1>10, <1>12, <1>13, <1>15, <1>17, <1>18,
            <1>19, <1>20, <1>22, <1>23, <1>24, <1>25, <1>26, <1>27, <1>28, <1>29, <1>30
         DEF Next, Writes, Publishes

----------------------------------------------------------------------------
(* Blanking *)

ShowsBy(m, s) == {x[2] : x \in VisibleBy(m, s)}
Unloaded(m, seen, state) ==
    /\ ShowsBy(m, state) = {} /\ ShowsBy(m, seen) # {}
    /\ ShowsBy(m, seen \cup state) # {}

\* A store of nothing that is about to be written was let through over the row it
\* looked at, and a restore wipes all of the row it read.
Allowed(m, w) == w.step = "update" => ~Unloaded(m, w.seen, w.state)
Wiping(m, r) == r.step # "none" => m[r.op].wipes /\ r.base \subseteq m[r.op].over
Seeing == (\A w \in Lanes : Allowed(made, write[w])) /\ Wiping(made, rst)

\* Shows with the map made as a parameter, as Knows is.
LEMMA ShowsShowsBy ==
    /\ \A s : Shows(s) = ShowsBy(made, s)
    /\ \A a, b : IsUnloadedEmptyFlush(a, b) <=> Unloaded(made, a, b)
BY DEF Shows, ShowsBy, Visible, VisibleBy, IsUnloadedEmptyFlush, Unloaded

\* What a sound state shows does not change with what is made elsewhere.
LEMMA ShowsStay ==
    ASSUME TInv, [Next]_vars, NEW s, Sound(made, s)
    PROVE  ShowsBy(made', s) = ShowsBy(made, s)
<1>1. \A o \in s : made'[o] = made[o]
      BY MadeStays DEF TInv, AllMade, Sound, Docs
<1>2. VisibleBy(made', s) = VisibleBy(made, s)
      BY <1>1 DEF VisibleBy
<1> QED  BY <1>2 DEF ShowsBy

\* A state that shows nothing is checked before it is written.
LEMMA BlankChecked == \A s : Shows(s) = {} => FirstStep(s) = "check"
<1> SUFFICES ASSUME NEW s, Shows(s) = {}
             PROVE  Text(s) = Blank
    BY DEF FirstStep
<1>1. Visible(s) = {}
      BY DEF Shows
<1>2. \A e \in Typed : {x \in Visible(s) : x[2] = e} = {}
      BY <1>1
<1>3. \A e \in Typed : Cardinality({x \in Visible(s) : x[2] = e}) = 0
      BY <1>2, FS_EmptySet
<1> QED  BY <1>3 DEF Text, TextOf, Blank

\* A compaction shows what it was made from.
LEMMA CompactShows ==
    ASSUME TInv, NEW o \in Compacts, Compact(o)
    PROVE  Shows(load.base) \subseteq ShowsBy(made', {o})
<1>1. made'[o].text = Shows(load.base) /\ made'[o].wipes = FALSE
      BY DEF Compact, New, Brings, TInv, Types, Ops
<1> SUFFICES ASSUME NEW p \in Shows(load.base)
             PROVE  p \in ShowsBy(made', {o})
    OBVIOUS
<1>2. <<o, p>> \in VisibleBy(made', {o})
      BY <1>1, ShowsTyped DEF VisibleBy
<1> QED  BY <1>2 DEF ShowsBy

\* What is about to be written stays with a right to be.
LEMMA SeeingStep ==
    ASSUME TInv, AtRest, Seeing, [Next]_vars
    PROVE  Seeing'
<1> USE DEF clients, row, bounds, counts, losses, Resident
<1>1. write \in [Lanes -> Lane] /\ Lanes = {"save", "flush", "compact"} /\ pub \in Publication
      BY DEF TInv, Types, Lanes
<1>2. ASSUME NEW w \in Lanes
      PROVE  Allowed(made', write[w])
  <2>1. /\ Sound(made, write[w].seen) /\ Sound(made, write[w].state)
        /\ Sound(made, write[w].seen \cup write[w].state)
        BY DEF TInv, AllMade, AtRest, Sound, Docs
  <2> QED  BY <2>1, ShowsStay DEF Seeing, Allowed, Unloaded
<1>3. Wiping(made', rst)
  <2>1. rst.step # "none" => made'[rst.op] = made[rst.op]
        BY MadeStays DEF TInv, AllMade
  <2> QED  BY <2>1 DEF Seeing, Wiping
<1>4. Allowed(made', NoWrite)
      BY DEF Allowed, NoWrite
<1>5. CASE UNCHANGED <<write, rst>>
      BY <1>2, <1>3, <1>5 DEF Seeing
<1>6. ASSUME NEW w \in Lanes, NEW b \in BOOLEAN, Settle(w, b), UNCHANGED rst
      PROVE  Seeing'
  <2>1. write'[w] = NoWrite /\ \A v \in Lanes \ {w} : write'[v] = write[v]
        BY <1>1, <1>6, SettleTyped
  <2> QED  BY <1>2, <1>3, <1>4, <1>6, <2>1 DEF Seeing
<1>7. ASSUME NEW w \in Lanes, NEW n \in 0 .. MaxPublishes, Store(w, doc, n), doc # None,
             UNCHANGED <<made, rst>>
      PROVE  Seeing'
  <2>1. /\ write'[w].state = doc /\ write'[w].step = FirstStep(doc)
        /\ \A v \in Lanes \ {w} : write'[v] = write[v]
    <3>1. doc \in Docs
          BY <1>7 DEF TInv, Types
    <3> QED  BY ONLY <1>1, <1>7, <3>1, StoreTyped
  <2>2. Allowed(made', write'[w])
    <3>1. write'[w].step = "update" => Shows(doc) # {}
          BY <2>1, BlankChecked
    <3> QED  BY <1>7, <2>1, <3>1, ShowsShowsBy DEF Allowed, Unloaded
  <2> QED  BY <1>2, <1>3, <1>7, <2>1, <2>2 DEF Seeing
<1>8. CASE Save
  <2>1. /\ Store("save", doc, 0) /\ doc # None /\ UNCHANGED <<made, rst>>
        /\ 0 \in 0 .. MaxPublishes
        BY <1>8, LiveBoundAssumption DEF Save
  <2> QED  BY <1>1, <1>7, <2>1
<1>9. ASSUME NEW n \in asked, HandleFlush(n)
      PROVE  Seeing'
  <2>1. CASE doc = None
        BY <1>5, <1>9, <2>1 DEF HandleFlush
  <2>2. CASE doc # None
    <3>1. /\ Store("flush", doc, n) /\ UNCHANGED <<made, rst>> /\ n \in 0 .. MaxPublishes
          BY <1>9, <2>2 DEF HandleFlush, TInv, Types
    <3> QED  BY <1>1, <1>7, <2>2, <3>1
  <2> QED  BY <2>1, <2>2
<1>10. ASSUME NEW w \in Lanes, Check(w)
       PROVE  Seeing'
  <2>1. CASE IsUnloadedEmptyFlush(ydoc, write[w].state)
        BY <1>6, <1>10, <2>1 DEF Check
  <2>2. CASE ~IsUnloadedEmptyFlush(ydoc, write[w].state)
    <3>1. /\ write' = [write EXCEPT ![w].step = "update", ![w].seen = ydoc]
          /\ UNCHANGED <<made, rst>>
          BY <1>10, <2>2 DEF Check
    <3>2. /\ write'[w].seen = ydoc /\ write'[w].state = write[w].state
          /\ \A v \in Lanes \ {w} : write'[v] = write[v]
          BY <1>1, <3>1 DEF Lane
    <3>3. Allowed(made', write'[w])
          BY <2>2, <3>1, <3>2, ShowsShowsBy DEF Allowed
    <3> QED  BY <1>2, <1>3, <3>1, <3>2, <3>3 DEF Seeing
  <2> QED  BY <2>1, <2>2
<1>11. ASSUME NEW w \in Lanes, Retry(w)
       PROVE  Seeing'
  <2>1. /\ write' = [write EXCEPT ![w].tries = @ + 1, ![w].step = FirstStep(write[w].state)]
        /\ UNCHANGED <<made, rst>> /\ write[w].step = "update"
        BY <1>11 DEF Retry
  <2>2. /\ write'[w].seen = write[w].seen /\ write'[w].state = write[w].state
        /\ \A v \in Lanes \ {w} : write'[v] = write[v]
        BY <1>1, <2>1 DEF Lane
  <2>3. Allowed(made', write'[w])
        BY <1>2, <2>1, <2>2 DEF Allowed
  <2> QED  BY <1>2, <1>3, <2>1, <2>2, <2>3 DEF Seeing
<1>12. ASSUME NEW w \in Lanes, Land(w) \/ GiveUp(w) \/ Throw(w)
       PROVE  Seeing'
  <2>1. PICK b \in BOOLEAN : Settle(w, b) /\ UNCHANGED rst
        BY <1>12 DEF Land, GiveUp, Throw
  <2> QED  BY <1>6, <2>1
<1>13. ASSUME NEW o \in Compacts, Compact(o)
       PROVE  Seeing'
  <2> DEFINE st == IF Shows(load.base) = {} THEN "check" ELSE "update"
             rec == [NoWrite EXCEPT !.step = st, !.state = {o}]
  <2>1. write' = [write EXCEPT !["compact"] = rec] /\ UNCHANGED rst
        BY <1>13 DEF Compact
  <2>2. rec.step = st /\ rec.state = {o}
        BY DEF NoWrite
  <2>3. Allowed(made', rec)
    <3>1. rec.step = "update" => Shows(load.base) # {}
          BY <2>2
    <3>2. rec.step = "update" => ShowsBy(made', {o}) # {}
          BY <1>13, <3>1, CompactShows
    <3> HIDE DEF rec
    <3> QED  BY <2>2, <3>2 DEF Allowed, Unloaded
  <2> HIDE DEF rec
  <2>4. /\ write'["compact"] = rec
        /\ \A v \in Lanes \ {"compact"} : write'[v] = write[v]
        BY <1>1, <2>1
  <2> QED  BY <1>2, <1>3, <2>1, <2>3, <2>4 DEF Seeing
<1>14. CASE Crash
  <2>1. (\A w \in Lanes : write'[w] = NoWrite) /\ UNCHANGED rst
        BY <1>14 DEF Crash
  <2> QED  BY <1>3, <1>4, <2>1 DEF Seeing
<1>15. ASSUME NEW o \in Restores, NEW rev \in history, BeginRestore(o, rev)
       PROVE  Seeing'
  <2>1. /\ New(o, Brings(Shows(rev), Known(ydoc), TRUE))
        /\ rst' = [step |-> "commit", op |-> o, base |-> ydoc] /\ UNCHANGED write
        BY <1>15 DEF BeginRestore
  <2>2. made'[o].wipes /\ ydoc \subseteq made'[o].over
        BY <2>1 DEF New, Brings, Known, TInv, Types, Ops
  <2>3. Wiping(made', rst')
        BY <2>1, <2>2 DEF Wiping
  <2> QED  BY <1>2, <2>1, <2>3 DEF Seeing
<1>16. CASE CommitRestore
  <2>1. /\ rst' = [rst EXCEPT !.step = "signal"] /\ rst.step = "commit" /\ UNCHANGED write
        BY <1>16 DEF CommitRestore
  <2>2. rst'.op = rst.op /\ rst'.base = rst.base
        BY <2>1 DEF TInv, Types, Restoring
  <2>3. Wiping(made', rst')
        BY <1>3, <2>1, <2>2 DEF Wiping
  <2> QED  BY <1>2, <2>1, <2>3 DEF Seeing
<1>17. CASE RestoreFails \/ Signal \/ LoseSignal
  <2>1. rst' = NoRst /\ UNCHANGED write
        BY <1>17 DEF RestoreFails, Signal, LoseSignal
  <2>2. Wiping(made', rst')
        BY <2>1 DEF Wiping, NoRst
  <2> QED  BY <1>2, <2>1, <2>2 DEF Seeing
<1>18. CASE \E t \in Tabs : Join(t) \/ Close(t) \/ Drop(t) \/ \E e \in Edits : Edit(t, e)
      BY <1>5, <1>18 DEF Join, Close, Drop, Edit
<1>19. CASE \/ BeginLoad \/ Loaded \/ Unload \/ AskFlush \/ AnswerElsewhere
            \/ Publishes \/ PublishFails \/ UNCHANGED vars
      BY <1>5, <1>19 DEF BeginLoad, Loaded, Unload, AskFlush, AnswerElsewhere, Publishes,
                        FlushTimeout, ReadDraft, PublishNothing, CommitPublish, PublishFails,
                        vars
<1> QED  BY <1>8, <1>9, <1>10, <1>11, <1>12, <1>13, <1>14, <1>15, <1>16, <1>17, <1>18, <1>19
         DEF Next, Writes

\* A step that blanks the draft writes the row, and who writes it saw what stood
\* there or looked at another row.
LEMMA BlankStep ==
    ASSUME TInv, Seeing, [Next]_vars, Shows(ydoc) # {}, (Shows(ydoc) = {})'
    PROVE  \/ Belated
           \/ \A x \in Visible(ydoc) :
                \E o \in ydoc' : made'[o].wipes /\ x[1] \in made'[o].over
<1> USE DEF row
<1>1. ydoc' # ydoc
  <2>1. Sound(made, ydoc)
        BY DEF TInv, AllMade
  <2>2. ShowsBy(made', ydoc) = Shows(ydoc)
        BY <2>1, ShowsStay, ShowsShowsBy
  <2>3. Shows(ydoc)' = ShowsBy(made', ydoc')
        BY DEF Shows, ShowsBy, Visible, VisibleBy
  <2> QED  BY <2>2, <2>3
<1>2. ASSUME NEW w \in Lanes, Land(w), write[w].seen = ydoc
      PROVE  \A x \in Visible(ydoc) :
                \E o \in ydoc' : made'[o].wipes /\ x[1] \in made'[o].over
  <2>1. ydoc' = write[w].state /\ made' = made /\ write[w].step = "update"
        BY <1>2 DEF Land
  <2>2. Shows(write[w].state) = {}
        BY <2>1 DEF Shows, Visible
  <2>3. ~IsUnloadedEmptyFlush(ydoc, write[w].state)
        BY <1>2, <2>1, ShowsShowsBy DEF Seeing, Allowed
  <2>4. Shows(ydoc \cup write[w].state) = {}
        BY <2>2, <2>3 DEF IsUnloadedEmptyFlush
  <2>5. Visible(ydoc \cup write[w].state) = {}
        BY <2>4 DEF Shows
  <2> SUFFICES ASSUME NEW x \in Visible(ydoc)
               PROVE  \E o \in write[w].state : made[o].wipes /\ x[1] \in made[o].over
      BY <2>1
  <2>6. /\ x \in (ydoc \cup write[w].state) \X Typed /\ x[2] \in made[x[1]].text
        /\ \A k \in ydoc : made[k].wipes => x[1] \notin made[k].over
        BY DEF Visible
  <2>7. \E k \in ydoc \cup write[w].state : made[k].wipes /\ x[1] \in made[k].over
        BY <2>5, <2>6 DEF Visible
  <2> QED  BY <2>6, <2>7
<1>3. ASSUME NEW w \in Lanes, Land(w), write[w].seen # ydoc
      PROVE  Belated
  <2>1. write'[w] # write[w]
    <3>1. write[w].step = "update" /\ write'[w].step = "none"
          BY <1>3, SettleTyped DEF Land, TInv, Types
    <3> QED  BY <3>1
  <2> QED  BY <1>3, <2>1 DEF Belated
<1>4. ASSUME CommitRestore
      PROVE  \/ Belated
             \/ \A x \in Visible(ydoc) :
                  \E o \in ydoc' : made'[o].wipes /\ x[1] \in made'[o].over
  <2>1. /\ ydoc' = rst.base \cup {rst.op} /\ made' = made /\ rst.step = "commit"
        /\ rst' = [rst EXCEPT !.step = "signal"]
        BY <1>4 DEF CommitRestore
  <2>2. CASE rst.base # ydoc
    <3>1. rst' # rst
          BY <2>1 DEF TInv, Types, Restoring
    <3> QED  BY <2>2, <3>1 DEF Belated
  <2>3. CASE rst.base = ydoc
    <3>1. made[rst.op].wipes /\ ydoc \subseteq made[rst.op].over
          BY <2>1, <2>3 DEF Seeing, Wiping
    <3>2. \A x \in Visible(ydoc) : x[1] \in ydoc
          BY DEF Visible
    <3> QED  BY <2>1, <3>1, <3>2
  <2> QED  BY <2>2, <2>3
<1>5. ASSUME ~CommitRestore, \A w \in Lanes : ~Land(w)
      PROVE  ydoc' = ydoc
  <2>1. CASE \E t \in Tabs : Join(t) \/ Close(t) \/ Drop(t) \/ \E e \in Edits : Edit(t, e)
        BY <2>1 DEF Join, Close, Drop, Edit
  <2>2. CASE \/ BeginLoad \/ Loaded \/ Save \/ Unload \/ Crash
             \/ \E o \in Compacts : Compact(o)
        BY <2>2 DEF BeginLoad, Loaded, Save, Unload, Crash, Compact
  <2>3. CASE \E w \in Lanes : Check(w) \/ Retry(w) \/ GiveUp(w) \/ Throw(w)
        BY <2>3 DEF Check, Retry, GiveUp, Throw
  <2>4. CASE \/ \E n \in asked : HandleFlush(n)
             \/ AskFlush \/ AnswerElsewhere \/ Publishes \/ PublishFails
        BY <2>4 DEF HandleFlush, AskFlush, AnswerElsewhere, Publishes, FlushTimeout, ReadDraft,
                    PublishNothing, CommitPublish, PublishFails
  <2>5. CASE \/ \E o \in Restores, rev \in history : BeginRestore(o, rev)
             \/ RestoreFails \/ Signal \/ LoseSignal \/ UNCHANGED vars
        BY <2>5 DEF BeginRestore, RestoreFails, Signal, LoseSignal, vars
  <2> QED  BY <1>5, <2>1, <2>2, <2>3, <2>4, <2>5 DEF Next, Writes
<1> QED  BY <1>1, <1>2, <1>3, <1>4, <1>5

----------------------------------------------------------------------------
(* Doubling *)

DoubledBy(m, s) == {e \in Typed : \E k \in s \cap Compacts : \E a \in s \cap m[k].over :
                                    e \in m[k].text \cap m[a].text}

\* Of two operations that bring one piece, one was made in the knowledge of the
\* other, or the piece is accounted for.
Linked ==
    \A a, b \in Ops : a # b /\ made[a] # None /\ made[b] # None =>
      \A p \in (made[a].text \cap made[b].text) \ twice :
         a \in made[b].over \/ b \in made[a].over

\* Who knows of other operations wipes them, or is a compaction; what is known
\* was made.
Kinds ==
    \A o \in Ops : made[o] # None =>
      /\ made[o].wipes \/ made[o].over = {} \/ o \in Compacts
      /\ Sound(made, made[o].over)

\* The states that may come into the row.
Held(s) ==
    \/ s = ydoc \/ (doc # None /\ s = doc) \/ s = load.base
    \/ \E t \in Tabs : s = copy[t]
    \/ \E w \in Lanes : s = write[w].state
    \/ rst.step # "none" /\ s = rst.base \cup {rst.op}

\* No such state has a compaction and what it replaced, but for the pieces
\* accounted for.
Single == \A s : Held(s) => DoubledBy(made, s) \subseteq twice

Once == Linked /\ Kinds /\ Single

LEMMA DoubledMade ==
    /\ \A s : Doubled(s) = DoubledBy(made, s)
    /\ \A m : DoubledBy(m, {}) = {}
BY DEF Doubled, DoubledBy

\* What a sound state knows is sound.
LEMMA KnownSound ==
    ASSUME TInv, Kinds, NEW s, Sound(made, s)
    PROVE  Sound(made, Known(s))
<1>1. Known(s) \in Docs
      BY KnownInDocs DEF TInv, Types
<1>2. \A o \in s : Sound(made, made[o].over)
      BY DEF Kinds, Sound, Docs
<1> QED  BY <1>1, <1>2 DEF Known, Sound

\* An operation that is made is linked to all that bring one of its pieces, and
\* doubles nothing where it is no compaction, or alone.
LEMMA NewOnce ==
    ASSUME TInv, Linked, Kinds, NEW o \in Ops, NEW rec \in Pieces, New(o, rec),
           Sound(made, rec.over), rec.wipes \/ rec.over = {} \/ o \in Compacts
    PROVE  /\ Linked' /\ Kinds' /\ twice \subseteq twice'
           /\ \A s : Sound(made, s) => DoubledBy(made', s) \subseteq DoubledBy(made, s)
           /\ o \notin Compacts =>
                \A s : Sound(made, s) => DoubledBy(made', s \cup {o}) \subseteq DoubledBy(made, s)
           /\ DoubledBy(made', {o}) = {}
<1>1. /\ made \in [Ops -> Pieces \cup {None}] /\ made[o] = None /\ made'[o] = rec
      /\ \A k \in Ops \ {o} : made'[k] = made[k]
      /\ twice' = twice \cup Unseen(rec)
      BY DEF New, TInv, Types
<1>2. \A s : Sound(made, s) => Sound(made', s) /\ o \notin s /\ s \subseteq Ops
      BY <1>1, NewSound DEF Sound, Docs
<1>3. rec.over \subseteq Ops /\ o \notin rec.over /\ rec.text \subseteq Typed
      BY <1>2 DEF Pieces
<1>4. \A k \in Ops : made[k] # None => o \notin made[k].over /\ made[k].over \subseteq Ops
      BY <1>2 DEF Kinds
<1>5. Linked'
  <2> SUFFICES ASSUME NEW a \in Ops, NEW b \in Ops, a # b, made'[a] # None, made'[b] # None,
                      NEW p \in (made'[a].text \cap made'[b].text) \ twice'
               PROVE  a \in made'[b].over \/ b \in made'[a].over
      BY DEF Linked
  <2>1. CASE a # o /\ b # o
        BY <1>1, <2>1 DEF Linked
  <2>2. CASE a = o
        BY <1>1, <2>2 DEF Unseen
  <2>3. CASE b = o
        BY <1>1, <2>3 DEF Unseen
  <2> QED  BY <2>1, <2>2, <2>3
<1>6. Kinds'
  <2> SUFFICES ASSUME NEW k \in Ops, made'[k] # None
               PROVE  /\ made'[k].wipes \/ made'[k].over = {} \/ k \in Compacts
                      /\ Sound(made', made'[k].over)
      BY DEF Kinds
  <2> QED  BY <1>1, <1>2 DEF Kinds
<1>7. ASSUME NEW s, Sound(made, s)
      PROVE  DoubledBy(made', s) \subseteq DoubledBy(made, s)
      BY <1>1, <1>2, <1>7 DEF DoubledBy
<1>8. ASSUME o \notin Compacts, NEW s, Sound(made, s)
      PROVE  DoubledBy(made', s \cup {o}) \subseteq DoubledBy(made, s)
  <2> SUFFICES ASSUME NEW e \in Typed, NEW k \in (s \cup {o}) \cap Compacts,
                      NEW a \in (s \cup {o}) \cap made'[k].over,
                      e \in made'[k].text \cap made'[a].text
               PROVE  e \in DoubledBy(made, s)
      BY DEF DoubledBy
  <2>1. k \in s /\ k \in Ops /\ made[k] # None /\ made'[k] = made[k]
        BY <1>1, <1>2, <1>8 DEF Sound
  <2>2. a \in s /\ made'[a] = made[a]
        BY <1>1, <1>2, <1>4, <1>8, <2>1
  <2> QED  BY <2>1, <2>2 DEF DoubledBy
<1>9. DoubledBy(made', {o}) = {}
      BY <1>1, <1>3 DEF DoubledBy
<1> QED  BY <1>1, <1>5, <1>6, <1>7, <1>8, <1>9

\* Where nothing is made, what may come into the row was held before, is empty,
\* or was accounted for when it came about.
LEMMA HeldStep ==
    ASSUME TInv, [Next]_vars, UNCHANGED made
    PROVE  /\ twice \subseteq twice'
           /\ \A s : Held(s)' => Held(s) \/ s = {} \/ DoubledBy(made, s) \subseteq twice'
<1> USE DEF clients, row, bounds, counts, losses, Resident, Joined
<1>1. /\ write \in [Lanes -> Lane] /\ copy \in [Tabs -> Docs] /\ pub \in Publication
      /\ NoWrite.state = {} /\ Cold.base = {} /\ NoRst.step = "none"
      BY DEF TInv, Types, NoWrite, Cold, NoRst
<1>2. ASSUME UNCHANGED <<ydoc, doc, load, copy, write, rst, twice>>
      PROVE  twice \subseteq twice' /\ \A s : Held(s)' => Held(s)
      BY <1>2 DEF Held
<1>3. ASSUME NEW w \in Lanes, NEW b \in BOOLEAN, Settle(w, b)
      PROVE  \A v \in Lanes : write'[v].state \in {write[v].state, {}}
  <2>1. write'[w] = NoWrite /\ \A v \in Lanes \ {w} : write'[v] = write[v]
        BY <1>1, <1>3, SettleTyped
  <2> QED  BY <1>1, <2>1
<1>4. ASSUME NEW w \in Lanes, Store(w, doc, 0) \/ \E n \in asked : Store(w, doc, n), doc # None
      PROVE  \A v \in Lanes : write'[v].state \in {write[v].state, doc}
  <2>1. PICK n : Store(w, doc, n)
        BY <1>4
  <2>2. write' = [write EXCEPT ![w] = [NoWrite EXCEPT !.step = FirstStep(doc),
                                                    !.state = doc, !.asker = n]]
        BY <2>1 DEF Store
  <2>3. [NoWrite EXCEPT !.step = FirstStep(doc), !.state = doc, !.asker = n].state = doc
        BY DEF NoWrite
  <2> QED  BY <1>1, <2>2, <2>3
<1>5. ASSUME NEW t \in Tabs, Join(t)
      PROVE  twice \subseteq twice' /\ \A s : Held(s)' => \/ Held(s) \/ s = {}
                                                          \/ DoubledBy(made, s) \subseteq twice'
  <2>1. /\ twice' = twice \cup DoubledBy(made, doc') /\ \A u \in Tabs : copy'[u] \in {copy[u], {}}
        /\ UNCHANGED <<ydoc, load, write, rst>>
        BY <1>1, <1>5, DoubledMade DEF Join
  <2> QED  BY <2>1 DEF Held
<1>6. ASSUME NEW t \in Tabs, Close(t) \/ Drop(t)
      PROVE  twice \subseteq twice' /\ \A s : Held(s)' => Held(s)
  <2>1. /\ UNCHANGED <<ydoc, doc, load, write, rst, twice>> /\ doc # None
        /\ \A u \in Tabs : copy'[u] \in {copy[u], doc}
        BY <1>1, <1>6 DEF Close, Drop, Part, TInv, Attended
  <2> QED  BY <2>1 DEF Held
<1>7. ASSUME BeginLoad \/ Loaded \/ Unload \/ Crash
      PROVE  twice \subseteq twice' /\ \A s : Held(s)' => Held(s) \/ s = {}
  <2>1. CASE BeginLoad \/ Loaded \/ Unload
    <3>1. /\ UNCHANGED <<ydoc, copy, write, rst, twice>>
          /\ load'.base \in {load.base, ydoc, {}}
          /\ doc' \in {doc, load.base, None}
          BY <1>1, <2>1 DEF BeginLoad, Loaded, Unload
    <3> QED  BY <3>1 DEF Held
  <2>2. CASE Crash
    <3>1. /\ UNCHANGED <<ydoc, rst, twice>> /\ load'.base = {} /\ doc' = None
          /\ \A w \in Lanes : write'[w].state = {}
          /\ \A u \in Tabs : copy'[u] = copy[u] \/ (doc # None /\ copy'[u] = doc)
          BY <1>1, <2>2 DEF Crash, Part, TInv, Attended
    <3> QED  BY <3>1 DEF Held
  <2> QED  BY <1>7, <2>1, <2>2
<1>8. ASSUME Save \/ \E n \in asked : HandleFlush(n)
      PROVE  twice \subseteq twice' /\ \A s : Held(s)' => Held(s)
  <2>1. /\ UNCHANGED <<ydoc, doc, load, copy, rst, twice>>
        /\ \/ UNCHANGED write
           \/ doc # None /\ \A v \in Lanes : write'[v].state \in {write[v].state, doc}
        BY <1>4, <1>8 DEF Save, HandleFlush, Lanes
  <2> QED  BY <2>1 DEF Held
<1>9. ASSUME NEW w \in Lanes, Check(w) \/ Retry(w)
      PROVE  twice \subseteq twice' /\ \A s : Held(s)' => Held(s) \/ s = {}
  <2>1. UNCHANGED <<ydoc, doc, load, copy, rst, twice>>
        BY <1>9 DEF Check, Retry
  <2>2. \A v \in Lanes : write'[v].state \in {write[v].state, {}}
    <3>1. CASE Retry(w)
          BY <1>1, <3>1 DEF Retry, Lane
    <3>2. CASE Check(w)
      <4>1. CASE IsUnloadedEmptyFlush(ydoc, write[w].state)
            BY <1>3, <3>2, <4>1 DEF Check
      <4>2. CASE ~IsUnloadedEmptyFlush(ydoc, write[w].state)
            BY <1>1, <3>2, <4>2 DEF Check, Lane
      <4> QED  BY <4>1, <4>2
    <3> QED  BY <1>9, <3>1, <3>2
  <2> QED  BY <2>1, <2>2 DEF Held
<1>10. ASSUME NEW w \in Lanes, Land(w) \/ GiveUp(w) \/ Throw(w)
       PROVE  twice \subseteq twice' /\ \A s : Held(s)' => Held(s) \/ s = {}
  <2>1. UNCHANGED <<doc, rst, twice>> /\ ydoc' \in {ydoc, write[w].state}
        BY <1>10 DEF Land, GiveUp, Throw
  <2>2. load'.base \in {load.base, {}}
        BY <1>1, <1>10 DEF Land, GiveUp, Throw
  <2>3. \A u \in Tabs : copy'[u] = copy[u] \/ (doc # None /\ copy'[u] = doc)
        BY <1>1, <1>10 DEF Land, GiveUp, Throw, Part, TInv, Attended
  <2>4. \A v \in Lanes : write'[v].state \in {write[v].state, {}}
        BY <1>3, <1>10 DEF Land, GiveUp, Throw
  <2> QED  BY <2>1, <2>2, <2>3, <2>4 DEF Held
<1>11. ASSUME CommitRestore \/ RestoreFails \/ LoseSignal
       PROVE  twice \subseteq twice' /\ \A s : Held(s)' => Held(s)
  <2>1. CASE CommitRestore
    <3>1. /\ UNCHANGED <<doc, load, copy, write, twice>> /\ ydoc' = rst.base \cup {rst.op}
          /\ rst'.base = rst.base /\ rst'.op = rst.op /\ rst.step # "none"
          BY <2>1 DEF CommitRestore, TInv, Types, Restoring
    <3> QED  BY <3>1 DEF Held
  <2>2. CASE RestoreFails \/ LoseSignal
    <3>1. UNCHANGED <<ydoc, doc, load, copy, write, twice>> /\ rst'.step = "none"
          BY <1>1, <2>2 DEF RestoreFails, LoseSignal
    <3> QED  BY <3>1 DEF Held
  <2> QED  BY <1>11, <2>1, <2>2
<1>12. ASSUME Signal
       PROVE  twice \subseteq twice' /\ \A s : Held(s)' => \/ Held(s) \/ s = {}
                                                           \/ DoubledBy(made, s) \subseteq twice'
  <2>1. /\ UNCHANGED <<ydoc, load, copy, write>> /\ rst'.step = "none"
        /\ \/ UNCHANGED <<doc, twice>>
           \/ twice' = twice \cup DoubledBy(made, doc')
        BY <1>1, <1>12, DoubledMade DEF Signal
  <2> QED  BY <2>1 DEF Held
<1>13. ASSUME AskFlush \/ AnswerElsewhere \/ Publishes \/ PublishFails \/ UNCHANGED vars
       PROVE  twice \subseteq twice' /\ \A s : Held(s)' => Held(s)
       BY <1>2, <1>13 DEF AskFlush, AnswerElsewhere, Publishes, FlushTimeout, ReadDraft,
                          PublishNothing, CommitPublish, PublishFails, vars
<1>14. /\ \A t \in Tabs, e \in Edits : ~Edit(t, e)
       /\ \A o \in Compacts : ~Compact(o)
       /\ \A o \in Restores, rev \in history : ~BeginRestore(o, rev)
  <2>1. \A o, rec : o \in Ops /\ rec \in Pieces => ~New(o, rec)
        BY NewSound DEF New, TInv, Types
  <2>2. Edits \subseteq Ops /\ Compacts \subseteq Ops /\ Restores \subseteq Ops
        BY DEF Ops
  <2>3. \A text \in SUBSET Typed, over \in Docs, wipes \in BOOLEAN :
           Brings(text, over, wipes) \in Pieces
        BY DEF Brings, Pieces
  <2>4. \A s : Sound(made, s) => Known(s) \in Docs
        BY KnownInDocs DEF TInv, Types
  <2>5. \A t \in Tabs : tab[t] # "closed" => Sound(made, Seen(t))
        BY DEF Seen, TInv, AllMade, Attended
  <2>6. Sound(made, load.base) /\ Sound(made, ydoc)
        BY DEF TInv, AllMade
  <2>7. ASSUME NEW t \in Tabs, NEW e \in Edits
        PROVE  ~Edit(t, e)
    <3>1. CASE tab[t] = "closed"
          BY <3>1 DEF Edit
    <3>2. CASE tab[t] # "closed"
      <4>1. Brings({}, Known(Seen(t)), TRUE) \in Pieces
            BY <2>3, <2>4, <2>5, <3>2
      <4>2. e \in Typed => Brings({e}, {}, FALSE) \in Pieces
            BY <2>3, Defaults
      <4> QED  BY <2>1, <2>2, <4>1, <4>2 DEF Edit
    <3> QED  BY <3>1, <3>2
  <2>8. Brings(Shows(load.base), Known(load.base), FALSE) \in Pieces
        BY <2>3, <2>4, <2>6, ShowsTyped
  <2>9. \A rev : Brings(Shows(rev), Known(ydoc), TRUE) \in Pieces
        BY <2>3, <2>4, <2>6, ShowsTyped
  <2> QED  BY <2>1, <2>2, <2>7, <2>8, <2>9 DEF Compact, BeginRestore
<1> QED  BY <1>5, <1>6, <1>7, <1>8, <1>9, <1>10, <1>11, <1>12, <1>13, <1>14
         DEF Next, Writes

\* Every step leaves every piece linked, and every state single.
LEMMA OnceStep ==
    ASSUME TInv, Once, [Next]_vars
    PROVE  Once'
<1> USE DEF clients, row, bounds, counts, losses
<1>1. CASE UNCHANGED made
  <2>1. /\ twice \subseteq twice'
        /\ \A s : Held(s)' => Held(s) \/ s = {} \/ DoubledBy(made, s) \subseteq twice'
        BY <1>1, HeldStep
  <2>2. Linked'
        BY <1>1, <2>1 DEF Once, Linked
  <2>3. Kinds'
        BY <1>1 DEF Once, Kinds
  <2>4. Single'
    <3> SUFFICES ASSUME NEW s, Held(s)'
                 PROVE  DoubledBy(made', s) \subseteq twice'
        BY DEF Single
    <3>1. DoubledBy(made, s) \subseteq twice'
          BY <2>1, DoubledMade DEF Once, Single
    <3> QED  BY <1>1, <3>1
  <2> QED  BY <2>2, <2>3, <2>4 DEF Once
<1>2. ASSUME NEW o \in Ops, NEW rec \in Pieces, New(o, rec),
             Sound(made, rec.over), rec.wipes \/ rec.over = {} \/ o \in Compacts,
             \A s : Held(s)' =>
               \/ Held(s)
               \/ s = {o}
               \/ o \notin Compacts /\ \E r : Held(r) /\ s = r \cup {o}
      PROVE  Once'
  <2>1. /\ Linked' /\ Kinds' /\ twice \subseteq twice'
        /\ \A s : Sound(made, s) => DoubledBy(made', s) \subseteq DoubledBy(made, s)
        /\ o \notin Compacts =>
             \A s : Sound(made, s) => DoubledBy(made', s \cup {o}) \subseteq DoubledBy(made, s)
        /\ DoubledBy(made', {o}) = {}
        BY <1>2, NewOnce DEF Once
  <2>2. \A s : Held(s) => Sound(made, s)
        BY DEF Held, TInv, AllMade, Sound, Docs
  <2>3. ASSUME NEW s, Held(s)'
        PROVE  DoubledBy(made', s) \subseteq twice'
    <3>1. CASE Held(s)
          BY <2>1, <2>2, <3>1 DEF Once, Single
    <3>2. CASE s = {o}
          BY <2>1, <3>2
    <3>3. ASSUME o \notin Compacts, NEW r, Held(r), s = r \cup {o}
          PROVE  DoubledBy(made', s) \subseteq twice'
          BY <2>1, <2>2, <3>3 DEF Once, Single
    <3> QED  BY <1>2, <2>3, <3>1, <3>2, <3>3
  <2> QED  BY <2>1, <2>3 DEF Once, Single
<1>3. /\ Edits \subseteq Ops /\ Restores \subseteq Ops /\ Compacts \subseteq Ops
      /\ Edits \cap Compacts = {} /\ Restores \cap Compacts = {}
      BY LiveAssumption DEF Ops
<1>4. \A text \in SUBSET Typed, over \in Docs, wipes \in BOOLEAN :
         /\ Brings(text, over, wipes) \in Pieces
         /\ Brings(text, over, wipes).over = over /\ Brings(text, over, wipes).wipes = wipes
      BY DEF Brings, Pieces
<1>5. \A s : Sound(made, s) => Sound(made, Known(s)) /\ Known(s) \in Docs
      BY KnownSound DEF Once, Sound
<1>6. Sound(made, {}) /\ Sound(made, load.base) /\ Sound(made, ydoc) /\ {} \in Docs
      BY Defaults DEF TInv, AllMade, Sound
<1>7. /\ write \in [Lanes -> Lane] /\ copy \in [Tabs -> Docs]
      BY DEF TInv, Types
<1>8. ASSUME NEW t \in Tabs, NEW e \in Edits, Edit(t, e)
      PROVE  Once'
  <2>1. e \in Ops /\ e \notin Compacts
        BY <1>3
  <2>2. \A s : Held(s)' => Held(s) \/ \E r : Held(r) /\ s = r \cup {e}
    <3>1. UNCHANGED <<ydoc, load, write, rst>>
          BY <1>8 DEF Edit
    <3>2. CASE tab[t] = "joined"
      <4>1. doc' = doc \cup {e} /\ UNCHANGED copy /\ doc # None
            BY <1>8, <3>2 DEF Edit, Append, TInv, Attended
      <4> QED  BY <3>1, <4>1 DEF Held
    <3>3. CASE tab[t] # "joined"
      <4>1. /\ UNCHANGED doc /\ copy'[t] = copy[t] \cup {e}
            /\ \A u \in Tabs \ {t} : copy'[u] = copy[u]
            BY <1>7, <1>8, <3>3 DEF Edit, Append
      <4> QED  BY <3>1, <4>1 DEF Held
    <3> QED  BY <3>2, <3>3
  <2>3. CASE e \in Typed /\ New(e, Brings({e}, {}, FALSE))
        BY <1>2, <1>4, <1>6, <2>1, <2>2, <2>3
  <2>4. CASE New(e, Brings({}, Known(Seen(t)), TRUE))
    <3>1. Sound(made, Seen(t))
          BY <1>8 DEF Edit, Seen, TInv, AllMade, Attended
    <3>2. Sound(made, Known(Seen(t))) /\ Known(Seen(t)) \in Docs
          BY <1>5, <3>1
    <3>3. Brings({}, Known(Seen(t)), TRUE) \in Pieces
          BY <1>4, <3>2
    <3> QED  BY <1>2, <1>4, <2>1, <2>2, <2>4, <3>2, <3>3
  <2> QED  BY <1>8, <2>3, <2>4 DEF Edit
<1>9. ASSUME NEW o \in Compacts, Compact(o)
      PROVE  Once'
  <2>1. /\ New(o, Brings(Shows(load.base), Known(load.base), FALSE))
        /\ UNCHANGED <<copy, doc, ydoc, rst>>
        /\ load'.base = {o}
        BY <1>9 DEF Compact
  <2>2. \A v \in Lanes : write'[v].state \in {write[v].state, {o}}
    <3> DEFINE st == IF Shows(load.base) = {} THEN "check" ELSE "update"
    <3>1. write' = [write EXCEPT !["compact"] = [NoWrite EXCEPT !.step = st, !.state = {o}]]
          BY <1>9 DEF Compact
    <3>2. [NoWrite EXCEPT !.step = st, !.state = {o}].state = {o}
          BY DEF NoWrite
    <3> QED  BY <1>7, <3>1, <3>2
  <2>3. \A s : Held(s)' => Held(s) \/ s = {o}
        BY <2>1, <2>2 DEF Held
  <2>4. /\ Brings(Shows(load.base), Known(load.base), FALSE) \in Pieces
        /\ Brings(Shows(load.base), Known(load.base), FALSE).over = Known(load.base)
        /\ Sound(made, Known(load.base))
        BY <1>4, <1>5, <1>6, ShowsTyped
  <2> QED  BY <1>2, <1>3, <2>1, <2>3, <2>4
<1>10. ASSUME NEW o \in Restores, NEW rev \in history, BeginRestore(o, rev)
       PROVE  Once'
  <2>1. /\ New(o, Brings(Shows(rev), Known(ydoc), TRUE))
        /\ UNCHANGED <<copy, doc, dirty, load, write, ydoc>>
        /\ rst'.op = o /\ rst'.base = ydoc
        BY <1>10 DEF BeginRestore
  <2>2. \A s : Held(s)' => Held(s) \/ \E r : Held(r) /\ s = r \cup {o}
        BY <2>1 DEF Held
  <2>3. /\ Brings(Shows(rev), Known(ydoc), TRUE) \in Pieces
        /\ Brings(Shows(rev), Known(ydoc), TRUE).over = Known(ydoc)
        /\ Brings(Shows(rev), Known(ydoc), TRUE).wipes
        /\ Sound(made, Known(ydoc))
        BY <1>4, <1>5, <1>6, ShowsTyped
  <2>4. o \in Ops /\ o \notin Compacts
        BY <1>3
  <2> QED  BY <1>2, <2>1, <2>2, <2>3, <2>4
<1>11. ASSUME \A t \in Tabs, e \in Edits : ~Edit(t, e),
              \A o \in Compacts : ~Compact(o),
              \A o \in Restores, rev \in history : ~BeginRestore(o, rev)
       PROVE  UNCHANGED made
       BY <1>11 DEF Next, Writes, Publishes, Join, Close, Drop, BeginLoad, Loaded, Save, Unload,
                    Check, Land, Retry, GiveUp, Throw, Crash, HandleFlush, AskFlush,
                    AnswerElsewhere, FlushTimeout, ReadDraft, PublishNothing, CommitPublish,
                    PublishFails, CommitRestore, RestoreFails, Signal, LoseSignal, vars
<1> QED  BY <1>1, <1>8, <1>9, <1>10, <1>11

----------------------------------------------------------------------------
(* The theorems *)

IInv ==
    /\ TInv /\ NoSpuriousBadge /\ AtRest /\ Loads
    /\ \A e \in Ops \ Compacts : Safe(e) /\ Covered(e)
    /\ Seeing /\ Once

LEMMA InitIInv == Init => IInv
<1> SUFFICES ASSUME Init
             PROVE  IInv
    OBVIOUS
<1>1. /\ TInv /\ badge = FALSE /\ doc = None /\ ydoc = {} /\ asked = {} /\ load.step = "none"
      /\ load.base = {} /\ pub.step = "none" /\ pub.want = {} /\ pub.state = {}
      /\ rst.step = "none" /\ pubs = 0 /\ \A o \in Ops : made[o] = None
      BY TInit DEF Init, Cold, NoPub, NoRst
<1>2. /\ \A w \in Lanes : /\ write[w].step = "none" /\ write[w].state = {}
                          /\ write[w].asker = 0 /\ write[w].seen = {}
      /\ \A t \in Tabs : copy[t] = {}
      BY DEF Init, NoWrite
<1>3. NoSpuriousBadge /\ Loads
      BY <1>1 DEF NoSpuriousBadge, Loads
<1>4. AtRest
  <2>1. Sound(made, {})
        BY Defaults DEF Sound
  <2>2. /\ \A w \in Lanes : write[w].asker <= pubs
        /\ \A w \in Lanes : Sound(made, write[w].seen)
        /\ Sound(made, pub.want) /\ Sound(made, pub.state)
        BY <1>1, <1>2, <2>1
  <2> QED  BY <1>1, <1>2, <2>2 DEF AtRest
<1>5. \A e \in Ops \ Compacts : Safe(e) /\ Covered(e)
      BY <1>1, <1>2, KnowsFacts DEF Safe, Covered, InDoc, InLoad, Wanted, Edits, Ops
<1>6. Seeing
      BY <1>1, <1>2 DEF Seeing, Allowed, Wiping
<1>7. Once
  <2>1. Linked /\ Kinds
        BY <1>1 DEF Linked, Kinds
  <2>2. Single
        BY <1>1, <1>2, DoubledMade DEF Single, Held
  <2> QED  BY <2>1, <2>2 DEF Once
<1> QED  BY <1>1, <1>3, <1>4, <1>5, <1>6, <1>7 DEF IInv

\* The inductive invariant, whatever stores, loads, publications and restores
\* run beside each other.
THEOREM Invariance == Spec => []IInv
<1>1. IInv /\ [Next]_vars => IInv'
  <2> SUFFICES ASSUME IInv, [Next]_vars
               PROVE  IInv'
      OBVIOUS
  <2>1. TInv' /\ NoSpuriousBadge' /\ AtRest' /\ Loads'
        BY TStep, BadgeStep, AtRestStep, LoadsStep DEF IInv
  <2>2. \A e \in Ops \ Compacts : Safe(e)' /\ Covered(e)'
        BY KeptStep DEF IInv
  <2>3. Seeing' /\ Once'
        BY SeeingStep, OnceStep DEF IInv
  <2> QED  BY <2>1, <2>2, <2>3 DEF IInv
<1> QED  BY <1>1, InitIInv, PTL DEF Spec

\* Every variable keeps its type; the draft holds only what somebody made, and
\* a tab is joined only to a document the pod has.
THEOREM TypeCorrect == Spec => []TypeOK
<1>1. IInv => TypeOK
  <2> SUFFICES ASSUME TInv
               PROVE  TypeOK
      BY DEF IInv
  <2>1. Types /\ AllMade /\ Attended
        BY DEF TInv
  <2>2. (Joined # {} \/ dirty) => Resident
        BY <2>1 DEF Attended, Joined, Resident
  <2>3. \A w \in Lanes : /\ write[w].step \in {"none", "check", "update"}
                         /\ write[w].tries \in 0 .. Retries
        BY <2>1 DEF Types, Lane
  <2>4. \A o \in ydoc : made[o] # None
        BY <2>1 DEF AllMade, Sound
  <2> QED  BY <2>1, <2>2, <2>3, <2>4 DEF TypeOK, Types, Publication, Restoring
<1> QED  BY <1>1, Invariance, PTL

\* The badge is never up over a draft that reads as what is published, whatever
\* stores, loads, publications and restores run beside each other.
THEOREM BadgeHonest == Spec => []NoSpuriousBadge
<1>1. IInv => NoSpuriousBadge
      BY DEF IInv
<1> QED  BY <1>1, Invariance, PTL

\* Whoever dies, gives up, throws or loses a connection, and whatever stores and
\* restores overlap, an edit somebody made is in the draft, in the pod or in a
\* tab, or was lost in one of the ways the code has.
THEOREM EditsKept == Spec => []NothingForgotten
<1>1. IInv => NothingForgotten
  <2> SUFFICES ASSUME IInv, NEW e \in Edits, made[e] # None
               PROVE  e \in Kept \cup excused
      BY DEF NothingForgotten
  <2>1. e \in Ops \ Compacts
        BY LiveAssumption DEF Ops
  <2>2. Firm(e) \/ InDoc(e) \/ \E t \in Tabs : InCopy(e, t)
        BY <2>1 DEF IInv, Safe
  <2>3. Stored(e) => e \in Known(ydoc)
        BY KnownKnows DEF Stored
  <2>4. InDoc(e) => doc # None /\ e \in Known(doc)
        BY KnownKnows DEF InDoc
  <2>5. \A t \in Tabs : InCopy(e, t) => e \in Known(copy[t])
        BY KnownKnows DEF InCopy
  <2> QED  BY <2>2, <2>3, <2>4, <2>5 DEF Firm, Gone, Kept, Resident
<1> QED  BY <1>1, Invariance, PTL

\* A publication that the pod with the document told that the store is done has
\* in its snapshot what the document had when it asked, whatever other stores,
\* loads and restores there were meanwhile, but for what they overwrote.
THEOREM PublicationCovers == Spec => []PublishCovers
<1>1. IInv => PublishCovers
  <2> SUFFICES ASSUME IInv, pub.step \in {"noop", "commit"}, pub.acked,
                      NEW e \in Known(pub.want) \ Compacts
               PROVE  e \in Known(pub.state) \cup excused
      BY DEF PublishCovers
  <2>1. e \in Ops \ Compacts
        BY KnownInDocs DEF IInv, TInv, Types, AtRest, Docs
  <2>2. Wanted(e)
        BY KnownKnows DEF Wanted
  <2>3. Gone(e) \/ InPub(e)
        BY <2>1, <2>2 DEF IInv, Covered
  <2> QED  BY <2>3, KnownKnows DEF Gone, InPub
<1> QED  BY <1>1, Invariance, PTL

\* A draft with text becomes blank only by an operation that saw it all, unless
\* the row changed between the writer's look and its write.
THEOREM BlankedKnowingly == Spec => NeverBlanked
<1>1. IInv /\ [Next]_vars =>
        [Shows(ydoc) # {} /\ (Shows(ydoc) = {})' =>
           \/ Belated
           \/ \A x \in Visible(ydoc) :
                \E o \in ydoc' : made'[o].wipes /\ x[1] \in made'[o].over]_vars
      BY BlankStep DEF IInv
<1> QED  BY <1>1, Invariance, PTL DEF Spec, NeverBlanked

\* A piece of text stands once in the draft: who brings it again wipes the first
\* or takes its place, unless it had not seen it or meets it in the pod.
THEOREM TextStandsOnce == Spec => []NoDoubling
<1>1. IInv => NoDoubling
  <2> SUFFICES ASSUME IInv, NEW e \in Typed \ twice
               PROVE  Text(ydoc)[e] <= 1
      BY DEF NoDoubling
  <2> DEFINE S == {x \in Visible(ydoc) : x[2] = e}
  <2>1. ASSUME NEW x \in S, NEW y \in S, x[1] \in made[y[1]].over
        PROVE  FALSE
    <3>1. /\ x[1] \in ydoc /\ y[1] \in ydoc /\ e \in made[x[1]].text \cap made[y[1]].text
          /\ ~made[y[1]].wipes
          BY <2>1 DEF Visible
    <3>2. y[1] \in Ops /\ made[y[1]] # None
          BY <3>1 DEF IInv, TInv, AllMade, Sound, Docs
    <3>3. y[1] \in Compacts
          BY <2>1, <3>1, <3>2 DEF IInv, Once, Kinds
    <3>4. e \in DoubledBy(made, ydoc)
          BY <2>1, <3>1, <3>3 DEF DoubledBy
    <3> QED  BY <3>4 DEF IInv, Once, Single, Held
  <2>2. ASSUME NEW x \in S, NEW y \in S
        PROVE  x = y
    <3>1. /\ x[1] \in ydoc /\ y[1] \in ydoc /\ x = <<x[1], e>> /\ y = <<y[1], e>>
          /\ e \in (made[x[1]].text \cap made[y[1]].text) \ twice
          BY <2>2 DEF Visible
    <3>2. x[1] \in Ops /\ y[1] \in Ops /\ made[x[1]] # None /\ made[y[1]] # None
          BY <3>1 DEF IInv, TInv, AllMade, Sound, Docs
    <3>3. x[1] = y[1]
          BY <2>1, <2>2, <3>1, <3>2 DEF IInv, Once, Linked
    <3> QED  BY <3>1, <3>3
  <2>3. CASE S = {}
    <3>1. Cardinality(S) = 0
          BY <2>3, FS_EmptySet
    <3> QED  BY <3>1 DEF Text, TextOf
  <2>4. ASSUME NEW x \in S
        PROVE  Text(ydoc)[e] <= 1
    <3>1. S = {x}
          BY <2>2, <2>4
    <3>2. Cardinality(S) = 1
          BY <3>1, FS_Singleton
    <3> QED  BY <3>2 DEF Text, TextOf
  <2> QED  BY <2>3, <2>4
<1> QED  BY <1>1, Invariance, PTL
=============================================================================
