---------------------------- MODULE LiveDocument ----------------------------
(***************************************************************************)
(* A page body being edited: the tabs that hold it, the collab pod that    *)
(* keeps it in memory, the stores that persist it to pages.ydoc, and the   *)
(* API's publication and restore, which read and write the same row.       *)
(*                                                                         *)
(* A Yjs state is the set of operations it knows; merging is union, a      *)
(* store is an UPDATE of the column by one state.  An operation brings     *)
(* pieces of text and may wipe what its maker saw.  Tabs joined to the     *)
(* document always agree with the pod; a tab that lost its connection      *)
(* keeps a copy.  One pod holds the document; others may exist and hold    *)
(* nothing.                                                                *)
(***************************************************************************)
EXTENDS Integers, FiniteSets

CONSTANTS
    Tabs,
    Typed,        \* edits that bring a piece of text
    Clears,       \* edits that select everything and delete it
    Restores, Compacts,  \* operations a restore and a compaction bring
    Retries,      \* STORE_MAX_RETRIES
    MaxMade,      \* bound: operations made
    MaxPublishes, \* bound: publications asked for
    MaxMishaps,   \* bound: crashes, lost signals and connections, empty writes
    None

Edits == Typed \cup Clears
Ops == Edits \cup Restores \cup Compacts
Docs == SUBSET Ops
Pieces == [text : SUBSET Typed, over : Docs, wipes : BOOLEAN]

ASSUME LiveAssumption ==
    /\ IsFiniteSet(Ops) /\ None \notin Ops
    /\ Typed \cap Clears = {} /\ Restores \cap Compacts = {}
    /\ Edits \cap (Restores \cup Compacts) = {}
ASSUME NoneAssumption == (\A s \in Docs : s # None) /\ \A p \in Pieces : p # None
ASSUME LiveBoundAssumption ==
    /\ Retries \in Nat /\ MaxMade \in Nat /\ MaxPublishes \in Nat /\ MaxMishaps \in Nat

VARIABLES
    made,      \* what each operation brings; None until it is made
    tab,       \* what each tab is doing
    copy,      \* the state a tab off line keeps
    doc,       \* the pod's document, None when it is not resident
    dirty,     \* the debounced store is armed
    asked,     \* flush requests the pod has not handled yet
    load,      \* the step of the load, and the state it read
    write,     \* the stores under way, one per way in
    ydoc,      \* pages.ydoc, {} for NULL
    published, \* pages.published_md, None before the first publication
    badge,     \* pages.has_unpublished_changes
    history,   \* revisions: the states they snapshot
    pub,       \* the publication under way
    rst,       \* the restore under way
    pubs, mishaps,
    excused,   \* history: operations lost with a pod, or with a store that was
               \* given up, refused or failed, and what a write to the row
               \* overwrote without knowing it
    twice      \* history: pieces brought again by who did not see them, or that
               \* met their own compaction

vars == <<made, tab, copy, doc, dirty, asked, load, write, ydoc, published, badge,
          history, pub, rst, pubs, mishaps, excused, twice>>
clients == <<tab, copy>>
row == <<ydoc, published, badge, history>>
counts == <<pubs, mishaps>>
losses == <<excused, twice>>
bounds == <<counts, losses>>

(* Text *)

\* The items of a state nothing in it has wiped, and the text they make: how
\* often each piece stands in it.
Visible(s) == {x \in s \X Typed :
                 /\ x[2] \in made[x[1]].text
                 /\ \A k \in s : made[k].wipes => x[1] \notin made[k].over}
TextOf(items) == [e \in Typed |-> Cardinality({x \in items : x[2] = e})]
Text(s) == TextOf(Visible(s))
Shows(s) == {x[2] : x \in Visible(s)}
Blank == [e \in Typed |-> 0]
\* The edits a state was made in the knowledge of.
Known(s) == s \cup UNION {made[o].over : o \in s}

Brings(text, over, wipes) == [text |-> text, over |-> over, wipes |-> wipes]
\* Pieces that stand in two operations that did not know of each other.
Unseen(rec) == {e \in rec.text : \E m \in Ops \ rec.over :
                                   made[m] # None /\ e \in made[m].text}
New(o, rec) ==
    /\ made[o] = None /\ Cardinality({m \in Ops : made[m] # None}) < MaxMade
    /\ made' = [made EXCEPT ![o] = rec]
    /\ twice' = twice \cup Unseen(rec)
\* Pieces that stand in a compaction and in what it replaced.
Doubled(s) == {e \in Typed : \E k \in s \cap Compacts : \E a \in s \cap made[k].over :
                               e \in made[k].text \cap made[a].text}

Lanes == {"save", "flush", "compact"}
\* seen: the row the guard read.
NoWrite == [step |-> "none", state |-> {}, tries |-> 0, asker |-> 0, seen |-> {}]
\* want: what the pod had when the publication asked; acked (history): the
\* answer it took came from that pod, after a store that was not given up.
NoPub == [step |-> "none", want |-> {}, state |-> {}, acked |-> FALSE]
NoRst == [step |-> "none", op |-> None, base |-> {}]
Cold == [step |-> "none", base |-> {}]

Init ==
    /\ made = [o \in Ops |-> None]
    /\ tab = [t \in Tabs |-> "closed"] /\ copy = [t \in Tabs |-> {}]
    /\ doc = None /\ dirty = FALSE /\ asked = {} /\ load = Cold
    /\ write = [w \in Lanes |-> NoWrite]
    /\ ydoc = {} /\ badge = FALSE
    /\ \/ published = None /\ history = {}
       \/ published = Blank /\ history = {{}}  \* a guest's page, born published
    /\ pub = NoPub /\ rst = NoRst
    /\ pubs = 0 /\ mishaps = 0 /\ excused = {} /\ twice = {}

Resident == doc # None
Joined == {t \in Tabs : tab[t] = "joined"}
Adrift == {t \in Tabs : tab[t] = "offline"}
Loading == load.step # "none"
Mishap == mishaps < MaxMishaps /\ mishaps' = mishaps + 1
\* What the row has and the state it is about to take does not know.
Overwrites(s) == excused' = excused \cup (Known(ydoc) \ Known(s))

----------------------------------------------------------------------------
(* Tabs: they type into the pod's document, or into the copy they kept *)

Seen(t) == IF tab[t] = "joined" THEN doc ELSE copy[t]
Append(t, e) ==
    IF tab[t] = "joined"
    THEN doc' = doc \cup {e} /\ dirty' = TRUE /\ UNCHANGED copy
    ELSE copy' = [copy EXCEPT ![t] = @ \cup {e}] /\ UNCHANGED <<doc, dirty>>

Edit(t, e) ==
    /\ tab[t] # "closed"
    /\ \/ e \in Typed /\ New(e, Brings({e}, {}, FALSE))
       \/ /\ e \in Clears /\ Shows(Seen(t)) # {}
          /\ New(e, Brings({}, Known(Seen(t)), TRUE))
    /\ Append(t, e)
    /\ UNCHANGED <<tab, asked, load, write, row, pub, rst, counts, excused>>

\* Mutated form: what the tab kept is merged and no store is armed.
JoinQuietly(t) ==
    /\ tab[t] # "joined" /\ Resident
    /\ tab' = [tab EXCEPT ![t] = "joined"]
    /\ copy' = [copy EXCEPT ![t] = {}]
    /\ doc' = doc \cup copy[t]
    /\ twice' = twice \cup Doubled(doc')
    /\ UNCHANGED <<made, dirty, asked, load, write, row, pub, rst, counts, excused>>

\* Mutated form: the pod's document replaces what the tab kept.
JoinAfresh(t) ==
    /\ tab[t] # "joined" /\ Resident
    /\ tab' = [tab EXCEPT ![t] = "joined"]
    /\ copy' = [copy EXCEPT ![t] = {}]
    /\ UNCHANGED <<made, doc, dirty, asked, load, write, row, pub, rst, bounds>>

\* A tab joins: what it kept and what the pod has are merged both ways.
Join(t) ==
    /\ tab[t] # "joined" /\ Resident
    /\ tab' = [tab EXCEPT ![t] = "joined"]
    /\ copy' = [copy EXCEPT ![t] = {}]
    /\ doc' = doc \cup copy[t]
    /\ dirty' = (dirty \/ ~(copy[t] \subseteq doc))
    /\ twice' = twice \cup Doubled(doc')
    /\ UNCHANGED <<made, asked, load, write, row, pub, rst, counts, excused>>

Close(t) ==
    /\ t \in Joined
    /\ tab' = [tab EXCEPT ![t] = "closed"]
    /\ UNCHANGED <<made, copy, doc, dirty, asked, load, write, row, pub, rst,
                   bounds>>

\* These tabs lose their connection and keep the document.
Part(tabs) ==
    /\ tab' = [t \in Tabs |-> IF t \in tabs THEN "offline" ELSE tab[t]]
    /\ copy' = [t \in Tabs |-> IF t \in tabs THEN doc ELSE copy[t]]

Drop(t) ==
    /\ t \in Joined /\ Mishap /\ Part({t})
    /\ UNCHANGED <<made, doc, dirty, asked, load, write, row, pub, rst, pubs,
                   losses>>

----------------------------------------------------------------------------
(* The pod: load, compaction, stores *)

FirstStep(s) == IF Text(s) = Blank THEN "check" ELSE "update"
Store(w, s, n) ==
    /\ write[w].step = "none"
    /\ write' = [write EXCEPT ![w] = [NoWrite EXCEPT !.step = FirstStep(s),
                                                    !.state = s, !.asker = n]]

BeginLoad ==
    /\ ~Resident /\ ~Loading
    /\ load' = [step |-> "read", base |-> ydoc]
    /\ UNCHANGED <<made, clients, doc, dirty, asked, write, row, pub, rst, bounds>>

\* compactIfBloated: the text again, as one operation that wipes nothing.
Compact(o) ==
    /\ load.step = "read" /\ load.base # {}
    /\ New(o, Brings(Shows(load.base), Known(load.base), FALSE))
    /\ load' = [step |-> "compacting", base |-> {o}]
    /\ write["compact"].step = "none"
    /\ write' = [write EXCEPT !["compact"] =
                   [NoWrite EXCEPT
                      !.step = IF Shows(load.base) = {} THEN "check" ELSE "update",
                      !.state = {o}]]
    /\ UNCHANGED <<clients, doc, dirty, asked, row, pub, rst, counts, excused>>

Loaded ==
    /\ Loading /\ write["compact"].step = "none"
    /\ doc' = load.base /\ load' = Cold
    /\ UNCHANGED <<made, clients, dirty, asked, write, row, pub, rst, bounds>>

\* The debounced store: one at a time for a document.
Save ==
    /\ Resident /\ dirty /\ Store("save", doc, 0)
    /\ dirty' = FALSE
    /\ UNCHANGED <<made, clients, doc, asked, load, row, pub, rst, bounds>>

\* Nobody is joined and everything was stored or given up.
Unload ==
    /\ Resident /\ Joined = {} /\ ~dirty /\ write["save"].step = "none"
    /\ doc' = None
    /\ UNCHANGED <<made, clients, dirty, asked, load, write, row, pub, rst, bounds>>

\* The flush request's answer, heard by a publication that still waits for it.
Answer(n, stored) ==
    pub' = IF pub.step = "flushing" /\ pubs = n
           THEN [pub EXCEPT !.step = "read", !.acked = stored] ELSE pub

\* The store on this lane is over.
Settle(w, stored) ==
    /\ write' = [write EXCEPT ![w] = NoWrite]
    /\ IF w = "flush" THEN Answer(write[w].asker, stored) ELSE UNCHANGED pub

\* Mutated form: refused where the merge is blank.
IsUnloadedSwapped(existing, incoming) ==
    /\ Shows(incoming) = {} /\ Shows(existing) # {}
    /\ Shows(existing \cup incoming) = {}

\* isUnloadedEmptyFlush: a blank state whose maker never saw the text.
IsUnloadedEmptyFlush(existing, incoming) ==
    /\ Shows(incoming) = {} /\ Shows(existing) # {}
    /\ Shows(existing \cup incoming) # {}

Check(w) ==
    /\ write[w].step = "check"
    /\ IF IsUnloadedEmptyFlush(ydoc, write[w].state)
       THEN Settle(w, TRUE) /\ excused' = excused \cup Known(write[w].state)
       ELSE /\ write' = [write EXCEPT ![w].step = "update", ![w].seen = ydoc]
            /\ UNCHANGED <<pub, excused>>
    /\ UNCHANGED <<made, clients, doc, dirty, asked, load, row, rst, counts, twice>>

\* Mutated form: every store raises the badge.
LandRaised(w) ==
    /\ write[w].step = "update"
    /\ ydoc' = write[w].state
    /\ badge' = TRUE
    /\ Settle(w, TRUE) /\ Overwrites(write[w].state)
    /\ UNCHANGED <<made, clients, doc, dirty, asked, load, published, history,
                   rst, counts, twice>>

Land(w) ==
    /\ write[w].step = "update"
    /\ ydoc' = write[w].state
    /\ badge' = (published # Text(write[w].state))
    /\ Settle(w, TRUE) /\ Overwrites(write[w].state)
    /\ UNCHANGED <<made, clients, doc, dirty, asked, load, published, history,
                   rst, counts, twice>>

\* The update hit no row; the same state is tried again.
Retry(w) ==
    /\ write[w].step = "update" /\ write[w].tries < Retries
    /\ IF write[w].tries = 0 THEN Mishap ELSE UNCHANGED mishaps
    /\ write' = [write EXCEPT ![w].tries = @ + 1,
                              ![w].step = FirstStep(write[w].state)]
    /\ UNCHANGED <<made, clients, doc, dirty, asked, load, row, pub, rst, pubs,
                   losses>>

\* What the debounced store alone would have brought to the row.
Unstored(w) ==
    excused' = IF w = "save" THEN excused \cup Known(write[w].state) ELSE excused

\* No row again: the joined tabs are disconnected, where the store was the
\* document's own.
GiveUp(w) ==
    /\ write[w].step = "update" /\ write[w].tries = Retries
    /\ IF Retries = 0 THEN Mishap ELSE UNCHANGED mishaps
    /\ Settle(w, FALSE) /\ Unstored(w)
    /\ IF w = "save" /\ Resident THEN Part(Joined) ELSE UNCHANGED clients
    /\ UNCHANGED <<made, doc, dirty, asked, load, row, rst, pubs, twice>>

\* The database call throws, in the guard or in the update: a flush is answered
\* all the same, a load fails with its compaction, and a debounced store just
\* ends; the tabs stay joined and no other store is armed.
Throw(w) ==
    /\ write[w].step # "none" /\ Mishap
    /\ Settle(w, FALSE) /\ Unstored(w)
    /\ load' = IF w = "compact" THEN Cold ELSE load
    /\ UNCHANGED <<made, clients, doc, dirty, asked, row, rst, pubs, twice>>

\* The pod dies; the tabs keep their copies.
Crash ==
    /\ (Resident \/ Loading) /\ Mishap
    /\ doc' = None /\ dirty' = FALSE /\ asked' = {} /\ load' = Cold
    /\ write' = [w \in Lanes |-> NoWrite]
    /\ Part(Joined)
    /\ excused' = IF Joined = {} /\ Resident THEN excused \cup Known(doc)
                  ELSE excused
    /\ UNCHANGED <<made, row, pub, rst, pubs, twice>>

----------------------------------------------------------------------------
(* The API: a publication asks the pod for a store, then reads the row *)

AskFlush ==
    /\ pub.step = "none" /\ pubs < MaxPublishes
    /\ pubs' = pubs + 1
    /\ asked' = asked \cup {pubs + 1}
    /\ pub' = [NoPub EXCEPT !.step = "flushing",
                            !.want = IF Resident THEN doc ELSE {}]
    /\ UNCHANGED <<made, clients, doc, dirty, load, write, row, rst, mishaps,
                   losses>>

\* Mutated form: the answer does not wait for the store.
HandleFlushEarly(n) ==
    /\ n \in asked
    /\ asked' = asked \ {n}
    /\ Answer(n, TRUE)
    /\ IF Resident THEN Store("flush", doc, n) ELSE UNCHANGED write
    /\ UNCHANGED <<made, clients, doc, dirty, load, row, rst, bounds>>

\* The pod that holds the document stores it, any other has nothing to do.
HandleFlush(n) ==
    /\ n \in asked
    /\ asked' = asked \ {n}
    /\ IF Resident
       THEN Store("flush", doc, n) /\ UNCHANGED pub
       ELSE Answer(n, TRUE) /\ UNCHANGED write
    /\ UNCHANGED <<made, clients, doc, dirty, load, row, rst, bounds>>

\* Every pod answers, also one that does not hold the document; the
\* publication goes on at the first answer.
AnswerElsewhere ==
    /\ pub.step = "flushing"
    /\ Answer(pubs, FALSE)
    /\ UNCHANGED <<made, clients, doc, dirty, asked, load, write, row, rst, bounds>>

\* No answer in time, or nobody listens.
FlushTimeout ==
    /\ pub.step = "flushing"
    /\ pub' = [pub EXCEPT !.step = "read"]
    /\ UNCHANGED <<made, clients, doc, dirty, asked, load, write, row, rst, bounds>>

ReadDraft ==
    /\ pub.step = "read"
    /\ pub' = [pub EXCEPT !.state = ydoc,
                          !.step = IF Text(ydoc) = published THEN "noop"
                                   ELSE "commit"]
    /\ UNCHANGED <<made, clients, doc, dirty, asked, load, write, row, rst, bounds>>

\* The draft is what is published: no revision, and the badge goes.
PublishNothing ==
    /\ pub.step = "noop"
    /\ badge' = FALSE /\ pub' = NoPub
    /\ UNCHANGED <<made, clients, doc, dirty, asked, load, write, ydoc, published,
                   history, rst, bounds>>

CommitPublish ==
    /\ pub.step = "commit"
    /\ published' = Text(pub.state) /\ badge' = FALSE
    /\ history' = history \cup {pub.state}
    /\ pub' = NoPub
    /\ UNCHANGED <<made, clients, doc, dirty, asked, load, write, ydoc, rst, bounds>>

\* The abuse filter, storage or the transaction refuses.
PublishFails ==
    /\ pub.step = "commit"
    /\ pub' = NoPub
    /\ UNCHANGED <<made, clients, doc, dirty, asked, load, write, row, rst, bounds>>

----------------------------------------------------------------------------
(* restoreRevision *)

\* Mutated form: the revision's text is inserted and nothing deleted.
BeginRestoreBeside(o, rev) ==
    /\ rst.step = "none" /\ ydoc # {} /\ rev \in history
    /\ New(o, Brings(Shows(rev), Known(ydoc), FALSE))
    /\ rst' = [step |-> "commit", op |-> o, base |-> ydoc]
    /\ UNCHANGED <<clients, doc, dirty, asked, load, write, row, pub, counts,
                   excused>>

BeginRestore(o, rev) ==
    /\ rst.step = "none" /\ ydoc # {} /\ rev \in history
    /\ New(o, Brings(Shows(rev), Known(ydoc), TRUE))
    /\ rst' = [step |-> "commit", op |-> o, base |-> ydoc]
    /\ UNCHANGED <<clients, doc, dirty, asked, load, write, row, pub, counts,
                   excused>>

CommitRestore ==
    /\ rst.step = "commit"
    /\ LET new == rst.base \cup {rst.op}
       IN /\ ydoc' = new /\ published' = Text(new) /\ badge' = FALSE
          /\ history' = history \cup {new}
          /\ Overwrites(new)
    /\ rst' = [rst EXCEPT !.step = "signal"]
    /\ UNCHANGED <<made, clients, doc, dirty, asked, load, write, pub, counts,
                   twice>>

\* Storage or the transaction refuses.
RestoreFails ==
    /\ rst.step = "commit"
    /\ rst' = NoRst
    /\ UNCHANGED <<made, clients, doc, dirty, asked, load, write, row, pub, bounds>>

\* wks:restore: applied to the document where it is resident, which arms the
\* store; dropped elsewhere.
Signal ==
    /\ rst.step = "signal"
    /\ IF Resident
       THEN /\ doc' = doc \cup {rst.op} /\ dirty' = TRUE
            /\ twice' = twice \cup Doubled(doc')
       ELSE UNCHANGED <<doc, dirty, twice>>
    /\ rst' = NoRst
    /\ UNCHANGED <<made, clients, asked, load, write, row, pub, counts, excused>>

LoseSignal ==
    /\ rst.step = "signal" /\ Mishap
    /\ rst' = NoRst
    /\ UNCHANGED <<made, clients, doc, dirty, asked, load, write, row, pub, pubs,
                   losses>>

----------------------------------------------------------------------------
Writes ==
    \/ Loaded \/ Save
    \/ \E w \in Lanes : Check(w) \/ Land(w)
    \/ \E n \in asked : HandleFlush(n)
    \/ CommitRestore \/ Signal
Publishes == FlushTimeout \/ ReadDraft \/ PublishNothing \/ CommitPublish

Next ==
    \/ Writes \/ Publishes
    \/ \E t \in Tabs : \/ Join(t) \/ Close(t) \/ Drop(t)
                        \/ \E e \in Edits : Edit(t, e)
    \/ BeginLoad \/ Unload \/ Crash
    \/ \E o \in Compacts : Compact(o)
    \/ \E w \in Lanes : Retry(w) \/ GiveUp(w) \/ Throw(w)
    \/ AskFlush \/ AnswerElsewhere \/ PublishFails
    \/ \E o \in Restores, rev \in history : BeginRestore(o, rev)
    \/ RestoreFails \/ LoseSignal

Spec == Init /\ [][Next]_vars

\* The pod's debounce timer and the database calls of its store go on.
FairSpec == Spec /\ WF_vars(Save) /\ WF_vars(Check("save") \/ Land("save"))

----------------------------------------------------------------------------
(* Properties *)

\* Types; the draft holds only what was made, and no tab is joined, and no store
\* armed, for a document the pod does not have.
TypeOK ==
    /\ made \in [Ops -> Pieces \cup {None}]
    /\ tab \in [Tabs -> {"closed", "joined", "offline"}]
    /\ copy \in [Tabs -> Docs]
    /\ doc \in Docs \cup {None} /\ dirty \in BOOLEAN
    /\ (Joined # {} \/ dirty) => Resident
    /\ asked \subseteq 1..MaxPublishes
    /\ load.step \in {"none", "read", "compacting"} /\ load.base \in Docs
    /\ \A w \in Lanes : /\ write[w].step \in {"none", "check", "update"}
                        /\ write[w].tries \in 0..Retries
    /\ \A o \in ydoc : made[o] # None
    /\ badge \in BOOLEAN /\ history \subseteq Docs
    /\ pub.step \in {"none", "flushing", "read", "noop", "commit"}
    /\ rst.step \in {"none", "commit", "signal"}
    /\ pubs \in 0..MaxPublishes /\ mishaps \in 0..MaxMishaps

\* Everything that is anywhere but in a store or a load under way.
Kept == UNION ({Known(ydoc), Known(IF Resident THEN doc ELSE {})}
                 \cup {Known(copy[t]) : t \in Tabs})
\* An edit somebody made is in the draft, in the pod or in a tab, unless the pod
\* died with it, its store was given up, refused or thrown, or who did not know
\* it wrote over it.
NothingForgotten ==
    \A e \in Edits : made[e] # None => e \in Kept \cup excused

\* A publication that was told by the pod with the document that the store is
\* done snapshots all that was in the document when it asked, but for what who
\* did not know it wrote over, and what an earlier store failed to bring.
PublishCovers ==
    pub.step \in {"noop", "commit"} /\ pub.acked =>
      Known(pub.want) \ Compacts \subseteq Known(pub.state) \cup excused

\* The badge is never up over a draft that reads as what is published.
NoSpuriousBadge == badge => published # Text(ydoc)

\* A piece of text stands twice in the draft only if it was brought again by a
\* restore or a compaction that had not seen it, or what was compacted met its
\* compaction in the pod.
NoDoubling == \A e \in Typed \ twice : Text(ydoc)[e] <= 1

\* Who writes the row in this step decided by another row.
Belated == \/ \E w \in Lanes : write'[w] # write[w] /\ write[w].seen # ydoc
           \/ rst' # rst /\ rst.base # ydoc
\* A draft with text in it becomes blank only by an operation that saw it all,
\* unless the row changed under the writer after it had looked.
NeverBlanked ==
    [][Shows(ydoc) # {} /\ (Shows(ydoc) = {})' =>
         \/ Belated
         \/ \A x \in Visible(ydoc) :
              \E o \in ydoc' : made'[o].wipes /\ x[1] \in made'[o].over]_vars

\* What the pod was given reaches the draft, or a tab still has it.
EditsReachDraft ==
    \A e \in Edits :
      (Resident /\ e \in Known(doc))
        ~> (e \in Known(ydoc) \cup excused \/ \E t \in Tabs : e \in copy[t])

=============================================================================
