----------------------------- MODULE RoleGrants -----------------------------
(***************************************************************************)
(* What one principal may do in one space: role_assignments rows say who   *)
(* gave what, the leaves in the permission store are what is checked.      *)
(*                                                                         *)
(* A row gives a custom role or one built-in capability and remembers the  *)
(* leaves it owns.  Removing a row deletes the leaves it owns that no other *)
(* row confers and leaves the rest to an heir.  Granting writes the new    *)
(* row first and then sweeps the principal's other rows, so that one       *)
(* principal has one role.  Rows and leaves are written in one transaction, *)
(* the store last; what a request knows of the store it read before.       *)
(*                                                                         *)
(* A capability is one leaf: viewer and viewer_member come and go together. *)
(* Every row here is made by hand (origin manual).  A row that waited for  *)
(* an edit of its role is read with the role as edited.                    *)
(***************************************************************************)
EXTENDS Integers, FiniteSets

CONSTANTS
    Caps,       \* capabilities of a space
    Manage,     \* the one the sweep spares
    Roles,      \* custom roles
    Bundles,    \* COMPOSITE_BUILTINS: nouns of several capabilities
    Defs,       \* bundles of capabilities a custom role may be
    Def0,       \* what the roles are at first
    Leaves0,    \* leaves without a row there may be at first
    Slots,      \* requests in flight
    MaxAsked,   \* bound: requests
    MaxMishaps  \* bound: refused calls and lost commits

Kinds == Caps \cup Roles
Offers == {{k} : k \in Kinds} \cup Bundles

ASSUME GrantAssumption ==
    /\ Caps \cap Roles = {} /\ Manage \in Caps /\ Roles # {}
    /\ Bundles \subseteq SUBSET (Caps \ {Manage})
    /\ \A b \in Bundles : IsFiniteSet(b) /\ Cardinality(b) > 1
    /\ Defs \subseteq SUBSET (Caps \ {Manage}) /\ {} \notin Defs
    /\ Def0 \in [Roles -> Defs]
    /\ Leaves0 \subseteq SUBSET Caps
ASSUME GrantBoundAssumption ==
    MaxAsked \in Nat /\ MaxMishaps \in Nat

VARIABLES
    rows,    \* kinds the principal has a row for
    owned,   \* owned_capabilities of the row
    alive,   \* roles that exist
    def,     \* roles.capabilities
    leaf,    \* the principal's leaves on the space
    req,     \* the requests
    asked, mishaps,
    strays,  \* history: leaves no row owns, from before rows, a lost commit,
             \* rows removed by who had not seen the leaf, a deleted role
    gaps     \* history: leaves gone that a row confers, for a lost commit, or
             \* between who read and who wrote too late

vars == <<rows, owned, alive, def, leaf, req, asked, mishaps, strays, gaps>>
table == <<rows, owned>>
roles == <<alive, def>>
store == <<leaf, strays, gaps>>
bounds == <<asked, mishaps>>

Steps == {"idle", "insert", "written", "scan", "sweep", "unassign", "deleted",
          "rowless", "strip", "stripping", "write", "cut", "edited", "drop"}
\* kinds: what is asked for; caps: the capabilities it confers, as read; held:
\* leaves as read; todo: rows or leaves still to sweep; row: rows to remove
\* or inserted; put, cut, heirs, locks: what the transaction writes, deletes
\* and locks; came, news (history): rows that others committed since this
\* request read, and what others came to confer.
Request ==
    [op : {"none", "grant", "revoke", "edit", "drop"}, step : Steps,
     kinds : SUBSET Kinds, caps : SUBSET Caps, replace : BOOLEAN,
     held : SUBSET Caps, todo : SUBSET Kinds, row : SUBSET Kinds,
     put : SUBSET Caps, cut : SUBSET Caps, heirs : SUBSET (Kinds \X Caps),
     locks : SUBSET Kinds, came : SUBSET Kinds, news : SUBSET Caps]
Idle == [op |-> "none", step |-> "idle", kinds |-> {}, caps |-> {},
         replace |-> FALSE, held |-> {}, todo |-> {}, row |-> {}, put |-> {},
         cut |-> {}, heirs |-> {}, locks |-> {}, came |-> {}, news |-> {}]

Confers(k) == IF k \in Roles THEN def[k] ELSE {k}
Covered(ks) == UNION {Confers(k) : k \in ks}

Init ==
    /\ rows = {} /\ owned = [k \in Kinds |-> {}]
    /\ alive = Roles /\ def = Def0
    /\ leaf \in Leaves0
    /\ req = [q \in Slots |-> Idle]
    /\ asked = 0 /\ mishaps = 0
    /\ strays = leaf /\ gaps = {}

At(q, step) == req[q].step = step
Become(q, rec) == req' = [req EXCEPT ![q] = rec]
Goto(q, step) == Become(q, [req[q] EXCEPT !.step = step])
Done(q) == Become(q, Idle)
Others(q) == Slots \ {q}

Ask(q, rec) ==
    /\ At(q, "idle") /\ asked < MaxAsked
    /\ asked' = asked + 1
    /\ Become(q, rec)
    /\ UNCHANGED <<table, roles, store, mishaps>>

\* As Become, and the others that decide by what they read do not know of it.
Looking(p) == req[p].op \in {"grant", "edit"} \/ At(p, "stripping")
Tell(q, rec, ks, cs) ==
    req' = [p \in Slots |->
              IF p = q THEN rec
              ELSE IF Looking(p)
              THEN [req[p] EXCEPT !.came = @ \cup ks, !.news = @ \cup cs]
              ELSE req[p]]

\* What rows confer that are about to be committed.
Editing(q) == req[q].op = "edit" /\ req[q].step \in {"cut", "edited"}
Pending ==
    UNION {Covered(req[p].row) : p \in {p \in Slots : At(p, "written")}}
      \cup UNION {req[p].caps : p \in {p \in Slots :
                                        Editing(p) /\ req[p].kinds \subseteq rows}}

\* Mutated form: the rows are read without being locked.
UnlockedAnyway(q, ks) == TRUE

\* FOR UPDATE of these rows, and of a role against its foreign key.
Unlocked(q, ks) == \A p \in Others(q) : req[p].locks \cap ks = {}
RoleBusy(q, r) == \E p \in Others(q) :
    /\ r \in req[p].kinds
    /\ At(p, "written") \/ req[p].op = "edit"

Inherit(heirs, k) == {c \in Caps : <<k, c>> \in heirs}
\* Every way to leave to some other row what it confers as well.
Wills(ks, rest) ==
    LET left == {c \in UNION {owned[k] : k \in ks} : c \in Covered(rest)}
    IN {{<<h[c], c>> : c \in left} :
          h \in {f \in [left -> rest] : \A c \in left : c \in Confers(f[c])}}

-----------------------------------------------------------------------------
(* Granting: read, write row and leaves, commit.                           *)

HoldsManage == Manage \in rows \/ Manage \in leaf

\* A weaker role for a manager needs a confirmation: 409 without one.
BeginGrant(q, kinds, replace) ==
    /\ kinds \in Offers /\ kinds \cap Roles \subseteq alive
    /\ replace \/ Manage \in kinds \/ ~HoldsManage
    /\ Ask(q,
           [Idle EXCEPT !.op = "grant", !.step = "insert", !.kinds = kinds,
                        !.caps = Covered(kinds), !.replace = replace,
                        !.held = leaf])

Fresh(q) == req[q].kinds \ rows
Missing(q) ==
    (IF Fresh(q) \subseteq Roles THEN req[q].caps ELSE Fresh(q)) \ req[q].held

\* A role given twice is a conflict; a capability given twice goes on, unless
\* the first came while this one was at the key.
Repeat(q) ==
    /\ At(q, "insert")
    /\ \/ req[q].kinds \cap rows # {} /\ Done(q)
       \/ Fresh(q) = {} /\ ~(req[q].kinds \subseteq Roles)
          /\ Become(q, [req[q] EXCEPT !.step = "scan", !.held = {}])
    /\ UNCHANGED <<table, roles, store, bounds>>

\* What the rows confer and is not there although it was read as there, or was
\* not asked for since the role has been edited.
Stale(q) == ((req[q].caps \cap req[q].held)
               \cup (Covered(req[q].kinds) \ req[q].caps)) \ leaf

\* The store refuses a leaf that is there; so does the key a role that is not.
Insert(q) ==
    LET put == Missing(q)
        refused == put \cap leaf # {} \/ ~(req[q].kinds \cap Roles \subseteq alive)
    IN /\ At(q, "insert") /\ Fresh(q) # {}
       /\ \A k \in Fresh(q) : ~RoleBusy(q, k)
       /\ IF refused THEN Done(q) /\ UNCHANGED <<leaf, gaps>>
          ELSE /\ leaf' = leaf \cup put
               /\ gaps' = (gaps \ put) \cup Stale(q)
               /\ Tell(q, [req[q] EXCEPT !.step = "written", !.put = put,
                                         !.row = Fresh(q), !.held = {}], {}, put)
       /\ UNCHANGED <<table, roles, strays, bounds>>

\* What the row owns: a role what was missing, a capability itself.
Owns(q, k) == IF k \in Roles THEN req[q].put ELSE {k}

CommitGrant(q) ==
    /\ At(q, "written")
    /\ rows' = rows \cup req[q].row
    /\ owned' = [k \in Kinds |-> IF k \in req[q].row THEN Owns(q, k) ELSE owned[k]]
    /\ strays' = strays \ (req[q].row \cap Caps)
    /\ Tell(q, [req[q] EXCEPT !.step = "scan", !.put = {}, !.row = {}],
            req[q].row, Covered(req[q].row))
    /\ UNCHANGED <<roles, leaf, gaps, bounds>>

-----------------------------------------------------------------------------
(* sweepOtherSpaceRoles: the other rows one by one, then leaves no row     *)
(* speaks for.                                                             *)

Exempt(q) == IF req[q].replace THEN {} ELSE {Manage}
NextOf(todo, step, then) == IF todo = {} THEN then ELSE step

\* Mutated form: a confirmed replacement spares the manager all the same.
ScanSpares(q) ==
    LET others == rows \ (req[q].kinds \cup {Manage})
    IN /\ At(q, "scan")
       /\ Become(q, [req[q] EXCEPT !.todo = others,
                         !.step = NextOf(others, "sweep", "rowless")])
       /\ UNCHANGED <<table, roles, store, bounds>>

Scan(q) ==
    LET others == rows \ (req[q].kinds \cup Exempt(q))
    IN /\ At(q, "scan")
       /\ Become(q, [req[q] EXCEPT !.todo = others,
                         !.step = NextOf(others, "sweep", "rowless")])
       /\ UNCHANGED <<table, roles, store, bounds>>

\* unassignRoleInTx: the leaves are read before the transaction.
TakeRow(q, k) ==
    /\ At(q, "sweep") /\ k \in req[q].todo
    /\ Become(q, [req[q] EXCEPT !.step = "unassign", !.row = {k}, !.held = leaf])
    /\ UNCHANGED <<table, roles, store, bounds>>

Rowless(q) ==
    LET more == leaf \ (req[q].caps \cup Exempt(q))
    IN /\ At(q, "rowless")
       /\ Become(q, [req[q] EXCEPT !.step = "strip", !.todo = more])
       /\ UNCHANGED <<table, roles, store, bounds>>

Strip(q, c) ==
    /\ At(q, "strip") /\ c \in req[q].todo
    /\ Become(q, IF c \in Covered(rows) THEN [req[q] EXCEPT !.todo = @ \ {c}]
                 ELSE [req[q] EXCEPT !.step = "stripping", !.cut = {c}])
    /\ UNCHANGED <<table, roles, store, bounds>>

\* The store refuses to delete what is not there.
StripDelete(q) ==
    /\ At(q, "stripping")
    /\ IF req[q].cut \subseteq leaf
       THEN /\ leaf' = leaf \ req[q].cut
            /\ strays' = strays \ req[q].cut
            /\ gaps' = gaps \cup (req[q].cut \cap (req[q].news \cup Pending))
            /\ Become(q, IF req[q].op = "revoke" THEN Idle
                         ELSE [req[q] EXCEPT !.step = "strip", !.cut = {},
                                             !.todo = @ \ req[q].cut])
       ELSE Done(q) /\ UNCHANGED store
    /\ UNCHANGED <<table, roles, bounds>>

Answer(q) ==
    /\ At(q, "strip") /\ req[q].todo = {}
    /\ Done(q)
    /\ UNCHANGED <<table, roles, store, bounds>>

-----------------------------------------------------------------------------
(* Revoking: a row, a noun of several rows, or a leaf without a row.       *)

Revoking == [Idle EXCEPT !.op = "revoke", !.held = leaf]
BeginRevoke(q, kinds) ==
    /\ kinds \in Offers
    /\ LET rec == [Revoking EXCEPT !.kinds = kinds]
       IN IF kinds \cap rows # {} \/ kinds \in Bundles
          THEN Ask(q, [rec EXCEPT !.step = "unassign",
                                  !.row = kinds \cap rows])
          \* Without a row: refused if a row still confers it, nothing to do
          \* if the leaf is not there.
          ELSE /\ kinds \subseteq leaf \ Covered(rows)
               /\ Ask(q, [rec EXCEPT !.step = "stripping", !.cut = kinds])

AfterRow(q) ==
    LET rest == req[q].todo \ req[q].row
        now == [req[q] EXCEPT !.step = NextOf(rest, "sweep", "rowless"),
                              !.todo = rest, !.row = {}, !.held = {},
                              !.cut = {}, !.heirs = {}, !.locks = {}]
    IN Become(q, IF req[q].op = "grant" THEN now ELSE Idle)

\* The row has gone meanwhile.
NoRow(q) ==
    /\ At(q, "unassign") /\ req[q].row \cap rows = {}
    /\ req[q].kinds \notin Bundles \/ req[q].op = "grant"
    /\ AfterRow(q)
    /\ UNCHANGED <<table, roles, store, bounds>>

\* Mutated form: what the other rows confer is not asked.
DoomedUncounted(q, gone) ==
    LET noun == req[q].op = "revoke" /\ req[q].kinds \in Bundles
        mine == IF noun THEN req[q].kinds ELSE UNION {owned[k] : k \in gone}
    IN mine \cap req[q].held

\* A noun takes its leaves whoever owns them, a row those it owns; neither
\* one that a row which stays confers or that was not there when read.
Doomed(q, gone) ==
    LET noun == req[q].op = "revoke" /\ req[q].kinds \in Bundles
        mine == IF noun THEN req[q].kinds ELSE UNION {owned[k] : k \in gone}
    IN (mine \ Covered(rows \ gone)) \cap req[q].held

Unassign(q) ==
    LET gone == req[q].row \cap rows
        cut == Doomed(q, gone)
        lock == IF gone = {} THEN {} ELSE rows
        left == UNION {owned[k] : k \in gone}
                  \ (Covered(rows \ gone) \cup req[q].held)
    IN /\ At(q, "unassign")
       /\ gone # {} \/ (req[q].op = "revoke" /\ req[q].kinds \in Bundles)
       /\ Unlocked(q, lock)
       /\ IF cut \subseteq leaf
          THEN /\ leaf' = leaf \ cut
               /\ strays' = (strays \ cut) \cup (left \cap leaf)
               /\ gaps' = gaps \cup (cut \cap Pending)
               /\ \E heirs \in Wills(gone, rows \ gone) :
                    Become(q, [req[q] EXCEPT !.step = "deleted", !.row = gone,
                                             !.held = {}, !.cut = cut,
                                             !.heirs = heirs, !.locks = lock])
          ELSE Done(q) /\ UNCHANGED store
       /\ UNCHANGED <<table, roles, bounds>>

CommitUnassign(q) ==
    /\ At(q, "deleted")
    /\ rows' = rows \ req[q].row
    /\ owned' = [k \in Kinds |-> IF k \in req[q].row THEN {}
                                 ELSE owned[k] \cup Inherit(req[q].heirs, k)]
    /\ AfterRow(q)
    /\ UNCHANGED <<roles, store, bounds>>

-----------------------------------------------------------------------------
(* Editing a role re-expands it where it is assigned; deleting a role asks *)
(* whether it is assigned, and takes the rows there are by then.           *)

\* Mutated form: an inner join, which does not see built-in grants.
CoverersByRole(r, c) == {k \in rows \ {r} : k \in Roles /\ c \in Confers(k)}

Coverers(r, c) == {k \in rows \ {r} : c \in Confers(k)}

BeginEdit(q, r, to) ==
    LET has == r \in rows
        out == IF has THEN (def[r] \ to) \cap owned[r] ELSE {}
        kept == {c \in out : Coverers(r, c) # {}}
        lock == IF has THEN {r} \cup UNION {Coverers(r, c) : c \in kept} ELSE {}
    IN /\ r \in alive /\ to \in Defs /\ to # def[r]
       /\ ~RoleBusy(q, r) /\ Unlocked(q, lock)
       /\ \E h \in {f \in [kept -> rows] : \A c \in kept : f[c] \in Coverers(r, c)} :
            Ask(q,
                [Idle EXCEPT !.op = "edit", !.step = "write", !.kinds = {r},
                     !.caps = to, !.put = IF has THEN (to \ def[r]) \ leaf ELSE {},
                     !.cut = out \ kept, !.heirs = {<<h[c], c>> : c \in kept},
                     !.locks = lock])

\* What the role adds, was there when read and is not any more.
Vanished(q) ==
    UNION {req[q].caps \ (def[r] \cup req[q].put \cup leaf) :
             r \in req[q].kinds \cap rows}

EditWrite(q) ==
    /\ At(q, "write")
    /\ IF req[q].put \cap leaf = {}
       THEN /\ leaf' = leaf \cup req[q].put
            /\ gaps' = (gaps \ req[q].put) \cup Vanished(q)
            /\ Tell(q, [req[q] EXCEPT !.step = "cut"], {}, req[q].put)
       ELSE Done(q) /\ UNCHANGED <<leaf, gaps>>
    /\ UNCHANGED <<table, roles, strays, bounds>>

\* A refusal here rolls the rows back, not the leaves already written.
EditDelete(q) ==
    /\ At(q, "cut")
    /\ IF req[q].cut \subseteq leaf
       THEN /\ leaf' = leaf \ req[q].cut
            /\ strays' = strays \ req[q].cut
            /\ gaps' = gaps \cup (req[q].cut \cap (req[q].news \cup Pending))
            /\ Goto(q, "edited")
       ELSE /\ strays' = strays \cup (req[q].put \cap leaf)
            /\ Done(q) /\ UNCHANGED <<leaf, gaps>>
    /\ UNCHANGED <<table, roles, bounds>>

Reowned(q, r, k) ==
    IF k = r /\ r \in rows THEN (owned[r] \ (def[r] \ req[q].caps)) \cup req[q].put
    ELSE owned[k] \cup Inherit(req[q].heirs, k)

CommitEdit(q) ==
    /\ At(q, "edited")
    /\ \E r \in req[q].kinds :
         /\ def' = [def EXCEPT ![r] = req[q].caps]
         /\ owned' = [k \in Kinds |-> Reowned(q, r, k)]
    /\ Tell(q, Idle, {}, req[q].caps)
    /\ UNCHANGED <<rows, alive, store, bounds>>

BeginDrop(q, r) ==
    /\ r \in alive \ rows
    /\ Ask(q, [Idle EXCEPT !.op = "drop", !.step = "drop", !.kinds = {r}])

\* The rows granted since the count go with the role, their leaves stay.
EndDrop(q) ==
    /\ At(q, "drop")
    /\ \A r \in req[q].kinds : ~RoleBusy(q, r)
    /\ Unlocked(q, req[q].kinds)
    /\ alive' = alive \ req[q].kinds
    /\ rows' = rows \ req[q].kinds
    /\ owned' = [k \in Kinds |-> IF k \in req[q].kinds THEN {} ELSE owned[k]]
    /\ strays' = strays \cup (leaf \cap UNION {owned[k] : k \in req[q].kinds})
    /\ Done(q)
    /\ UNCHANGED <<def, leaf, gaps, bounds>>

-----------------------------------------------------------------------------
\* A call refused or a process that dies before the store is written: the
\* transaction is rolled back.
Fail(q) ==
    /\ mishaps < MaxMishaps
    /\ req[q].step \in {"insert", "scan", "sweep", "unassign", "rowless",
                        "stripping", "write", "drop"}
    /\ mishaps' = mishaps + 1
    /\ Done(q)
    /\ UNCHANGED <<table, roles, store, asked>>

\* After the store was written the rows are lost, the leaves are not.
LoseCommit(q) ==
    /\ mishaps < MaxMishaps
    /\ req[q].step \in {"written", "deleted", "cut", "edited"}
    /\ mishaps' = mishaps + 1
    /\ strays' = strays \cup (req[q].put \cap leaf)
    /\ gaps' = IF At(q, "cut") THEN gaps ELSE gaps \cup req[q].cut
    /\ Done(q)
    /\ UNCHANGED <<table, roles, leaf, asked>>

Begin(q) ==
    \/ \E kinds \in Offers : \/ BeginRevoke(q, kinds)
                             \/ \E replace \in BOOLEAN : BeginGrant(q, kinds, replace)
    \/ \E r \in Roles : BeginDrop(q, r) \/ \E to \in Defs : BeginEdit(q, r, to)
Step(q) ==
    \/ Repeat(q) \/ Insert(q) \/ CommitGrant(q) \/ Scan(q) \/ Rowless(q)
    \/ StripDelete(q) \/ Answer(q)
    \/ NoRow(q) \/ Unassign(q) \/ CommitUnassign(q)
    \/ EditWrite(q) \/ EditDelete(q) \/ CommitEdit(q) \/ EndDrop(q)
    \/ \E k \in req[q].todo : TakeRow(q, k) \/ Strip(q, k)
    \/ Fail(q) \/ LoseCommit(q)
Next == \E q \in Slots : Begin(q) \/ Step(q)

Spec == Init /\ [][Next]_vars

-----------------------------------------------------------------------------
\* Types; a row that is not there owns nothing, and none is of a deleted role.
TypeOK ==
    /\ rows \subseteq Kinds /\ rows \cap Roles \subseteq alive
    /\ alive \subseteq Roles /\ def \in [Roles -> Defs]
    /\ owned \in [Kinds -> SUBSET Caps] /\ \A k \in Kinds \ rows : owned[k] = {}
    /\ leaf \subseteq Caps /\ strays \subseteq leaf /\ gaps \subseteq Caps
    /\ req \in [Slots -> Request]
    /\ asked \in 0..MaxAsked /\ mishaps \in 0..MaxMishaps

Leaving(k) == \E q \in Slots : \/ At(q, "deleted") /\ k \in req[q].row
                               \/ At(q, "edited") /\ k \in req[q].kinds

\* What a row says the principal may do, they may do: no removal of another
\* grant takes a shared leaf away (roles.ts 531-533, 895-897).
RowsConfer ==
    \A k \in rows : ~Leaving(k) => Confers(k) \subseteq leaf \cup gaps

\* Whatever the principal may do, some row answers for and removing it takes it
\* away: no access that nobody gave and nobody can find (spaces.ts 832-836).
LeafHasOwner ==
    \A c \in leaf \ strays :
        \/ \E k \in rows : c \in owned[k]
        \/ \E q \in Slots : /\ c \in req[q].put
                            /\ req[q].step \in {"written", "cut", "edited"}

\* A grant that has been answered leaves one role, and no leaf beyond it
\* except a manager's that nobody confirmed giving up (spaces.ts 800-802), but
\* for what others granted or edited since it read.
AnswerConverges ==
    [][\A q \in Slots :
         (At(q, "strip") /\ req[q].todo = {} /\ req'[q] = Idle) =>
            /\ rows' \subseteq req[q].kinds \cup Exempt(q) \cup req[q].came
            /\ leaf' \subseteq req[q].caps \cup Exempt(q) \cup req[q].news]_vars

\* Replacing a role never leaves the principal without any (spaces.ts 800): a
\* sweep takes the last leaf only if its own row was taken away under it.
NoGap ==
    [][\A q \in Slots :
         (req[q].op = "grant" /\ req'[q] # req[q] /\ leaf # {} /\ leaf' = {}) =>
            \A k \in req[q].kinds \cap rows : Leaving(k) \/ Confers(k) \subseteq gaps']_vars
=============================================================================
