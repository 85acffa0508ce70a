--------------------------- MODULE OutboxPromise ---------------------------
(***************************************************************************)
(* What every outbox of the server promises, with no claim, no worker and  *)
(* no clock: an intent that was committed stays pending until its effect   *)
(* has been applied at least once.  The effect may be applied again, even  *)
(* after the intent has gone: delivery is at-least-once.                   *)
(***************************************************************************)
CONSTANT Rows

VARIABLES pending,  \* intents committed and not yet retired
          applied   \* intents whose effect has been applied at least once

vars == <<pending, applied>>

Init == pending = {} /\ applied = {}

\* A committed intent is new: its id is neither pending nor was ever applied.
Commit(r) == /\ r \notin pending \cup applied
             /\ pending' = pending \cup {r}
             /\ UNCHANGED applied

Apply(r) == /\ r \in pending \cup applied
            /\ applied' = applied \cup {r}
            /\ UNCHANGED pending

Retire(r) == /\ r \in pending \cap applied
             /\ pending' = pending \ {r}
             /\ UNCHANGED applied

Next == \E r \in Rows : Commit(r) \/ Apply(r) \/ Retire(r)

Spec == Init /\ [][Next]_vars
=============================================================================
