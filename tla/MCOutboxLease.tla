--------------------------- MODULE MCOutboxLease ---------------------------
(* Two workers, three rows of two tenants; row 1 always fails. *)
EXTENDS OutboxLease, TLC

CONSTANTS w1, w2, t1, t2

MCWorkers == {w1, w2}
MCRows == 1 .. 3
MCTenants == {t1, t2}
MCTenantOf == [r \in MCRows |-> IF r = 1 THEN t1 ELSE t2]
MCPoison == {1}
MCNone == {}
MCSymmetry == Permutations(MCWorkers)
=============================================================================
