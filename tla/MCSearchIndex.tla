--------------------------- MODULE MCSearchIndex ---------------------------
(* One page, two or three mutations of it, one worker. *)
EXTENDS SearchIndex

CONSTANTS p1, t1, w1

MCPages == {p1}
MCTenantOf == [p \in Pages |-> t1]
MCWorkers == {w1}
MCRows == 1 .. 3
MCFewRows == 1 .. 2
=============================================================================
