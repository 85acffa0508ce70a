--------------------------- MODULE MCGroupMirror ---------------------------
(* One subject, one group, two connections, two requests, one drain worker. *)
EXTENDS GroupMirror

CONSTANTS g1, c1, c2, q1, q2, w1

MCOneGroup == {g1}
MCConns == {c1, c2}
MCTwo == {q1, q2}
MCOneDrain == {w1}
MCAllOps == {"login", "remove", "suspend", "reactivate", "untrust"}
=============================================================================
