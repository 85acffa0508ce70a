---------------------------- MODULE MCPageTrash ----------------------------
(* A folder with two pages, one of them in the trash. *)
EXTENDS PageTrash, TLC

CONSTANTS a, b, c, u1, u2, s1

MCPages == {a, b, c}
MCTree == a :> None @@ b :> a @@ c :> a
MCTrash == {c}
MCUsers == {u1, u2}
MCSweepers == {s1}
=============================================================================
