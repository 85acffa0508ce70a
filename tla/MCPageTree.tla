----------------------------- MODULE MCPageTree -----------------------------
(* A folder with a page in one space, a page in the other, one to be created. *)
EXTENDS PageTree, TLC

CONSTANTS a, b, c, d, r1, r2, r3

MCPages == {a, b, c, d}
MCReqs == {r1, r2}
MCThreeReqs == {r1, r2, r3}
MCSpaces == 1..2
MCTree == a :> None @@ b :> a @@ c :> None
MCHome == a :> 1 @@ b :> 1 @@ c :> 2 @@ d :> 1
MCFolder == a :> None @@ b :> a @@ c :> a
MCSameSpace == [p \in MCPages |-> 1]
MCLinked == {a, c}
MCMove == {"move"}
=============================================================================
