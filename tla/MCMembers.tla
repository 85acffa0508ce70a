----------------------------- MODULE MCMembers -----------------------------
(* Two or three subjects, one founder, two requests; the requests are alike, *)
(* and so are the subjects who are not the founder.                          *)
EXTENDS Members, TLC

CONSTANTS s1, s2, s3, q1, q2

MCSubs == {s1, s2, s3}
MCTwoSubs == {s1, s2}
MCReqs == {q1, q2}
MCSymmetry == Permutations({q1, q2}) \cup Permutations({s2, s3})
MCRemove == {"accept", "remove"}
=============================================================================
