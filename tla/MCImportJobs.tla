---------------------------- MODULE MCImportJobs ----------------------------
(* Two uploads to one space, two workers, archives of two pages. *)
EXTENDS ImportJobs, TLC

CONSTANTS w1, w2, sp

MCImports == 1 .. 2
MCWorkers == {w1, w2}
MCSpaceOf == [j \in MCImports |-> sp]
MCSlow == {"linking", "undoing"}
MCSymmetry == Permutations(MCWorkers)
=============================================================================
