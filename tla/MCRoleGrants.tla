---------------------------- MODULE MCRoleGrants ----------------------------
(* Three capabilities, a noun of two of them, one custom role. *)
EXTENDS RoleGrants, TLC

CONSTANTS role, q1, q2

MCCaps == {"comment", "edit", "manage"}
MCRoles == {role}
MCBundles == {{"edit", "comment"}}
MCDefs == {{"edit"}, {"comment", "edit"}, {"comment"}}
MCDef0 == role :> {"comment"}
MCLeaves0 == {{}, {"edit", "manage"}}
MCSlots == {q1, q2}
MCSymmetry == Permutations(MCSlots)
=============================================================================
