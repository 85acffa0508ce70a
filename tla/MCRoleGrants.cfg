SPECIFICATION Spec
CONSTANTS
  role = role
  q1 = q1
  q2 = q2
  Caps <- MCCaps
  Manage = "manage"
  Roles <- MCRoles
  Bundles <- MCBundles
  Defs <- MCDefs
  Def0 <- MCDef0
  Leaves0 <- MCLeaves0
  Slots <- MCSlots
  MaxAsked = 3
  MaxMishaps = 1
SYMMETRY MCSymmetry
INVARIANTS RowsConfer LeafHasOwner
PROPERTIES AnswerConverges NoGap
CHECK_DEADLOCK FALSE
