SPECIFICATION Spec
CONSTANTS
  User = {ann, ben, cem}
  ann = ann
  ben = ben
  cem = cem
  MaxRows = 4
  Invite = {k1}
  Request = {r1, r2}
  Cap = 1
  Nobody = Nobody
  Circle = {c1}
  Start <- Starts
SYMMETRY Symmetric
INVARIANTS
  OnlyByConsent
  BlockedStayApart
  PlanningIsHidden
  OnlyInsidersHear
CHECK_DEADLOCK FALSE
