SPECIFICATION Spec
CONSTANTS
  User = {ann}
  Code = {c1}
  MaxAttempts = 1
  MaxTokens = 3
  Request = {r1, r2}
  MaxMishaps = 1
  Nobody = Nobody
SYMMETRY Symmetric
INVARIANTS
  CodeUsedOnce
  EndedByNobody
  NoForgottenSession
CHECK_DEADLOCK FALSE
