SPECIFICATION Spec
CONSTANTS
  Person = {p1, p2}
  Key = {k1, k2}
  Amount = {1, 2}
  Goal = {1, 2}
  MaxShares = 2
  Handler = {h1, h2}
  Nobody = Nobody
SYMMETRY Symmetric
VIEW Seen
INVARIANTS
  RaisedIsSettled
  NeverOverTheGoals
  HistoryTellsTheTruth
CHECK_DEADLOCK FALSE
