SPECIFICATION NotedSpec
CONSTANTS
  p1 = p1
  p2 = p2
  t1 = t1
  s1 = s1
  g1 = g1
  Payout = {p1}
  TopUp = {t1}
  Spend = {s1}
  Gift = {g1}
  Amount <- MCAmount
  DayLimit = 4
  Handler = {h1, h2, h3}
  Nobody = Nobody
  Nothing = Nothing
  MaxFaults = 1
SYMMETRY HandlerSymmetry
INVARIANTS
  StatementAddsUp
  WithdrawalsAccounted
  NeverSentAndReturned
PROPERTIES
  ImplementsLedger
CHECK_DEADLOCK FALSE
