SPECIFICATION NotedSpec
CONSTANTS
  Payment = {p1}
  NoPayment = NoPayment
  Handler = {h1, h2}
  Cron = cron
  MaxPrompts = 2
  MaxEvents = 2
  MaxFaults = 2
  SweepLimit = 1
SYMMETRY HandlerSymmetry
INVARIANTS
  EffectsOncePaid
  SuccessMeansEffects
  ProcessedCardEventSettled
PROPERTIES
  ClosedStaysClosed
  ImplementsSettlement
CHECK_DEADLOCK FALSE
