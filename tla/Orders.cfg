SPECIFICATION NotedSpec
CONSTANTS
  Order = {o1}
  Price = 2
  Stock = 1
  UsageLimit = 1
  Method = {"CARD", "WALLET", "MPESA"}
  Handler = {h1, h2}
  Nothing = Nothing
  MaxRefunds = 2
  MaxStock = 2
  MaxFaults = 1
SYMMETRY Symmetric
INVARIANTS
  GoodsOnlyForMoney
  MoneyBackIsTraced
  CouponUsesCounted
  NoUnitLost
PROPERTIES
  DeliveryStepByStep
CHECK_DEADLOCK FALSE
