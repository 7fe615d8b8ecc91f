SPECIFICATION Spec
CONSTANTS
  Levels <- MCLevels
  MaxLevels = 3
  Quantity = 2
  FeeBuy = 10
  FeeSell = 10
  Fixed = 1
  Reserve = 1
  MinProfit = 1
  Sources = {wallet, account}
  Offers <- MCOffers
INVARIANTS TypeOK WalkIsBest CapitalIsCheapest AdmittedPays
CHECK_DEADLOCK FALSE
