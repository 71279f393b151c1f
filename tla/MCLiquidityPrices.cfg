SPECIFICATION Spec
CONSTANTS
  Windows <- MCWindows
  Pools <- MCPools
  PriceETH = 3000
  TotalSupply = 900
  Scale = 1000
INVARIANTS LPBrackets
PROPERTIES ProductGrows BothEnd
CHECK_DEADLOCK FALSE
