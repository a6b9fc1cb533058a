CONSTANTS
  Prices = {"cheap", "metered"}
  Metered = {"metered"}
  UnitAmount <- MCUnitAmount
  ItemIds = {"i1", "i2"}
  Quantities = {1, 2}
  Amounts = {0, 1, 2, 3}
  ItemLists <- MCItemLists
  Configs <- MCConfigs
  Unbounded = 100
SPECIFICATION Spec
INVARIANTS
  UngatedIsSmall
  OnlyZeroAsksTwice
  TokenBindsEffect
  ReplayRepeats
CHECK_DEADLOCK FALSE
