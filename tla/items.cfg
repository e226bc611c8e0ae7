SPECIFICATION ItemsSpec
CONSTANTS
  ItemIds = {i1, i2}
  Bodies <- MCBodies
  ENABLE_ITEMS_DECR = 0
  NoItem = NoItem
INVARIANT NoItemInClear
CHECK_DEADLOCK FALSE
