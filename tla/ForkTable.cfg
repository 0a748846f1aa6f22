CONSTANT
  Tables <- AllTables
SPECIFICATION FillSpec
CHECK_DEADLOCK FALSE
INVARIANTS
  OrderedHeights
  ShippedForksScheduled
