\* Violations: a contract whose start has parts of a second beside its boundary,
\* and an update whose price is in another currency (tlc -continue).
SPECIFICATION Spec
CONSTANTS
  Parts = {"calls"}
  Requested = {0, 1}
  DefaultPageSize = 2
  MaxPageSize = 2
  Lists = {"orders", "trades"}
  Filters <- FiltersHere
  Capacity = 2
  MaxRecords = 3
  Nanos = 2
  Client = {"C1", "C2"}
  Typed <- TypedHere
  Wires <- OddWires
  Wants <- WantsHere
  Pool = 1
  Area <- DE
  TapeCapacity = 1
  Rules <- DERules
  Instants = {1798, 1800, 3600}
  WatchBefore = 1800
  MaxOrders = 2
  MaxCalls = 3
INVARIANTS
  ContractsAreAligned
  CurrencyIsKept
CHECK_DEADLOCK FALSE
