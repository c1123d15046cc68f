\* The lists and the stream of a gridpool's orders, or the calls.
SPECIFICATION FairSpec
CONSTANTS
  Parts = {"lists", "calls"}
  Requested = {0, 1}
  DefaultPageSize = 2
  MaxPageSize = 2
  Lists = {"orders", "trades"}
  Filters <- FiltersHere
  Capacity = 2
  MaxRecords = 3
  Nanos = 2
  Client = {"C1", "C2"}
  Typed <- TypedHere
  Wires <- WiresHere
  Wants <- WantsHere
  Pool = 1
  Area <- DE
  TapeCapacity = 1
  Rules <- DERules
  Instants = {1798, 1800, 3600}
  WatchBefore = 1800
  MaxOrders = 2
  MaxCalls = 3
INVARIANTS
  ListingConsistent
  CallsFaithful
PROPERTIES
  CommandsEnd
\* Clients ask a bounded number of times.
CHECK_DEADLOCK FALSE
