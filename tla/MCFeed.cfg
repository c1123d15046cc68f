\* One client of any service, two orders, rings of two and three events.
SPECIFICATION FairSpec
CONSTANTS
  O1 = O1
  O2 = O2
  C1 = C1
  Order = {O1, O2}
  MaxQuantity = 1
  Client = {C1}
  Subscriptions <- AnyKind
  Capacity = 2
  HistoryCap = 3
  MaxStamp = 2
  MaxBatch = 2
  MaxEvents = 4
INVARIANTS
  FeedConsistent
PROPERTIES
  UiBookCatchesUp
