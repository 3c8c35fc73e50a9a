CONSTANTS
  k1 = k1
  k2 = k2
  restock = restock
  sale = sale
  restockMore = restockMore
  other = other
  flood = flood
  c1 = c1
  c2 = c2
  Key = {k1, k2}
  Event = {restock, sale, restockMore, other, flood}
  Client = {c1, c2}
  Nobody = Nobody
  MaxQuantity = 4
  KeyOf <- MCKeyOf
  Delta <- MCDelta
  NoEvent = NoEvent
  NotCached = NotCached
SPECIFICATION FairServiceSpec
INVARIANTS
  ServiceTypeOK
  SnapshotMatchesHistory
  AppliedOnce
  StockInRange
  LockProtectsRead
  CacheShowsHistory
PROPERTIES
  ImplementsLedger
  EveryCallEnds
