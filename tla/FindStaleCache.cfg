CONSTANTS
  k1 = k1
  restock = restock
  sale = sale
  w1 = w1
  w2 = w2
  p1 = p1
  p2 = p2
  Key = {k1}
  Event = {restock, sale}
  Client = {w1, w2}
  Worker = {w1, w2}
  Partition = {p1, p2}
  Nobody = Nobody
  NoEvent = NoEvent
  NotCached = NotCached
  NoRecord = NoRecord
  MaxQuantity = 4
  KeyOf <- MCKeyOf
  Delta <- MCDelta
  Log <- GoodLog
  MaxAttempts = 2
  MaxFaults = 0
SPECIFICATION Spec
INVARIANTS
  CacheFollowsProcessed
