CONSTANTS
  k1 = k1
  restock = restock
  sale = sale
  w1 = w1
  w2 = w2
  p1 = p1
  p2 = p2
  Key = {k1}
  Event = {restock, sale}
  Client = {w1, w2}
  Worker = {w1, w2}
  Partition = {p1, p2}
  Nobody = Nobody
  NoEvent = NoEvent
  NotCached = NotCached
  MaxQuantity = 4
  KeyOf <- MCKeyOf
  Delta <- MCDelta
  Log <- MCLog
  BatchSize = 2
  MaxFaults = 1
SPECIFICATION FairSpec
INVARIANTS
  TypeOK
  BatchWithinPoll
  CommittedIsAttempted
PROPERTIES
  EveryEventAttempted
