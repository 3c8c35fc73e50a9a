CONSTANTS
  k1 = k1
  restock = restock
  sale = sale
  restockMore = restockMore
  c1 = c1
  r1 = r1
  Key = {k1}
  Event = {restock, sale, restockMore}
  Client = {c1}
  Reader = {r1}
  Nobody = Nobody
  NoEvent = NoEvent
  NotCached = NotCached
  MaxQuantity = 4
  KeyOf <- MCKeyOf
  Delta <- MCDelta
SPECIFICATION Spec
INVARIANTS
  TypeOK
  OnlyChangesRecorded
  ReadsAreFromHistory
