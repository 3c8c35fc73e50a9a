CONSTANTS
  k1 = k1
  restock = restock
  s1a = s1a
  s1b = s1b
  sale1 = sale1
  w1 = w1
  w2 = w2
  shop = shop
  p1 = p1
  p2 = p2
  Key = {k1}
  Event = {restock, s1a, s1b}
  SaleId = {sale1}
  Client = {w1, w2, shop}
  Worker = {w1, w2}
  Partition = {p1, p2}
  Nobody = Nobody
  NoEvent = NoEvent
  NotCached = NotCached
  NoRecord = NoRecord
  MaxQuantity = 3
  KeyOf <- MCKeyOf
  Delta <- MCDelta
  SaleOf <- MCSaleOf
  Log <- MCLog
  MaxAttempts = 2
  MaxFaults = 1
SPECIFICATION Spec
SYMMETRY Alike
INVARIANTS
  TypeOK
  CommittedSaleIsAccounted
  ContentionIsRetried
  OneChangePerSale
  SalesMatchHistory
PROPERTIES
  ImplementsSalesLedger
