CONSTANTS
  k1 = k1
  restock = restock
  more = more
  sale = sale
  w1 = w1
  w2 = w2
  Key = {k1}
  Event = {restock, more, sale}
  Client = {w1, w2}
  Nobody = Nobody
  NoEvent = NoEvent
  NotCached = NotCached
  MaxQuantity = 8
  KeyOf <- MCKeyOf
  Delta <- MCDelta
  DaySales <- MCDaySales
  RapidSales = {0, 5}
  MaxPublish = 2
  MaxFaults = 1
SPECIFICATION Spec
SYMMETRY Alike
INVARIANTS
  TypeOK
  ExaminedOnce
  OneUnexaminedPerFailure
  ReportsRecentChange
  OneMistoldPerFailure
