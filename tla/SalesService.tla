----------------------------- MODULE SalesService ------------------------------
(***************************************************************************)
(* SalesService.process_event (app/services/sales_service.py), the second  *)
(* writer of the tables, beside InventoryService.process_event.            *)
(*                                                                         *)
(* A client that works on a sale goes through the stages                   *)
(*   lookup -> lock -> apply -> done                                       *)
(* of the same call record.  It differs from an inventory client in what   *)
(* makes a duplicate (the sale id, not the event id), in that it never     *)
(* inserts a row of "inventory", and in that it does not write the cache.  *)
(*                                                                         *)
(* Abstraction: prices and dates of sales are left out.                    *)
(***************************************************************************)
EXTENDS InventoryService, FiniteSetsExt

CONSTANTS
  SaleId,       \* the clients' idempotency keys
  SaleOf        \* the sale id of each event of the sales topic

ASSUME SalesAssumption ==
  /\ SaleOf \in [DOMAIN SaleOf -> SaleId]
  /\ DOMAIN SaleOf \subseteq Event
  /\ \A e \in DOMAIN SaleOf : Delta[e] < 0

VARIABLE
  sales         \* rows of table "sales"

SaleEvent == DOMAIN SaleOf

SaleRow == [sale : SaleId, key : Key, quantity : Nat \ {0}]

\* SELECT ... FROM sales WHERE external_sale_id = s.
Sold(s) == \E r \in sales : r.sale = s

SoldIds == {r.sale : r \in sales}

MySale(c) == SaleOf[call[c].event]

\* The client is in SalesService.process_event.
Selling(c) == call[c].event \in SaleEvent

-----------------------------------------------------------------------------

\* Mutant of IsDuplicate: the lookup is by the id of the event.
IsDuplicateEvent(c) == Recorded(call[c].event)

\* What makes a sale a duplicate.
IsDuplicate(c) == Sold(MySale(c))

\* The sale is in the table: the call returns its row and changes nothing.
FindSale(c) ==
  /\ At(c, "lookup")
  /\ IsDuplicate(c)
  /\ call' = [call EXCEPT ![c] = [@ EXCEPT !.stage = "done", !.duplicate = TRUE]]
  /\ UNCHANGED <<storeVars, cache, sales>>

FindNoSale(c) ==
  /\ At(c, "lookup")
  /\ ~IsDuplicate(c)
  /\ MoveTo(c, "lock")
  /\ UNCHANGED <<storeVars, cache, sales>>

\* SELECT ... FOR UPDATE of the row that is sold from.
LockStock(c) == LockRow(c) /\ UNCHANGED sales

\* There is no such row: SalesProductNotFoundError.
FindNoProduct(c) ==
  /\ At(c, "lock")
  /\ MyKey(c) \notin rows
  /\ MoveTo(c, "rejected")
  /\ UNCHANGED <<storeVars, cache, sales>>

\* SalesInsufficientStockError: rolled back.
FindTooLittle(c) == RejectNegative(c) /\ UNCHANGED sales

\* Mutant of CanSell: external_sale_id is not unique.
CanSellAgain(c) == CanCommit(c)

\* The flush breaks neither unique index, on external_sale_id and on
\* source_event_id.
CanSell(c) == CanCommit(c) /\ ~Sold(MySale(c))

\* flush() of a sale that another client has recorded since the lookup:
\* everything is rolled back, the deduction as well.
SaleConflict(c) ==
  /\ At(c, "apply")
  /\ ~Negative(c)
  /\ ~CanSell(c)
  /\ MoveTo(c, "transient")
  /\ Release(c)
  /\ UNCHANGED <<rows, quantity, history, cache, sales>>

\* Mutant of AddSale: the sale is recorded with the quantity that is left.
AddRemainder(c) ==
  sales' = sales \cup {[sale |-> MySale(c), key |-> MyKey(c), quantity |-> After(c) + 1]}

AddSale(c) ==
  sales' = sales \cup {[sale |-> MySale(c), key |-> MyKey(c),
                        quantity |-> -Delta[call[c].event]]}

\* COMMIT of the sale, the deduction and the history row.
RecordSale(c, stage) ==
  /\ CanSell(c)
  /\ Commit(c, stage)
  /\ AddSale(c)

SaleError(c) == DatabaseError(c) /\ UNCHANGED sales

-----------------------------------------------------------------------------

ProceedSale(c) ==
  \/ FindSale(c)
  \/ FindNoSale(c)
  \/ LockStock(c)
  \/ FindNoProduct(c)
  \/ FindTooLittle(c)
  \/ SaleConflict(c)
  \/ RecordSale(c, "done")

\* A statement fails, or the reply to COMMIT is lost.
FailSale(c) ==
  \/ SaleError(c)
  \/ RecordSale(c, "transient")

-----------------------------------------------------------------------------
(* Properties. *)

\* A sale id takes stock once, under however many event ids its request was
\* repeated and however many consumers work on them at once.
OneChangePerSale ==
  \A k, l \in Key : \A i \in DOMAIN history[k], j \in DOMAIN history[l] :
    LET e == history[k][i].event
        f == history[l][j].event
    IN  {e, f} \subseteq SaleEvent /\ SaleOf[e] = SaleOf[f] => k = l /\ i = j

\* get_sales_summary: the sum over the rows of the product.
TotalSold(k) ==
  LET rowsOf == {r \in sales : r.key = k}
  IN  SumFunction([r \in rowsOf |-> r.quantity])

\* The changes of a product that were sales, by their place in its history.
SalesOf(k) == {i \in DOMAIN history[k] : history[k][i].event \in SaleEvent}

\* What a product has sold is what its history has given away to sales, so no sale
\* is without its deduction and no deduction without its sale.
SalesMatchHistory ==
  \A k \in Key :
    TotalSold(k) = SumFunction([i \in SalesOf(k) |-> -history[k][i].delta])

\* Both writers together behave as the ledger in which a sale counts once per
\* sale id.
SaleLedger == INSTANCE SalesLedger
  WITH stock <- quantity, applied <- RecordedEvents, sold <- SoldIds

ImplementsSalesLedger == SaleLedger!SalesSpec

=============================================================================
