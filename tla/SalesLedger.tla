------------------------------ MODULE SalesLedger ------------------------------
(***************************************************************************)
(* What the program promises of both writers of the stock: the ledger of   *)
(* InventoryLedger, in which an event that carries a sale id also counts   *)
(* once per sale id, whatever event id it arrives under (README.md, "the   *)
(* sale_id field is an idempotency key").                                  *)
(***************************************************************************)
EXTENDS InventoryLedger

CONSTANT
  SaleOf        \* the sale id of each event that is a sale

VARIABLE
  sold          \* the sale ids that have taken stock

salesVars == <<vars, sold>>

SalesInit == Init /\ sold = {}

Receive(e) ==
  /\ e \notin DOMAIN SaleOf
  /\ Apply(e)
  /\ UNCHANGED sold

Sell(e) ==
  /\ e \in DOMAIN SaleOf
  /\ SaleOf[e] \notin sold
  /\ Apply(e)
  /\ sold' = sold \cup {SaleOf[e]}

SalesNext == \E e \in Event : Receive(e) \/ Sell(e)

SalesSpec == SalesInit /\ [][SalesNext]_salesVars

=============================================================================
