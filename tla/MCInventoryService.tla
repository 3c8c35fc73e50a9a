-------------------------- MODULE MCInventoryService --------------------------
(***************************************************************************)
(* A small instance of InventoryService: two keys, events that collide on  *)
(* the first of them, and clients that may call with any event at any      *)
(* time, several times, so that redeliveries and concurrent deliveries of  *)
(* the same event occur.                                                   *)
(***************************************************************************)
EXTENDS InventoryService

CONSTANTS k1, k2, restock, sale, restockMore, other, flood, c1, c2

MCKeyOf == [e \in Event |-> IF e \in {other, flood} THEN k2 ELSE k1]

\* With MaxQuantity = 4 the sale fits only after a restock, and then it can race
\* with the other one: both read a row that exists and both can commit.  On the
\* second key whichever event comes first leaves no room for the other.
MCDelta == [e \in Event |-> CASE e = sale -> -2 [] e = other -> 1
                              [] e = flood -> 4 [] OTHER -> 2]

=============================================================================
