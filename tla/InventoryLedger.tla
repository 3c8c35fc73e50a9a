--------------------------- MODULE InventoryLedger ----------------------------
(***************************************************************************)
(* What the inventory side of the program promises, with no transactions,  *)
(* locks, retries or messages: a stock per key that each event changes at  *)
(* most once, in one step, and that never leaves its range.                *)
(***************************************************************************)
EXTENDS Integers

CONSTANTS Key, Event, KeyOf, Delta, MaxQuantity

VARIABLES
  stock,        \* the quantity of each key
  applied       \* the events that have changed it

vars == <<stock, applied>>

Init ==
  /\ stock = [k \in Key |-> 0]
  /\ applied = {}

Apply(e) ==
  /\ e \notin applied
  /\ stock[KeyOf[e]] + Delta[e] \in 0 .. MaxQuantity
  /\ stock' = [stock EXCEPT ![KeyOf[e]] = @ + Delta[e]]
  /\ applied' = applied \cup {e}

Next == \E e \in Event : Apply(e)

Spec == Init /\ [][Next]_vars

=============================================================================
