--------------------------- MODULE MCAnomalyPipeline ---------------------------
(***************************************************************************)
(* A small instance of AnomalyPipeline: two workers, one row, two restocks *)
(* and a sale.                                                             *)
(***************************************************************************)
EXTENDS AnomalyPipeline

CONSTANTS k1, restock, more, sale, w1, w2

MCKeyOf == [e \in Event |-> k1]

MCDelta == [e \in Event |-> IF e = sale THEN -3 ELSE 4]

\* No sales, or ten of which one is more than 7 times the average.
MCDaySales ==
  {[count |-> 0, total |-> 0, largest |-> 0],
   [count |-> 10, total |-> 31, largest |-> 22]}

\* The workers are alike.
Alike == Permutations(Client)

=============================================================================
