--------------------------- MODULE MCReconciliation ----------------------------
(***************************************************************************)
(* Small instances of Reconciliation: one row, a client that applies two   *)
(* restocks and a sale in any order, and one reader.                       *)
(***************************************************************************)
EXTENDS Reconciliation

CONSTANTS k1, restock, sale, restockMore, c1, r1

MCKeyOf == [e \in Event |-> k1]

MCDelta == [e \in Event |-> IF e = sale THEN -2 ELSE 2]

=============================================================================
