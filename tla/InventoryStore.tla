---------------------------- MODULE InventoryStore ----------------------------
(***************************************************************************)
(* The PostgreSQL tables that every service of the program works on:       *)
(* "inventory" (one row per product and store, unique on both columns),    *)
(* "inventory_history" (one row per applied change, unique on the id of    *)
(* the source event) and the row locks that SELECT ... FOR UPDATE and an   *)
(* INSERT under a unique constraint take.  The module declares the tables, *)
(* the primitive reads and writes the services are built from, and what it *)
(* means for the tables to agree with each other.                          *)
(*                                                                         *)
(* Abstractions.  A pair (sku, warehouse_id) is a key.  A history row      *)
(* keeps the columns that the program's logic reads; the rows of one key   *)
(* are a sequence in commit order, which is the order of their row locks.  *)
(***************************************************************************)
EXTENDS Integers, Sequences

CONSTANTS
  Key,          \* (sku, warehouse_id) pairs
  Event,        \* ids of inventory events (source_event_id)
  Client,       \* threads of control that open a database session
  Nobody,       \* the owner of a row that is not locked
  MaxQuantity   \* the largest value of the INTEGER column "quantity"

ASSUME StoreAssumption ==
  /\ Nobody \notin Client
  /\ MaxQuantity \in Nat

VARIABLES
  rows,         \* keys with a committed row in "inventory"
  quantity,     \* column "quantity" of each row, 0 where there is none
  history,      \* committed rows of "inventory_history", per key
  lock          \* the client whose open transaction holds the row (or the
                \* unique-index entry of a row it is inserting)

storeVars == <<rows, quantity, history, lock>>

\* What an INTEGER column can hold.  The column "quantity" has no other check.
Column == -(MaxQuantity + 1) .. MaxQuantity

Entry == [event : Event, before : Int, after : Int, delta : Int]

StoreInit ==
  /\ rows = {}
  /\ quantity = [k \in Key |-> 0]
  /\ history = [k \in Key |-> <<>>]
  /\ lock = [k \in Key |-> Nobody]

-----------------------------------------------------------------------------
(* What a transaction reads and writes. *)

\* SELECT ... FROM inventory_history WHERE source_event_id = e, over the
\* committed rows: no transaction reads another's uncommitted insert.
Recorded(e) == \E k \in Key : \E i \in DOMAIN history[k] : history[k][i].event = e

RecordedEvents == {e \in Event : Recorded(e)}

\* No open transaction of another client holds the row.
Unlocked(k) == lock[k] = Nobody

Acquire(c, k) == lock' = [lock EXCEPT ![k] = c]

\* The end of client c's transaction, by commit or by rollback.
Release(c) == lock' = [k \in Key |-> IF lock[k] = c THEN Nobody ELSE lock[k]]

\* Mutant of WriteChange: a row that has just been inserted keeps quantity 0.
WriteChangeKeepsZero(k, e, before, delta) ==
  /\ rows' = rows \cup {k}
  /\ quantity' = [quantity EXCEPT ![k] = IF k \in rows THEN before + delta ELSE 0]
  /\ history' = [history EXCEPT ![k] =
       Append(@, [event |-> e, before |-> before, after |-> before + delta,
                  delta |-> delta])]

\* COMMIT of the change of k by delta for event e: the row is there (inserted
\* by this transaction if it was not), carries the new quantity, and one
\* history row has been added.
WriteChange(k, e, before, delta) ==
  /\ rows' = rows \cup {k}
  /\ quantity' = [quantity EXCEPT ![k] = before + delta]
  /\ history' = [history EXCEPT ![k] =
       Append(@, [event |-> e, before |-> before, after |-> before + delta,
                  delta |-> delta])]

-----------------------------------------------------------------------------
(* What makes the tables right. *)

StoreTypeOK ==
  /\ rows \subseteq Key
  /\ quantity \in [Key -> Int]
  /\ history \in [Key -> Seq(Entry)]
  /\ lock \in [Key -> Client \cup {Nobody}]

\* Each history row adds up and starts where the one before it ended; the
\* first one starts from the empty row.
HistoryChained ==
  \A k \in Key : \A i \in DOMAIN history[k] :
    /\ history[k][i].after = history[k][i].before + history[k][i].delta
    /\ history[k][i].before = IF i = 1 THEN 0 ELSE history[k][i - 1].after

\* The snapshot in "inventory" is the end of the key's history.
SnapshotMatchesHistory ==
  \A k \in Key :
    /\ k \in rows <=> history[k] # <<>>
    /\ quantity[k] = IF history[k] = <<>> THEN 0
                     ELSE history[k][Len(history[k])].after

\* No event has changed the stock twice.
AppliedOnce ==
  \A k, l \in Key : \A i \in DOMAIN history[k], j \in DOMAIN history[l] :
    history[k][i].event = history[l][j].event => k = l /\ i = j

\* The stock never goes below zero, which no constraint of the table forbids, nor
\* above what its column can hold.
StockInRange == \A k \in Key : quantity[k] \in 0 .. MaxQuantity

=============================================================================
