---------------------------- MODULE Reconciliation ----------------------------
(***************************************************************************)
(* ReconciliationService.reconcile (app/services/reconciliation_service.py)*)
(* while the inventory service (module InventoryService) changes the same  *)
(* tables.  A reconciliation is one transaction, but it takes no lock and  *)
(* sets no isolation level: under READ COMMITTED each of its queries sees  *)
(* what has been committed by then.  Its queries are                       *)
(*   read -> sum -> latest -> insert                                       *)
(* and a row that is not there makes "sum" superfluous.                    *)
(*                                                                         *)
(* A record's "at" is the column reconciled_at, the clock when the         *)
(* service found that it has something to record; only its order counts.   *)
(***************************************************************************)
EXTENDS InventoryService, FiniteSetsExt

CONSTANT
  Reader        \* threads of control that reconcile

VARIABLES
  probe,        \* the state of each reader's reconciliation
  records       \* rows of "reconciliation_records" of each key

reconcileVars == <<probe, records>>
vars == <<serviceVars, reconcileVars>>

Status == {"match", "mismatch", "missing"}

Probe == [stage : {"idle", "read", "sum", "latest", "insert"}, key : Key,
          actual : Int, expected : Int, status : Status, at : Nat]

Row == [at : Nat, expected : Int, actual : Int, status : Status]

Difference(x) == x.actual - x.expected

SameOutcome(x, y) == x.status = y.status /\ Difference(x) = Difference(y)

\* Mutant of HistorySum: the first row of the history is left out.
HistorySumButFirst(k) ==
  LET sum[n \in 0 .. Len(history[k])] ==
        IF n <= 1 THEN 0 ELSE sum[n - 1] + history[k][n].delta
  IN  sum[Len(history[k])]

\* SELECT coalesce(sum(quantity_delta), 0) over the history of the row.
HistorySum(k) ==
  LET sum[n \in 0 .. Len(history[k])] ==
        IF n = 0 THEN 0 ELSE sum[n - 1] + history[k][n].delta
  IN  sum[Len(history[k])]

\* Mutant of Latest: ascending order.
OldestFirst(k) == CHOOSE x \in records[k] : \A y \in records[k] : x.at <= y.at

\* ORDER BY reconciled_at DESC LIMIT 1
Latest(k) == CHOOSE x \in records[k] : \A y \in records[k] : y.at <= x.at

\* datetime.now(): later than any other reading of the clock.
Now == 1 + Max({0} \cup {x.at : x \in UNION {records[k] : k \in Key}}
                   \cup {probe[r].at : r \in Reader})

In(r, stage) == probe[r].stage = stage

Init ==
  /\ ServiceInit
  /\ probe \in [Reader -> [stage : {"idle"}, key : Key, actual : {0},
                           expected : {0}, status : {"match"}, at : {0}]]
  /\ records = [k \in Key |-> {}]

-----------------------------------------------------------------------------

\* reconcile(store_id, product_id) is called.
Begin(r, k) ==
  /\ In(r, "idle")
  /\ probe' = [probe EXCEPT ![r] = [@ EXCEPT !.stage = "read", !.key = k]]
  /\ UNCHANGED <<serviceVars, records>>

\* Mutant of ReadMissing: no quantities are set for a missing row.
ReadNothing(r) ==
  /\ In(r, "read")
  /\ probe[r].key \notin rows
  /\ probe' = [probe EXCEPT ![r] = [@ EXCEPT !.stage = "latest", !.actual = NotCached,
                                             !.expected = 0, !.status = "missing"]]
  /\ UNCHANGED <<serviceVars, records>>

ReadMissing(r) ==
  /\ In(r, "read")
  /\ probe[r].key \notin rows
  /\ probe' = [probe EXCEPT ![r] = [@ EXCEPT !.stage = "latest", !.actual = 0,
                                             !.expected = 0, !.status = "missing"]]
  /\ UNCHANGED <<serviceVars, records>>

ReadRow(r) ==
  /\ In(r, "read")
  /\ probe[r].key \in rows
  /\ probe' = [probe EXCEPT ![r] = [@ EXCEPT !.stage = "sum",
                                             !.actual = quantity[probe[r].key]]]
  /\ UNCHANGED <<serviceVars, records>>

SumHistory(r) ==
  /\ In(r, "sum")
  /\ LET expected == HistorySum(probe[r].key)
     IN probe' = [probe EXCEPT ![r] =
          [@ EXCEPT !.stage = "latest", !.expected = expected,
                    !.status = IF probe[r].actual = expected THEN "match"
                               ELSE "mismatch"]]
  /\ UNCHANGED <<serviceVars, records>>

\* The transaction is over, and the reader forgets what it has read.
Finish(r) ==
  probe' = [probe EXCEPT ![r] = [@ EXCEPT !.stage = "idle", !.actual = 0,
              !.expected = 0, !.status = "match", !.at = 0]]

\* The latest record says the same: nothing is written.
FindNoChange(r) ==
  /\ In(r, "latest")
  /\ records[probe[r].key] # {}
  /\ SameOutcome(Latest(probe[r].key), probe[r])
  /\ Finish(r)
  /\ UNCHANGED <<serviceVars, records>>

FindChange(r) ==
  /\ In(r, "latest")
  /\ records[probe[r].key] # {} => ~SameOutcome(Latest(probe[r].key), probe[r])
  /\ probe' = [probe EXCEPT ![r] = [@ EXCEPT !.stage = "insert", !.at = Now]]
  /\ UNCHANGED <<serviceVars, records>>

\* The new record is flushed and committed at the end of session.begin().
InsertRecord(r) ==
  /\ In(r, "insert")
  /\ records' = [records EXCEPT ![probe[r].key] = @ \cup
       {[at |-> probe[r].at, expected |-> probe[r].expected,
         actual |-> probe[r].actual, status |-> probe[r].status]}]
  /\ Finish(r)
  /\ UNCHANGED serviceVars

\* A query or the commit fails: ReconciliationTransientError.
ReconcileError(r) ==
  /\ ~In(r, "idle")
  /\ Finish(r)
  /\ UNCHANGED <<serviceVars, records>>

Reconcile(r) ==
  \/ \E k \in Key : Begin(r, k)
  \/ ReadMissing(r)
  \/ ReadRow(r)
  \/ SumHistory(r)
  \/ FindNoChange(r)
  \/ FindChange(r)
  \/ InsertRecord(r)
  \/ ReconcileError(r)

Next ==
  \/ ServiceNext /\ UNCHANGED reconcileVars
  \/ \E r \in Reader : Reconcile(r)

Spec == Init /\ [][Next]_vars

-----------------------------------------------------------------------------
(* Properties. *)

TypeOK ==
  /\ ServiceTypeOK
  /\ probe \in [Reader -> Probe]
  /\ \A k \in Key : records[k] \subseteq Row

Recent(k, x) ==
  {y \in records[k] : y.at < x.at /\ \A z \in records[k] : z.at < x.at => z.at <= y.at}

\* What README.md says: "A new record is written to reconciliation_records only
\* when the status or difference changes": no record repeats the one before it.
\* It takes one reader at a time.
OnlyChangesRecorded ==
  \A k \in Key : \A x \in records[k] : \A y \in Recent(k, x) : ~SameOutcome(x, y)

\* The two queries never make up a stock: the actual and the expected quantity
\* of a record were both in the row, and the expected one no earlier.
ReadsAreFromHistory ==
  \A k \in Key : \A x \in records[k] : x.status # "missing" =>
    \E i, j \in DOMAIN history[k] :
      /\ i <= j
      /\ history[k][i].after = x.actual
      /\ history[k][j].after = x.expected

\* What README.md says of "mismatch": "Actual quantity diverges from
\* history-derived expectation".  Then the row and its history disagree.
MismatchIsDivergence ==
  \A r \in Reader : probe[r].status = "mismatch" =>
    quantity[probe[r].key] # HistorySum(probe[r].key)

=============================================================================
