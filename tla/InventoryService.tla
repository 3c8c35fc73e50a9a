--------------------------- MODULE InventoryService ---------------------------
(***************************************************************************)
(* InventoryService.process_event (app/services/inventory_service.py), as  *)
(* it runs when several clients call it at the same time: one transaction  *)
(* over the tables of InventoryStore, then a write of the new quantity to  *)
(* the Redis cache.                                                        *)
(*                                                                         *)
(* A client's call goes through the stages                                 *)
(*   lookup -> lock -> (insert ->) apply -> sync -> done                   *)
(* and ends in "done" (a result is returned), "transient"                  *)
(* (InventoryTransientError) or "rejected" (InventoryBusinessRuleError).   *)
(* Every stage is one round trip to PostgreSQL or Redis, so other clients  *)
(* act between any two of them.                                            *)
(***************************************************************************)
EXTENDS InventoryStore

CONSTANTS
  KeyOf,        \* the row an event is about: (product_id, store_id)
  Delta,        \* the signed change of an event, as _resolve_change gives it
  NoEvent,      \* the event of a client that is not in a call
  NotCached     \* the cache's answer for a key that was never set

ASSUME ServiceAssumption ==
  /\ KeyOf \in [Event -> Key]
  /\ Delta \in [Event -> Int]
  /\ NoEvent \notin Event
  /\ NotCached \notin Int

VARIABLES
  cache,        \* Redis "inventory:<store>:<product>": the last quantity set
  call          \* the state of each client's call

serviceVars == <<storeVars, cache, call>>

Stage == {"idle", "lookup", "lock", "insert", "apply", "sync",
          "done", "transient", "rejected"}

\* The stages in which the client's transaction is open.
InTransaction == {"lookup", "lock", "insert", "apply"}

\* The stages in which process_event has returned or raised.
Returned == {"done", "transient", "rejected"}

\* "quantity" is quantity_before while the transaction is open and
\* quantity_after once it has committed; "duplicate" is result.duplicate.
Call == [stage : Stage, event : Event \cup {NoEvent}, quantity : Int,
         duplicate : BOOLEAN]

NoCall == [stage |-> "idle", event |-> NoEvent, quantity |-> 0,
           duplicate |-> FALSE]

ServiceInit ==
  /\ StoreInit
  /\ cache = [k \in Key |-> NotCached]
  /\ call = [c \in Client |-> NoCall]

-----------------------------------------------------------------------------

At(c, stage) == call[c].stage = stage

MyKey(c) == KeyOf[call[c].event]

MoveTo(c, stage) == call' = [call EXCEPT ![c].stage = stage]

After(c) == call[c].quantity + Delta[call[c].event]

\* Mutant of Negative: the quantity before the change is checked.
NegativeBefore(c) == call[c].quantity < 0

\* The check of process_event, all that keeps the stock from going below zero.
Negative(c) == After(c) < 0

\* Mutant of CanCommit: source_event_id is not unique.
CanCommitAgain(c) == After(c) \in Column

\* The event is new and its result fits the column: the flush at commit
\* breaks neither the unique index nor the range of "quantity".
CanCommit(c) ==
  /\ After(c) \in Column
  /\ ~Recorded(call[c].event)

-----------------------------------------------------------------------------
(* The caller. *)

\* A client calls process_event(e).
Start(c, e) ==
  /\ At(c, "idle")
  /\ call' = [call EXCEPT ![c] = [stage |-> "lookup", event |-> e,
                                  quantity |-> 0, duplicate |-> FALSE]]
  /\ UNCHANGED <<storeVars, cache>>

\* The caller takes the result or catches the exception.
Return(c) ==
  /\ call[c].stage \in Returned
  /\ call' = [call EXCEPT ![c] = NoCall]
  /\ UNCHANGED <<storeVars, cache>>

\* The client's process dies: the server rolls its transaction back.
Abort(c) ==
  /\ ~At(c, "idle")
  /\ call' = [call EXCEPT ![c] = NoCall]
  /\ Release(c)
  /\ UNCHANGED <<rows, quantity, history, cache>>

-----------------------------------------------------------------------------
(* The transaction. *)

\* Mutant of FindDuplicate: the result is returned without a write to the cache.
FindDuplicateSkipsCache(c) ==
  /\ At(c, "lookup")
  /\ Recorded(call[c].event)
  /\ call' = [call EXCEPT ![c] = [@ EXCEPT !.stage = "done",
                                           !.quantity = quantity[MyKey(c)],
                                           !.duplicate = TRUE]]
  /\ UNCHANGED <<storeVars, cache>>

\* The event is in the history already: the result is the row as it stands,
\* read without a lock, and the transaction ends.
FindDuplicate(c) ==
  /\ At(c, "lookup")
  /\ Recorded(call[c].event)
  /\ call' = [call EXCEPT ![c] = [@ EXCEPT !.stage = "sync",
                                           !.quantity = quantity[MyKey(c)],
                                           !.duplicate = TRUE]]
  /\ UNCHANGED <<storeVars, cache>>

FindNoDuplicate(c) ==
  /\ At(c, "lookup")
  /\ ~Recorded(call[c].event)
  /\ MoveTo(c, "lock")
  /\ UNCHANGED <<storeVars, cache>>

\* Mutant of LockRow: without with_for_update().
ReadRowUnlocked(c) ==
  /\ At(c, "lock")
  /\ MyKey(c) \in rows
  /\ Acquire(c, MyKey(c))
  /\ call' = [call EXCEPT ![c] = [@ EXCEPT !.stage = "apply",
                                           !.quantity = quantity[MyKey(c)]]]
  /\ UNCHANGED <<rows, quantity, history, cache>>

\* SELECT ... FOR UPDATE finds the row: wait for its lock, then read it.
LockRow(c) ==
  /\ At(c, "lock")
  /\ MyKey(c) \in rows
  /\ Unlocked(MyKey(c))
  /\ Acquire(c, MyKey(c))
  /\ call' = [call EXCEPT ![c] = [@ EXCEPT !.stage = "apply",
                                           !.quantity = quantity[MyKey(c)]]]
  /\ UNCHANGED <<rows, quantity, history, cache>>

\* SELECT ... FOR UPDATE finds no committed row: there is nothing to lock.
FindNoRow(c) ==
  /\ At(c, "lock")
  /\ MyKey(c) \notin rows
  /\ MoveTo(c, "insert")
  /\ UNCHANGED <<storeVars, cache>>

\* flush() of the new, empty row.  It waits while another transaction has
\* the same row in flight.
InsertRow(c) ==
  /\ At(c, "insert")
  /\ MyKey(c) \notin rows
  /\ Unlocked(MyKey(c))
  /\ Acquire(c, MyKey(c))
  /\ call' = [call EXCEPT ![c] = [@ EXCEPT !.stage = "apply", !.quantity = 0]]
  /\ UNCHANGED <<rows, quantity, history, cache>>

\* Another client has inserted the row meanwhile: uq_inventory_sku_warehouse
\* raises an IntegrityError.
InsertConflict(c) ==
  /\ At(c, "insert")
  /\ MyKey(c) \in rows
  /\ MoveTo(c, "transient")
  /\ UNCHANGED <<storeVars, cache>>

\* Mutant of RejectNegative: the transaction is left open.
RejectKeepsLock(c) ==
  /\ At(c, "apply")
  /\ Negative(c)
  /\ MoveTo(c, "rejected")
  /\ UNCHANGED <<storeVars, cache>>

\* The change would take the stock below zero: everything is rolled back,
\* the new row as well.
RejectNegative(c) ==
  /\ At(c, "apply")
  /\ Negative(c)
  /\ MoveTo(c, "rejected")
  /\ Release(c)
  /\ UNCHANGED <<rows, quantity, history, cache>>

\* Mutant of CommitConflict: the IntegrityError is swallowed, and the quantity is
\* written to the cache.
ConflictIsCached(c) ==
  /\ At(c, "apply")
  /\ ~Negative(c)
  /\ ~CanCommit(c)
  /\ call' = [call EXCEPT ![c] = [@ EXCEPT !.stage = "sync", !.quantity = After(c)]]
  /\ Release(c)
  /\ UNCHANGED <<rows, quantity, history, cache>>

\* The flush at commit breaks the unique index on source_event_id or the
\* range of the column (IntegrityError, DataError): rolled back.
CommitConflict(c) ==
  /\ At(c, "apply")
  /\ ~Negative(c)
  /\ ~CanCommit(c)
  /\ MoveTo(c, "transient")
  /\ Release(c)
  /\ UNCHANGED <<rows, quantity, history, cache>>

\* COMMIT.  The reply may be lost with the connection, and then process_event
\* raises although the change is there.
Commit(c, stage) ==
  /\ At(c, "apply")
  /\ ~Negative(c)
  /\ CanCommit(c)
  /\ WriteChange(MyKey(c), call[c].event, call[c].quantity, Delta[call[c].event])
  /\ call' = [call EXCEPT ![c] = [@ EXCEPT !.stage = stage, !.quantity = After(c)]]
  /\ Release(c)
  /\ UNCHANGED cache

CommitChange(c) == Commit(c, "sync")

LoseCommitReply(c) == Commit(c, "transient")

\* A statement fails (OperationalError, SQLAlchemyError): rolled back.
DatabaseError(c) ==
  /\ call[c].stage \in InTransaction
  /\ MoveTo(c, "transient")
  /\ Release(c)
  /\ UNCHANGED <<rows, quantity, history, cache>>

-----------------------------------------------------------------------------
(* The cache, after the transaction. *)

\* Mutant of SetCache: the event's id is written in place of the quantity.
SetCacheToEvent(c) == cache' = [cache EXCEPT ![MyKey(c)] = call[c].event]

SetCache(c) == cache' = [cache EXCEPT ![MyKey(c)] = call[c].quantity]

SyncCache(c) ==
  /\ At(c, "sync")
  /\ SetCache(c)
  /\ MoveTo(c, "done")
  /\ UNCHANGED storeVars

\* SET raises a RedisError: the command has reached the server, or it has not.
CacheError(c) ==
  /\ At(c, "sync")
  /\ SetCache(c) \/ UNCHANGED cache
  /\ MoveTo(c, "transient")
  /\ UNCHANGED storeVars

-----------------------------------------------------------------------------

\* The steps that process_event takes when nothing around it fails.
Proceed(c) ==
  \/ FindDuplicate(c)
  \/ FindNoDuplicate(c)
  \/ LockRow(c)
  \/ FindNoRow(c)
  \/ InsertRow(c)
  \/ InsertConflict(c)
  \/ RejectNegative(c)
  \/ CommitConflict(c)
  \/ CommitChange(c)
  \/ SyncCache(c)

\* The steps in which PostgreSQL or Redis fails it.
Fail(c) ==
  \/ DatabaseError(c)
  \/ LoseCommitReply(c)
  \/ CacheError(c)

ServiceNext ==
  \E c \in Client :
    \/ \E e \in Event : Start(c, e)
    \/ Proceed(c)
    \/ Fail(c)
    \/ Abort(c)
    \/ Return(c)

ServiceSpec == ServiceInit /\ [][ServiceNext]_serviceVars

\* PostgreSQL and Redis answer and callers take their results; PostgreSQL
\* queues the waiters of a lock, so one that waits is served in its turn.  No
\* client need ever call, and nothing need ever fail.
ServiceFairness ==
  \A c \in Client :
    /\ WF_serviceVars(Return(c))
    /\ WF_serviceVars(Proceed(c))
    /\ SF_serviceVars(LockRow(c))
    /\ SF_serviceVars(InsertRow(c))

FairServiceSpec == ServiceSpec /\ ServiceFairness

-----------------------------------------------------------------------------
(* Properties. *)

\* Every variable keeps its type; the columns and the calls hold what the
\* program can put there (app/database/models.py, process_event).
ServiceTypeOK ==
  /\ StoreTypeOK
  /\ cache \in [Key -> Int \cup {NotCached}]
  /\ call \in [Client -> Call]
  /\ \A c \in Client : call[c].event = NoEvent => At(c, "idle")

\* with_for_update() makes read-check-write safe: from the read of the row to
\* the commit the client holds the row, and what it read is still there.
LockProtectsRead ==
  \A c \in Client : At(c, "apply") =>
    /\ lock[MyKey(c)] = c
    /\ call[c].quantity = quantity[MyKey(c)]

\* A lock belongs to an open transaction on that row; none outlives the commit,
\* rollback or crash that ends it.
NoLockLeaks ==
  \A k \in Key, c \in Client : lock[k] = c => At(c, "apply") /\ MyKey(c) = k

\* A result that the caller gets, of a first delivery or of a duplicate, is
\* about an event that is in the history.
SuccessIsDurable ==
  \A c \in Client : call[c].stage \in {"sync", "done"} => Recorded(call[c].event)

\* The cache never shows a quantity that the row did not have at some time: no
\* value of a transaction that was rolled back reaches Redis.
CacheShowsHistory ==
  \A k \in Key : cache[k] # NotCached =>
    \E i \in DOMAIN history[k] : history[k][i].after = cache[k]

\* "duplicate history found without inventory" (InventoryProcessingStateError)
\* is never raised, and every event is on the row it names.
HistoryOnItsRow ==
  \A k \in Key : \A i \in DOMAIN history[k] :
    k \in rows /\ KeyOf[history[k][i].event] = k

\* The history only grows: no commit drops or rewrites a row of it.
HistoryIsAppendOnly ==
  [][\A k \in Key : /\ Len(history[k]) <= Len(history'[k])
                    /\ \A i \in DOMAIN history[k] :
                         history'[k][i] = history[k][i]]_serviceVars

\* However many clients call at once, the rows and the history behave as the
\* ledger that applies each event at most once and atomically.
Ledger == INSTANCE InventoryLedger WITH stock <- quantity, applied <- RecordedEvents

ImplementsLedger == Ledger!Spec

\* Every call returns or raises, or its client dies: no client waits forever
\* for a row that another holds.
EveryCallEnds ==
  \A c \in Client :
    At(c, "lookup") ~> call[c].stage \in Returned \cup {"idle"}

=============================================================================
