------------------------ MODULE InventoryService_proofs -----------------------
(***************************************************************************)
(* Proofs about InventoryService, for any keys, events, clients, changes   *)
(* and column width.                                                       *)
(***************************************************************************)
EXTENDS InventoryService, SequenceTheorems, FiniteSetTheorems,
        WellFoundedInduction, TLAPS

-----------------------------------------------------------------------------
(* The actions, grouped by what they do to the tables.  SalesService takes  *)
(* steps of the same kinds, so the lemmas are about the kinds.             *)

\* Client c takes its step, and no other call moves.
OthersWait(c) == \A d \in Client : d # c => call'[d] = call[d]

\* A step outside the part of a transaction that holds a row: tables and locks
\* stay as they are.
Quiet(c) ==
  /\ UNCHANGED storeVars
  /\ call[c].stage # "apply" /\ call'[c].stage # "apply"
  /\ OthersWait(c)

\* A step that ends a transaction without a change.
Ends(c) ==
  /\ UNCHANGED <<rows, quantity, history>>
  /\ Release(c)
  /\ call'[c].stage # "apply"
  /\ OthersWait(c)

\* A step that takes a lock.
LockStep(c) == LockRow(c) \/ InsertRow(c)

\* A step that commits a change.
CommitStep(c) == \E stage \in {"sync", "done", "transient"} : Commit(c, stage)

StoreStep(c) == Quiet(c) \/ Ends(c) \/ LockStep(c) \/ CommitStep(c)

\* The actions that are quiet, and those that end a transaction.
NoTableStep(c) ==
  \/ \E e \in Event : Start(c, e)
  \/ Return(c)
  \/ FindDuplicate(c)
  \/ FindNoDuplicate(c)
  \/ FindNoRow(c)
  \/ InsertConflict(c)
  \/ SyncCache(c)
  \/ CacheError(c)

RollbackStep(c) ==
  RejectNegative(c) \/ CommitConflict(c) \/ DatabaseError(c) \/ Abort(c)

\* Every action of a client is of one of the kinds.
LEMMA ClientCases ==
  ASSUME NEW c \in Client,
         (\E e \in Event : Start(c, e)) \/ Proceed(c) \/ Fail(c) \/ Abort(c) \/ Return(c)
  PROVE  NoTableStep(c) \/ RollbackStep(c) \/ LockStep(c) \/ CommitStep(c)
  BY DEF Proceed, Fail, CommitChange, LoseCommitReply, NoTableStep, RollbackStep,
         LockStep, CommitStep

LEMMA ActionCases ==
  ASSUME ServiceNext
  PROVE  \E c \in Client :
           NoTableStep(c) \/ RollbackStep(c) \/ LockStep(c) \/ CommitStep(c)
  BY ClientCases DEF ServiceNext

LEMMA NoTableStepIsQuiet ==
  ASSUME call \in [Client -> Call], NEW c \in Client, NoTableStep(c)
  PROVE  Quiet(c)
  <1>1. UNCHANGED storeVars
    BY DEF NoTableStep, Start, Return, FindDuplicate, FindNoDuplicate, FindNoRow,
           InsertConflict, SyncCache, CacheError
  <1>2. call[c].stage # "apply"
    BY DEF NoTableStep, Start, Return, FindDuplicate, FindNoDuplicate, FindNoRow,
           InsertConflict, SyncCache, CacheError, At, Returned
  <1>3. call'[c].stage # "apply"
    <2> USE DEF MoveTo, Call
    <2>1. CASE \E e \in Event : Start(c, e)
      BY <2>1 DEF Start
    <2>2. CASE Return(c)
      BY <2>2 DEF Return, NoCall
    <2>3. CASE FindDuplicate(c)
      BY <2>3 DEF FindDuplicate
    <2>4. CASE FindNoDuplicate(c) \/ FindNoRow(c) \/ InsertConflict(c)
      BY <2>4 DEF FindNoDuplicate, FindNoRow, InsertConflict
    <2>5. CASE SyncCache(c) \/ CacheError(c)
      BY <2>5 DEF SyncCache, CacheError
    <2> QED
      BY <2>1, <2>2, <2>3, <2>4, <2>5 DEF NoTableStep
  <1>4. OthersWait(c)
    BY DEF OthersWait, NoTableStep, Start, Return, FindDuplicate, FindNoDuplicate,
           FindNoRow, InsertConflict, SyncCache, CacheError, MoveTo
  <1> QED
    BY <1>1, <1>2, <1>3, <1>4 DEF Quiet

LEMMA RollbackStepEnds ==
  ASSUME call \in [Client -> Call], NEW c \in Client, RollbackStep(c)
  PROVE  Ends(c)
  <1>1. UNCHANGED <<rows, quantity, history>> /\ Release(c)
    BY DEF RollbackStep, RejectNegative, CommitConflict, DatabaseError, Abort
  <1>2. call'[c].stage # "apply"
    BY DEF RollbackStep, RejectNegative, CommitConflict, DatabaseError, Abort,
           MoveTo, NoCall, Call
  <1>3. OthersWait(c)
    BY DEF OthersWait, RollbackStep, RejectNegative, CommitConflict, DatabaseError,
           Abort, MoveTo
  <1> QED
    BY <1>1, <1>2, <1>3 DEF Ends

\* Every step of the service is of one of the kinds.
LEMMA StepCases ==
  ASSUME ServiceTypeOK, ServiceNext
  PROVE  \E c \in Client : StoreStep(c)
  BY ActionCases, NoTableStepIsQuiet, RollbackStepEnds DEF StoreStep, ServiceTypeOK

\* A step that moves a call to another stage with another quantity changes
\* nothing else of it, and no other call.
LEMMA CallMove ==
  ASSUME ServiceTypeOK, NEW c \in Client, ~At(c, "idle"),
         NEW s \in Stage, NEW q \in Int,
         call' = [call EXCEPT ![c] = [@ EXCEPT !.stage = s, !.quantity = q]]
  PROVE  /\ call' \in [Client -> Call]
         /\ \A d \in Client : call'[d].event = NoEvent => call'[d].stage = "idle"
         /\ call'[c].stage = s
         /\ call'[c].event = call[c].event
         /\ call'[c].quantity = q
         /\ \A d \in Client : d # c => call'[d] = call[d]
  <1> DEFINE u == [call[c] EXCEPT !.stage = s, !.quantity = q]
  <1>1. call \in [Client -> Call] /\ call[c] \in Call
    BY DEF ServiceTypeOK
  <1>2. u \in Call /\ u.stage = s /\ u.event = call[c].event /\ u.quantity = q
    BY <1>1 DEF Call
  <1>3. call' = [call EXCEPT ![c] = u]
    OBVIOUS
  <1> HIDE DEF u
  <1>4. \A d \in Client : call'[d] = IF d = c THEN u ELSE call[d]
    BY <1>1, <1>3
  <1>5. call' \in [Client -> Call]
    BY <1>1, <1>2, <1>3
  <1>6. \A d \in Client : call[d].event = NoEvent => call[d].stage = "idle"
    BY DEF ServiceTypeOK, At
  <1>7. call[c].event # NoEvent
    BY <1>6 DEF At
  <1> QED
    BY <1>2, <1>4, <1>5, <1>6, <1>7

-----------------------------------------------------------------------------
(* Type correctness. *)

\* The tables, the cache and the calls have their types at first ...
LEMMA TypeInit == ServiceInit => ServiceTypeOK
  BY StoreAssumption, ServiceAssumption
     DEF ServiceInit, StoreInit, ServiceTypeOK, StoreTypeOK, NoCall, Call, Stage,
         Entry, At

\* ... a lock and a commit keep them ...
LEMMA LockTypes ==
  ASSUME ServiceTypeOK, NEW c \in Client, LockStep(c)
  PROVE  ServiceTypeOK'
  <1> USE StoreAssumption, ServiceAssumption
  <1> USE DEF ServiceTypeOK, StoreTypeOK, At
  <1> USE DEF Acquire, MyKey
  <1>0. call[c] \in Call
    OBVIOUS
  <1>1. CASE LockRow(c)
    <2>1. quantity[MyKey(c)] \in Int
      BY <1>0, <1>1 DEF LockRow, Call
    <2> QED
      BY <1>1, <2>1, CallMove DEF LockRow, Stage
  <1>2. CASE InsertRow(c)
    <2>1. "apply" \in Stage /\ ~At(c, "idle")
      BY <1>2 DEF InsertRow, Stage
    <2>2. call' = [call EXCEPT ![c] = [@ EXCEPT !.stage = "apply", !.quantity = 0]]
      BY <1>2 DEF InsertRow
    <2>3. /\ call' \in [Client -> Call]
          /\ \A d \in Client : call'[d].event = NoEvent => call'[d].stage = "idle"
      <3>1. 0 \in Int
        OBVIOUS
      <3> QED
        BY <2>1, <2>2, <3>1, CallMove
    <2> QED
      BY <1>2, <2>3 DEF InsertRow
  <1> QED
    BY <1>1, <1>2 DEF LockStep

LEMMA CommitTypes ==
  ASSUME ServiceTypeOK, NEW c \in Client, CommitStep(c)
  PROVE  ServiceTypeOK'
  <1> USE StoreAssumption, ServiceAssumption
  <1> USE DEF ServiceTypeOK, StoreTypeOK, At
  <1>1. PICK stage \in {"sync", "done", "transient"} : Commit(c, stage)
    BY DEF CommitStep
  <1> DEFINE e == call[c].event
             k == KeyOf[e]
  <1>2. e \in Event /\ k \in Key /\ Delta[e] \in Int /\ call[c].quantity \in Int
    BY <1>1 DEF Commit, Call
  <1>3. After(c) \in Int /\ After(c) = call[c].quantity + Delta[e]
    BY <1>2 DEF After
  <1>4. call' \in [Client -> Call] /\ \A d \in Client :
          call'[d].event = NoEvent => call'[d].stage = "idle"
    <2>1. stage \in Stage /\ ~At(c, "idle")
      BY <1>1 DEF Commit, Stage
    <2>2. call' = [call EXCEPT ![c] = [@ EXCEPT !.stage = stage,
                                                !.quantity = After(c)]]
      BY <1>1 DEF Commit
    <2>3. After(c) \in Int
      BY <1>3
    <2> QED
      BY <2>1, <2>2, <2>3, CallMove
  <1>5. history' \in [Key -> Seq(Entry)]
    <2> DEFINE new == [event |-> e, before |-> call[c].quantity,
                       after |-> call[c].quantity + Delta[e], delta |-> Delta[e]]
    <2>1. new \in Entry
      BY <1>2 DEF Entry
    <2>2. history' = [history EXCEPT ![k] = Append(history[k], new)]
      BY <1>1 DEF Commit, WriteChange, MyKey
    <2>3. Append(history[k], new) \in Seq(Entry)
      BY <1>2, <2>1
    <2> QED
      BY <2>2, <2>3
  <1>6. rows' \subseteq Key /\ quantity' \in [Key -> Int]
    BY <1>1, <1>2 DEF Commit, WriteChange, MyKey
  <1>7. lock' \in [Key -> Client \cup {Nobody}] /\ cache' = cache
    BY <1>1 DEF Commit, Release
  <1> QED
    BY <1>4, <1>5, <1>6, <1>7

\* ... and every step keeps them.
LEMMA TypeStep == ServiceTypeOK /\ [ServiceNext]_serviceVars => ServiceTypeOK'
  <1> USE StoreAssumption, ServiceAssumption
  <1> SUFFICES ASSUME ServiceTypeOK, [ServiceNext]_serviceVars
               PROVE  ServiceTypeOK'
    OBVIOUS
  <1> USE DEF ServiceTypeOK, StoreTypeOK, At
  <1>1. CASE UNCHANGED serviceVars
    BY <1>1 DEF serviceVars, storeVars
  <1>2. ASSUME NEW c \in Client, NoTableStep(c)
        PROVE  ServiceTypeOK'
    <2> USE <1>2 DEF storeVars, MoveTo, Stage, Call, NoCall, MyKey, SetCache,
                     Returned
    <2>1. ASSUME NEW e \in Event, Start(c, e)
          PROVE  ServiceTypeOK'
      BY <2>1 DEF Start
    <2>2. CASE Return(c)
      BY <2>2 DEF Return
    <2>3. CASE FindDuplicate(c)
      <3>1. quantity[MyKey(c)] \in Int
        BY <2>3 DEF FindDuplicate, Call, MyKey
      <3>2. [call[c] EXCEPT !.stage = "sync", !.quantity = quantity[MyKey(c)],
                            !.duplicate = TRUE] \in Call
        BY <3>1 DEF Call, Stage
      <3> QED
        BY <2>3, <3>2 DEF FindDuplicate
    <2>4. CASE FindNoDuplicate(c)
      BY <2>4 DEF FindNoDuplicate
    <2>5. CASE FindNoRow(c)
      BY <2>5 DEF FindNoRow
    <2>6. CASE InsertConflict(c)
      BY <2>6 DEF InsertConflict
    <2>7. CASE SyncCache(c)
      BY <2>7 DEF SyncCache
    <2>8. CASE CacheError(c)
      BY <2>8 DEF CacheError
    <2> QED
      BY <2>1, <2>2, <2>3, <2>4, <2>5, <2>6, <2>7, <2>8 DEF NoTableStep
  <1>3. ASSUME NEW c \in Client, RollbackStep(c)
        PROVE  ServiceTypeOK'
    <2> USE DEF Release, MoveTo, Call, Stage
    <2>1. CASE RejectNegative(c)
      BY <2>1 DEF RejectNegative
    <2>2. CASE CommitConflict(c)
      BY <2>2 DEF CommitConflict
    <2>3. CASE DatabaseError(c)
      BY <2>3 DEF DatabaseError, InTransaction
    <2>4. CASE Abort(c)
      BY <2>4 DEF Abort, NoCall
    <2> QED
      BY <1>3, <2>1, <2>2, <2>3, <2>4 DEF RollbackStep
  <1>4. ASSUME NEW c \in Client, LockStep(c)
        PROVE  ServiceTypeOK'
    BY <1>4, LockTypes
  <1>5. ASSUME NEW c \in Client, CommitStep(c)
        PROVE  ServiceTypeOK'
    BY <1>5, CommitTypes
  <1> QED
    BY <1>1, <1>2, <1>3, <1>4, <1>5, ActionCases

\* The variables keep their types, whatever the clients do.
THEOREM TypeCorrect == ServiceSpec => []ServiceTypeOK
  BY TypeInit, TypeStep, PTL DEF ServiceSpec

-----------------------------------------------------------------------------
(* Row locks.  With them the tables cannot change under a client between    *)
(* its read of a row and its commit.                                        *)

LockInv == ServiceTypeOK /\ NoLockLeaks /\ LockProtectsRead

\* A client in a call is in a call about some row.
LEMMA RowInUse ==
  ASSUME ServiceTypeOK, NEW c \in Client, ~At(c, "idle")
  PROVE  call[c].event \in Event /\ MyKey(c) \in Key /\ Delta[call[c].event] \in Int
  BY ServiceAssumption DEF ServiceTypeOK, At, MyKey, Call

\* A client that waits, reads or returns holds nothing, and keeps holding
\* nothing; nobody else's row changes.
LEMMA QuietLocks ==
  ASSUME LockInv, NEW c \in Client, Quiet(c)
  PROVE  NoLockLeaks' /\ LockProtectsRead'
  BY DEF Quiet, OthersWait, LockInv, NoLockLeaks, LockProtectsRead, storeVars, At, MyKey

\* The end of a transaction gives up the client's row and no other.
LEMMA EndsLocks ==
  ASSUME LockInv, NEW c \in Client, Ends(c)
  PROVE  NoLockLeaks' /\ LockProtectsRead'
  <1> USE StoreAssumption, ServiceAssumption
  <1>1. UNCHANGED <<rows, quantity, history>> /\ Release(c)
    BY DEF Ends
  <1>3. call'[c].stage # "apply"
    BY DEF Ends
  <1>4. \A d \in Client : d # c => call'[d] = call[d]
    BY DEF Ends, OthersWait
  <1> QED
    <2>1. lock' = [k \in Key |-> IF lock[k] = c THEN Nobody ELSE lock[k]]
      BY <1>1 DEF Release
    <2>2. NoLockLeaks'
      BY <2>1, <1>3, <1>4 DEF LockInv, NoLockLeaks, At, MyKey
    <2>3. LockProtectsRead'
      <3> SUFFICES ASSUME NEW d \in Client, call'[d].stage = "apply"
                   PROVE  lock'[KeyOf[call'[d].event]] = d
                          /\ call'[d].quantity = quantity'[KeyOf[call'[d].event]]
        BY DEF LockProtectsRead, At, MyKey
      <3>1. d # c /\ call'[d] = call[d] /\ call[d].stage = "apply"
        BY <1>3, <1>4
      <3>2. KeyOf[call[d].event] \in Key
        BY <3>1, RowInUse DEF MyKey, At, LockInv
      <3> QED
        BY <3>1, <3>2, <2>1, <1>1 DEF LockInv, LockProtectsRead, At, MyKey
    <2> QED
      BY <2>2, <2>3

\* A lock is granted on the caller's row, when nobody holds it, and with it the
\* caller reads the row.
LEMMA LockStepLocks ==
  ASSUME LockInv, SnapshotMatchesHistory, NEW c \in Client, LockStep(c)
  PROVE  NoLockLeaks' /\ LockProtectsRead'
  <1> USE StoreAssumption, ServiceAssumption
  <1> DEFINE k == MyKey(c)
  <1>1. /\ call \in [Client -> Call]
        /\ lock \in [Key -> Client \cup {Nobody}]
        /\ k \in Key
    BY RowInUse DEF LockInv, ServiceTypeOK, StoreTypeOK, LockStep, LockRow, InsertRow, At
  <1>2. /\ UNCHANGED <<rows, quantity, history>>
        /\ lock' = [lock EXCEPT ![k] = c]
        /\ lock[k] = Nobody
        /\ call[c].stage # "apply"
    BY DEF LockStep, LockRow, InsertRow, Acquire, Unlocked, At
  <1>3. /\ call'[c].stage = "apply"
        /\ call'[c].event = call[c].event
        /\ call'[c].quantity = quantity[k]
    <2>1. CASE LockRow(c)
      BY <2>1, <1>1 DEF LockRow, Call
    <2>2. CASE InsertRow(c)
      <3>1. quantity[k] = 0
        BY <2>2, <1>1 DEF InsertRow, SnapshotMatchesHistory
      <3> QED
        BY <2>2, <3>1, <1>1 DEF InsertRow, Call
    <2> QED
      BY <2>1, <2>2 DEF LockStep
  <1>4. \A d \in Client : d # c => call'[d] = call[d]
    BY <1>1 DEF LockStep, LockRow, InsertRow
  <1>5. NoLockLeaks'
    BY <1>1, <1>2, <1>3, <1>4 DEF LockInv, NoLockLeaks, At, MyKey
  <1>6. LockProtectsRead'
    <2> SUFFICES ASSUME NEW d \in Client, call'[d].stage = "apply"
                 PROVE  lock'[KeyOf[call'[d].event]] = d
                        /\ call'[d].quantity = quantity'[KeyOf[call'[d].event]]
      BY DEF LockProtectsRead, At, MyKey
    <2>1. CASE d = c
      BY <2>1, <1>1, <1>2, <1>3 DEF MyKey
    <2>2. CASE d # c
      <3>1. lock[MyKey(d)] = d /\ call[d].quantity = quantity[MyKey(d)]
        BY <2>2, <1>4 DEF LockInv, LockProtectsRead, At
      <3>2. MyKey(d) # k
        BY <3>1, <1>2
      <3> QED
        BY <2>2, <3>1, <3>2, <1>1, <1>2, <1>4 DEF MyKey
    <2> QED
      BY <2>1, <2>2
  <1> QED
    BY <1>5, <1>6

-----------------------------------------------------------------------------
(* The tables.  A commit appends to the row the client has locked the change *)
(* it computed from what it read there.                                      *)

TableInv ==
  /\ HistoryChained
  /\ SnapshotMatchesHistory
  /\ HistoryOnItsRow
  /\ AppliedOnce
  /\ StockInRange

\* Nothing is left of a call that is over.
IdleHasNoCall == \A c \in Client : At(c, "idle") => call[c] = NoCall

ServiceInv == LockInv /\ TableInv /\ IdleHasNoCall

\* What a commit does, in terms of the state before it.
LEMMA CommitEffect ==
  ASSUME ServiceInv, NEW c \in Client, CommitStep(c),
         NEW k, k = MyKey(c), NEW e, e = call[c].event
  PROVE  /\ k \in Key /\ e \in Event /\ Delta[e] \in Int /\ k = KeyOf[e]
         /\ lock[k] = c /\ Release(c)
         /\ ~Recorded(e)
         /\ quantity[k] \in Int
         /\ quantity[k] + Delta[e] \in 0 .. MaxQuantity
         /\ WriteChange(k, e, quantity[k], Delta[e])
         /\ call'[c].stage \notin {"idle", "apply"}
         /\ \A d \in Client : d # c => call'[d] = call[d]
  <1>1. PICK stage \in {"sync", "done", "transient"} : Commit(c, stage)
    BY DEF CommitStep
  <1>2. e \in Event /\ k \in Key /\ Delta[e] \in Int
    BY <1>1, RowInUse DEF Commit, At, ServiceInv, LockInv
  <1>3. lock[k] = c /\ call[c].quantity = quantity[k]
    BY <1>1 DEF Commit, ServiceInv, LockInv, LockProtectsRead
  <1>4. quantity[k] \in Int
    BY <1>2 DEF ServiceInv, LockInv, ServiceTypeOK, StoreTypeOK
  <1>5. /\ ~Recorded(e)
        /\ quantity[k] + Delta[e] \in 0 .. MaxQuantity
        /\ WriteChange(k, e, quantity[k], Delta[e])
        /\ Release(c)
    BY <1>1, <1>3, <1>4, StoreAssumption DEF Commit, CanCommit, Negative, Column, After
  <1>6. call \in [Client -> Call]
    BY DEF ServiceInv, LockInv, ServiceTypeOK
  <1>7. /\ call'[c].stage \notin {"idle", "apply"}
        /\ \A d \in Client : d # c => call'[d] = call[d]
    BY <1>1, <1>6 DEF Commit, Call
  <1> QED
    BY <1>2, <1>3, <1>4, <1>5, <1>7 DEF MyKey

\* A commit keeps the locks in order.
LEMMA CommitStepLocks ==
  ASSUME ServiceInv, NEW c \in Client, CommitStep(c)
  PROVE  NoLockLeaks' /\ LockProtectsRead'
  <1> DEFINE k == MyKey(c)
             e == call[c].event
  <1>1. /\ k \in Key /\ lock[k] = c /\ Release(c)
        /\ WriteChange(k, e, quantity[k], Delta[e])
        /\ call'[c].stage # "apply"
        /\ \A d \in Client : d # c => call'[d] = call[d]
    BY CommitEffect
  <1> HIDE DEF k, e
  <1>2. lock' = [l \in Key |-> IF lock[l] = c THEN Nobody ELSE lock[l]]
    BY <1>1 DEF Release
  <1>3. NoLockLeaks'
    BY <1>1, <1>2, StoreAssumption DEF ServiceInv, LockInv, NoLockLeaks, At, MyKey
  <1>4. LockProtectsRead'
    <2> SUFFICES ASSUME NEW d \in Client, call'[d].stage = "apply"
                 PROVE  lock'[KeyOf[call'[d].event]] = d
                        /\ call'[d].quantity = quantity'[KeyOf[call'[d].event]]
      BY DEF LockProtectsRead, At, MyKey
    <2>1. d # c /\ call'[d] = call[d] /\ call[d].stage = "apply"
      BY <1>1
    <2>2. /\ MyKey(d) \in Key
          /\ lock[MyKey(d)] = d
          /\ call[d].quantity = quantity[MyKey(d)]
      BY <2>1, RowInUse DEF ServiceInv, LockInv, LockProtectsRead, At
    <2>3. quantity'[MyKey(d)] = quantity[MyKey(d)]
      BY <1>1, <2>1, <2>2 DEF WriteChange, ServiceInv, LockInv, ServiceTypeOK, StoreTypeOK
    <2> QED
      BY <1>2, <2>1, <2>2, <2>3 DEF MyKey
  <1> QED
    BY <1>3, <1>4

\* What Append makes of a sequence.
LEMMA AppendFacts ==
  ASSUME NEW S, NEW s \in Seq(S), NEW x \in S, NEW n, n = Len(s)
  PROVE  /\ n \in Nat
         /\ DOMAIN s = 1 .. n
         /\ n = 0 <=> s = <<>>
         /\ Append(s, x) \in Seq(S)
         /\ Append(s, x) # <<>>
         /\ Len(Append(s, x)) = n + 1
         /\ DOMAIN Append(s, x) = 1 .. n + 1
         /\ Append(s, x)[n + 1] = x
         /\ \A i \in 1 .. n : Append(s, x)[i] = s[i]
  <1>1. n \in Nat /\ DOMAIN s = 1 .. n /\ (n = 0 <=> s = <<>>)
    BY LenProperties, EmptySeq
  <1>2. /\ Append(s, x) \in Seq(S)
        /\ Append(s, x) # <<>>
        /\ Len(Append(s, x)) = n + 1
        /\ Append(s, x)[n + 1] = x
        /\ \A i \in 1 .. n : Append(s, x)[i] = s[i]
    BY AppendProperties
  <1>3. DOMAIN Append(s, x) = 1 .. n + 1
    BY <1>2, LenProperties
  <1> QED
    BY <1>1, <1>2, <1>3

\* A set of natural numbers that is not empty has a least element: what stands in
\* for induction in these proofs.
LEMMA LeastElement ==
  ASSUME NEW S, S \subseteq Nat, S # {}
  PROVE  \E m \in S : \A n \in S : m <= n
  <1> DEFINE R == {ss \in Nat \X Nat : ss[1] < ss[2]}
  <1>1. IsWellFoundedOn(R, Nat)
    BY NatLessThanWellFounded DEF OpToRel
  <1>2. \A x, y \in Nat : x < y => <<x, y>> \in R
    OBVIOUS
  <1> HIDE DEF R
  <1>3. PICK m \in S : \A n \in S : <<n, m>> \notin R
    BY <1>1, WFMin
  <1>4. \A n \in S : m <= n
    <2> TAKE n \in S
    <2>1. m \in Nat /\ n \in Nat /\ ~(n < m)
      BY <1>2, <1>3
    <2> QED
      BY <2>1
  <1> QED
    BY <1>4

\* One that is bounded has a greatest element as well.
LEMMA GreatestElement ==
  ASSUME NEW S, S \subseteq Nat, S # {}, NEW b \in Nat, \A n \in S : n <= b
  PROVE  \E m \in S : \A n \in S : n <= m
  <1> DEFINE T == {b - n : n \in S}
  <1>1. T \subseteq Nat
    <2> SUFFICES ASSUME NEW n \in S PROVE b - n \in Nat
      OBVIOUS
    <2>1. n \in Nat /\ n <= b
      OBVIOUS
    <2> QED
      BY <2>1
  <1>0. T # {}
    OBVIOUS
  <1>2. PICK t \in T : \A u \in T : t <= u
    BY <1>0, <1>1, LeastElement
  <1>3. PICK m \in S : t = b - m
    OBVIOUS
  <1>4. \A n \in S : n <= m
    <2> TAKE n \in S
    <2>1. b - m <= b - n /\ n \in Nat /\ m \in Nat
      BY <1>2, <1>3
    <2> QED
      BY <2>1
  <1> QED
    BY <1>4

\* A commit keeps the tables in agreement.
LEMMA CommitStepTables ==
  ASSUME ServiceInv, NEW c \in Client, CommitStep(c)
  PROVE  TableInv'
  <1> DEFINE k == MyKey(c)
             e == call[c].event
             n == Len(history[k])
             new == [event |-> e, before |-> quantity[k],
                     after |-> quantity[k] + Delta[e], delta |-> Delta[e]]
  <1>1. /\ k \in Key /\ e \in Event /\ Delta[e] \in Int /\ k = KeyOf[e]
        /\ ~Recorded(e)
        /\ quantity[k] \in Int
        /\ quantity[k] + Delta[e] \in 0 .. MaxQuantity
        /\ WriteChange(k, e, quantity[k], Delta[e])
    BY CommitEffect
  <1>2. /\ rows \subseteq Key
        /\ quantity \in [Key -> Int]
        /\ history \in [Key -> Seq(Entry)]
    BY DEF ServiceInv, LockInv, ServiceTypeOK, StoreTypeOK
  <1>3. /\ rows' = rows \cup {k}
        /\ quantity' = [quantity EXCEPT ![k] = quantity[k] + Delta[e]]
        /\ history' = [history EXCEPT ![k] = Append(history[k], new)]
    BY <1>1 DEF WriteChange
  <1>4. new \in Entry
    BY <1>1 DEF Entry
  <1>5. history[k] \in Seq(Entry)
    BY <1>1, <1>2
  <1> HIDE DEF new
  <1>a. /\ n \in Nat
        /\ DOMAIN history[k] = 1 .. n
        /\ n = 0 <=> history[k] = <<>>
        /\ history'[k] = Append(history[k], new)
        /\ history'[k] # <<>>
        /\ Len(history'[k]) = n + 1
        /\ DOMAIN history'[k] = 1 .. n + 1
        /\ history'[k][n + 1] = new
        /\ \A i \in 1 .. n : history'[k][i] = history[k][i]
    <2>1. history'[k] = Append(history[k], new)
      BY <1>1, <1>2, <1>3
    <2> QED
      BY <2>1, <1>4, <1>5, AppendFacts
  <1>b. /\ \A l \in Key : l # k => history'[l] = history[l] /\ quantity'[l] = quantity[l]
        /\ quantity'[k] = quantity[k] + Delta[e]
    BY <1>1, <1>2, <1>3
  <1>6. new.before = IF n = 0 THEN 0 ELSE history[k][n].after
    BY <1>1, <1>a DEF ServiceInv, TableInv, SnapshotMatchesHistory, new
  <1>7. /\ new.event = e
        /\ new.after = new.before + new.delta
        /\ new.after = quantity'[k]
    BY <1>b DEF new
  <1> HIDE DEF n
  <1>8. HistoryChained'
    <2> SUFFICES ASSUME NEW l \in Key, NEW i \in DOMAIN history'[l]
                 PROVE  /\ history'[l][i].after
                             = history'[l][i].before + history'[l][i].delta
                        /\ history'[l][i].before
                             = IF i = 1 THEN 0 ELSE history'[l][i - 1].after
      BY DEF HistoryChained
    <2>1. HistoryChained
      BY DEF ServiceInv, TableInv
    <2>2. CASE l # k
      BY <2>1, <2>2, <1>b, <1>a DEF HistoryChained
    <2>3. CASE l = k /\ i = n + 1
      BY <2>3, <1>a, <1>b, <1>6, <1>7
    <2>4. CASE l = k /\ i # n + 1
      <3>1. i \in 1 .. n /\ (i # 1 => i - 1 \in 1 .. n)
        BY <2>4, <1>a, <1>b
      <3>2. /\ history'[l][i] = history[k][i]
            /\ i # 1 => history'[l][i - 1] = history[k][i - 1]
        BY <3>1, <2>4, <1>a
      <3>3. /\ history[k][i].after = history[k][i].before + history[k][i].delta
            /\ history[k][i].before = IF i = 1 THEN 0 ELSE history[k][i - 1].after
        BY <3>1, <2>1, <1>1, <1>a DEF HistoryChained
      <3> QED
        BY <3>2, <3>3
    <2> QED
      BY <2>2, <2>3, <2>4
  <1>9. SnapshotMatchesHistory'
    <2> SUFFICES ASSUME NEW l \in Key
                 PROVE  /\ l \in rows' <=> history'[l] # <<>>
                        /\ quantity'[l] = IF history'[l] = <<>> THEN 0
                                          ELSE history'[l][Len(history'[l])].after
      BY DEF SnapshotMatchesHistory
    <2>1. CASE l = k
      BY <2>1, <1>3, <1>7, <1>a
    <2>2. CASE l # k
      BY <2>2, <1>3, <1>b DEF SnapshotMatchesHistory, ServiceInv, TableInv
    <2> QED
      BY <2>1, <2>2
  <1>10. HistoryOnItsRow'
    <2> SUFFICES ASSUME NEW l \in Key, NEW i \in DOMAIN history'[l]
                 PROVE  l \in rows' /\ KeyOf[history'[l][i].event] = l
      BY DEF HistoryOnItsRow
    <2>1. HistoryOnItsRow
      BY DEF ServiceInv, TableInv
    <2>2. CASE l # k
      BY <2>1, <2>2, <1>3, <1>b DEF HistoryOnItsRow
    <2>3. CASE l = k /\ i = n + 1
      BY <2>3, <1>1, <1>3, <1>7, <1>a
    <2>4. CASE l = k /\ i # n + 1
      <3>1. i \in DOMAIN history[k] /\ history'[l][i] = history[k][i]
        BY <2>4, <1>a
      <3> QED
        BY <3>1, <2>1, <2>4, <1>1, <1>3 DEF HistoryOnItsRow
    <2> QED
      BY <2>2, <2>3, <2>4
  <1>11. AppliedOnce'
    <2> SUFFICES ASSUME NEW l \in Key, NEW m \in Key,
                        NEW i \in DOMAIN history'[l], NEW j \in DOMAIN history'[m],
                        history'[l][i].event = history'[m][j].event
                 PROVE  l = m /\ i = j
      BY DEF AppliedOnce
    <2>1. AppliedOnce
      BY DEF ServiceInv, TableInv
    <2>2. \A o \in Key, x \in Int : x \in DOMAIN history'[o] =>
            \/ x \in DOMAIN history[o] /\ history'[o][x].event = history[o][x].event
            \/ o = k /\ x = n + 1 /\ history'[o][x].event = e
      BY <1>a, <1>b, <1>7
    <2>3. \A o \in Key : \A x \in DOMAIN history[o] : history[o][x].event # e
      BY <1>1 DEF Recorded
    <2>4. i \in Int /\ j \in Int
      <3>1. l # k => DOMAIN history'[l] = 1 .. Len(history[l])
        BY <1>2, <1>b
      <3>2. m # k => DOMAIN history'[m] = 1 .. Len(history[m])
        BY <1>2, <1>b
      <3> QED
        BY <3>1, <3>2, <1>a, <1>b
    <2> QED
      BY <2>1, <2>2, <2>3, <2>4 DEF AppliedOnce
  <1>12. StockInRange'
    BY <1>1, <1>2, <1>3 DEF StockInRange, ServiceInv, TableInv
  <1> QED
    BY <1>8, <1>9, <1>10, <1>11, <1>12 DEF TableInv

\* A commit adds one change, at the end of its row's history.
LEMMA CommitAppends ==
  ASSUME ServiceInv, NEW c \in Client, CommitStep(c),
         NEW k, k = MyKey(c), NEW e, e = call[c].event, NEW n, n = Len(history[k])
  PROVE  /\ k \in Key /\ n \in Nat
         /\ DOMAIN history[k] = 1 .. n /\ DOMAIN history'[k] = 1 .. n + 1
         /\ history'[k][n + 1].event = e /\ history'[k][n + 1].delta = Delta[e]
         /\ \A i \in 1 .. n : history'[k][i] = history[k][i]
         /\ \A l \in Key : l # k => history'[l] = history[l]
  <1> DEFINE new == [event |-> e, before |-> quantity[k],
                     after |-> quantity[k] + Delta[e], delta |-> Delta[e]]
  <1>1. /\ k \in Key /\ e \in Event /\ Delta[e] \in Int
        /\ quantity[k] \in Int
        /\ WriteChange(k, e, quantity[k], Delta[e])
    BY CommitEffect
  <1>2. new \in Entry /\ new.event = e /\ new.delta = Delta[e]
    BY <1>1 DEF Entry
  <1>3. history \in [Key -> Seq(Entry)] /\ history[k] \in Seq(Entry)
    BY <1>1 DEF ServiceInv, LockInv, ServiceTypeOK, StoreTypeOK
  <1>4. /\ history'[k] = Append(history[k], new)
        /\ \A l \in Key : l # k => history'[l] = history[l]
    BY <1>1, <1>3 DEF WriteChange
  <1> HIDE DEF new
  <1>5. /\ n \in Nat
        /\ DOMAIN history[k] = 1 .. n /\ DOMAIN history'[k] = 1 .. n + 1
        /\ history'[k][n + 1] = new
        /\ \A i \in 1 .. n : history'[k][i] = history[k][i]
    BY <1>2, <1>3, <1>4, AppendFacts
  <1> QED
    BY <1>1, <1>2, <1>4, <1>5

\* A commit adds its own event to the recorded ones, and only that.
LEMMA CommitRecords ==
  ASSUME ServiceInv, NEW c \in Client, CommitStep(c), NEW f \in Event
  PROVE  Recorded(f)' <=> Recorded(f) \/ f = call[c].event
  <1>0. PICK k, e, n : k = MyKey(c) /\ e = call[c].event /\ n = Len(history[k])
    OBVIOUS
  <1>1. /\ k \in Key /\ n \in Nat
        /\ DOMAIN history[k] = 1 .. n /\ DOMAIN history'[k] = 1 .. n + 1
        /\ history'[k][n + 1].event = e
        /\ \A i \in 1 .. n : history'[k][i] = history[k][i]
        /\ \A l \in Key : l # k => history'[l] = history[l]
    BY <1>0, CommitAppends
  <1>2. ASSUME Recorded(f)
        PROVE  Recorded(f)'
    <2>1. PICK l \in Key : \E i \in DOMAIN history[l] : history[l][i].event = f
      BY <1>2 DEF Recorded
    <2>2. PICK i \in DOMAIN history[l] : history[l][i].event = f
      BY <2>1
    <2>3. i \in DOMAIN history'[l] /\ history'[l][i].event = f
      BY <1>1, <2>2
    <2> QED
      BY <2>3 DEF Recorded
  <1>3. ASSUME f = e
        PROVE  Recorded(f)'
    <2>1. n + 1 \in DOMAIN history'[k] /\ history'[k][n + 1].event = f
      BY <1>1, <1>3
    <2> QED
      BY <1>1, <2>1 DEF Recorded
  <1>4. ASSUME Recorded(f)', f # e
        PROVE  Recorded(f)
    <2>1. PICK l \in Key : \E i \in DOMAIN history'[l] : history'[l][i].event = f
      BY <1>4 DEF Recorded
    <2>2. PICK i \in DOMAIN history'[l] : history'[l][i].event = f
      BY <2>1
    <2>3. i \in DOMAIN history[l] /\ history[l][i].event = f
      BY <1>1, <1>4, <2>2
    <2> QED
      BY <2>3 DEF Recorded
  <1> QED
    BY <1>0, <1>2, <1>3, <1>4

-----------------------------------------------------------------------------
(* The inductive invariant. *)

\* Steps that do not commit leave the tables alone.
LEMMA TablesKept ==
  ASSUME NEW c \in Client, Quiet(c) \/ Ends(c) \/ LockStep(c)
  PROVE  UNCHANGED <<rows, quantity, history>>
  BY DEF Quiet, Ends, LockStep, LockRow, InsertRow, storeVars

\* Empty tables without locks satisfy the invariant ...
LEMMA ServiceInvInit == ServiceInit => ServiceInv
  <1> SUFFICES ASSUME ServiceInit PROVE ServiceInv
    OBVIOUS
  <1>1. ServiceTypeOK
    BY TypeInit
  <1>2. NoLockLeaks /\ LockProtectsRead
    BY StoreAssumption DEF ServiceInit, StoreInit, NoLockLeaks, LockProtectsRead,
                           At, NoCall
  <1>3. HistoryChained /\ SnapshotMatchesHistory /\ HistoryOnItsRow /\ AppliedOnce
    BY DEF ServiceInit, StoreInit, HistoryChained, SnapshotMatchesHistory,
           HistoryOnItsRow, AppliedOnce
  <1>4. StockInRange
    <2>1. 0 \in 0 .. MaxQuantity
      BY StoreAssumption
    <2>2. \A k \in Key : quantity[k] = 0
      BY DEF ServiceInit, StoreInit
    <2> QED
      BY <2>1, <2>2 DEF StockInRange
  <1>5. IdleHasNoCall
    BY DEF ServiceInit, IdleHasNoCall
  <1> QED
    BY <1>1, <1>2, <1>3, <1>4, <1>5 DEF ServiceInv, LockInv, TableInv

\* ... every kind of step keeps it, as long as calls keep their form ...
LEMMA StoreStepKeeps ==
  ASSUME ServiceInv, NEW c \in Client, StoreStep(c), ServiceTypeOK', IdleHasNoCall'
  PROVE  ServiceInv'
  <1> USE DEF ServiceInv
  <1>1. ASSUME Quiet(c) \/ Ends(c) \/ LockStep(c)
        PROVE  ServiceInv'
    <2>1. TableInv'
      BY <1>1, TablesKept DEF TableInv, HistoryChained, SnapshotMatchesHistory,
                              HistoryOnItsRow, AppliedOnce, StockInRange
    <2>2. NoLockLeaks' /\ LockProtectsRead'
      BY <1>1, QuietLocks, EndsLocks, LockStepLocks DEF TableInv
    <2> QED
      BY <2>1, <2>2 DEF LockInv
  <1>2. ASSUME CommitStep(c)
        PROVE  ServiceInv'
    BY <1>2, CommitStepLocks, CommitStepTables DEF LockInv
  <1> QED
    BY <1>1, <1>2 DEF StoreStep

LEMMA ServiceInvStutters ==
  ASSUME ServiceInv, UNCHANGED serviceVars
  PROVE  ServiceInv'
  <1>1. ServiceTypeOK'
    BY DEF ServiceInv, LockInv, ServiceTypeOK, StoreTypeOK, At, serviceVars, storeVars
  <1> QED
    BY <1>1 DEF ServiceInv, LockInv, NoLockLeaks, LockProtectsRead, At, MyKey, TableInv,
         HistoryChained, SnapshotMatchesHistory, HistoryOnItsRow, AppliedOnce,
         StockInRange, IdleHasNoCall, serviceVars, storeVars

\* ... and so does every step of a client: a call ends only with Return and Abort.
LEMMA IdleStep ==
  ASSUME ServiceInv, ServiceNext
  PROVE  IdleHasNoCall'
  <1> SUFFICES ASSUME NEW d \in Client, call'[d].stage = "idle"
               PROVE  call'[d] = NoCall
    BY DEF IdleHasNoCall, At
  <1>1. call \in [Client -> Call] /\ (call[d].stage = "idle" => call[d] = NoCall)
    BY DEF ServiceInv, LockInv, ServiceTypeOK, IdleHasNoCall, At
  <1>2. PICK c \in Client :
          NoTableStep(c) \/ RollbackStep(c) \/ LockStep(c) \/ CommitStep(c)
    BY ActionCases
  <1>3. CASE d # c
    <2>1. OthersWait(c)
      <3>1. CASE NoTableStep(c) \/ RollbackStep(c)
        BY <1>1, <3>1, NoTableStepIsQuiet, RollbackStepEnds DEF Quiet, Ends
      <3>2. CASE LockStep(c)
        BY <1>1, <3>2 DEF LockStep, LockRow, InsertRow, OthersWait
      <3>3. CASE CommitStep(c)
        BY <1>1, <3>3 DEF CommitStep, Commit, OthersWait
      <3> QED
        BY <1>2, <3>1, <3>2, <3>3
    <2> QED
      BY <1>1, <1>3, <2>1 DEF OthersWait
  <1>4. CASE d = c
    <2> USE <1>1, <1>4 DEF MoveTo, Call
    <2>1. CASE \E e \in Event : Start(c, e)
      BY <2>1 DEF Start
    <2>2. CASE Return(c) \/ Abort(c)
      BY <2>2 DEF Return, Abort
    <2>3. CASE FindDuplicate(c)
      BY <2>3 DEF FindDuplicate
    <2>4. CASE FindNoDuplicate(c) \/ FindNoRow(c) \/ InsertConflict(c)
      BY <2>4 DEF FindNoDuplicate, FindNoRow, InsertConflict
    <2>5. CASE SyncCache(c) \/ CacheError(c)
      BY <2>5 DEF SyncCache, CacheError
    <2>6. CASE RejectNegative(c) \/ CommitConflict(c) \/ DatabaseError(c)
      BY <2>6 DEF RejectNegative, CommitConflict, DatabaseError
    <2>7. CASE LockStep(c)
      BY <2>7 DEF LockStep, LockRow, InsertRow
    <2>8. CASE CommitStep(c)
      BY <2>8, CommitEffect
    <2> QED
      BY <1>2, <2>1, <2>2, <2>3, <2>4, <2>5, <2>6, <2>7, <2>8
         DEF NoTableStep, RollbackStep
  <1> QED
    BY <1>3, <1>4

LEMMA ServiceInvStep == ServiceInv /\ [ServiceNext]_serviceVars => ServiceInv'
  <1> SUFFICES ASSUME ServiceInv, [ServiceNext]_serviceVars
               PROVE  ServiceInv'
    OBVIOUS
  <1>1. CASE UNCHANGED serviceVars
    BY <1>1, ServiceInvStutters
  <1>2. CASE ServiceNext
    <2>1. ServiceTypeOK' /\ IdleHasNoCall'
      BY <1>2, TypeStep, IdleStep DEF ServiceInv, LockInv
    <2> QED
      BY <1>2, <2>1, StepCases, StoreStepKeeps DEF ServiceInv, LockInv
  <1> QED
    BY <1>1, <1>2

\* The crash of a worker that is not in a call changes nothing in the service;
\* that of one in a call is the abort of the call.
LEMMA CrashIsAbort ==
  ASSUME ServiceInv, NEW w \in Client,
         call' = [call EXCEPT ![w] = NoCall], Release(w),
         UNCHANGED <<rows, quantity, history, cache>>
  PROVE  [ServiceNext]_serviceVars
  <1>1. CASE ~At(w, "idle")
    BY <1>1 DEF ServiceNext, Abort
  <1>2. CASE At(w, "idle")
    <2>1. /\ call \in [Client -> Call]
          /\ lock \in [Key -> Client \cup {Nobody}]
          /\ call[w] = NoCall
      BY <1>2 DEF ServiceInv, LockInv, ServiceTypeOK, StoreTypeOK, IdleHasNoCall
    <2>2. call' = call
      BY <2>1
    <2>3. \A k \in Key : lock[k] # w
      BY <1>2 DEF ServiceInv, LockInv, NoLockLeaks, At
    <2>4. lock' = lock
      BY <2>1, <2>3 DEF Release
    <2> QED
      BY <2>2, <2>4 DEF serviceVars, storeVars
  <1> QED
    BY <1>1, <1>2

\* The inductive invariant of process_event: types, row locks and the agreement
\* of the tables hold together, in every state.
THEOREM ServiceInvariant == ServiceSpec => []ServiceInv
  BY ServiceInvInit, ServiceInvStep, PTL DEF ServiceSpec

\* Between the SELECT ... FOR UPDATE and the end of a transaction its row is
\* locked by it and reads as it did; no other transaction holds it, and no lock
\* outlives its transaction.
THEOREM RowLocksHold == ServiceSpec => [](LockProtectsRead /\ NoLockLeaks)
  BY ServiceInvariant, PTL DEF ServiceInv, LockInv

\* "inventory" is always the end of an unbroken history, whatever clients,
\* errors and crashes do.
THEOREM TablesAgree ==
  ServiceSpec => [](HistoryChained /\ SnapshotMatchesHistory /\ HistoryOnItsRow)
  BY ServiceInvariant, PTL DEF ServiceInv, TableInv

\* No event changes the stock twice, however often it is delivered or retried.
THEOREM AtMostOnce == ServiceSpec => []AppliedOnce
  BY ServiceInvariant, PTL DEF ServiceInv, TableInv

\* The stock never becomes negative nor leaves its column's range.  The column
\* itself takes negative values: it is the check under the row's lock, of a
\* quantity that is still the row's when the change is committed, that keeps them
\* out.
THEOREM NeverNegative == ServiceSpec => []StockInRange
  BY ServiceInvariant, PTL DEF ServiceInv, TableInv

-----------------------------------------------------------------------------
(* The history as it changes. *)

\* History h goes on from history g: it has all its rows, in their places.
Extends(h, g) ==
  Len(g) <= Len(h) /\ \A i \in DOMAIN g : h[i] = g[i]

\* A commit extends the history of one key, and every other step of none.
LEMMA HistoryGrows ==
  ASSUME ServiceInv, NEW c \in Client, StoreStep(c), NEW l \in Key
  PROVE  Extends(history'[l], history[l])
  <1>1. history \in [Key -> Seq(Entry)]
    BY DEF ServiceInv, LockInv, ServiceTypeOK, StoreTypeOK
  <1>2. history[l] \in Seq(Entry) /\ Len(history[l]) \in Nat
    BY <1>1
  <1>3. CASE history'[l] = history[l]
    BY <1>2, <1>3 DEF Extends
  <1>4. ASSUME CommitStep(c)
        PROVE  Extends(history'[l], history[l])
    <2> DEFINE k == MyKey(c)
               e == call[c].event
               new == [event |-> e, before |-> quantity[k],
                       after |-> quantity[k] + Delta[e], delta |-> Delta[e]]
    <2>1. /\ k \in Key /\ e \in Event /\ Delta[e] \in Int
          /\ quantity[k] \in Int
          /\ WriteChange(k, e, quantity[k], Delta[e])
      BY <1>4, CommitEffect
    <2>2. new \in Entry
      BY <2>1 DEF Entry
    <2>3. history' = [history EXCEPT ![k] = Append(history[k], new)]
      BY <2>1 DEF WriteChange
    <2> HIDE DEF new
    <2>4. CASE l # k
      BY <1>1, <1>3, <2>1, <2>3, <2>4
    <2>5. CASE l = k
      <3>1. history'[l] = Append(history[l], new)
        BY <1>1, <2>1, <2>3, <2>5
      <3>2. /\ Len(history'[l]) = Len(history[l]) + 1
            /\ \A i \in 1 .. Len(history[l]) : history'[l][i] = history[l][i]
        BY <1>2, <2>2, <3>1, AppendFacts
      <3> QED
        BY <1>2, <3>2 DEF Extends
    <2> QED
      BY <2>4, <2>5
  <1>5. ASSUME Quiet(c) \/ Ends(c) \/ LockStep(c)
        PROVE  history'[l] = history[l]
    BY <1>5, TablesKept
  <1> QED
    BY <1>3, <1>4, <1>5 DEF StoreStep

LEMMA HistoryExtended ==
  ASSUME ServiceInv, [ServiceNext]_serviceVars, NEW l \in Key
  PROVE  Extends(history'[l], history[l])
  <1>1. CASE UNCHANGED serviceVars
    <2>1. history'[l] = history[l] /\ Len(history[l]) \in Nat
      BY <1>1 DEF serviceVars, storeVars, ServiceInv, LockInv, ServiceTypeOK, StoreTypeOK
    <2> QED
      BY <2>1 DEF Extends
  <1>2. CASE ServiceNext
    BY <1>2, StepCases, HistoryGrows DEF ServiceInv, LockInv
  <1> QED
    BY <1>1, <1>2

\* No step of any client rewrites or drops a row of "inventory_history".
THEOREM AppendOnly == ServiceSpec => HistoryIsAppendOnly
  <1>1. ServiceInv /\ [ServiceNext]_serviceVars =>
          [\A k \in Key : /\ Len(history[k]) <= Len(history'[k])
                          /\ \A i \in DOMAIN history[k] :
                               history'[k][i] = history[k][i]]_serviceVars
    BY HistoryExtended DEF Extends
  <1> QED
    BY <1>1, ServiceInvariant, PTL DEF ServiceSpec, HistoryIsAppendOnly

-----------------------------------------------------------------------------
(* What a caller is told. *)

\* A recorded event stays recorded.
LEMMA RecordedKept ==
  ASSUME ServiceInv, NEW c \in Client, StoreStep(c), NEW e \in Event, Recorded(e)
  PROVE  Recorded(e)'
  <1>1. ASSUME Quiet(c) \/ Ends(c) \/ LockStep(c)
        PROVE  Recorded(e)'
    BY <1>1, TablesKept DEF Recorded
  <1>2. ASSUME CommitStep(c)
        PROVE  Recorded(e)'
    BY <1>2, CommitRecords
  <1> QED
    BY <1>1, <1>2 DEF StoreStep

LEMMA RecordedStays ==
  ASSUME ServiceInv, [ServiceNext]_serviceVars, NEW e \in Event, Recorded(e)
  PROVE  Recorded(e)'
  <1>1. CASE UNCHANGED serviceVars
    BY <1>1 DEF Recorded, serviceVars, storeVars
  <1>2. CASE ServiceNext
    BY <1>2, StepCases, RecordedKept DEF ServiceInv, LockInv
  <1> QED
    BY <1>1, <1>2

LEMMA RecordedEventsGrow ==
  ASSUME ServiceInv, [ServiceNext]_serviceVars
  PROVE  RecordedEvents \subseteq RecordedEvents'
  BY RecordedStays DEF RecordedEvents

\* While process_event runs, the call keeps its event, and no other call moves.
LEMMA CallGoesOn ==
  ASSUME ServiceTypeOK, NEW c \in Client, Proceed(c) \/ Fail(c)
  PROVE  /\ OthersWait(c)
         /\ call[c].stage # "idle" /\ call'[c].stage # "idle"
         /\ call'[c].event = call[c].event
  <1>1. call \in [Client -> Call]
    BY DEF ServiceTypeOK
  <1> USE <1>1 DEF OthersWait, MoveTo, Call, At
  <1>0. CASE FindDuplicate(c)
    BY <1>0 DEF FindDuplicate
  <1>2. CASE FindNoDuplicate(c) \/ FindNoRow(c) \/ InsertConflict(c)
    BY <1>2 DEF FindNoDuplicate, FindNoRow, InsertConflict
  <1>3. CASE SyncCache(c) \/ CacheError(c)
    BY <1>3 DEF SyncCache, CacheError
  <1>4. CASE RejectNegative(c) \/ CommitConflict(c)
    BY <1>4 DEF RejectNegative, CommitConflict
  <1>5. CASE DatabaseError(c)
    BY <1>5 DEF DatabaseError, InTransaction
  <1>6. CASE LockRow(c) \/ InsertRow(c)
    BY <1>6 DEF LockRow, InsertRow
  <1>7. CASE CommitChange(c) \/ LoseCommitReply(c)
    BY <1>7 DEF CommitChange, LoseCommitReply, Commit
  <1> QED
    BY <1>0, <1>2, <1>3, <1>4, <1>5, <1>6, <1>7 DEF Proceed, Fail

\* A call comes to a result by finding its event or by a commit of it.
LEMMA SuccessStep ==
  ASSUME ServiceInv, SuccessIsDurable, [ServiceNext]_serviceVars
  PROVE  SuccessIsDurable'
  <1> SUFFICES ASSUME NEW d \in Client, call'[d].stage \in {"sync", "done"},
                      NEW e, e = call'[d].event
               PROVE  Recorded(e)'
    BY DEF SuccessIsDurable, Recorded
  <1> USE ServiceAssumption
  <1>1. call \in [Client -> Call] /\ \A c \in Client : ~At(c, "idle") => call[c].event \in Event
    BY RowInUse DEF ServiceInv, LockInv, ServiceTypeOK
  <1>2. ASSUME call'[d] = call[d]
        PROVE  Recorded(e)'
    <2>1. Recorded(e) /\ e \in Event
      BY <1>1, <1>2 DEF SuccessIsDurable, At
    <2> QED
      BY <1>2, <2>1, RecordedStays
  <1>3. CASE UNCHANGED serviceVars
    BY <1>2, <1>3 DEF serviceVars
  <1>4. ASSUME NEW c \in Client, NoTableStep(c) \/ RollbackStep(c) \/ LockStep(c)
        PROVE  Recorded(e)'
    <2>1. CASE d # c
      BY <1>1, <1>2, <1>4, <2>1 DEF NoTableStep, Start, Return, FindDuplicate,
           FindNoDuplicate, FindNoRow, InsertConflict, SyncCache, CacheError, RollbackStep,
           RejectNegative, CommitConflict, DatabaseError, Abort, LockStep, LockRow,
           InsertRow, MoveTo
    <2>2. CASE d = c
      <3>1. e = call[d].event /\ e \in Event /\ Recorded(e)
        <4>1. FindDuplicate(d) \/ SyncCache(d)
          <5> USE <1>1, <2>2 DEF MoveTo, NoCall, Call
          <5>1. CASE (\E f \in Event : Start(c, f)) \/ Return(c) \/ Abort(c)
            BY <5>1 DEF Start, Return, Abort
          <5>2. CASE FindNoDuplicate(c) \/ FindNoRow(c) \/ InsertConflict(c) \/ CacheError(c)
            BY <5>2 DEF FindNoDuplicate, FindNoRow, InsertConflict, CacheError
          <5>3. CASE RejectNegative(c) \/ CommitConflict(c) \/ DatabaseError(c)
            BY <5>3 DEF RejectNegative, CommitConflict, DatabaseError
          <5>4. CASE LockStep(c)
            BY <5>4 DEF LockStep, LockRow, InsertRow
          <5> QED
            BY <1>4, <5>1, <5>2, <5>3, <5>4 DEF NoTableStep, RollbackStep
        <4> QED
          BY <1>1, <4>1 DEF FindDuplicate, SyncCache, MoveTo, SuccessIsDurable, At, Call
      <3> QED
        BY <3>1, RecordedStays
    <2> QED
      BY <2>1, <2>2
  <1>5. ASSUME NEW c \in Client, CommitStep(c)
        PROVE  Recorded(e)'
    <2>1. PICK stage \in {"sync", "done", "transient"} : Commit(c, stage)
      BY <1>5 DEF CommitStep
    <2>2. CASE d # c
      BY <1>1, <1>2, <2>1, <2>2 DEF Commit
    <2>3. CASE d = c
      <3>1. e \in Event /\ e = call[c].event
        BY <1>1, <2>1, <2>3 DEF Commit, At, Call
      <3> QED
        BY <1>5, <3>1, CommitRecords
    <2> QED
      BY <2>2, <2>3
  <1> QED
    BY <1>3, <1>4, <1>5, ActionCases

\* Whoever gets a result, of a first delivery or of a duplicate, is told of a
\* change that is in the history and stays there.
THEOREM SuccessDurable == ServiceSpec => []SuccessIsDurable
  <1>1. ServiceInit => SuccessIsDurable
    BY DEF ServiceInit, SuccessIsDurable, NoCall
  <1>2. ServiceInv /\ SuccessIsDurable /\ [ServiceNext]_serviceVars => SuccessIsDurable'
    BY SuccessStep
  <1> QED
    BY <1>1, <1>2, ServiceInvariant, PTL DEF ServiceSpec

-----------------------------------------------------------------------------
(* What the cache shows. *)

\* The row of k has had quantity q.
Shown(k, q) == \E i \in DOMAIN history[k] : history[k][i].after = q

\* What waits to be written to the cache has been in the tables, like what is
\* there already.
CacheInv ==
  /\ CacheShowsHistory
  /\ \A c \in Client : At(c, "sync") => Shown(MyKey(c), call[c].quantity)

\* A quantity that a row has had stays in its history.
LEMMA ShownStays ==
  ASSUME ServiceInv, [ServiceNext]_serviceVars, NEW k \in Key, NEW q, Shown(k, q)
  PROVE  Shown(k, q)'
  <1>1. PICK i \in DOMAIN history[k] : history[k][i].after = q
    BY DEF Shown
  <1>2. history[k] \in Seq(Entry) /\ history'[k] \in Seq(Entry)
    BY TypeStep DEF ServiceInv, LockInv, ServiceTypeOK, StoreTypeOK
  <1>3. Len(history[k]) <= Len(history'[k]) /\ history'[k][i] = history[k][i]
    BY HistoryExtended DEF Extends
  <1>4. i \in DOMAIN history'[k]
    BY <1>1, <1>2, <1>3
  <1> QED
    BY <1>1, <1>3, <1>4 DEF Shown

\* The quantity that is returned for a duplicate is the end of its row's history.
LEMMA DuplicateIsShown ==
  ASSUME ServiceInv, NEW e \in Event, Recorded(e)
  PROVE  Shown(KeyOf[e], quantity[KeyOf[e]])
  <1>1. PICK k \in Key : \E i \in DOMAIN history[k] : history[k][i].event = e
    BY DEF Recorded
  <1>2. KeyOf[e] = k /\ history[k] # <<>>
    BY <1>1 DEF ServiceInv, TableInv, HistoryOnItsRow
  <1>3. history[k] \in Seq(Entry)
    BY DEF ServiceInv, LockInv, ServiceTypeOK, StoreTypeOK
  <1>4. Len(history[k]) \in DOMAIN history[k]
    BY <1>2, <1>3
  <1> QED
    BY <1>2, <1>4 DEF ServiceInv, TableInv, SnapshotMatchesHistory, Shown

\* The quantity of a commit is the end of the history that it writes.
LEMMA CommitIsShown ==
  ASSUME ServiceInv, NEW c \in Client, NEW stage, Commit(c, stage), CommitStep(c),
         NEW q, q = After(c), NEW k, k = MyKey(c)
  PROVE  Shown(k, q)'
  <1> DEFINE e == call[c].event
             n == Len(history[k])
             new == [event |-> e, before |-> quantity[k],
                     after |-> quantity[k] + Delta[e], delta |-> Delta[e]]
  <1>1. /\ k \in Key /\ e \in Event /\ Delta[e] \in Int
        /\ quantity[k] \in Int
        /\ WriteChange(k, e, quantity[k], Delta[e])
    BY CommitEffect
  <1>2. call[c].quantity = quantity[k]
    BY DEF Commit, ServiceInv, LockInv, LockProtectsRead
  <1>3. new \in Entry /\ new.after = q
    BY <1>1, <1>2 DEF Entry, After
  <1>4. history \in [Key -> Seq(Entry)] /\ history[k] \in Seq(Entry)
    BY <1>1 DEF ServiceInv, LockInv, ServiceTypeOK, StoreTypeOK
  <1>5. history'[k] = Append(history[k], new)
    BY <1>1, <1>4 DEF WriteChange
  <1> HIDE DEF new
  <1>6. n + 1 \in DOMAIN history'[k] /\ history'[k][n + 1] = new
    BY <1>3, <1>4, <1>5, AppendFacts
  <1> QED
    BY <1>3, <1>6 DEF Shown

LEMMA CacheStep ==
  ASSUME ServiceInv, CacheInv, [ServiceNext]_serviceVars
  PROVE  CacheInv'
  <1> USE ServiceAssumption
  <1>1. /\ call \in [Client -> Call] /\ call' \in [Client -> Call]
        /\ cache \in [Key -> Int \cup {NotCached}]
        /\ \A c \in Client : ~At(c, "idle") => call[c].event \in Event /\ MyKey(c) \in Key
    BY RowInUse, TypeStep DEF ServiceInv, LockInv, ServiceTypeOK
  \* What is written to the cache waited to be written.
  <1>2. ASSUME NEW k \in Key, NEW q, q = cache'[k], q # NotCached
        PROVE  Shown(k, q)'
    <2>1. CASE cache' = cache
      BY <1>2, <2>1, ShownStays DEF CacheInv, CacheShowsHistory, Shown
    <2>2. ASSUME NEW c \in Client, At(c, "sync"), SetCache(c)
          PROVE  Shown(k, q)'
      <3>1. q = cache[k] \/ (k = MyKey(c) /\ q = call[c].quantity)
        BY <1>1, <1>2, <2>2 DEF SetCache, At
      <3>2. Shown(k, q)
        BY <1>2, <2>2, <3>1 DEF CacheInv, CacheShowsHistory, Shown
      <3> QED
        BY <3>2, ShownStays
    <2>3. CASE UNCHANGED serviceVars
      BY <2>1, <2>3 DEF serviceVars
    <2>4. ASSUME NEW c \in Client,
                 NoTableStep(c) \/ RollbackStep(c) \/ LockStep(c) \/ CommitStep(c)
          PROVE  cache' = cache \/ (At(c, "sync") /\ SetCache(c))
      BY <2>4 DEF NoTableStep, Start, Return, FindDuplicate, FindNoDuplicate, FindNoRow,
           InsertConflict, SyncCache, CacheError, RollbackStep, RejectNegative,
           CommitConflict, DatabaseError, Abort, LockStep, LockRow, InsertRow,
           CommitStep, Commit
    <2> QED
      BY <2>1, <2>2, <2>3, <2>4, ActionCases
  <1>3. CacheShowsHistory'
    BY <1>2 DEF CacheShowsHistory, Shown
  \* What waits to be written was committed now, or is the row of a duplicate.
  <1>4. ASSUME NEW d \in Client, call'[d].stage = "sync",
               NEW k, k = KeyOf[call'[d].event], NEW q, q = call'[d].quantity
        PROVE  Shown(k, q)'
    <2>1. CASE call'[d] = call[d]
      <3>1. k \in Key /\ Shown(k, q)
        BY <1>1, <1>4, <2>1 DEF CacheInv, MyKey, At
      <3> QED
        BY <3>1, ShownStays
    <2>2. CASE UNCHANGED serviceVars
      BY <2>1, <2>2 DEF serviceVars
    <2>3. ASSUME NEW c \in Client,
                 NoTableStep(c) \/ RollbackStep(c) \/ LockStep(c) \/ CommitStep(c), d # c
          PROVE  call'[d] = call[d]
      <3>1. CASE NoTableStep(c) \/ RollbackStep(c)
        BY <1>1, <2>3, <3>1, NoTableStepIsQuiet, RollbackStepEnds
           DEF Quiet, Ends, OthersWait
      <3>2. CASE LockStep(c)
        BY <1>1, <2>3, <3>2 DEF LockStep, LockRow, InsertRow
      <3>3. CASE CommitStep(c)
        BY <1>1, <2>3, <3>3 DEF CommitStep, Commit
      <3> QED
        BY <2>3, <3>1, <3>2, <3>3
    <2>4. CASE FindDuplicate(d)
      <3>1. /\ call[d].event \in Event /\ Recorded(call[d].event)
            /\ k = KeyOf[call[d].event] /\ q = quantity[k]
        BY <1>1, <1>4, <2>4 DEF FindDuplicate, At, MyKey, Call
      <3>2. k \in Key /\ Shown(k, q)
        BY <3>1, DuplicateIsShown
      <3> QED
        BY <3>2, ShownStays
    <2>5. CASE CommitStep(d)
      <3>1. PICK stage \in {"sync", "done", "transient"} : Commit(d, stage)
        BY <2>5 DEF CommitStep
      <3>2. q = After(d) /\ k = MyKey(d)
        BY <1>1, <1>4, <3>1 DEF Commit, MyKey, Call
      <3> QED
        BY <2>5, <3>1, <3>2, CommitIsShown
    <2>6. ASSUME NoTableStep(d) \/ RollbackStep(d) \/ LockStep(d)
          PROVE  FindDuplicate(d)
      <3> USE <1>1, <1>4 DEF MoveTo, NoCall, Call
      <3>1. CASE (\E e \in Event : Start(d, e)) \/ Return(d) \/ Abort(d)
        BY <3>1 DEF Start, Return, Abort
      <3>2. CASE FindNoDuplicate(d) \/ FindNoRow(d) \/ InsertConflict(d)
        BY <3>2 DEF FindNoDuplicate, FindNoRow, InsertConflict
      <3>3. CASE SyncCache(d) \/ CacheError(d)
        BY <3>3 DEF SyncCache, CacheError
      <3>4. CASE RejectNegative(d) \/ CommitConflict(d) \/ DatabaseError(d)
        BY <3>4 DEF RejectNegative, CommitConflict, DatabaseError
      <3>5. CASE LockStep(d)
        BY <3>5 DEF LockStep, LockRow, InsertRow
      <3> QED
        BY <2>6, <3>1, <3>2, <3>3, <3>4, <3>5 DEF NoTableStep, RollbackStep
    <2> QED
      BY <2>1, <2>2, <2>3, <2>4, <2>5, <2>6, ActionCases
  <1> QED
    BY <1>3, <1>4 DEF CacheInv, At, MyKey, Shown

\* No quantity of a transaction that was rolled back ever reaches the cache: what
\* SET writes was committed, or was read under an event that had been.
THEOREM CacheIsHonest == ServiceSpec => []CacheShowsHistory
  <1>1. ServiceInit => CacheInv
    BY DEF ServiceInit, CacheInv, CacheShowsHistory, At, NoCall
  <1>2. ServiceInv /\ CacheInv /\ [ServiceNext]_serviceVars => CacheInv'
    BY CacheStep
  <1>3. CacheInv => CacheShowsHistory
    BY DEF CacheInv
  <1> QED
    BY <1>1, <1>2, <1>3, ServiceInvariant, PTL DEF ServiceSpec

-----------------------------------------------------------------------------
(* What the history holds. *)

\* Every quantity that a row has had fits its column, and is not negative.
HistoryInRange ==
  \A k \in Key : \A i \in DOMAIN history[k] : history[k][i].after \in 0 .. MaxQuantity

LEMMA RangeInit == ServiceInit => HistoryInRange
  BY EmptySeq DEF ServiceInit, StoreInit, HistoryInRange

LEMMA RangeStep ==
  ASSUME ServiceInv, HistoryInRange, [ServiceNext]_serviceVars
  PROVE  HistoryInRange'
  <1>1. CASE UNCHANGED history
    BY <1>1 DEF HistoryInRange
  <1>2. ASSUME NEW c \in Client, CommitStep(c)
        PROVE  HistoryInRange'
    <2> DEFINE k == MyKey(c)
               e == call[c].event
               new == [event |-> e, before |-> quantity[k],
                       after |-> quantity[k] + Delta[e], delta |-> Delta[e]]
    <2>1. /\ k \in Key /\ e \in Event /\ Delta[e] \in Int
          /\ quantity[k] \in Int
          /\ quantity[k] + Delta[e] \in 0 .. MaxQuantity
          /\ WriteChange(k, e, quantity[k], Delta[e])
      BY <1>2, CommitEffect
    <2>2. new \in Entry /\ new.after \in 0 .. MaxQuantity
      BY <2>1 DEF Entry
    <2>3. history \in [Key -> Seq(Entry)]
      BY DEF ServiceInv, LockInv, ServiceTypeOK, StoreTypeOK
    <2>4. history' = [history EXCEPT ![k] = Append(history[k], new)]
      BY <2>1 DEF WriteChange
    <2> HIDE DEF new, k
    <2>5. ASSUME NEW l \in Key, NEW i \in DOMAIN history'[l]
          PROVE  history'[l][i].after \in 0 .. MaxQuantity
      <3>1. CASE l # k
        BY <2>1, <2>3, <2>4, <2>5, <3>1 DEF HistoryInRange
      <3>2. CASE l = k
        <4> DEFINE n == Len(history[k])
        <4>1. history'[l] = Append(history[k], new)
          BY <2>1, <2>3, <2>4, <3>2
        <4>2. /\ n \in Nat /\ DOMAIN history[k] = 1 .. n
              /\ DOMAIN history'[l] = 1 .. n + 1 /\ history'[l][n + 1] = new
              /\ \A j \in 1 .. n : history'[l][j] = history[k][j]
          BY <2>1, <2>2, <2>3, <4>1, AppendFacts
        <4> HIDE DEF n
        <4>3. CASE i = n + 1
          BY <2>2, <4>2, <4>3
        <4>4. CASE i # n + 1
          <5>1. i \in 1 .. n
            BY <2>5, <4>2, <4>4
          <5> QED
            BY <2>1, <4>2, <5>1 DEF HistoryInRange
        <4> QED
          BY <4>3, <4>4
      <3> QED
        BY <3>1, <3>2
    <2> QED
      BY <2>5 DEF HistoryInRange
  <1>3. ASSUME NEW c \in Client, Quiet(c) \/ Ends(c) \/ LockStep(c)
        PROVE  UNCHANGED history
    BY <1>3, TablesKept
  <1> QED
    BY <1>1, <1>2, <1>3, StepCases DEF StoreStep, ServiceInv, LockInv, serviceVars, storeVars

\* A change starts from a quantity that the row has had, or from the empty row.
LEMMA BeforeInRange ==
  ASSUME ServiceInv, HistoryInRange, NEW k \in Key, NEW i \in DOMAIN history[k]
  PROVE  history[k][i].before \in 0 .. MaxQuantity
  <1>1. history[k] \in Seq(Entry)
    BY DEF ServiceInv, LockInv, ServiceTypeOK, StoreTypeOK
  <1>2. history[k][i].before = IF i = 1 THEN 0 ELSE history[k][i - 1].after
    BY DEF ServiceInv, TableInv, HistoryChained
  <1>3. i # 1 => i - 1 \in DOMAIN history[k]
    BY <1>1
  <1> QED
    BY <1>2, <1>3, StoreAssumption DEF HistoryInRange

-----------------------------------------------------------------------------
(* Refinement. *)

\* process_event, called by any number of clients at once, behaves as the ledger
\* that applies each event at most once in a single step.
THEOREM LedgerRefinement == ServiceSpec => ImplementsLedger
  <1>1. ServiceInit => Ledger!Init
    BY DEF ServiceInit, StoreInit, Ledger!Init, RecordedEvents, Recorded
  <1>2. ServiceInv /\ [ServiceNext]_serviceVars => [Ledger!Next]_(Ledger!vars)
    <2> SUFFICES ASSUME ServiceInv, [ServiceNext]_serviceVars
                 PROVE  [Ledger!Next]_(Ledger!vars)
      OBVIOUS
    <2>1. CASE UNCHANGED serviceVars
      BY <2>1 DEF serviceVars, storeVars, Ledger!vars, RecordedEvents, Recorded
    <2>2. ASSUME NEW c \in Client, Quiet(c) \/ Ends(c) \/ LockStep(c)
          PROVE  [Ledger!Next]_(Ledger!vars)
      BY <2>2, TablesKept DEF Ledger!vars, RecordedEvents, Recorded
    <2>3. ASSUME NEW c \in Client, CommitStep(c)
          PROVE  [Ledger!Next]_(Ledger!vars)
      <3> DEFINE k == MyKey(c)
                 e == call[c].event
      <3>1. /\ e \in Event /\ k = KeyOf[e] /\ k \in Key
            /\ ~Recorded(e)
            /\ quantity[k] + Delta[e] \in 0 .. MaxQuantity
            /\ WriteChange(k, e, quantity[k], Delta[e])
        BY <2>3, CommitEffect
      <3>2. quantity' = [quantity EXCEPT ![KeyOf[e]] = quantity[KeyOf[e]] + Delta[e]]
        BY <3>1 DEF WriteChange
      <3>3. RecordedEvents' = RecordedEvents \cup {e}
        <4>1. \A f \in Event : Recorded(f)' <=> Recorded(f) \/ f = e
          BY <2>3, CommitRecords
        <4> QED
          BY <3>1, <4>1 DEF RecordedEvents
      <3>4. Ledger!Apply(e)
        BY <3>1, <3>2, <3>3 DEF Ledger!Apply, RecordedEvents
      <3> QED
        BY <3>1, <3>4 DEF Ledger!Next
    <2> QED
      BY <2>1, <2>2, <2>3, StepCases DEF StoreStep, ServiceInv, LockInv
  <1> QED
    BY <1>1, <1>2, ServiceInvariant, PTL DEF ServiceSpec, ImplementsLedger, Ledger!Spec

=============================================================================
