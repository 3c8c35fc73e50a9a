-------------------------- MODULE SalesConsumer_proofs -------------------------
(***************************************************************************)
(* Proofs about SalesConsumer and the SalesService it calls, for any       *)
(* number of workers, restocking clients, records, sales, attempts and     *)
(* failures.                                                               *)
(***************************************************************************)
EXTENDS SalesConsumer, InventoryTopic_proofs

-----------------------------------------------------------------------------
(* SalesService.process_event takes steps of the same kinds as              *)
(* InventoryService.process_event.                                         *)

\* The steps of a sale that leave the tables and the locks alone.
SaleLooks(c) == FindSale(c) \/ FindNoSale(c) \/ FindNoProduct(c)

\* Those that end it without a sale.
SaleEnds(c) == FindTooLittle(c) \/ SaleConflict(c) \/ SaleError(c)

\* Those that make the sale.
SaleMade(c) == RecordSale(c, "done") \/ RecordSale(c, "transient")

SaleStep(c) == ProceedSale(c) \/ FailSale(c)

LEMMA SaleStepCases ==
  ASSUME NEW c, SaleStep(c)
  PROVE  SaleLooks(c) \/ SaleEnds(c) \/ LockStock(c) \/ SaleMade(c)
  BY DEF SaleStep, ProceedSale, FailSale, SaleLooks, SaleEnds, SaleMade

LEMMA SaleStepIsStoreStep ==
  ASSUME ServiceTypeOK, NEW c \in Client, SaleStep(c)
  PROVE  /\ StoreStep(c) /\ ServiceTypeOK'
         /\ OthersWait(c)
         /\ call[c].stage # "idle" /\ call'[c].stage # "idle"
         /\ call'[c].event = call[c].event
         /\ cache' = cache
  <1> USE DEF At, MoveTo
  <1>1. /\ call \in [Client -> Call] /\ lock \in [Key -> Client \cup {Nobody}]
        /\ \A d \in Client : call[d].event = NoEvent => call[d].stage = "idle"
    BY DEF ServiceTypeOK, StoreTypeOK
  <1>2. CASE SaleLooks(c)
    <2> USE <1>1 DEF SaleLooks, Call, Stage
    <2>1. UNCHANGED <<storeVars, cache>> /\ call[c].stage \in {"lookup", "lock"}
      BY <1>2 DEF FindSale, FindNoSale, FindNoProduct
    <2>2. /\ call'[c].stage \in {"done", "lock", "rejected"}
          /\ call'[c].event = call[c].event
          /\ OthersWait(c)
          /\ call' \in [Client -> Call]
      <3> USE DEF OthersWait
      <3>1. CASE FindSale(c)
        <4>1. [call[c] EXCEPT !.stage = "done", !.duplicate = TRUE] \in Call
          OBVIOUS
        <4> QED
          BY <3>1, <4>1 DEF FindSale
      <3>2. CASE FindNoSale(c)
        BY <3>2 DEF FindNoSale
      <3>3. CASE FindNoProduct(c)
        BY <3>3 DEF FindNoProduct
      <3> QED
        BY <1>2, <3>1, <3>2, <3>3
    <2>3. ServiceTypeOK'
      BY <2>1, <2>2 DEF ServiceTypeOK, StoreTypeOK, storeVars, OthersWait
    <2>4. Quiet(c)
      BY <2>1, <2>2 DEF Quiet
    <2> QED
      BY <2>1, <2>2, <2>3, <2>4 DEF StoreStep
  <1>3. CASE SaleEnds(c)
    <2> USE <1>1 DEF SaleEnds, Call, Stage
    <2>1. /\ UNCHANGED <<rows, quantity, history, cache>> /\ Release(c)
          /\ call[c].stage \in InTransaction
      BY <1>3 DEF FindTooLittle, RejectNegative, SaleConflict, SaleError, DatabaseError,
                  InTransaction
    <2>2. /\ call'[c].stage \in {"transient", "rejected"}
          /\ call'[c].event = call[c].event
          /\ OthersWait(c)
          /\ call' \in [Client -> Call]
      BY <1>3 DEF FindTooLittle, RejectNegative, SaleConflict, SaleError, DatabaseError,
                  OthersWait
    <2>3. lock' \in [Key -> Client \cup {Nobody}]
      BY <2>1 DEF Release
    <2>4. ServiceTypeOK'
      BY <2>1, <2>2, <2>3 DEF ServiceTypeOK, StoreTypeOK, OthersWait, InTransaction
    <2>5. Ends(c)
      BY <2>1, <2>2 DEF Ends
    <2> QED
      BY <2>1, <2>2, <2>4, <2>5 DEF StoreStep, InTransaction
  <1>4. CASE LockStock(c)
    <2>1. LockStep(c)
      BY <1>4 DEF LockStock, LockStep
    <2>2. ServiceTypeOK'
      BY <2>1, LockTypes
    <2>3. /\ OthersWait(c) /\ call[c].stage = "lock" /\ call'[c].stage = "apply"
          /\ call'[c].event = call[c].event /\ cache' = cache
      BY <1>1, <1>4 DEF LockStock, LockRow, OthersWait, Call
    <2> QED
      BY <2>1, <2>2, <2>3 DEF StoreStep
  <1>5. CASE SaleMade(c)
    <2>1. CommitStep(c)
      BY <1>5 DEF SaleMade, RecordSale, CommitStep
    <2>2. ServiceTypeOK'
      BY <2>1, CommitTypes
    <2>3. /\ OthersWait(c) /\ call[c].stage = "apply"
          /\ call'[c].stage \in {"done", "transient"}
          /\ call'[c].event = call[c].event /\ cache' = cache
      BY <1>1, <1>5 DEF SaleMade, RecordSale, Commit, OthersWait, Call
    <2> QED
      BY <2>1, <2>2, <2>3 DEF StoreStep
  <1> QED
    BY <1>2, <1>3, <1>4, <1>5, SaleStepCases

LEMMA SaleStepKeeps ==
  ASSUME ServiceInv, NEW c \in Client, SaleStep(c)
  PROVE  ServiceInv'
  <1>1. /\ StoreStep(c) /\ ServiceTypeOK' /\ OthersWait(c)
        /\ call'[c].stage # "idle"
    BY SaleStepIsStoreStep DEF ServiceInv, LockInv
  <1>2. IdleHasNoCall'
    BY <1>1 DEF IdleHasNoCall, ServiceInv, OthersWait, At
  <1> QED
    BY <1>1, <1>2, StoreStepKeeps

-----------------------------------------------------------------------------
(* The inductive invariant. *)

\* The event that a worker's record asks for.
EventOf(w) == MessageOf(rec[w]).event

\* The record's sale is in the table.
SoldRecord(r) == MessageOf(r).event \in SaleEvent /\ Sold(SaleOf[MessageOf(r).event])

\* Records that need no further delivery.
AccountedRecords == {r \in Record : r \in dlq \cup lost \/ SoldRecord(r)}

\* Where a worker has a record in hand that is not accounted for.
InHand == {"validate", "attempt", "call", "publish"}

\* What a worker knows of the record in its hand, by where it is.
HandOK(w) ==
  /\ pc[w] \notin {"poll", "down"} => rec[w] \in Record
  /\ pc[w] \in {"attempt", "call"} => EventOf(w) \in SaleEvent
  /\ IF pc[w] = "call" THEN call[w].stage # "idle" /\ call[w].event = EventOf(w)
     ELSE call[w].stage = "idle"
  /\ At(w, "done") => Sold(MySale(w))
  /\ pc[w] = "commit" => rec[w] \in AccountedRecords

\* A worker's positions are past no record that is neither accounted for nor in
\* its hand.
ReachedOK(w) ==
  \A r \in Record :
    r[1] \in assigned[w] /\ r[2] <= position[w][r[1]] =>
      r \in AccountedRecords \/ (pc[w] \in InHand /\ r = rec[w])

\* While nothing has failed, a second attempt is made only for a sale that is in
\* the table, and finds it there.
ContendOK(w) ==
  faults = 0 =>
    /\ At(w, "transient") => Sold(MySale(w))
    /\ attempt[w] > 1 =>
         /\ pc[w] \in {"attempt", "call", "commit"}
         /\ pc[w] \in {"attempt", "call"} => Sold(SaleOf[EventOf(w)])
         /\ pc[w] = "call" => call[w].stage \in {"lookup", "done"}

WorkersOK == \A w \in Worker : HandOK(w) /\ ReachedOK(w) /\ ContendOK(w)

PassedOK == \A r \in Record : Passed(r) => r \in AccountedRecords

\* The history and the table of sales tell of the same sales, one event for each.
SalesAgree ==
  /\ \A e \in SaleEvent : Recorded(e) => Sold(SaleOf[e])
  /\ \A e, f \in SaleEvent : Recorded(e) /\ Recorded(f) /\ SaleOf[e] = SaleOf[f] => e = f

RestockersOK == \A c \in Restocker : call[c].event \notin SaleEvent

ConsumerInv ==
  /\ TypeOK /\ ServiceInv /\ GroupInv
  /\ SalesAgree /\ RestockersOK
  /\ WorkersOK /\ PassedOK

-----------------------------------------------------------------------------
(* The kinds of steps. *)

\* A worker's steps outside process_event.
OwnStep(w) ==
  \/ Restart(w) \/ Poll(w) \/ PollPoison(w) \/ Receive(w) \/ IdleExit(w)
  \/ Accept(w) \/ Refuse(w) \/ PublishDeadLetter(w)
  \/ CommitDone(w) \/ CommitRefused(w)
  \/ StopExit(w) \/ MemberExpires(w) \/ PublishError(w) \/ CommitError(w)

\* Its steps in process_event, around it, and its end.
CallStep(w) ==
  \/ CallService(w) \/ ServiceStep(w) \/ ServiceFault(w)
  \/ ServiceDone(w) \/ ServiceTransient(w) \/ ServiceRejected(w)
  \/ Crash(w)

RestockStep(c) == Restock(c) \/ RestockFault(c)

LEMMA NextCases ==
  ASSUME Next
  PROVE  \/ GroupRebalance
         \/ \E w \in Worker : OwnStep(w) \/ CallStep(w)
         \/ \E c \in Restocker : RestockStep(c)
  BY DEF Next, Work, Environment, OwnStep, CallStep, RestockStep

\* The services see nothing of a worker's own steps.
LEMMA OwnStepIsOutside ==
  ASSUME NEW w \in Worker, OwnStep(w)
  PROVE  UNCHANGED <<serviceVars, sales>>
  BY DEF OwnStep, Restart, Poll, PollPoison, Receive, IdleExit, Accept, Refuse,
         PublishDeadLetter, CommitDone, CommitRefused, StopExit, MemberExpires,
         PublishError, CommitError, tableVars

\* Outside of SalesService, a step is one of InventoryService, or of neither.
LEMMA StepIsServiceStep ==
  ASSUME ConsumerInv, [Next]_vars
  PROVE  \/ [ServiceNext]_serviceVars /\ UNCHANGED sales
         \/ \E w \in Worker : w \in Client /\ SaleStep(w)
  <1>0. Worker \subseteq Client /\ Restocker \subseteq Client
    BY TopicAssumption DEF Restocker
  <1>1. CASE UNCHANGED vars
    BY <1>1 DEF vars, tableVars
  <1>2. CASE GroupRebalance
    BY <1>2 DEF GroupRebalance, tableVars
  <1>3. ASSUME NEW w \in Worker, OwnStep(w)
        PROVE  UNCHANGED <<serviceVars, sales>>
    BY <1>3, OwnStepIsOutside
  <1>4. ASSUME NEW w \in Worker, CallStep(w)
        PROVE  SaleStep(w) \/ ([ServiceNext]_serviceVars /\ UNCHANGED sales)
    <2>1. CASE CallService(w)
      <3>1. EventOf(w) \in Event
        BY <2>1, SalesAssumption DEF CallService, ConsumerInv, WorkersOK, HandOK,
                                     SaleEvent
      <3> QED
        BY <1>0, <2>1, <3>1 DEF CallService, ServiceNext, EventOf
    <2>2. CASE ServiceStep(w) \/ ServiceFault(w)
      BY <2>2 DEF ServiceStep, ServiceFault, SaleStep
    <2>3. CASE ServiceDone(w) \/ ServiceTransient(w) \/ ServiceRejected(w)
      BY <1>0, <2>3 DEF ServiceDone, ServiceTransient, ServiceRejected, ServiceNext
    <2>4. CASE Crash(w)
      BY <1>0, <2>4, CrashIsAbort DEF Crash, ConsumerInv
    <2> QED
      BY <1>4, <2>1, <2>2, <2>3, <2>4 DEF CallStep
  <1>5. ASSUME NEW c \in Restocker, RestockStep(c)
        PROVE  ServiceNext /\ UNCHANGED sales
    BY <1>0, <1>5 DEF RestockStep, Restock, RestockFault, ServiceNext
  <1> QED
    BY <1>0, <1>1, <1>2, <1>3, <1>4, <1>5, NextCases

LEMMA ServiceKept ==
  ASSUME ConsumerInv, [Next]_vars
  PROVE  ServiceInv'
  BY StepIsServiceStep, ServiceInvStep, SaleStepKeeps DEF ConsumerInv

\* What a step is to the group.
LEMMA StepIsGroupStep ==
  ASSUME ConsumerInv, NEW w \in Worker, OwnStep(w) \/ CallStep(w)
  PROVE  GroupStep(w)
  <1>1. CASE \/ Restart(w) \/ Accept(w) \/ Refuse(w) \/ PublishDeadLetter(w)
             \/ CommitRefused(w) \/ PublishError(w)
    BY <1>1 DEF Restart, Accept, Refuse, PublishDeadLetter, CommitRefused,
         PublishError, GroupStep
  <1>2. CASE PollPoison(w) \/ IdleExit(w) \/ StopExit(w) \/ Crash(w)
    BY <1>2 DEF PollPoison, IdleExit, StopExit, Crash, Exit, GroupStep
  <1>3. CASE Poll(w) \/ MemberExpires(w)
    BY <1>3 DEF Poll, MemberExpires, GroupStep
  <1>4. CASE Receive(w)
    <2>1. PICK p \in Buffered(w) : HandOut(w, p)
      BY <1>4 DEF Receive
    <2>2. p \in Partition
      BY <2>1 DEF Buffered, ConsumerInv, GroupInv, GroupTypeOK
    <2> QED
      BY <2>1, <2>2 DEF GroupStep
  <1>5. CASE CommitDone(w) \/ CommitError(w)
    BY <1>5 DEF CommitDone, CommitError, GroupStep
  <1>6. CASE CallStep(w) /\ ~Crash(w)
    BY <1>6 DEF CallStep, CallService, ServiceStep, ServiceFault, ServiceDone,
         ServiceTransient, ServiceRejected, GroupStep
  <1> QED
    BY <1>1, <1>2, <1>3, <1>4, <1>5, <1>6 DEF OwnStep

LEMMA GroupKept ==
  ASSUME ConsumerInv, [Next]_vars
  PROVE  GroupInv'
  <1>0. GroupInv
    BY DEF ConsumerInv
  <1>1. CASE UNCHANGED vars
    BY <1>0, <1>1, GroupStutters DEF vars
  <1>2. CASE GroupRebalance
    <2>1. Polling \in SUBSET Worker
      BY DEF Polling
    <2>2. PICK owner : Rebalance(Polling, owner)
      BY <1>2 DEF GroupRebalance
    <2> HIDE DEF Polling
    <2> QED
      BY <1>0, <2>1, <2>2, RebalanceKeeps
  <1>3. ASSUME NEW w \in Worker, OwnStep(w) \/ CallStep(w)
        PROVE  GroupInv'
    BY <1>0, <1>3, StepIsGroupStep, GroupStepKeeps
  <1>4. ASSUME NEW c \in Restocker, RestockStep(c)
        PROVE  GroupInv'
    BY <1>0, <1>4, GroupStutters DEF RestockStep, Restock, RestockFault
  <1> QED
    BY <1>1, <1>2, <1>3, <1>4, NextCases

-----------------------------------------------------------------------------
(* The tables. *)

\* A sale is committed: its deduction, its history row and itself, together.
SaleCommit(w) ==
  /\ CommitStep(w)
  /\ call[w].event \in SaleEvent
  /\ ~Sold(MySale(w))
  /\ AddSale(w)

\* Stock is received: nothing is sold.
RestockCommit(c) ==
  /\ CommitStep(c)
  /\ call[c].event \notin SaleEvent
  /\ UNCHANGED sales

LEMMA TableMoves ==
  ASSUME ConsumerInv, [Next]_vars
  PROVE  \/ UNCHANGED <<rows, quantity, history, sales>>
         \/ \E w \in Worker : w \in Client /\ SaleCommit(w)
         \/ \E c \in Restocker : c \in Client /\ RestockCommit(c)
  <1>0. Worker \subseteq Client /\ Restocker \subseteq Client
    BY TopicAssumption DEF Restocker
  <1>1. CASE UNCHANGED vars
    BY <1>1 DEF vars, tableVars, serviceVars, storeVars
  <1>2. CASE GroupRebalance
    BY <1>2 DEF GroupRebalance, tableVars, serviceVars, storeVars
  <1>3. ASSUME NEW w \in Worker, OwnStep(w)
        PROVE  UNCHANGED <<rows, quantity, history, sales>>
    BY <1>3, OwnStepIsOutside DEF serviceVars, storeVars
  <1>4. ASSUME NEW w \in Worker, CallStep(w), ~SaleCommit(w)
        PROVE  UNCHANGED <<rows, quantity, history, sales>>
    <2>1. CASE \/ CallService(w) \/ ServiceDone(w) \/ ServiceTransient(w)
               \/ ServiceRejected(w) \/ Crash(w)
      BY <2>1 DEF CallService, ServiceDone, ServiceTransient, ServiceRejected, Crash,
                  Start, Return, storeVars
    <2>2. CASE ServiceStep(w) \/ ServiceFault(w)
      <3>1. SaleStep(w) /\ pc[w] = "call"
        BY <2>2 DEF ServiceStep, ServiceFault, SaleStep
      <3>2. CASE SaleLooks(w)
        BY <3>2 DEF SaleLooks, FindSale, FindNoSale, FindNoProduct, storeVars
      <3>3. CASE SaleEnds(w)
        BY <3>3 DEF SaleEnds, FindTooLittle, RejectNegative, SaleConflict, SaleError,
                    DatabaseError
      <3>4. CASE LockStock(w)
        BY <3>4 DEF LockStock, LockRow
      <3>5. CASE SaleMade(w)
        <4>1. CommitStep(w) /\ ~Sold(MySale(w)) /\ AddSale(w)
          BY <3>5 DEF SaleMade, RecordSale, CommitStep, CanSell
        <4>2. call[w].event \in SaleEvent
          BY <3>1 DEF ConsumerInv, WorkersOK, HandOK
        <4> QED
          BY <1>4, <4>1, <4>2 DEF SaleCommit
      <3> QED
        BY <3>1, <3>2, <3>3, <3>4, <3>5, SaleStepCases
    <2> QED
      BY <1>4, <2>1, <2>2 DEF CallStep
  <1>5. ASSUME NEW c \in Restocker, RestockStep(c), ~RestockCommit(c)
        PROVE  UNCHANGED <<rows, quantity, history, sales>>
    <2>1. call \in [Client -> Call] /\ c \in Client /\ call[c].event \notin SaleEvent
      BY <1>0 DEF ConsumerInv, TypeOK, ServiceTypeOK, RestockersOK
    <2>2. /\ UNCHANGED sales
          /\ \/ \E e \in Event : Start(c, e)
             \/ Proceed(c) \/ Fail(c) \/ Abort(c) \/ Return(c)
      BY <1>5 DEF RestockStep, Restock, RestockFault
    <2>3. NoTableStep(c) \/ RollbackStep(c) \/ LockStep(c)
      BY <1>5, <2>1, <2>2, ClientCases DEF RestockCommit
    <2> QED
      BY <2>1, <2>2, <2>3, NoTableStepIsQuiet, RollbackStepEnds, TablesKept
  <1> QED
    BY <1>0, <1>1, <1>2, <1>3, <1>4, <1>5, NextCases

\* What the commit of a sale adds to the tables.
LEMMA SaleCommitFacts ==
  ASSUME ConsumerInv, NEW w \in Client, SaleCommit(w), NEW e, e = call[w].event
  PROVE  /\ e \in SaleEvent /\ e \in Event
         /\ ~Sold(SaleOf[e]) /\ ~Recorded(e)
         /\ \A s : Sold(s)' <=> Sold(s) \/ s = SaleOf[e]
         /\ \A f \in Event : Recorded(f)' <=> Recorded(f) \/ f = e
         /\ sales \subseteq sales'
         /\ sales' \subseteq SaleRow
  <1>1. /\ e \in SaleEvent /\ e \in Event /\ SaleOf[e] \in SaleId
        /\ KeyOf[e] \in Key /\ Delta[e] \in Int /\ Delta[e] < 0
    BY SalesAssumption, ServiceAssumption DEF SaleCommit, SaleEvent
  <1> DEFINE row == [sale |-> SaleOf[e], key |-> KeyOf[e], quantity |-> -Delta[e]]
  <1>2. sales' = sales \cup {row}
    BY DEF SaleCommit, AddSale, MySale, MyKey
  <1>3. row \in SaleRow /\ row.sale = SaleOf[e]
    <2>1. -Delta[e] \in Nat \ {0}
      BY <1>1
    <2> QED
      BY <1>1, <2>1 DEF SaleRow
  <1> HIDE DEF row
  <1>4. \A s : Sold(s)' <=> Sold(s) \/ s = SaleOf[e]
    BY <1>2, <1>3 DEF Sold
  <1>5. ~Sold(SaleOf[e])
    BY DEF SaleCommit, MySale
  <1>6. ~Recorded(e)
    <2>1. ServiceInv /\ CommitStep(w)
      BY DEF ConsumerInv, SaleCommit
    <2> QED
      BY <2>1, CommitEffect
  <1>7. \A f \in Event : Recorded(f)' <=> Recorded(f) \/ f = e
    BY CommitRecords DEF ConsumerInv, SaleCommit
  <1>8. sales' \subseteq SaleRow
    BY <1>2, <1>3 DEF ConsumerInv, TypeOK
  <1> QED
    BY <1>1, <1>2, <1>4, <1>5, <1>6, <1>7, <1>8

\* What the commit of a receipt adds.
LEMMA RestockCommitFacts ==
  ASSUME ConsumerInv, NEW c \in Client, RestockCommit(c), NEW e, e = call[c].event
  PROVE  /\ e \notin SaleEvent /\ e \in Event /\ ~Recorded(e)
         /\ \A f \in Event : Recorded(f)' <=> Recorded(f) \/ f = e
         /\ \A s : Sold(s)' <=> Sold(s)
         /\ sales' = sales
  <1>1. ServiceInv /\ CommitStep(c)
    BY DEF ConsumerInv, RestockCommit
  <1>2. e \in Event /\ ~Recorded(e)
    BY <1>1, CommitEffect
  <1>3. \A f \in Event : Recorded(f)' <=> Recorded(f) \/ f = e
    BY <1>1, CommitRecords
  <1> QED
    BY <1>2, <1>3 DEF RestockCommit, Sold

\* The table of sales is a set of rows that only grows.
LEMMA SalesGrow ==
  ASSUME ConsumerInv, [Next]_vars
  PROVE  /\ sales \subseteq sales' /\ sales' \subseteq SaleRow
         /\ \A s : Sold(s) => Sold(s)'
  <1>1. sales \subseteq sales' /\ sales' \subseteq SaleRow
    <2>1. CASE UNCHANGED <<rows, quantity, history, sales>>
      BY <2>1 DEF ConsumerInv, TypeOK
    <2>2. ASSUME NEW w \in Client, SaleCommit(w)
          PROVE  sales \subseteq sales' /\ sales' \subseteq SaleRow
      BY <2>2, SaleCommitFacts
    <2>3. ASSUME NEW c \in Client, RestockCommit(c)
          PROVE  sales \subseteq sales' /\ sales' \subseteq SaleRow
      BY <2>3 DEF RestockCommit, ConsumerInv, TypeOK
    <2> QED
      BY <2>1, <2>2, <2>3, TableMoves
  <1> QED
    BY <1>1 DEF Sold

\* An event of a sale is recorded with its sale, and a sale is made once.
LEMMA SalesAgreeStep ==
  ASSUME ConsumerInv, [Next]_vars
  PROVE  SalesAgree'
  <1>0. SalesAgree /\ SaleEvent \subseteq Event
    BY SalesAssumption DEF ConsumerInv, SaleEvent
  <1>1. CASE UNCHANGED <<rows, quantity, history, sales>>
    BY <1>0, <1>1 DEF SalesAgree, Recorded, Sold
  <1>2. ASSUME NEW w \in Client, SaleCommit(w)
        PROVE  SalesAgree'
    <2> DEFINE e == call[w].event
    <2>1. /\ e \in SaleEvent /\ ~Sold(SaleOf[e])
          /\ \A s : Sold(s)' <=> Sold(s) \/ s = SaleOf[e]
          /\ \A f \in Event : Recorded(f)' <=> Recorded(f) \/ f = e
      BY <1>2, SaleCommitFacts
    <2> HIDE DEF e
    <2>2. \A f \in SaleEvent : Recorded(f)' => Sold(SaleOf[f])'
      BY <1>0, <2>1 DEF SalesAgree
    <2>3. ASSUME NEW f \in SaleEvent, NEW g \in SaleEvent,
                 Recorded(f)', Recorded(g)', SaleOf[f] = SaleOf[g]
          PROVE  f = g
      BY <1>0, <2>1, <2>3 DEF SalesAgree
    <2> QED
      BY <2>2, <2>3 DEF SalesAgree
  <1>3. ASSUME NEW c \in Client, RestockCommit(c)
        PROVE  SalesAgree'
    <2> DEFINE e == call[c].event
    <2>1. /\ e \notin SaleEvent
          /\ \A f \in Event : Recorded(f)' <=> Recorded(f) \/ f = e
          /\ \A s : Sold(s)' <=> Sold(s)
      BY <1>3, RestockCommitFacts
    <2> HIDE DEF e
    <2>2. \A f \in SaleEvent : Recorded(f)' <=> Recorded(f)
      BY <1>0, <2>1
    <2> QED
      BY <1>0, <2>1, <2>2 DEF SalesAgree
  <1> QED
    BY <1>1, <1>2, <1>3, TableMoves

-----------------------------------------------------------------------------
(* The workers and the restocking clients. *)

\* Dead letters are not taken back, and failures are counted.
LEMMA LettersGrow ==
  ASSUME [Next]_vars
  PROVE  /\ dlq \subseteq dlq' /\ lost \subseteq lost'
         /\ UNCHANGED faults \/ Fault
  <1>1. CASE UNCHANGED vars
    BY <1>1 DEF vars, letterVars
  <1>2. CASE GroupRebalance
    BY <1>2 DEF GroupRebalance, letterVars
  <1>3. ASSUME NEW w \in Worker, OwnStep(w)
        PROVE  /\ dlq \subseteq dlq' /\ lost \subseteq lost'
               /\ UNCHANGED faults \/ Fault
    BY <1>3 DEF OwnStep, Restart, Poll, PollPoison, Receive, IdleExit, Accept, Refuse,
         PublishDeadLetter, CommitDone, CommitRefused, StopExit, MemberExpires,
         PublishError, CommitError, letterVars
  <1>4. ASSUME NEW w \in Worker, CallStep(w)
        PROVE  /\ dlq \subseteq dlq' /\ lost \subseteq lost'
               /\ UNCHANGED faults \/ Fault
    BY <1>4 DEF CallStep, CallService, ServiceStep, ServiceFault, ServiceDone,
         ServiceTransient, ServiceRejected, Crash, letterVars
  <1>5. ASSUME NEW c \in Restocker, RestockStep(c)
        PROVE  /\ dlq \subseteq dlq' /\ lost \subseteq lost'
               /\ UNCHANGED faults \/ Fault
    BY <1>5 DEF RestockStep, Restock, RestockFault, letterVars
  <1> QED
    BY <1>1, <1>2, <1>3, <1>4, <1>5, NextCases

\* A record that is accounted for stays so.
LEMMA AccountsGrow ==
  ASSUME ConsumerInv, [Next]_vars
  PROVE  AccountedRecords \subseteq AccountedRecords'
  BY SalesGrow, LettersGrow DEF AccountedRecords, SoldRecord

\* What worker v knows does not depend on the steps of others.
Untouched(v) ==
  /\ pc'[v] = pc[v] /\ rec'[v] = rec[v] /\ attempt'[v] = attempt[v]
  /\ call'[v] = call[v]
  /\ assigned'[v] = assigned[v] /\ position'[v] = position[v]

LEMMA UntouchedStaysOK ==
  ASSUME ConsumerInv, [Next]_vars, NEW v \in Worker, Untouched(v)
  PROVE  HandOK(v)' /\ ReachedOK(v)' /\ ContendOK(v)'
  <1>1. HandOK(v) /\ ReachedOK(v) /\ ContendOK(v)
    BY DEF ConsumerInv, WorkersOK
  <1>2. /\ AccountedRecords \subseteq AccountedRecords'
        /\ \A s : Sold(s) => Sold(s)'
    BY AccountsGrow, SalesGrow
  <1>3. faults' = 0 => faults = 0
    BY LettersGrow DEF Fault, ConsumerInv, TypeOK
  <1>4. At(v, "done")' = At(v, "done") /\ At(v, "transient")' = At(v, "transient")
    BY DEF Untouched, At
  <1>5. MySale(v)' = MySale(v) /\ EventOf(v)' = EventOf(v)
    BY DEF Untouched, MySale, EventOf
  <1>6. (Sold(MySale(v)) => Sold(MySale(v))')
        /\ (Sold(SaleOf[EventOf(v)]) => Sold(SaleOf[EventOf(v)])')
    BY <1>2, <1>5 DEF Sold
  <1>7. HandOK(v)'
    BY <1>1, <1>2, <1>4, <1>5, <1>6 DEF HandOK, Untouched
  <1>8. ReachedOK(v)'
    BY <1>1, <1>2 DEF ReachedOK, Untouched
  <1>9. ContendOK(v)'
    BY <1>1, <1>3, <1>4, <1>5, <1>6 DEF ContendOK, Untouched
  <1> QED
    BY <1>7, <1>8, <1>9

\* What the steps below have in common: the types that they start from.
WorkerTypes ==
  /\ call \in [Client -> Call]
  /\ pc = [u \in Worker |-> pc[u]]
  /\ rec = [u \in Worker |-> rec[u]]
  /\ attempt \in [Worker -> 0 .. MaxAttempts]
  /\ assigned \in [Worker -> SUBSET Partition]
  /\ position = [u \in Worker |-> position[u]]
  /\ Worker \subseteq Client

LEMMA WorkerTypesHold ==
  ASSUME ConsumerInv
  PROVE  WorkerTypes
  BY TopicAssumption DEF ConsumerInv, TypeOK, ServiceTypeOK, GroupTypeOK, WorkerTypes

\* No step of a worker moves the call of another client.
LEMMA OthersWaitForWorker ==
  ASSUME ConsumerInv, NEW w \in Worker, OwnStep(w) \/ CallStep(w)
  PROVE  OthersWait(w)
  <1>1. WorkerTypes
    BY WorkerTypesHold
  <1>2. CASE OwnStep(w)
    BY <1>2, OwnStepIsOutside DEF serviceVars, OthersWait
  <1>3. CASE ServiceStep(w) \/ ServiceFault(w)
    BY <1>1, <1>3, SaleStepIsStoreStep DEF WorkerTypes, ServiceStep, ServiceFault,
       SaleStep, ConsumerInv, TypeOK
  <1>4. CASE \/ CallService(w) \/ ServiceDone(w) \/ ServiceTransient(w)
             \/ ServiceRejected(w) \/ Crash(w)
    BY <1>1, <1>4 DEF WorkerTypes, CallService, ServiceDone, ServiceTransient,
         ServiceRejected, Crash, Start, Return, OthersWait
  <1> QED
    BY <1>2, <1>3, <1>4 DEF CallStep

LEMMA OthersUntouched ==
  ASSUME ConsumerInv, NEW w \in Worker, OwnStep(w) \/ CallStep(w),
         NEW v \in Worker, v # w
  PROVE  Untouched(v)
  <1>0. WorkerTypes
    BY WorkerTypesHold
  <1>1. pc'[v] = pc[v] /\ rec'[v] = rec[v] /\ attempt'[v] = attempt[v]
    <2> USE <1>0 DEF WorkerTypes, Goto, NextMessage, Exit, workerVars
    <2>1. CASE OwnStep(w)
      BY <2>1 DEF OwnStep, Restart, Poll, PollPoison, Receive, IdleExit, Accept,
           Refuse, PublishDeadLetter, CommitDone, CommitRefused, StopExit,
           MemberExpires, PublishError, CommitError
    <2>2. CASE CallStep(w)
      BY <2>2 DEF CallStep, CallService, ServiceStep, ServiceFault, ServiceDone,
           ServiceTransient, ServiceRejected, Crash
    <2> QED
      BY <2>1, <2>2
  <1>2. call'[v] = call[v]
    BY <1>0, OthersWaitForWorker DEF OthersWait, WorkerTypes
  <1>3. assigned'[v] = assigned[v] /\ position'[v] = position[v]
    BY StepIsGroupStep, OthersKeepPlace DEF ConsumerInv
  <1> QED
    BY <1>1, <1>2, <1>3 DEF Untouched

\* A restocking client moves no other call, and asks for no sale.
LEMMA RestockStepFacts ==
  ASSUME ConsumerInv, NEW c \in Restocker, RestockStep(c)
  PROVE  OthersWait(c) /\ call'[c].event \notin SaleEvent
  <1>0. /\ call \in [Client -> Call] /\ c \in Client /\ call[c].event \notin SaleEvent
        /\ NoEvent \notin SaleEvent
    BY SalesAssumption, ServiceAssumption
       DEF ConsumerInv, TypeOK, ServiceTypeOK, RestockersOK, Restocker, SaleEvent
  <1>1. ASSUME NEW e \in Event \ SaleEvent, Start(c, e)
        PROVE  OthersWait(c) /\ call'[c].event \notin SaleEvent
    BY <1>0, <1>1 DEF Start, OthersWait
  <1>2. CASE Proceed(c) \/ Fail(c)
    BY <1>0, <1>2, CallGoesOn DEF ConsumerInv, TypeOK
  <1>3. CASE Return(c) \/ Abort(c)
    BY <1>0, <1>3 DEF Return, Abort, NoCall, OthersWait
  <1> QED
    BY <1>1, <1>2, <1>3 DEF RestockStep, Restock, RestockFault

LEMMA RestockersKept ==
  ASSUME ConsumerInv, [Next]_vars
  PROVE  RestockersOK'
  <1> SUFFICES ASSUME NEW c \in Restocker
               PROVE  call'[c].event \notin SaleEvent
    BY DEF RestockersOK
  <1>0. c \in Client /\ c \notin Worker /\ call[c].event \notin SaleEvent
    BY DEF Restocker, ConsumerInv, RestockersOK
  <1>1. CASE UNCHANGED vars
    BY <1>0, <1>1 DEF vars, tableVars, serviceVars
  <1>2. CASE GroupRebalance
    BY <1>0, <1>2 DEF GroupRebalance, tableVars, serviceVars
  <1>3. ASSUME NEW w \in Worker, OwnStep(w) \/ CallStep(w)
        PROVE  call'[c].event \notin SaleEvent
    BY <1>0, <1>3, OthersWaitForWorker DEF OthersWait
  <1>4. ASSUME NEW d \in Restocker, RestockStep(d)
        PROVE  call'[c].event \notin SaleEvent
    BY <1>0, <1>4, RestockStepFacts DEF OthersWait
  <1> QED
    BY <1>1, <1>2, <1>3, <1>4, NextCases

-----------------------------------------------------------------------------
(* The worker that takes a step. *)

\* A worker that keeps its place in the partitions is past nothing new.
LEMMA StaysReached ==
  ASSUME ConsumerInv, [Next]_vars, NEW w \in Worker,
         assigned'[w] = assigned[w], position'[w] = position[w],
         pc[w] \in InHand =>
           \/ pc'[w] \in InHand /\ rec'[w] = rec[w]
           \/ rec[w] \in AccountedRecords'
  PROVE  ReachedOK(w)'
  <1>1. ReachedOK(w) /\ AccountedRecords \subseteq AccountedRecords'
    BY AccountsGrow DEF ConsumerInv, WorkersOK
  <1> QED
    BY <1>1 DEF ReachedOK

\* A worker that ends holds nothing and owns nothing.
LEMMA ExitOK ==
  ASSUME ConsumerInv, NEW w \in Worker, Exit(w), call'[w].stage = "idle"
  PROVE  HandOK(w)' /\ ReachedOK(w)' /\ ContendOK(w)'
  <1>1. pc'[w] = "down" /\ assigned'[w] = {} /\ attempt'[w] = 0
    BY WorkerTypesHold DEF WorkerTypes, Exit, Goto, Leave
  <1>2. HandOK(w)'
    BY <1>1 DEF HandOK, At
  <1>3. ReachedOK(w)'
    BY <1>1 DEF ReachedOK
  <1>4. ContendOK(w)'
    BY <1>1 DEF ContendOK, At
  <1> QED
    BY <1>2, <1>3, <1>4

\* A record that is handed out is the next one, and comes into the hand.
LEMMA ReceiveOK ==
  ASSUME ConsumerInv, [Next]_vars, NEW w \in Worker, Receive(w)
  PROVE  HandOK(w)' /\ ReachedOK(w)' /\ ContendOK(w)'
  <1>1. PICK p \in Buffered(w) :
          HandOut(w, p) /\ rec' = [rec EXCEPT ![w] = <<p, position[w][p] + 1>>]
    BY DEF Receive
  <1>2. p \in Partition /\ p \in assigned[w]
    BY <1>1 DEF Buffered, ConsumerInv, GroupInv, GroupTypeOK
  <1>3. <<p, position[w][p] + 1>> \in Record
    BY <1>1, <1>2, HandedOut DEF ConsumerInv
  <1>4. /\ pc[w] = "poll" /\ pc'[w] = "validate"
        /\ rec'[w] = <<p, position[w][p] + 1>>
        /\ assigned' = assigned /\ attempt' = attempt
        /\ call' = call /\ faults' = faults
        /\ position'[w] = [position[w] EXCEPT ![p] = position[w][p] + 1]
    BY <1>1, WorkerTypesHold DEF WorkerTypes, Receive, Goto, HandOut, tableVars,
                                 serviceVars
  <1>5. call[w].stage = "idle" /\ (faults = 0 => ~(attempt[w] > 1))
    BY <1>4 DEF ConsumerInv, WorkersOK, HandOK, ContendOK
  <1>6. HandOK(w)' /\ ContendOK(w)'
    BY <1>3, <1>4, <1>5 DEF HandOK, ContendOK, At
  <1>7. ReachedOK(w)'
    <2> SUFFICES ASSUME NEW r \in Record,
                        r[1] \in assigned'[w], r[2] <= position'[w][r[1]]
                 PROVE  r \in AccountedRecords' \/ r = rec'[w]
      BY <1>4 DEF ReachedOK, InHand
    <2>1. /\ r[1] \in Partition /\ r[2] \in Nat /\ r = <<r[1], r[2]>>
          /\ r[1] \in assigned[w]
      BY <1>4, RecordFacts
    <2>2. position[w] \in [Partition -> Nat]
      BY OffsetsAreCounts DEF ConsumerInv, GroupInv, GroupTypeOK
    <2>3. CASE r[2] <= position[w][r[1]]
      <3>1. r \in AccountedRecords
        BY <1>4, <2>1, <2>3 DEF ConsumerInv, WorkersOK, ReachedOK, InHand
      <3> QED
        BY <3>1, AccountsGrow
    <2>4. CASE ~(r[2] <= position[w][r[1]])
      <3>1. r[1] = p /\ r[2] = position[w][p] + 1
        BY <1>4, <2>1, <2>2, <2>4
      <3> QED
        BY <1>4, <2>1, <3>1
    <2> QED
      BY <2>3, <2>4
  <1> QED
    BY <1>6, <1>7

\* What a valid record of the sales topic asks for is a sale.
LEMMA ValidIsSale ==
  ASSUME NEW r \in Record, MayBeValid(r)
  PROVE  MessageOf(r).event \in SaleEvent
  <1>1. PICK p \in Partition : r \in {p} \X DOMAIN Log[p]
    BY DEF Record
  <1>2. MessageOf(r).event \in SaleEvent \cup {NoEvent}
    BY <1>1, SalesConsumerAssumption DEF MessageOf
  <1> QED
    BY <1>2, RecordFacts, ServiceAssumption

\* The steps that leave the record where it is and the group alone.
HoldStep(w) == Accept(w) \/ Refuse(w) \/ PublishDeadLetter(w) \/ PublishError(w)

LEMMA HoldOK ==
  ASSUME ConsumerInv, [Next]_vars, NEW w \in Worker, HoldStep(w)
  PROVE  HandOK(w)' /\ ReachedOK(w)' /\ ContendOK(w)'
  <1>1. WorkerTypes /\ HandOK(w) /\ ContendOK(w)
    BY WorkerTypesHold DEF ConsumerInv, WorkersOK
  <1>2. /\ UNCHANGED <<call, sales, assigned, position, rec>>
        /\ pc[w] \in {"validate", "publish"}
    BY DEF HoldStep, Accept, Refuse, PublishDeadLetter, PublishError, tableVars,
           serviceVars, groupVars
  <1>3. /\ call'[w].stage = "idle" /\ rec'[w] = rec[w] /\ rec[w] \in Record
    BY <1>1, <1>2 DEF HandOK
  <1>4. faults' = 0 => faults = 0
    BY LettersGrow DEF Fault, ConsumerInv, TypeOK
  <1>5. CASE Accept(w)
    <2>1. EventOf(w) \in SaleEvent /\ pc'[w] = "attempt" /\ attempt'[w] = 1
      BY <1>1, <1>3, <1>5, ValidIsSale DEF WorkerTypes, Accept, Goto, EventOf
    <2>2. HandOK(w)' /\ ContendOK(w)'
      BY <1>2, <1>3, <2>1 DEF HandOK, ContendOK, At, EventOf
    <2> QED
      BY <1>2, <2>1, <2>2, StaysReached DEF InHand
  <1>6. CASE Refuse(w)
    <2>1. pc'[w] = "publish" /\ attempt' = attempt
      BY <1>1, <1>6 DEF WorkerTypes, Refuse, Goto
    <2>2. HandOK(w)' /\ ContendOK(w)'
      BY <1>1, <1>2, <1>3, <1>4, <2>1 DEF HandOK, ContendOK, At
    <2> QED
      BY <1>2, <2>1, <2>2, StaysReached DEF InHand
  <1>7. CASE PublishDeadLetter(w) \/ PublishError(w)
    <2>1. pc'[w] = "commit" /\ attempt' = attempt /\ rec[w] \in dlq' \cup lost'
      BY <1>1, <1>7 DEF WorkerTypes, PublishDeadLetter, PublishError, Goto
    <2>2. rec[w] \in AccountedRecords'
      BY <1>3, <2>1 DEF AccountedRecords
    <2>3. HandOK(w)' /\ ContendOK(w)'
      BY <1>1, <1>2, <1>3, <1>4, <2>1, <2>2 DEF HandOK, ContendOK, At
    <2> QED
      BY <1>2, <2>2, <2>3, StaysReached
  <1> QED
    BY <1>5, <1>6, <1>7 DEF HoldStep

\* The steps with which process_record is over.
OverStep(w) == CommitDone(w) \/ CommitRefused(w) \/ CommitError(w)

LEMMA OverOK ==
  ASSUME ConsumerInv, [Next]_vars, NEW w \in Worker, OverStep(w)
  PROVE  HandOK(w)' /\ ReachedOK(w)' /\ ContendOK(w)'
  <1>1. WorkerTypes /\ HandOK(w)
    BY WorkerTypesHold DEF ConsumerInv, WorkersOK
  <1>2. UNCHANGED <<call, assigned, position>> /\ pc[w] = "commit"
    BY DEF OverStep, CommitDone, CommitRefused, CommitError, tableVars, serviceVars,
           groupVars, CommitPositions
  <1>3. pc'[w] = "poll" /\ attempt'[w] = 0
    BY <1>1 DEF WorkerTypes, OverStep, CommitDone, CommitRefused, CommitError,
                NextMessage, Goto
  <1>4. HandOK(w)' /\ ContendOK(w)'
    BY <1>1, <1>2, <1>3 DEF HandOK, ContendOK, At
  <1>5. ReachedOK(w)'
    BY <1>2, StaysReached DEF InHand
  <1> QED
    BY <1>4, <1>5

-----------------------------------------------------------------------------
(* A worker in SalesService.process_event. *)

\* A sale that can be afforded and breaks an index has been made by another.
LEMMA ConflictIsSold ==
  ASSUME ConsumerInv, NEW w \in Client, SaleConflict(w), call[w].event \in SaleEvent
  PROVE  Sold(MySale(w))
  <1> DEFINE e == call[w].event
             k == MyKey(w)
  <1>1. At(w, "apply") /\ ~(After(w) < 0) /\ ~CanSell(w)
    BY DEF SaleConflict, Negative
  <1>2. /\ call[w].quantity = quantity[k] /\ k \in Key
        /\ Delta[e] \in Int /\ Delta[e] < 0
    BY <1>1, RowInUse, SalesAssumption
       DEF ConsumerInv, ServiceInv, LockInv, LockProtectsRead, At, SaleEvent
  <1>3. quantity[k] \in 0 .. MaxQuantity /\ MaxQuantity \in Nat
    BY <1>2, StoreAssumption DEF ConsumerInv, ServiceInv, TableInv, StockInRange
  <1>4. After(w) = quantity[k] + Delta[e]
    BY <1>2 DEF After
  <1> HIDE DEF e, k
  <1>5. After(w) \in Column
    BY <1>1, <1>2, <1>3, <1>4 DEF Column
  <1>6. Recorded(call[w].event) \/ Sold(MySale(w))
    BY <1>1, <1>5 DEF CanSell, CanCommit
  <1> QED
    BY <1>6 DEF ConsumerInv, SalesAgree, MySale

\* A result is of a sale that is in the table.
LEMMA DoneIsSold ==
  ASSUME ConsumerInv, NEW w \in Worker, SaleStep(w), call'[w].stage = "done",
         NEW s, s = MySale(w)
  PROVE  Sold(s)'
  <1>0. WorkerTypes /\ w \in Client
    BY WorkerTypesHold, TopicAssumption
  <1> USE <1>0 DEF WorkerTypes, MoveTo, Call
  <1>1. ~FindNoSale(w) /\ ~FindNoProduct(w) /\ ~SaleEnds(w) /\ ~LockStock(w)
    <2>1. ~FindNoSale(w) /\ ~FindNoProduct(w)
      BY DEF FindNoSale, FindNoProduct
    <2>2. ~FindTooLittle(w) /\ ~SaleConflict(w) /\ ~SaleError(w)
      BY DEF FindTooLittle, RejectNegative, SaleConflict, SaleError, DatabaseError
    <2>3. ~LockStock(w)
      BY DEF LockStock, LockRow
    <2> QED
      BY <2>1, <2>2, <2>3 DEF SaleEnds
  <1>2. CASE FindSale(w)
    BY <1>2 DEF FindSale, IsDuplicate, Sold
  <1>3. CASE SaleMade(w)
    <2> DEFINE row == [sale |-> MySale(w), key |-> MyKey(w),
                       quantity |-> -Delta[call[w].event]]
    <2>1. row \in sales' /\ row.sale = s
      BY <1>3 DEF SaleMade, RecordSale, AddSale
    <2> QED
      BY <2>1 DEF Sold
  <1> QED
    BY <1>1, <1>2, <1>3, SaleStepCases DEF SaleLooks

\* Without a failure, a sale that has to be tried again is in the table, and one
\* that is in the table is found there.
LEMMA ContendStep ==
  ASSUME ConsumerInv, NEW w \in Worker, ProceedSale(w), call[w].event \in SaleEvent,
         NEW s, s = MySale(w)
  PROVE  /\ call'[w].stage = "transient" => Sold(s)'
         /\ Sold(s) /\ call[w].stage \in {"lookup", "done"} => call'[w].stage = "done"
  <1>0. WorkerTypes /\ w \in Client
    BY WorkerTypesHold, TopicAssumption
  <1> USE <1>0 DEF WorkerTypes, At, MoveTo, Call
  <1>1. CASE FindSale(w)
    BY <1>1 DEF FindSale
  <1>2. CASE FindNoSale(w) \/ FindNoProduct(w)
    BY <1>2 DEF FindNoSale, FindNoProduct, IsDuplicate
  <1>3. CASE LockStock(w) \/ FindTooLittle(w)
    BY <1>3 DEF LockStock, LockRow, FindTooLittle, RejectNegative
  <1>4. CASE SaleConflict(w)
    <2>1. call[w].stage = "apply" /\ sales' = sales /\ Sold(s)
      BY <1>4, ConflictIsSold DEF SaleConflict
    <2> QED
      BY <2>1 DEF Sold
  <1>5. CASE RecordSale(w, "done")
    BY <1>5 DEF RecordSale, Commit
  <1> QED
    BY <1>1, <1>2, <1>3, <1>4, <1>5 DEF ProceedSale

LEMMA CallOK ==
  ASSUME ConsumerInv, [Next]_vars, NEW w \in Worker, CallStep(w)
  PROVE  HandOK(w)' /\ ReachedOK(w)' /\ ContendOK(w)'
  <1>1. /\ WorkerTypes /\ HandOK(w) /\ ContendOK(w) /\ w \in Client
        /\ \A s : Sold(s) => Sold(s)'
    BY WorkerTypesHold, SalesGrow, TopicAssumption DEF ConsumerInv, WorkersOK
  <1>2. CASE Crash(w)
    <2>1. call'[w].stage = "idle"
      BY <1>1, <1>2 DEF WorkerTypes, Crash, NoCall
    <2> QED
      BY <1>2, <2>1, ExitOK DEF Crash
  <1>3. CASE CallService(w)
    <2>1. /\ pc[w] = "attempt" /\ pc'[w] = "call"
          /\ call'[w].stage = "lookup" /\ call'[w].event = EventOf(w)
      BY <1>1, <1>3 DEF WorkerTypes, CallService, Goto, Start, EventOf
    <2>2. UNCHANGED <<assigned, position, rec, attempt, sales, faults>>
      BY <1>3 DEF CallService, groupVars
    <2>3. EventOf(w)' = EventOf(w)
      BY <2>2 DEF EventOf
    <2>4. HandOK(w)'
      BY <1>1, <2>1, <2>2, <2>3 DEF HandOK, At
    <2>5. ContendOK(w)'
      BY <1>1, <2>1, <2>2, <2>3 DEF ContendOK, At, Sold
    <2> QED
      BY <2>1, <2>2, <2>4, <2>5, StaysReached DEF InHand
  <1>4. CASE ServiceStep(w) \/ ServiceFault(w)
    <2>1. SaleStep(w) /\ UNCHANGED <<assigned, position, rec, attempt, pc>>
          /\ pc[w] = "call"
      BY <1>4 DEF ServiceStep, ServiceFault, SaleStep, groupVars, workerVars
    <2>2. call'[w].stage # "idle" /\ call'[w].event = call[w].event
      BY <1>1, <2>1, SaleStepIsStoreStep DEF ConsumerInv, TypeOK
    <2>3. EventOf(w)' = EventOf(w) /\ MySale(w)' = MySale(w)
      BY <2>1, <2>2 DEF EventOf, MySale
    <2>4. HandOK(w)'
      <3>1. call'[w].stage = "done" => Sold(MySale(w))'
        BY <2>1, <2>3, DoneIsSold DEF Sold
      <3> QED
        BY <1>1, <2>1, <2>2, <2>3, <3>1 DEF HandOK, At
    <2>5. ContendOK(w)'
      <3> SUFFICES ASSUME faults' = 0
                   PROVE  ContendOK(w)'
        BY DEF ContendOK
      <3>1. faults = 0 /\ ProceedSale(w)
        BY <1>4 DEF ServiceStep, ServiceFault, Fault, ConsumerInv, TypeOK
      <3>2. call[w].event = EventOf(w) /\ EventOf(w) \in SaleEvent
        BY <1>1, <2>1 DEF HandOK
      <3>3. /\ call'[w].stage = "transient" => Sold(MySale(w))'
            /\ Sold(MySale(w)) /\ call[w].stage \in {"lookup", "done"} =>
                 call'[w].stage = "done"
        BY <2>3, <3>1, <3>2, ContendStep DEF Sold
      <3>4. attempt[w] > 1 => Sold(MySale(w)) /\ call[w].stage \in {"lookup", "done"}
        BY <1>1, <2>1, <3>1, <3>2 DEF ContendOK, MySale
      <3>5. Sold(SaleOf[EventOf(w)]) => Sold(SaleOf[EventOf(w)])'
        BY <1>1, <2>3 DEF Sold
      <3> QED
        BY <1>1, <2>1, <3>1, <3>3, <3>4, <3>5 DEF ContendOK, At
    <2> QED
      BY <2>1, <2>4, <2>5, StaysReached
  <1>5. CASE ServiceDone(w) \/ ServiceTransient(w) \/ ServiceRejected(w)
    <2>1. call'[w].stage = "idle"
      BY <1>1, <1>5 DEF WorkerTypes, ServiceDone, ServiceTransient, ServiceRejected,
                        Return, NoCall
    <2>2. /\ UNCHANGED <<assigned, position, rec, sales, faults>> /\ pc[w] = "call"
          /\ rec'[w] = rec[w] /\ rec[w] \in Record /\ EventOf(w)' = EventOf(w)
      BY <1>1, <1>5 DEF ServiceDone, ServiceTransient, ServiceRejected, groupVars,
                        HandOK, EventOf
    <2>3. call[w].event = EventOf(w) /\ EventOf(w) \in SaleEvent
      BY <1>1, <2>2 DEF HandOK
    <2>4. CASE ServiceDone(w)
      <3>1. pc'[w] = "commit" /\ attempt' = attempt
        BY <1>1, <2>4 DEF WorkerTypes, ServiceDone, Goto
      <3>2. rec[w] \in AccountedRecords'
        <4>1. Sold(SaleOf[EventOf(w)])
          BY <1>1, <2>3, <2>4 DEF ServiceDone, HandOK, MySale
        <4>2. SoldRecord(rec[w])'
          BY <2>2, <2>3, <4>1 DEF SoldRecord, EventOf, Sold
        <4> QED
          BY <2>2, <4>2 DEF AccountedRecords
      <3>3. HandOK(w)' /\ ContendOK(w)'
        BY <2>1, <2>2, <3>1, <3>2 DEF HandOK, ContendOK, At
      <3> QED
        BY <2>2, <3>2, <3>3, StaysReached
    <2>5. CASE ServiceTransient(w)
      <3>1. /\ pc'[w] \in {"attempt", "publish"}
            /\ pc'[w] = "publish" => attempt' = attempt
            /\ At(w, "transient")
        BY <1>1, <2>5 DEF WorkerTypes, ServiceTransient, Goto
      <3>2. HandOK(w)'
        BY <1>1, <2>1, <2>2, <2>3, <3>1 DEF HandOK, At
      <3>3. ContendOK(w)'
        <4> SUFFICES ASSUME faults = 0
                     PROVE  ContendOK(w)'
          BY <2>2 DEF ContendOK
        <4>1. Sold(SaleOf[EventOf(w)])'
          BY <1>1, <2>2, <2>3, <3>1 DEF ContendOK, MySale, Sold
        <4>2. ~(attempt[w] > 1)
          BY <1>1, <2>2, <3>1 DEF ContendOK, At
        <4> QED
          BY <2>1, <3>1, <4>1, <4>2 DEF ContendOK, At
      <3> QED
        BY <2>2, <3>1, <3>2, <3>3, StaysReached DEF InHand
    <2>6. CASE ServiceRejected(w)
      <3>1. /\ pc'[w] = "publish" /\ attempt' = attempt
            /\ call[w].stage = "rejected"
        BY <1>1, <2>6 DEF WorkerTypes, ServiceRejected, Goto, At
      <3>2. faults = 0 => ~(attempt[w] > 1)
        BY <1>1, <2>2, <3>1 DEF ContendOK
      <3>3. HandOK(w)' /\ ContendOK(w)'
        BY <2>1, <2>2, <3>1, <3>2 DEF HandOK, ContendOK, At
      <3> QED
        BY <2>2, <3>1, <3>3, StaysReached DEF InHand
    <2> QED
      BY <1>5, <2>4, <2>5, <2>6
  <1> QED
    BY <1>2, <1>3, <1>4, <1>5, <1>1 DEF CallStep

LEMMA OwnOK ==
  ASSUME ConsumerInv, [Next]_vars, NEW w \in Worker, OwnStep(w)
  PROVE  HandOK(w)' /\ ReachedOK(w)' /\ ContendOK(w)'
  <1>1. WorkerTypes /\ HandOK(w) /\ ContendOK(w) /\ call' = call /\ sales' = sales
    BY WorkerTypesHold, OwnStepIsOutside DEF ConsumerInv, WorkersOK, serviceVars
  <1>2. CASE HoldStep(w) \/ OverStep(w) \/ Receive(w)
    BY <1>2, HoldOK, OverOK, ReceiveOK
  <1>3. CASE PollPoison(w) \/ IdleExit(w) \/ StopExit(w)
    <2>1. Exit(w) /\ pc[w] = "poll"
      BY <1>3 DEF PollPoison, IdleExit, StopExit
    <2>2. call'[w].stage = "idle"
      BY <1>1, <2>1 DEF HandOK
    <2> QED
      BY <2>1, <2>2, ExitOK
  <1>4. CASE Poll(w) \/ MemberExpires(w)
    <2>1. Untouched(w)
      BY <1>1, <1>4 DEF Poll, MemberExpires, Untouched, Fetch, Expire, workerVars
    <2> QED
      BY <2>1, UntouchedStaysOK
  <1>5. CASE Restart(w)
    <2>1. /\ UNCHANGED <<assigned, position, attempt, faults>>
          /\ pc[w] = "down" /\ pc'[w] = "poll"
      BY <1>1, <1>5 DEF WorkerTypes, Restart, Goto, groupVars
    <2>2. HandOK(w)' /\ ContendOK(w)'
      BY <1>1, <2>1 DEF HandOK, ContendOK, At
    <2> QED
      BY <2>1, <2>2, StaysReached DEF InHand
  <1> QED
    BY <1>2, <1>3, <1>4, <1>5 DEF OwnStep, HoldStep, OverStep

\* A rebalance takes the members to the committed offsets, and they have nothing
\* in hand.
LEMMA RebalanceOK ==
  ASSUME ConsumerInv, [Next]_vars, GroupRebalance, NEW w \in Worker
  PROVE  HandOK(w)' /\ ReachedOK(w)' /\ ContendOK(w)'
  <1>1. PICK owner : Rebalance(Polling, owner)
    BY DEF GroupRebalance
  <1>2. UNCHANGED <<pc, rec, attempt, call, sales, faults>>
    BY DEF GroupRebalance, workerVars, tableVars, serviceVars
  <1>3. CASE w \in Polling
    <2>1. position'[w] = committed /\ pc[w] = "poll"
      BY <1>1, <1>3 DEF Rebalance, Polling
    <2>2. /\ HandOK(w) /\ ContendOK(w) /\ PassedOK
          /\ AccountedRecords \subseteq AccountedRecords'
      BY AccountsGrow DEF ConsumerInv, WorkersOK
    <2>3. HandOK(w)' /\ ContendOK(w)'
      BY <1>2, <2>1, <2>2 DEF HandOK, ContendOK, At
    <2>4. ReachedOK(w)'
      BY <2>1, <2>2 DEF ReachedOK, PassedOK, Passed
    <2> QED
      BY <2>3, <2>4
  <1>4. CASE w \notin Polling
    <2>1. Untouched(w)
      BY <1>1, <1>2, <1>4 DEF Rebalance, Untouched
    <2> QED
      BY <2>1, UntouchedStaysOK
  <1> QED
    BY <1>3, <1>4

LEMMA WorkersKept ==
  ASSUME ConsumerInv, [Next]_vars
  PROVE  WorkersOK'
  <1> SUFFICES ASSUME NEW v \in Worker
               PROVE  HandOK(v)' /\ ReachedOK(v)' /\ ContendOK(v)'
    BY DEF WorkersOK
  <1>1. CASE UNCHANGED vars
    <2>1. Untouched(v)
      BY <1>1 DEF vars, Untouched, tableVars, serviceVars, groupVars, workerVars
    <2> QED
      BY <2>1, UntouchedStaysOK
  <1>2. CASE GroupRebalance
    BY <1>2, RebalanceOK
  <1>3. ASSUME NEW w \in Worker, OwnStep(w) \/ CallStep(w)
        PROVE  HandOK(v)' /\ ReachedOK(v)' /\ ContendOK(v)'
    <2>1. CASE v # w
      BY <1>3, <2>1, OthersUntouched, UntouchedStaysOK
    <2>2. CASE v = w
      BY <1>3, <2>2, OwnOK, CallOK
    <2> QED
      BY <2>1, <2>2
  <1>4. ASSUME NEW c \in Restocker, RestockStep(c)
        PROVE  HandOK(v)' /\ ReachedOK(v)' /\ ContendOK(v)'
    <2>1. v # c /\ v \in Client
      BY TopicAssumption DEF Restocker
    <2>2. call'[v] = call[v]
      BY <1>4, <2>1, RestockStepFacts DEF OthersWait
    <2>3. Untouched(v)
      BY <1>4, <2>2 DEF RestockStep, Restock, RestockFault, groupVars, workerVars,
                        Untouched
    <2> QED
      BY <2>3, UntouchedStaysOK
  <1> QED
    BY <1>1, <1>2, <1>3, <1>4, NextCases

-----------------------------------------------------------------------------
(* Offsets. *)

\* An offset is committed only by a worker whose record is accounted for.
LEMMA CommittedMoves ==
  ASSUME ConsumerInv, [Next]_vars
  PROVE  \/ committed' = committed
         \/ \E w \in Worker : CommitPositions(w) /\ pc[w] = "commit"
  <1>1. CASE UNCHANGED vars
    BY <1>1 DEF vars, groupVars
  <1>2. CASE GroupRebalance
    BY <1>2 DEF GroupRebalance, Rebalance
  <1>3. ASSUME NEW w \in Worker, OwnStep(w)
        PROVE  committed' = committed \/ (CommitPositions(w) /\ pc[w] = "commit")
    <2>1. CASE OverStep(w) \/ HoldStep(w) \/ Restart(w)
      BY <2>1 DEF OverStep, CommitDone, CommitRefused, CommitError, HoldStep, Accept,
           Refuse, PublishDeadLetter, PublishError, Restart, groupVars
    <2>2. CASE \/ PollPoison(w) \/ IdleExit(w) \/ StopExit(w) \/ Poll(w)
               \/ MemberExpires(w) \/ Receive(w)
      BY <2>2 DEF PollPoison, IdleExit, StopExit, Exit, Leave, Poll, Fetch,
           MemberExpires, Expire, Receive, HandOut
    <2> QED
      BY <1>3, <2>1, <2>2 DEF OwnStep, OverStep, HoldStep
  <1>4. ASSUME NEW w \in Worker, CallStep(w)
        PROVE  committed' = committed
    BY <1>4 DEF CallStep, CallService, ServiceStep, ServiceFault, ServiceDone,
         ServiceTransient, ServiceRejected, Crash, Exit, Leave, groupVars
  <1>5. ASSUME NEW c \in Restocker, RestockStep(c)
        PROVE  committed' = committed
    BY <1>5 DEF RestockStep, Restock, RestockFault, groupVars
  <1> QED
    BY <1>1, <1>2, <1>3, <1>4, <1>5, NextCases

LEMMA PassedKept ==
  ASSUME ConsumerInv, [Next]_vars
  PROVE  PassedOK'
  <1> SUFFICES ASSUME NEW r \in Record, r[2] <= committed'[r[1]]
               PROVE  r \in AccountedRecords'
    BY DEF PassedOK, Passed
  <1>1. PassedOK /\ AccountedRecords \subseteq AccountedRecords'
    BY AccountsGrow DEF ConsumerInv
  <1>2. CASE committed' = committed
    BY <1>1, <1>2 DEF PassedOK, Passed
  <1>3. ASSUME NEW w \in Worker, CommitPositions(w), pc[w] = "commit"
        PROVE  r \in AccountedRecords'
    <2>1. r[1] \in Partition
      BY RecordFacts
    <2>2. CASE r[1] \in assigned[w]
      <3>1. r[2] <= position[w][r[1]]
        BY <1>3, <2>1, <2>2 DEF CommitPositions
      <3> QED
        BY <1>1, <1>3, <2>2, <3>1 DEF ConsumerInv, WorkersOK, ReachedOK, InHand
    <2>3. CASE r[1] \notin assigned[w]
      <3>1. r[2] <= committed[r[1]]
        BY <1>3, <2>1, <2>3 DEF CommitPositions
      <3> QED
        BY <1>1, <3>1 DEF PassedOK, Passed
    <2> QED
      BY <2>2, <2>3
  <1> QED
    BY <1>2, <1>3, CommittedMoves

-----------------------------------------------------------------------------
(* Types. *)

Label == {"down", "poll", "validate", "attempt", "call", "publish", "commit"}

WorkerTypeOK ==
  /\ pc \in [Worker -> Label]
  /\ rec \in [Worker -> Record \cup {NoRecord}]
  /\ attempt \in [Worker -> 0 .. MaxAttempts]
  /\ dlq \subseteq Record /\ lost \subseteq Record
  /\ faults \in 0 .. MaxFaults

LEMMA WorkerTypesKept ==
  ASSUME ConsumerInv, [Next]_vars
  PROVE  WorkerTypeOK'
  <1>1. WorkerTypeOK
    BY DEF ConsumerInv, TypeOK, WorkerTypeOK, Label
  <1>0. faults' \in 0 .. MaxFaults
    BY LettersGrow, FaultTypes DEF ConsumerInv, TypeOK
  <1> USE <1>0, <1>1, SalesConsumerAssumption DEF WorkerTypeOK, workerVars, letterVars
  <1>2. CASE UNCHANGED vars
    BY <1>2 DEF vars
  <1>3. CASE GroupRebalance
    BY <1>3 DEF GroupRebalance
  <1>4. ASSUME NEW w \in Worker, OwnStep(w) \/ CallStep(w)
        PROVE  WorkerTypeOK'
    <2> USE DEF Goto, Label
    <2>1. CASE Receive(w)
      <3>1. PICK p \in Buffered(w) :
              HandOut(w, p) /\ rec' = [rec EXCEPT ![w] = <<p, position[w][p] + 1>>]
        BY <2>1 DEF Receive
      <3>2. p \in Partition
        BY <3>1 DEF Buffered, ConsumerInv, GroupInv, GroupTypeOK
      <3>3. <<p, position[w][p] + 1>> \in Record
        BY <3>1, <3>2, HandedOut DEF ConsumerInv
      <3> QED
        BY <2>1, <3>1, <3>3 DEF Receive
    <2>2. CASE ServiceTransient(w)
      <3>1. attempt' \in [Worker -> 0 .. MaxAttempts]
        BY <2>2 DEF ServiceTransient
      <3> QED
        BY <2>2, <3>1 DEF ServiceTransient
    <2>3. CASE Accept(w)
      <3>1. 1 \in 0 .. MaxAttempts
        OBVIOUS
      <3> QED
        BY <2>3, <3>1 DEF Accept
    <2>4. CASE OverStep(w)
      BY <2>4 DEF OverStep, CommitDone, CommitRefused, CommitError, NextMessage
    <2>5. CASE PollPoison(w) \/ IdleExit(w) \/ StopExit(w) \/ Crash(w)
      BY <2>5 DEF PollPoison, IdleExit, StopExit, Crash, Exit
    <2>6. CASE Restart(w) \/ Refuse(w) \/ CallService(w) \/ ServiceDone(w)
               \/ ServiceRejected(w)
      BY <2>6 DEF Restart, Refuse, CallService, ServiceDone, ServiceRejected
    <2>7. CASE PublishDeadLetter(w) \/ PublishError(w)
      <3>1. rec[w] \in Record
        BY <2>7 DEF PublishDeadLetter, PublishError, ConsumerInv, WorkersOK, HandOK
      <3> QED
        BY <2>7, <3>1 DEF PublishDeadLetter, PublishError
    <2>8. CASE Poll(w) \/ MemberExpires(w) \/ ServiceStep(w) \/ ServiceFault(w)
      BY <2>8 DEF Poll, MemberExpires, ServiceStep, ServiceFault
    <2> QED
      BY <1>4, <2>1, <2>2, <2>3, <2>4, <2>5, <2>6, <2>7, <2>8
         DEF OwnStep, CallStep, OverStep
  <1>5. ASSUME NEW c \in Restocker, RestockStep(c)
        PROVE  WorkerTypeOK'
    BY <1>5 DEF RestockStep, Restock, RestockFault
  <1> QED
    BY <1>2, <1>3, <1>4, <1>5, NextCases

-----------------------------------------------------------------------------
(* The theorems. *)

\* At first every worker is down, and nothing has been read or sold ...
LEMMA ConsumerInvInit == Init => ConsumerInv
  <1> SUFFICES ASSUME Init PROVE ConsumerInv
    OBVIOUS
  <1>1. ServiceInv /\ GroupInv
    BY ServiceInvInit, GroupInitInv DEF Init
  <1>2. TypeOK
    BY <1>1, SalesConsumerAssumption, TopicAssumption
       DEF Init, TypeOK, ServiceInv, LockInv, GroupInv
  <1>3. WorkersOK
    BY TopicAssumption DEF Init, WorkersOK, HandOK, ReachedOK, ContendOK, ServiceInit,
                           GroupInit, NoCall, At
  <1>4. PassedOK
    <2>1. \A r \in Record : committed[r[1]] = 0 /\ r[2] \in 1 .. End(r[1])
      BY RecordFacts DEF Init, GroupInit, Start0
    <2> QED
      BY <2>1, RecordFacts, GroupAssumption DEF PassedOK, Passed
  <1>5. SalesAgree
    BY DEF Init, ServiceInit, StoreInit, SalesAgree, Recorded
  <1>6. RestockersOK
    BY ServiceAssumption, SalesAssumption
       DEF Init, ServiceInit, NoCall, RestockersOK, Restocker, SaleEvent
  <1> QED
    BY <1>1, <1>2, <1>3, <1>4, <1>5, <1>6 DEF ConsumerInv

\* ... and every step of a worker, of a restocking client, of the group and of what
\* fails them keeps the invariant.
LEMMA ConsumerInvStep == ConsumerInv /\ [Next]_vars => ConsumerInv'
  <1> SUFFICES ASSUME ConsumerInv, [Next]_vars PROVE ConsumerInv'
    OBVIOUS
  <1>1. ServiceInv' /\ GroupInv'
    BY ServiceKept, GroupKept
  <1>2. TypeOK'
    BY <1>1, SalesGrow, WorkerTypesKept
       DEF TypeOK, WorkerTypeOK, Label, ServiceInv, LockInv, GroupInv
  <1> QED
    BY <1>1, <1>2, SalesAgreeStep, RestockersKept, WorkersKept, PassedKept
       DEF ConsumerInv

\* The inductive invariant of the two writers of the stock.
THEOREM SalesInvariant == Spec => []ConsumerInv
  BY ConsumerInvInit, ConsumerInvStep, PTL DEF Spec

\* Every variable keeps its type.
THEOREM SalesTypes == Spec => []TypeOK
  BY SalesInvariant, PTL DEF ConsumerInv

\* SalesService works on the tables of InventoryService, at the same time and under
\* the same row locks: the tables still agree, no event counts twice, and the stock
\* stays in its range.
THEOREM WritersAgree ==
  Spec => [](HistoryChained /\ SnapshotMatchesHistory /\ HistoryOnItsRow
               /\ AppliedOnce /\ StockInRange)
  BY SalesInvariant, PTL DEF ConsumerInv, ServiceInv, TableInv

\* No offset is committed past a request whose sale is not in the table, unless its
\* dead letter is out or its publication failed.
THEOREM NoSaleIsSkipped == Spec => []CommittedSaleIsAccounted
  <1>1. ConsumerInv => CommittedSaleIsAccounted
    BY SalesAssumption, ServiceAssumption
       DEF ConsumerInv, PassedOK, AccountedRecords, SoldRecord, SaleEvent,
           CommittedSaleIsAccounted
  <1> QED
    BY <1>1, SalesInvariant, PTL

\* A sale id takes stock once, under whatever event ids its request arrives.
THEOREM SoldOnce == Spec => []OneChangePerSale
  <1>1. ASSUME ConsumerInv
        PROVE  OneChangePerSale
    <2> SUFFICES ASSUME NEW k \in Key, NEW l \in Key,
                        NEW i \in DOMAIN history[k], NEW j \in DOMAIN history[l],
                        NEW e, e = history[k][i].event, NEW f, f = history[l][j].event,
                        e \in SaleEvent, f \in SaleEvent, SaleOf[e] = SaleOf[f]
                 PROVE  k = l /\ i = j
      BY DEF OneChangePerSale
    <2>1. Recorded(e) /\ Recorded(f)
      BY DEF Recorded
    <2>2. e = f
      BY <1>1, <2>1 DEF ConsumerInv, SalesAgree
    <2>3. AppliedOnce
      BY <1>1 DEF ConsumerInv, ServiceInv, TableInv
    <2>4. history[k][i].event = history[l][j].event
      BY <2>2
    <2> QED
      BY <2>3, <2>4 DEF AppliedOnce
  <1> QED
    BY <1>1, SalesInvariant, PTL

-----------------------------------------------------------------------------
(* Sums.  The sum of natural numbers is the number of their units, one for  *)
(* each number from 1 up to it, so that two sums are the same when their    *)
(* terms can be paired.                                                    *)

\* Of a set of finite sets, one that none can be got from by leaving one element out.
LEMMA SmallestSet ==
  ASSUME NEW D, IsFiniteSet(D), NEW T, T \subseteq SUBSET D, T # {}
  PROVE  \E s \in T : \A x \in s : s \ {x} \notin T
  <1>1. \A s \in T : IsFiniteSet(s) /\ Cardinality(s) \in Nat
    BY FS_Subset, FS_CardinalityType
  <1> DEFINE C == {Cardinality(s) : s \in T}
  <1>2. C \subseteq Nat /\ C # {}
    BY <1>1
  <1>3. PICK s \in T : \A t \in T : Cardinality(s) <= Cardinality(t)
    <2> HIDE DEF C
    <2>1. PICK n \in C : \A m \in C : n <= m
      BY <1>2, LeastElement
    <2> USE DEF C
    <2> QED
      BY <2>1
  <1>4. ASSUME NEW x \in s
        PROVE  s \ {x} \notin T
    <2>1. Cardinality(s \ {x}) = Cardinality(s) - 1
      BY <1>1, FS_RemoveElement
    <2>2. ~(Cardinality(s) <= Cardinality(s \ {x}))
      BY <1>1, <2>1
    <2> QED
      BY <1>3, <2>2
  <1> QED
    BY <1>4

\* The units of the terms of g in s.
Units(g, s) == {u \in s \X Nat : u[2] \in 1 .. g[u[1]]}

LEMMA UnitsOfTerm ==
  ASSUME NEW D, NEW g \in [D -> Nat], NEW s \in SUBSET D, NEW x \in s,
         IsFiniteSet(Units(g, s \ {x}))
  PROVE  /\ IsFiniteSet(Units(g, s))
         /\ Cardinality(Units(g, s)) = g[x] + Cardinality(Units(g, s \ {x}))
  <1> DEFINE rest == Units(g, s \ {x})
             own == {x} \X (1 .. g[x])
  <1>1. g[x] \in Nat
    OBVIOUS
  <1>2. IsFiniteSet(1 .. g[x]) /\ Cardinality(1 .. g[x]) = g[x]
    BY <1>1, FS_Interval
  <1>3. IsFiniteSet({x}) /\ Cardinality({x}) = 1
    BY FS_Singleton
  <1>4. IsFiniteSet(own) /\ Cardinality(own) = g[x]
    <2>1. IsFiniteSet(own) /\ Cardinality(own) = Cardinality({x}) * Cardinality(1 .. g[x])
      BY <1>2, <1>3, FS_Product
    <2> QED
      BY <1>1, <1>2, <1>3, <2>1
  <1>5. Units(g, s) = own \cup rest
    BY <1>1 DEF Units
  <1>6. own \cap rest = {}
    BY DEF Units
  <1> HIDE DEF own, rest
  <1>7. /\ IsFiniteSet(own \cup rest)
        /\ Cardinality(own \cup rest)
             = Cardinality(own) + Cardinality(rest) - Cardinality(own \cap rest)
    BY <1>4, FS_Union DEF rest
  <1>8. Cardinality(own \cap rest) = 0 /\ Cardinality(rest) \in Nat
    BY <1>6, FS_EmptySet, FS_CardinalityType DEF rest
  <1>9. Cardinality(own \cup rest) = g[x] + Cardinality(rest)
    BY <1>1, <1>4, <1>7, <1>8
  <1> QED
    BY <1>5, <1>7, <1>9 DEF rest

LEMMA UnitsAreFinite ==
  ASSUME NEW D, IsFiniteSet(D), NEW g \in [D -> Nat], NEW s \in SUBSET D
  PROVE  IsFiniteSet(Units(g, s)) /\ Cardinality(Units(g, s)) \in Nat
  <1> DEFINE T == {t \in SUBSET D : ~IsFiniteSet(Units(g, t))}
  <1>1. T = {}
    <2> SUFFICES ASSUME T # {} PROVE FALSE
      OBVIOUS
    <2>1. T \subseteq SUBSET D
      OBVIOUS
    <2> HIDE DEF T
    <2>2. PICK t \in T : \A x \in t : t \ {x} \notin T
      BY <2>1, SmallestSet
    <2> USE DEF T
    <2>3. CASE t = {}
      <3>1. Units(g, t) = {}
        BY <2>3 DEF Units
      <3> QED
        BY <3>1, FS_EmptySet
    <2>4. ASSUME NEW x \in t PROVE FALSE
      <3>1. IsFiniteSet(Units(g, t \ {x}))
        BY <2>2
      <3> QED
        BY <3>1, UnitsOfTerm
    <2> QED
      BY <2>3, <2>4
  <1> QED
    BY <1>1, FS_CardinalityType

LEMMA SumIsUnits ==
  ASSUME NEW D, IsFiniteSet(D), NEW g \in [D -> Nat]
  PROVE  SumFunction(g) = Cardinality(Units(g, D))
  <1> DEFINE Pick(s) == CHOOSE x \in s : TRUE
             Sums(f) == f = [s \in SUBSET D |->
                               IF s = {} THEN 0 ELSE g[Pick(s)] + f[s \ {Pick(s)}]]
             sum == CHOOSE f : Sums(f)
             count == [s \in SUBSET D |-> Cardinality(Units(g, s))]
  <1>1. SumFunction(g) = sum[D]
    <2>1. DOMAIN g = D
      OBVIOUS
    <2> QED
      BY <2>1 DEF SumFunction, SumFunctionOnSet, FoldFunctionOnSet, MapThenFoldSet
  <1>2. \A s \in SUBSET D : s # {} => Pick(s) \in s
    OBVIOUS
  <1> HIDE DEF Pick
  <1>3. Sums(count)
    <2>1. ASSUME NEW s \in SUBSET D
          PROVE  count[s] = IF s = {} THEN 0 ELSE g[Pick(s)] + count[s \ {Pick(s)}]
      <3>1. CASE s = {}
        <4>1. Units(g, s) = {}
          BY <3>1 DEF Units
        <4> QED
          BY <3>1, <4>1, FS_EmptySet
      <3>2. CASE s # {}
        <4>1. Pick(s) \in s /\ s \ {Pick(s)} \in SUBSET D
          BY <1>2, <3>2
        <4>2. Cardinality(Units(g, s)) = g[Pick(s)] + Cardinality(Units(g, s \ {Pick(s)}))
          BY <4>1, UnitsOfTerm, UnitsAreFinite
        <4> QED
          BY <3>2, <4>1, <4>2
      <3> QED
        BY <3>1, <3>2
    <2> QED
      BY <2>1
  <1>4. Sums(sum)
    BY <1>3
  <1>5. \A s \in SUBSET D :
          sum[s] = IF s = {} THEN 0 ELSE g[Pick(s)] + sum[s \ {Pick(s)}]
    <2> HIDE DEF sum
    <2> QED
      BY <1>4
  <1>6. \A s \in SUBSET D :
          count[s] = IF s = {} THEN 0 ELSE g[Pick(s)] + count[s \ {Pick(s)}]
    <2> HIDE DEF count
    <2> QED
      BY <1>3
  <1> HIDE DEF sum
  <1>7. \A s \in SUBSET D : sum[s] = count[s]
    <2> DEFINE T == {s \in SUBSET D : sum[s] # count[s]}
    <2> SUFFICES ASSUME T # {} PROVE FALSE
      OBVIOUS
    <2>1. T \subseteq SUBSET D
      OBVIOUS
    <2> HIDE DEF T
    <2>2. PICK s \in T : \A x \in s : s \ {x} \notin T
      BY <2>1, SmallestSet
    <2> USE DEF T
    <2>3. s \in SUBSET D /\ sum[s] # count[s]
      BY <2>2
    <2>4. CASE s = {}
      BY <1>5, <1>6, <2>3, <2>4
    <2>5. CASE s # {}
      <3>1. Pick(s) \in s
        BY <1>2, <2>3, <2>5
      <3>2. sum[s \ {Pick(s)}] = count[s \ {Pick(s)}]
        BY <2>2, <2>3, <3>1
      <3> QED
        BY <1>5, <1>6, <2>3, <2>5, <3>2
    <2> QED
      BY <2>4, <2>5
  <1> QED
    BY <1>1, <1>7

\* Terms that can be paired have the same sum.
LEMMA SumsMatch ==
  ASSUME NEW D, IsFiniteSet(D), NEW g \in [D -> Nat],
         NEW E, NEW h \in [E -> Nat],
         NEW m \in [D -> E],
         \A x, y \in D : m[x] = m[y] => x = y,
         \A z \in E : \E x \in D : m[x] = z,
         \A x \in D : h[m[x]] = g[x]
  PROVE  SumFunction(g) = SumFunction(h)
  <1>1. IsFiniteSet(E)
    <2>1. m \in Surjection(D, E)
      BY DEF Surjection
    <2> QED
      BY <2>1, FS_Surjection
  <1> DEFINE u == [p \in Units(g, D) |-> <<m[p[1]], p[2]>>]
  <1>2. u \in [Units(g, D) -> Units(h, E)]
    <2>1. ASSUME NEW p \in Units(g, D)
          PROVE  <<m[p[1]], p[2]>> \in Units(h, E)
      BY DEF Units
    <2> QED
      BY <2>1
  <1>3. \A p, q \in Units(g, D) : u[p] = u[q] => p = q
    <2> SUFFICES ASSUME NEW p \in Units(g, D), NEW q \in Units(g, D), u[p] = u[q]
                 PROVE  p = q
      OBVIOUS
    <2>1. /\ p \in D \X Nat /\ q \in D \X Nat
          /\ m[p[1]] = m[q[1]] /\ p[2] = q[2]
      BY DEF Units
    <2> QED
      BY <2>1
  <1>4. \A r \in Units(h, E) : \E p \in Units(g, D) : u[p] = r
    <2> SUFFICES ASSUME NEW r \in Units(h, E)
                 PROVE  \E p \in Units(g, D) : u[p] = r
      OBVIOUS
    <2>1. r \in E \X Nat /\ r[2] \in 1 .. h[r[1]]
      BY DEF Units
    <2>2. PICK x \in D : m[x] = r[1]
      BY <2>1
    <2>3. <<x, r[2]>> \in Units(g, D)
      BY <2>1, <2>2 DEF Units
    <2>4. u[<<x, r[2]>>] = <<r[1], r[2]>>
      BY <2>2, <2>3
    <2> QED
      BY <2>1, <2>3, <2>4
  <1> HIDE DEF u
  <1>5. u \in Bijection(Units(g, D), Units(h, E))
    BY <1>2, <1>3, <1>4 DEF Bijection, Injection, Surjection, IsInjective
  <1>6. Cardinality(Units(g, D)) = Cardinality(Units(h, E))
    BY <1>5, UnitsAreFinite, FS_Bijection DEF ExistsBijection
  <1> QED
    BY <1>1, <1>6, SumIsUnits

-----------------------------------------------------------------------------
(* The rows of "sales" and the changes of the history that were sales are in *)
(* pairs, which agree in their numbers.                                     *)

\* The row of "sales" that belongs to a place in the history of k.
RowOf(k, i) == [sale |-> SaleOf[history[k][i].event], key |-> k,
                quantity |-> -history[k][i].delta]

RowsPaired ==
  /\ \A k \in Key : \A i \in SalesOf(k) : RowOf(k, i) \in sales
  /\ \A r \in sales : \E k \in Key : \E i \in SalesOf(k) : r = RowOf(k, i)

LEMMA RowsPairedInit == Init => RowsPaired
  BY DEF Init, ServiceInit, StoreInit, RowsPaired, SalesOf

LEMMA RowsPairedStep ==
  ASSUME ConsumerInv, RowsPaired, [Next]_vars
  PROVE  RowsPaired'
  <1>1. CASE UNCHANGED <<rows, quantity, history, sales>>
    BY <1>1 DEF RowsPaired, SalesOf, RowOf
  \* Receipts have no row.
  <1>2. ASSUME NEW c \in Client, RestockCommit(c)
        PROVE  RowsPaired'
    <2>0. PICK k, e, n : k = MyKey(c) /\ e = call[c].event /\ n = Len(history[k])
      OBVIOUS
    <2>1. ServiceInv /\ CommitStep(c) /\ e \notin SaleEvent /\ sales' = sales
      BY <1>2, <2>0 DEF RestockCommit, ConsumerInv
    <2>2. /\ k \in Key /\ n \in Nat
          /\ DOMAIN history[k] = 1 .. n /\ DOMAIN history'[k] = 1 .. n + 1
          /\ history'[k][n + 1].event = e
          /\ \A i \in 1 .. n : history'[k][i] = history[k][i]
          /\ \A l \in Key : l # k => history'[l] = history[l]
      BY <2>0, <2>1, CommitAppends
    <2>3. \A l \in Key : SalesOf(l)' = SalesOf(l)
      <3>1. SalesOf(k)' = SalesOf(k)
        BY <2>1, <2>2 DEF SalesOf
      <3>2. \A l \in Key : l # k => SalesOf(l)' = SalesOf(l)
        BY <2>2 DEF SalesOf
      <3> QED
        BY <3>1, <3>2
    <2>4. \A l \in Key : \A i \in SalesOf(l) : RowOf(l, i)' = RowOf(l, i)
      BY <2>2 DEF SalesOf, RowOf
    <2>5. \A l \in Key : \A i \in SalesOf(l)' : RowOf(l, i)' \in sales'
      BY <2>1, <2>3, <2>4 DEF RowsPaired
    <2>6. \A r \in sales' : \E l \in Key : \E i \in SalesOf(l)' : r = RowOf(l, i)'
      BY <2>1, <2>3, <2>4 DEF RowsPaired
    <2> QED
      BY <2>5, <2>6 DEF RowsPaired
  \* A sale adds its row with its change.
  <1>3. ASSUME NEW w \in Client, SaleCommit(w)
        PROVE  RowsPaired'
    <2>0. PICK k, e, n : k = MyKey(w) /\ e = call[w].event /\ n = Len(history[k])
      OBVIOUS
    <2> DEFINE row == [sale |-> SaleOf[e], key |-> k, quantity |-> -Delta[e]]
    <2>1. /\ ServiceInv /\ CommitStep(w) /\ e \in SaleEvent
          /\ sales' = sales \cup {row}
      BY <1>3, <2>0 DEF SaleCommit, ConsumerInv, AddSale, MySale
    <2>2. /\ k \in Key /\ n \in Nat
          /\ DOMAIN history[k] = 1 .. n /\ DOMAIN history'[k] = 1 .. n + 1
          /\ history'[k][n + 1].event = e /\ history'[k][n + 1].delta = Delta[e]
          /\ \A i \in 1 .. n : history'[k][i] = history[k][i]
          /\ \A l \in Key : l # k => history'[l] = history[l]
      BY <2>0, <2>1, CommitAppends
    <2>3. RowOf(k, n + 1)' = row
      BY <2>2 DEF RowOf
    <2> HIDE DEF row
    <2>4. SalesOf(k)' = SalesOf(k) \cup {n + 1}
      BY <2>1, <2>2 DEF SalesOf
    <2>5. \A l \in Key : l # k => SalesOf(l)' = SalesOf(l)
      BY <2>2 DEF SalesOf
    <2>6. \A l \in Key : \A i \in SalesOf(l) : RowOf(l, i)' = RowOf(l, i)
      BY <2>2 DEF SalesOf, RowOf
    <2>7. ASSUME NEW l \in Key, NEW i \in SalesOf(l)'
          PROVE  RowOf(l, i)' \in sales'
      <3>1. CASE i \in SalesOf(l)
        BY <2>1, <2>6, <3>1 DEF RowsPaired
      <3>2. CASE i \notin SalesOf(l)
        <4>1. l = k /\ i = n + 1
          BY <2>4, <2>5, <2>7, <3>2
        <4> QED
          BY <2>1, <2>3, <4>1
      <3> QED
        BY <3>1, <3>2
    <2>8. ASSUME NEW r \in sales'
          PROVE  \E l \in Key : \E i \in SalesOf(l)' : r = RowOf(l, i)'
      <3>1. CASE r = row
        BY <2>2, <2>3, <2>4, <3>1
      <3>2. CASE r \in sales
        <4>1. PICK l \in Key : \E i \in SalesOf(l) : r = RowOf(l, i)
          BY <3>2 DEF RowsPaired
        <4>2. PICK i \in SalesOf(l) : r = RowOf(l, i)
          BY <4>1
        <4>3. i \in SalesOf(l)' /\ r = RowOf(l, i)'
          BY <2>4, <2>5, <2>6, <4>2
        <4> QED
          BY <4>3
      <3> QED
        BY <2>1, <3>1, <3>2
    <2> QED
      BY <2>7, <2>8 DEF RowsPaired
  <1> QED
    BY <1>1, <1>2, <1>3, TableMoves

LEMMA RowsPairedAlways == Spec => []RowsPaired
  BY RowsPairedInit, RowsPairedStep, SalesInvariant, PTL DEF Spec

\* What the summary of a product says it has sold is what its history has given away
\* to sales: no sale is without its deduction and no deduction without its sale.
THEOREM SalesAddUp == Spec => []SalesMatchHistory
  <1>1. ASSUME ConsumerInv, RowsPaired, OneChangePerSale, NEW k \in Key
        PROVE  TotalSold(k) = SumFunction([i \in SalesOf(k) |-> -history[k][i].delta])
    <2> DEFINE D == SalesOf(k)
               E == {r \in sales : r.key = k}
               g == [i \in D |-> -history[k][i].delta]
               h == [r \in E |-> r.quantity]
               m == [i \in D |-> RowOf(k, i)]
    <2>1. IsFiniteSet(D)
      <3>1. history[k] \in Seq(Entry)
        BY <1>1 DEF ConsumerInv, ServiceInv, LockInv, ServiceTypeOK, StoreTypeOK
      <3>2. Len(history[k]) \in Nat /\ D \in SUBSET (1 .. Len(history[k]))
        BY <3>1, LenProperties DEF SalesOf
      <3>3. IsFiniteSet(1 .. Len(history[k]))
        BY <3>2, FS_Interval
      <3> HIDE DEF D
      <3> QED
        BY <3>2, <3>3, FS_Subset
    <2>2. \A r \in E : r \in SaleRow /\ r.quantity \in Nat
      BY <1>1 DEF ConsumerInv, TypeOK, SaleRow
    <2>3. \A i \in D : /\ RowOf(k, i) \in E
                      /\ RowOf(k, i).quantity = -history[k][i].delta
                      /\ RowOf(k, i).sale = SaleOf[history[k][i].event]
      BY <1>1 DEF RowsPaired, RowOf
    <2>4. \A i, j \in D : RowOf(k, i) = RowOf(k, j) => i = j
      <3> SUFFICES ASSUME NEW i \in D, NEW j \in D, RowOf(k, i) = RowOf(k, j)
                   PROVE  i = j
        OBVIOUS
      <3>1. SaleOf[history[k][i].event] = SaleOf[history[k][j].event]
        BY <2>3
      <3>2. /\ i \in DOMAIN history[k] /\ j \in DOMAIN history[k]
            /\ history[k][i].event \in SaleEvent /\ history[k][j].event \in SaleEvent
        BY DEF SalesOf
      <3> QED
        BY <1>1, <3>1, <3>2 DEF OneChangePerSale
    <2>5. \A r \in E : \E i \in D : RowOf(k, i) = r
      <3> SUFFICES ASSUME NEW r \in E PROVE \E i \in D : RowOf(k, i) = r
        OBVIOUS
      <3>1. PICK l \in Key : \E i \in SalesOf(l) : r = RowOf(l, i)
        BY <1>1 DEF RowsPaired
      <3>2. PICK i \in SalesOf(l) : r = RowOf(l, i)
        BY <3>1
      <3>3. l = k
        BY <3>2 DEF RowOf
      <3> QED
        BY <3>2, <3>3
    <2> HIDE DEF D, E
    <2>6. /\ g \in [D -> Nat] /\ h \in [E -> Nat] /\ m \in [D -> E]
      BY <2>2, <2>3
    <2>7. /\ \A x, y \in D : m[x] = m[y] => x = y
          /\ \A z \in E : \E x \in D : m[x] = z
          /\ \A x \in D : h[m[x]] = g[x]
      BY <2>3, <2>4, <2>5
    <2> HIDE DEF g, h, m
    <2>8. SumFunction(g) = SumFunction(h)
      BY <2>1, <2>6, <2>7, SumsMatch
    <2> QED
      BY <2>8 DEF TotalSold, D, E, g, h
  <1>2. ConsumerInv /\ RowsPaired /\ OneChangePerSale => SalesMatchHistory
    BY <1>1 DEF SalesMatchHistory
  <1> QED
    BY <1>2, RowsPairedAlways, SalesInvariant, SoldOnce, PTL

-----------------------------------------------------------------------------
\* Contention for a sale costs no more than one attempt.
THEOREM ContentionCostsOneAttempt == Spec => []ContentionIsRetried
  <1>1. ConsumerInv => ContentionIsRetried
    <2> SUFFICES ASSUME ConsumerInv, faults = 0, NEW w \in Worker, pc[w] = "publish"
                 PROVE  attempt[w] <= 1
      BY DEF ContentionIsRetried
    <2>1. ~(attempt[w] > 1) /\ attempt[w] \in 0 .. MaxAttempts
      BY DEF ConsumerInv, WorkersOK, ContendOK, TypeOK
    <2> QED
      BY <2>1, SalesConsumerAssumption
  <1> QED
    BY <1>1, SalesInvariant, PTL

\* Both writers, with all that fails them, behave as the ledger in which an event
\* counts once, and a sale once per sale id.
THEOREM WritersKeepLedger == Spec => ImplementsSalesLedger
  <1>1. Init => SaleLedger!SalesInit
    BY DEF Init, ServiceInit, StoreInit, SaleLedger!SalesInit, SaleLedger!Init,
           RecordedEvents, Recorded, SoldIds
  <1>2. ConsumerInv /\ [Next]_vars => [SaleLedger!SalesNext]_(SaleLedger!salesVars)
    <2> SUFFICES ASSUME ConsumerInv, [Next]_vars
                 PROVE  [SaleLedger!SalesNext]_(SaleLedger!salesVars)
      OBVIOUS
    <2>1. CASE UNCHANGED <<rows, quantity, history, sales>>
      BY <2>1 DEF SaleLedger!salesVars, SaleLedger!vars, RecordedEvents, Recorded,
                  SoldIds
    <2>2. ASSUME NEW c \in Client, CommitStep(c), NEW e, e = call[c].event,
                 \A f \in Event : Recorded(f)' <=> Recorded(f) \/ f = e
          PROVE  e \in Event /\ SaleLedger!Apply(e)
      <3>1. /\ e \in Event /\ KeyOf[e] \in Key
            /\ ~Recorded(e)
            /\ quantity[KeyOf[e]] + Delta[e] \in 0 .. MaxQuantity
            /\ WriteChange(KeyOf[e], e, quantity[KeyOf[e]], Delta[e])
        BY <2>2, CommitEffect DEF ConsumerInv, MyKey
      <3>2. quantity' = [quantity EXCEPT ![KeyOf[e]] = quantity[KeyOf[e]] + Delta[e]]
        BY <3>1 DEF WriteChange
      <3>3. RecordedEvents' = RecordedEvents \cup {e}
        BY <2>2, <3>1 DEF RecordedEvents
      <3> QED
        BY <3>1, <3>2, <3>3 DEF SaleLedger!Apply, RecordedEvents
    <2>3. ASSUME NEW w \in Client, SaleCommit(w)
          PROVE  SaleLedger!SalesNext
      <3> DEFINE e == call[w].event
      <3>1. /\ CommitStep(w) /\ e \in SaleEvent /\ ~Sold(SaleOf[e])
            /\ \A s : Sold(s)' <=> Sold(s) \/ s = SaleOf[e]
            /\ \A f \in Event : Recorded(f)' <=> Recorded(f) \/ f = e
        BY <2>3, SaleCommitFacts DEF SaleCommit
      <3>2. e \in Event /\ SaleLedger!Apply(e)
        BY <2>2, <3>1
      <3>3. \A s : (s \in SoldIds <=> Sold(s)) /\ (s \in SoldIds' <=> Sold(s)')
        BY DEF SoldIds, Sold
      <3> HIDE DEF e
      <3>4. SoldIds' = SoldIds \cup {SaleOf[e]} /\ SaleOf[e] \notin SoldIds
        BY <3>1, <3>3
      <3>5. SaleLedger!Sell(e)
        BY <3>1, <3>2, <3>4 DEF SaleLedger!Sell, SaleEvent
      <3> QED
        BY <3>2, <3>5 DEF SaleLedger!SalesNext
    <2>4. ASSUME NEW c \in Client, RestockCommit(c)
          PROVE  SaleLedger!SalesNext
      <3> DEFINE e == call[c].event
      <3>1. /\ CommitStep(c) /\ e \notin SaleEvent /\ sales' = sales
            /\ \A f \in Event : Recorded(f)' <=> Recorded(f) \/ f = e
        BY <2>4, RestockCommitFacts DEF RestockCommit
      <3>2. e \in Event /\ SaleLedger!Apply(e)
        BY <2>2, <3>1
      <3> HIDE DEF e
      <3>3. SaleLedger!Receive(e)
        BY <3>1, <3>2 DEF SaleLedger!Receive, SaleEvent, SoldIds
      <3> QED
        BY <3>2, <3>3 DEF SaleLedger!SalesNext
    <2> QED
      BY <2>1, <2>3, <2>4, TableMoves
  <1> QED
    BY <1>1, <1>2, SalesInvariant, PTL DEF Spec, ImplementsSalesLedger,
                                           SaleLedger!SalesSpec

=============================================================================
