------------------------- MODULE RecordConsumer_proofs ------------------------
(***************************************************************************)
(* Proofs about RecordConsumer, for any number of workers, partitions,     *)
(* records, attempts and failures.                                         *)
(***************************************************************************)
EXTENDS RecordConsumer, InventoryTopic_proofs

-----------------------------------------------------------------------------
(* The inductive invariant. *)

\* Records that need no further delivery.
AccountedRecords == {r \in Record : Settled(r)} \cup abandoned

\* Where a worker has a record in hand that is not accounted for.
InHand == {"validate", "assert", "call", "select", "insert", "record", "store",
           "publish"}

\* What a worker knows of the record in its hand, by where it is.
HandOK(w) ==
  /\ pc[w] \notin {"poll", "down"} => rec[w] \in Record
  /\ pc[w] \in {"assert", "call", "select", "insert"} => EventOf(w) \in Event
  /\ IF pc[w] = "call" THEN call[w].stage # "idle" /\ call[w].event = EventOf(w)
     ELSE call[w].stage = "idle"
  /\ pc[w] \in {"select", "insert"} => EventOf(w) \in RecordedEvents
  /\ pc[w] = "commit" => rec[w] \in AccountedRecords
  /\ pc[w] = "publish" => rec[w] \in failed
  /\ pc[w] = "letter" => rec[w] \in dlq \cap AccountedRecords

\* A worker's positions are past no record that is neither accounted for nor in
\* its hand.
ReachedOK(w) ==
  \A r \in Record :
    r[1] \in assigned[w] /\ r[2] <= position[w][r[1]] =>
      r \in AccountedRecords \/ (pc[w] \in InHand /\ r = rec[w])

PassedOK == \A r \in Record : Passed(r) => r \in AccountedRecords

WorkersOK == \A w \in Worker : HandOK(w) /\ ReachedOK(w)

ConsumerInv ==
  /\ TypeOK /\ ServiceInv /\ SuccessIsDurable /\ GroupInv
  /\ WorkersOK
  /\ PassedOK
  /\ ProcessedIsApplied
  /\ DeadLetterIsRecorded

-----------------------------------------------------------------------------
(* The kinds of steps. *)

\* A worker's steps outside process_event.
OwnStep(w) ==
  \/ Restart(w) \/ Poll(w) \/ PollPoison(w) \/ IdleExit(w) \/ Receive(w)
  \/ Accept(w) \/ Refuse(w) \/ SkipDuplicate(w)
  \/ SelectProcessed(w) \/ InsertProcessed(w) \/ InsertProcessedConflict(w)
  \/ CommitDone(w) \/ CommitRefused(w)
  \/ SelectFailure(w) \/ RecordFailure(w) \/ RecordFailureConflict(w)
  \/ PublishDeadLetter(w) \/ CommitLetter(w) \/ CommitLetterRefused(w)
  \/ StopExit(w) \/ MemberExpires(w) \/ ProcessedEventsError(w)
  \/ CommitError(w) \/ AbandonRecord(w) \/ CommitLetterError(w)

\* Its steps in process_event, around it, and its end.
CallStep(w) ==
  \/ CallService(w) \/ ServiceStep(w) \/ ServiceFault(w)
  \/ ServiceDone(w) \/ ServiceTransient(w) \/ ServiceRejected(w)
  \/ Crash(w)

LEMMA NextCases ==
  ASSUME Next
  PROVE  GroupRebalance \/ \E w \in Worker : OwnStep(w) \/ CallStep(w)
  BY DEF Next, Work, Environment, OwnStep, CallStep

\* The services see nothing of a worker's own steps.
LEMMA OwnStepIsOutside ==
  ASSUME NEW w \in Worker, OwnStep(w)
  PROVE  UNCHANGED serviceVars
  <1>1. CASE \/ Restart(w) \/ Poll(w) \/ PollPoison(w) \/ IdleExit(w) \/ Receive(w)
             \/ Accept(w) \/ Refuse(w) \/ SkipDuplicate(w) \/ SelectProcessed(w)
             \/ InsertProcessed(w) \/ InsertProcessedConflict(w)
             \/ CommitDone(w) \/ CommitRefused(w)
    BY <1>1 DEF Restart, Poll, PollPoison, IdleExit, Receive, Accept, Refuse,
         SkipDuplicate, SelectProcessed, InsertProcessed, InsertProcessedConflict,
         CommitDone, CommitRefused
  <1>2. CASE \/ SelectFailure(w) \/ RecordFailure(w) \/ RecordFailureConflict(w)
             \/ PublishDeadLetter(w) \/ CommitLetter(w) \/ CommitLetterRefused(w)
             \/ StopExit(w) \/ MemberExpires(w) \/ ProcessedEventsError(w)
             \/ CommitError(w) \/ AbandonRecord(w) \/ CommitLetterError(w)
    BY <1>2 DEF SelectFailure, RecordFailure, RecordFailureConflict, PublishDeadLetter,
         CommitLetter, CommitLetterRefused, StopExit, MemberExpires,
         ProcessedEventsError, CommitError, AbandonRecord, CommitLetterError
  <1> QED
    BY <1>1, <1>2 DEF OwnStep

\* Every step of the consumer is a step of the service, or none.
LEMMA StepIsServiceStep ==
  ASSUME ConsumerInv, [Next]_vars
  PROVE  [ServiceNext]_serviceVars
  <1>1. CASE UNCHANGED vars
    BY <1>1 DEF vars
  <1>2. CASE GroupRebalance
    BY <1>2 DEF GroupRebalance
  <1>3. ASSUME NEW w \in Worker, OwnStep(w)
        PROVE  [ServiceNext]_serviceVars
    BY <1>3, OwnStepIsOutside
  <1>4. ASSUME NEW w \in Worker, CallStep(w)
        PROVE  [ServiceNext]_serviceVars
    <2>1. w \in Client
      BY TopicAssumption
    <2>2. CASE CallService(w)
      <3>1. EventOf(w) \in Event
        BY <2>2 DEF CallService, ConsumerInv, WorkersOK, HandOK
      <3> QED
        BY <2>1, <2>2, <3>1 DEF CallService, ServiceNext
    <2>3. CASE ServiceStep(w) \/ ServiceFault(w)
      BY <2>1, <2>3 DEF ServiceStep, ServiceFault, ServiceNext
    <2>4. CASE ServiceDone(w) \/ ServiceTransient(w) \/ ServiceRejected(w)
      BY <2>1, <2>4 DEF ServiceDone, ServiceTransient, ServiceRejected, ServiceNext
    <2>5. CASE Crash(w)
      BY <2>1, <2>5, CrashIsAbort DEF Crash, ConsumerInv
    <2> QED
      BY <1>4, <2>2, <2>3, <2>4, <2>5 DEF CallStep
  <1> QED
    BY <1>1, <1>2, <1>3, <1>4, NextCases

\* What a step is to the group.
LEMMA StepIsGroupStep ==
  ASSUME ConsumerInv, NEW w \in Worker, OwnStep(w) \/ CallStep(w)
  PROVE  GroupStep(w)
  <1>1. CASE \/ Restart(w) \/ Accept(w) \/ Refuse(w) \/ SkipDuplicate(w)
             \/ SelectProcessed(w) \/ InsertProcessed(w) \/ InsertProcessedConflict(w)
             \/ CommitRefused(w) \/ SelectFailure(w) \/ RecordFailure(w)
             \/ RecordFailureConflict(w) \/ PublishDeadLetter(w)
             \/ ProcessedEventsError(w) \/ AbandonRecord(w)
    BY <1>1 DEF Restart, Accept, Refuse, SkipDuplicate, SelectProcessed,
         InsertProcessed, InsertProcessedConflict, CommitRefused, SelectFailure,
         RecordFailure, RecordFailureConflict, PublishDeadLetter,
         ProcessedEventsError, AbandonRecord, GroupStep
  <1>2. CASE PollPoison(w) \/ IdleExit(w) \/ StopExit(w) \/ CommitLetterRefused(w)
             \/ CommitLetterError(w) \/ Crash(w)
    BY <1>2 DEF PollPoison, IdleExit, StopExit, CommitLetterRefused,
         CommitLetterError, Crash, Exit, GroupStep
  <1>3. CASE Poll(w) \/ MemberExpires(w)
    BY <1>3 DEF Poll, MemberExpires, GroupStep
  <1>4. CASE Receive(w)
    <2>1. PICK p \in Buffered(w) : HandOut(w, p)
      BY <1>4 DEF Receive
    <2>2. p \in Partition
      BY <2>1 DEF Buffered, ConsumerInv, GroupInv, GroupTypeOK
    <2> QED
      BY <2>1, <2>2 DEF GroupStep
  <1>5. CASE CommitDone(w) \/ CommitError(w) \/ CommitLetter(w)
    BY <1>5 DEF CommitDone, CommitError, CommitLetter, GroupStep
  <1>6. CASE CallStep(w) /\ ~Crash(w)
    BY <1>6 DEF CallStep, CallService, ServiceStep, ServiceFault, ServiceDone,
         ServiceTransient, ServiceRejected, GroupStep
  <1> QED
    BY <1>1, <1>2, <1>3, <1>4, <1>5, <1>6 DEF OwnStep

\* The group's invariant is kept, and committed offsets do not move back.
LEMMA GroupKept ==
  ASSUME ConsumerInv, [Next]_vars
  PROVE  GroupInv' /\ NoneMovesBack
  <1>0. GroupInv
    BY DEF ConsumerInv
  <1>1. CASE UNCHANGED vars
    BY <1>0, <1>1, GroupStutters DEF vars
  <1>2. CASE GroupRebalance
    <2>1. Polling \in SUBSET Worker
      BY DEF Polling
    <2>2. PICK owner : Rebalance(Polling, owner)
      BY <1>2 DEF GroupRebalance
    <2> HIDE DEF Polling
    <2> QED
      BY <1>0, <2>1, <2>2, RebalanceKeeps
  <1>3. ASSUME NEW w \in Worker, OwnStep(w) \/ CallStep(w)
        PROVE  GroupInv' /\ NoneMovesBack
    BY <1>0, <1>3, StepIsGroupStep, GroupStepKeeps
  <1> QED
    BY <1>1, <1>2, <1>3, NextCases

-----------------------------------------------------------------------------
(* Tables that only grow. *)

\* What is written about a record or an event is never taken back.
OutcomesGrow ==
  /\ processed \subseteq processed'
  /\ failed \subseteq failed' /\ dlq \subseteq dlq' /\ abandoned \subseteq abandoned'

LEMMA OutcomesKept ==
  ASSUME [Next]_vars
  PROVE  OutcomesGrow
  <1> USE DEF OutcomesGrow, outcomeVars
  <1>1. CASE UNCHANGED vars
    BY <1>1 DEF vars
  <1>2. CASE GroupRebalance
    BY <1>2 DEF GroupRebalance
  <1>3. ASSUME NEW w \in Worker, OwnStep(w)
        PROVE  OutcomesGrow
    <2>1. CASE \/ Restart(w) \/ Poll(w) \/ PollPoison(w) \/ IdleExit(w) \/ Receive(w)
               \/ Accept(w) \/ Refuse(w) \/ SkipDuplicate(w) \/ SelectProcessed(w)
               \/ InsertProcessed(w) \/ InsertProcessedConflict(w)
               \/ CommitDone(w) \/ CommitRefused(w)
      BY <2>1 DEF Restart, Poll, PollPoison, IdleExit, Receive, Accept, Refuse,
           SkipDuplicate, SelectProcessed, InsertProcessed, InsertProcessedConflict,
           CommitDone, CommitRefused
    <2>2. CASE \/ SelectFailure(w) \/ RecordFailure(w) \/ RecordFailureConflict(w)
               \/ PublishDeadLetter(w) \/ CommitLetter(w) \/ CommitLetterRefused(w)
               \/ StopExit(w) \/ MemberExpires(w) \/ ProcessedEventsError(w)
               \/ CommitError(w) \/ AbandonRecord(w) \/ CommitLetterError(w)
      BY <2>2 DEF SelectFailure, RecordFailure, RecordFailureConflict, Abandon,
           PublishDeadLetter, CommitLetter, CommitLetterRefused, StopExit,
           MemberExpires, ProcessedEventsError, CommitError, AbandonRecord,
           CommitLetterError
    <2> QED
      BY <1>3, <2>1, <2>2 DEF OwnStep
  <1>4. ASSUME NEW w \in Worker, CallStep(w)
        PROVE  OutcomesGrow
    BY <1>4 DEF CallStep, CallService, ServiceStep, ServiceFault, ServiceDone,
         ServiceTransient, ServiceRejected, Crash
  <1> QED
    BY <1>1, <1>2, <1>3, <1>4, NextCases

\* A record that is accounted for stays so.
LEMMA AccountsGrow ==
  ASSUME ConsumerInv, [Next]_vars
  PROVE  /\ RecordedEvents \subseteq RecordedEvents'
         /\ AccountedRecords \subseteq AccountedRecords'
         /\ OutcomesGrow
  <1>1. RecordedEvents \subseteq RecordedEvents'
    BY StepIsServiceStep, RecordedEventsGrow DEF ConsumerInv
  <1>2. OutcomesGrow
    BY OutcomesKept
  <1>3. \A r \in Record : Applied(r) => Applied(r)'
    <2>1. \A r \in Record :
            /\ Applied(r) <=> MessageOf(r).event \in RecordedEvents
            /\ Applied(r)' <=> MessageOf(r).event \in RecordedEvents'
      BY AppliedFacts, RecordFacts, ServiceAssumption DEF Applied, RecordedEvents
    <2> QED
      BY <1>1, <2>1
  <1>4. AccountedRecords \subseteq AccountedRecords'
    BY <1>2, <1>3 DEF AccountedRecords, Settled, OutcomesGrow
  <1> QED
    BY <1>1, <1>2, <1>4

-----------------------------------------------------------------------------
(* The workers. *)

\* What worker v knows does not depend on the steps of another one.
Untouched(v) ==
  /\ pc'[v] = pc[v] /\ rec'[v] = rec[v] /\ call'[v] = call[v]
  /\ assigned'[v] = assigned[v] /\ position'[v] = position[v]

LEMMA OthersUntouched ==
  ASSUME ConsumerInv, NEW w \in Worker, OwnStep(w) \/ CallStep(w),
         NEW v \in Worker, v # w
  PROVE  Untouched(v)
  <1>0. /\ w \in Client /\ v \in Client
        /\ call \in [Client -> Call] /\ pc = [u \in Worker |-> pc[u]]
        /\ rec = [u \in Worker |-> rec[u]]
    BY TopicAssumption DEF ConsumerInv, TypeOK, ServiceTypeOK
  <1>1. pc'[v] = pc[v] /\ rec'[v] = rec[v]
    <2> USE <1>0 DEF Goto, NextMessage, Exit, RetryOrFail, workerVars
    <2>1. CASE \/ Restart(w) \/ Poll(w) \/ PollPoison(w) \/ IdleExit(w) \/ Receive(w)
               \/ Accept(w) \/ Refuse(w) \/ SkipDuplicate(w) \/ SelectProcessed(w)
               \/ InsertProcessed(w) \/ InsertProcessedConflict(w)
               \/ CommitDone(w) \/ CommitRefused(w)
      BY <2>1 DEF Restart, Poll, PollPoison, IdleExit, Receive, Accept, Refuse,
           SkipDuplicate, SelectProcessed, InsertProcessed, InsertProcessedConflict,
           CommitDone, CommitRefused
    <2>2. CASE \/ SelectFailure(w) \/ RecordFailure(w) \/ RecordFailureConflict(w)
               \/ PublishDeadLetter(w) \/ CommitLetter(w) \/ CommitLetterRefused(w)
               \/ StopExit(w) \/ MemberExpires(w) \/ ProcessedEventsError(w)
               \/ CommitError(w) \/ AbandonRecord(w) \/ CommitLetterError(w)
      BY <2>2 DEF SelectFailure, RecordFailure, RecordFailureConflict, Abandon,
           PublishDeadLetter, CommitLetter, CommitLetterRefused, StopExit,
           MemberExpires, ProcessedEventsError, CommitError, AbandonRecord,
           CommitLetterError
    <2>3. CASE CallStep(w)
      BY <2>3 DEF CallStep, CallService, ServiceStep, ServiceFault, ServiceDone,
           ServiceTransient, ServiceRejected, Crash
    <2> QED
      BY <2>1, <2>2, <2>3 DEF OwnStep
  <1>2. call'[v] = call[v]
    <2>1. CASE OwnStep(w)
      BY <2>1, OwnStepIsOutside DEF serviceVars
    <2>2. CASE ServiceStep(w) \/ ServiceFault(w)
      BY <1>0, <2>2, CallGoesOn DEF ServiceStep, ServiceFault, OthersWait, ConsumerInv, TypeOK
    <2>3. CASE \/ CallService(w) \/ ServiceDone(w) \/ ServiceTransient(w)
               \/ ServiceRejected(w) \/ Crash(w)
      BY <1>0, <2>3 DEF CallService, ServiceDone, ServiceTransient, ServiceRejected,
           Crash, Start, Return
    <2> QED
      BY <2>1, <2>2, <2>3 DEF CallStep
  <1>3. assigned'[v] = assigned[v] /\ position'[v] = position[v]
    BY StepIsGroupStep, OthersKeepPlace DEF ConsumerInv
  <1> QED
    BY <1>1, <1>2, <1>3 DEF Untouched

LEMMA UntouchedStaysOK ==
  ASSUME ConsumerInv, [Next]_vars, NEW v \in Worker, Untouched(v)
  PROVE  HandOK(v)' /\ ReachedOK(v)'
  <1>1. HandOK(v) /\ ReachedOK(v)
    BY DEF ConsumerInv, WorkersOK
  <1>2. /\ RecordedEvents \subseteq RecordedEvents'
        /\ AccountedRecords \subseteq AccountedRecords'
        /\ failed \subseteq failed' /\ dlq \subseteq dlq'
    BY AccountsGrow DEF OutcomesGrow
  <1>3. HandOK(v)'
    BY <1>1, <1>2 DEF HandOK, Untouched, EventOf
  <1>4. ReachedOK(v)'
    BY <1>1, <1>2 DEF ReachedOK, Untouched
  <1> QED
    BY <1>3, <1>4

\* A worker that keeps its place in the partitions is past nothing new.
LEMMA StaysReached ==
  ASSUME ConsumerInv, [Next]_vars, NEW w \in Worker,
         assigned'[w] = assigned[w], position'[w] = position[w],
         pc[w] \in InHand =>
           \/ pc'[w] \in InHand /\ rec'[w] = rec[w]
           \/ rec[w] \in AccountedRecords'
  PROVE  ReachedOK(w)'
  <1>1. ReachedOK(w) /\ AccountedRecords \subseteq AccountedRecords'
    BY AccountsGrow DEF ConsumerInv, WorkersOK
  <1> QED
    BY <1>1 DEF ReachedOK

\* What the steps below have in common: the types that they start from.
WorkerTypes ==
  /\ call \in [Client -> Call]
  /\ pc = [u \in Worker |-> pc[u]]
  /\ rec = [u \in Worker |-> rec[u]]
  /\ assigned \in [Worker -> SUBSET Partition]
  /\ position = [u \in Worker |-> position[u]]
  /\ Worker \subseteq Client

LEMMA WorkerTypesHold ==
  ASSUME ConsumerInv
  PROVE  WorkerTypes
  BY TopicAssumption DEF ConsumerInv, TypeOK, ServiceTypeOK, GroupTypeOK, WorkerTypes

\* A worker that ends holds nothing and owns nothing.
LEMMA ExitOK ==
  ASSUME ConsumerInv, NEW w \in Worker, Exit(w), call'[w].stage = "idle"
  PROVE  HandOK(w)' /\ ReachedOK(w)'
  <1>1. pc'[w] = "down" /\ assigned'[w] = {}
    BY WorkerTypesHold DEF WorkerTypes, Exit, Goto, Leave
  <1>2. HandOK(w)'
    BY <1>1 DEF HandOK
  <1>3. ReachedOK(w)'
    BY <1>1 DEF ReachedOK
  <1> QED
    BY <1>2, <1>3

\* A record that is handed out is the next one, and comes into the hand.
LEMMA ReceiveOK ==
  ASSUME ConsumerInv, [Next]_vars, NEW w \in Worker, Receive(w)
  PROVE  HandOK(w)' /\ ReachedOK(w)'
  <1>1. PICK p \in Buffered(w) :
          HandOut(w, p) /\ rec' = [rec EXCEPT ![w] = <<p, position[w][p] + 1>>]
    BY DEF Receive
  <1>2. p \in Partition /\ p \in assigned[w]
    BY <1>1 DEF Buffered, ConsumerInv, GroupInv, GroupTypeOK
  <1>3. <<p, position[w][p] + 1>> \in Record
    BY <1>1, <1>2, HandedOut DEF ConsumerInv
  <1>4. /\ pc[w] = "poll" /\ pc'[w] = "validate"
        /\ rec'[w] = <<p, position[w][p] + 1>>
        /\ assigned' = assigned
        /\ call' = call
        /\ position'[w] = [position[w] EXCEPT ![p] = position[w][p] + 1]
    BY <1>1, WorkerTypesHold DEF WorkerTypes, Receive, Goto, HandOut, serviceVars
  <1>5. HandOK(w)'
    <2>1. call[w].stage = "idle"
      BY <1>4 DEF ConsumerInv, WorkersOK, HandOK
    <2> QED
      BY <1>3, <1>4, <2>1 DEF HandOK
  <1>6. ReachedOK(w)'
    <2> SUFFICES ASSUME NEW r \in Record,
                        r[1] \in assigned'[w], r[2] <= position'[w][r[1]]
                 PROVE  r \in AccountedRecords' \/ r = rec'[w]
      BY <1>4 DEF ReachedOK, InHand
    <2>1. /\ r[1] \in Partition /\ r[2] \in Nat /\ r = <<r[1], r[2]>>
          /\ r[1] \in assigned[w]
      BY <1>4, RecordFacts
    <2>2. position[w] \in [Partition -> Nat]
      BY OffsetsAreCounts DEF ConsumerInv, GroupInv, GroupTypeOK
    <2>3. CASE r[2] <= position[w][r[1]]
      <3>1. r \in AccountedRecords
        BY <1>4, <2>1, <2>3 DEF ConsumerInv, WorkersOK, ReachedOK, InHand
      <3> QED
        BY <3>1, AccountsGrow
    <2>4. CASE ~(r[2] <= position[w][r[1]])
      <3>1. r[1] = p /\ r[2] = position[w][p] + 1
        BY <1>4, <2>1, <2>2, <2>4
      <3> QED
        BY <1>4, <2>1, <3>1
    <2> QED
      BY <2>3, <2>4
  <1> QED
    BY <1>5, <1>6

\* The steps that leave the record where it is and the group alone.
HoldStep(w) ==
  \/ Accept(w) \/ Refuse(w) \/ SkipDuplicate(w)
  \/ SelectProcessed(w) \/ InsertProcessed(w) \/ InsertProcessedConflict(w)
  \/ SelectFailure(w) \/ RecordFailure(w) \/ PublishDeadLetter(w)
  \/ ProcessedEventsError(w)

LEMMA HoldStepMoves ==
  ASSUME ConsumerInv, NEW w \in Worker, HoldStep(w)
  PROVE  /\ call' = call
         /\ assigned' = assigned /\ position' = position
         /\ rec'[w] = rec[w] /\ rec[w] \in Record
         /\ pc[w] \in InHand /\ pc[w] # "call"
         /\ pc'[w] \in {"assert", "record", "commit", "insert", "store", "publish",
                        "select", "letter"}
         /\ pc'[w] = "assert" => EventOf(w) \in Event
         /\ pc'[w] = "insert" => pc[w] = "select"
         /\ pc'[w] # "select"
         /\ pc'[w] = "commit" => EventOf(w) \in RecordedEvents'
         /\ pc'[w] = "publish" => rec[w] \in failed'
         /\ pc'[w] = "letter" => rec[w] \in dlq'
  <1>0. WorkerTypes /\ HandOK(w)
    BY WorkerTypesHold DEF ConsumerInv, WorkersOK
  <1>1. processed \subseteq RecordedEvents
    BY DEF ConsumerInv, ProcessedIsApplied
  <1> USE <1>0 DEF WorkerTypes, HandOK, Goto, InHand, serviceVars, groupVars
  <1>2. RecordedEvents' = RecordedEvents
    BY OwnStepIsOutside DEF HoldStep, OwnStep, serviceVars, storeVars, RecordedEvents, Recorded
  <1>3. CASE Accept(w)
    <2>1. EventOf(w) \in Event
      BY <1>3, RecordFacts DEF Accept, EventOf
    <2> QED
      BY <1>3, <2>1 DEF Accept
  <1>4. CASE Refuse(w)
    BY <1>4 DEF Refuse
  <1>5. CASE SkipDuplicate(w)
    BY <1>1, <1>2, <1>5 DEF SkipDuplicate
  <1>6. CASE SelectProcessed(w)
    BY <1>1, <1>2, <1>6 DEF SelectProcessed
  <1>7. CASE InsertProcessed(w)
    BY <1>1, <1>2, <1>7 DEF InsertProcessed
  <1>8. CASE InsertProcessedConflict(w)
    BY <1>8 DEF InsertProcessedConflict, RetryOrFail
  <1>9. CASE SelectFailure(w)
    BY <1>9 DEF SelectFailure, outcomeVars
  <1>10. CASE RecordFailure(w)
    BY <1>10 DEF RecordFailure
  <1>11. CASE PublishDeadLetter(w)
    BY <1>11 DEF PublishDeadLetter
  <1>12. CASE ProcessedEventsError(w)
    BY <1>12 DEF ProcessedEventsError, RetryOrFail
  <1> QED
    BY <1>3, <1>4, <1>5, <1>6, <1>7, <1>8, <1>9, <1>10, <1>11, <1>12 DEF HoldStep

LEMMA HoldOK ==
  ASSUME ConsumerInv, [Next]_vars, NEW w \in Worker, HoldStep(w)
  PROVE  HandOK(w)' /\ ReachedOK(w)'
  <1>1. HandOK(w) /\ RecordedEvents \subseteq RecordedEvents'
    BY AccountsGrow DEF ConsumerInv, WorkersOK
  <1>2. \A r \in Record : r \in AccountedRecords' <=>
          \/ MessageOf(r).event \in RecordedEvents'
          \/ r \in dlq' \/ r \in abandoned'
    <2>1. \A r \in Record : Applied(r)' <=> MessageOf(r).event \in RecordedEvents'
      BY RecordFacts, ServiceAssumption DEF Applied, RecordedEvents
    <2> QED
      BY <2>1 DEF AccountedRecords, Settled
  <1>3. HandOK(w)'
    BY <1>1, <1>2, HoldStepMoves DEF HandOK, EventOf, InHand
  <1>4. ReachedOK(w)'
    BY <1>2, HoldStepMoves, StaysReached DEF InHand, EventOf
  <1> QED
    BY <1>3, <1>4

\* The steps with which process_record is over.
OverStep(w) ==
  \/ CommitDone(w) \/ CommitRefused(w) \/ CommitError(w)
  \/ RecordFailureConflict(w) \/ AbandonRecord(w) \/ CommitLetter(w)

LEMMA OverOK ==
  ASSUME ConsumerInv, [Next]_vars, NEW w \in Worker, OverStep(w)
  PROVE  HandOK(w)' /\ ReachedOK(w)'
  <1>1. WorkerTypes /\ HandOK(w) /\ AccountedRecords \subseteq AccountedRecords'
    BY WorkerTypesHold, AccountsGrow DEF ConsumerInv, WorkersOK
  <1>2. UNCHANGED <<call, assigned, position>> /\ pc[w] \notin {"poll", "down", "call"}
    BY DEF OverStep, CommitDone, CommitRefused, CommitError, RecordFailureConflict,
           AbandonRecord, CommitLetter, serviceVars, groupVars, CommitPositions
  <1>3. pc'[w] = "poll"
    BY <1>1 DEF WorkerTypes, OverStep, CommitDone, CommitRefused, CommitError,
           RecordFailureConflict, AbandonRecord, CommitLetter, NextMessage, Abandon, Goto
  <1>4. pc[w] \in InHand => rec[w] \in AccountedRecords'
    BY DEF OverStep, CommitDone, CommitRefused, CommitError, RecordFailureConflict,
           AbandonRecord, CommitLetter, InHand, Abandon, AccountedRecords
  <1>5. HandOK(w)'
    BY <1>1, <1>2, <1>3 DEF HandOK
  <1>6. ReachedOK(w)'
    BY <1>2, <1>4, StaysReached
  <1> QED
    BY <1>5, <1>6

LEMMA CallOK ==
  ASSUME ConsumerInv, [Next]_vars, NEW w \in Worker, CallStep(w)
  PROVE  HandOK(w)' /\ ReachedOK(w)'
  <1>1. /\ WorkerTypes /\ HandOK(w) /\ w \in Client
        /\ RecordedEvents \subseteq RecordedEvents'
    BY WorkerTypesHold, AccountsGrow, TopicAssumption DEF ConsumerInv, WorkersOK
  <1>2. CASE Crash(w)
    <2>1. call'[w].stage = "idle"
      BY <1>1, <1>2 DEF WorkerTypes, Crash, NoCall
    <2> QED
      BY <1>2, <2>1, ExitOK DEF Crash
  <1>3. ASSUME ~Crash(w)
        PROVE  UNCHANGED <<assigned, position, rec>> /\ pc[w] \in {"assert", "call"}
    BY <1>3 DEF CallStep, CallService, ServiceStep, ServiceFault, ServiceDone,
       ServiceTransient, ServiceRejected, RetryOrFail, groupVars, workerVars
  <1>4. CASE CallService(w)
    <2>1. /\ pc[w] = "assert" /\ pc'[w] = "call"
          /\ call'[w].stage # "idle" /\ call'[w].event = EventOf(w)
      BY <1>1, <1>4 DEF WorkerTypes, CallService, Goto, Start
    <2>2. UNCHANGED <<assigned, position, rec>>
      BY <1>4 DEF CallService, groupVars
    <2>3. HandOK(w)'
      BY <1>1, <2>1, <2>2 DEF HandOK, EventOf
    <2> QED
      BY <2>1, <2>2, <2>3, StaysReached DEF InHand
  <1>5. CASE ServiceStep(w) \/ ServiceFault(w)
    <2>1. call'[w].stage # "idle" /\ call'[w].event = call[w].event
      BY <1>1, <1>5, CallGoesOn DEF ServiceStep, ServiceFault, ConsumerInv, TypeOK
    <2>2. UNCHANGED <<assigned, position, rec, pc>> /\ pc[w] = "call"
      BY <1>5 DEF ServiceStep, ServiceFault, groupVars, workerVars
    <2>3. HandOK(w)'
      BY <1>1, <2>1, <2>2 DEF HandOK, EventOf
    <2> QED
      BY <2>2, <2>3, StaysReached
  <1>6. CASE ServiceDone(w) \/ ServiceTransient(w) \/ ServiceRejected(w)
    <2>1. call'[w].stage = "idle"
      BY <1>1, <1>6 DEF WorkerTypes, ServiceDone, ServiceTransient, ServiceRejected,
                        Return, NoCall
    <2>2. UNCHANGED <<assigned, position>> /\ rec' = rec /\ pc[w] = "call"
      BY <1>6 DEF ServiceDone, ServiceTransient, ServiceRejected, groupVars, RetryOrFail
    <2>3. pc'[w] \in {"select", "assert", "record"}
      BY <1>1, <1>6 DEF WorkerTypes, ServiceDone, ServiceTransient, ServiceRejected,
                        RetryOrFail, Goto
    <2>4. pc'[w] = "select" => EventOf(w) \in RecordedEvents
      <3>1. CASE ServiceDone(w)
        <4>1. Recorded(call[w].event)
          BY <1>1, <3>1 DEF ServiceDone, At, ConsumerInv, SuccessIsDurable
        <4>2. call[w].event = EventOf(w) /\ EventOf(w) \in Event
          BY <1>1, <2>2 DEF HandOK
        <4> QED
          BY <4>1, <4>2 DEF RecordedEvents
      <3>2. CASE ServiceTransient(w) \/ ServiceRejected(w)
        BY <1>1, <3>2 DEF WorkerTypes, ServiceTransient, ServiceRejected, RetryOrFail,
                          Goto
      <3> QED
        BY <1>6, <3>1, <3>2
    <2>5. HandOK(w)'
      BY <1>1, <2>1, <2>2, <2>3, <2>4 DEF HandOK, EventOf
    <2>6. ReachedOK(w)'
      BY <2>2, <2>3, StaysReached DEF InHand
    <2> QED
      BY <2>5, <2>6
  <1> QED
    BY <1>2, <1>4, <1>5, <1>6 DEF CallStep

LEMMA OwnOK ==
  ASSUME ConsumerInv, [Next]_vars, NEW w \in Worker, OwnStep(w)
  PROVE  HandOK(w)' /\ ReachedOK(w)'
  <1>1. WorkerTypes /\ HandOK(w) /\ call' = call
    BY WorkerTypesHold, OwnStepIsOutside DEF ConsumerInv, WorkersOK, serviceVars
  <1>2. CASE HoldStep(w) \/ OverStep(w) \/ Receive(w)
    BY <1>2, HoldOK, OverOK, ReceiveOK
  <1>3. CASE PollPoison(w) \/ IdleExit(w) \/ StopExit(w) \/ CommitLetterRefused(w)
             \/ CommitLetterError(w)
    <2>1. Exit(w) /\ pc[w] # "call"
      BY <1>3 DEF PollPoison, IdleExit, StopExit, CommitLetterRefused, CommitLetterError
    <2>2. call'[w].stage = "idle"
      BY <1>1, <2>1 DEF HandOK
    <2> QED
      BY <2>1, <2>2, ExitOK
  <1>4. CASE Poll(w) \/ MemberExpires(w)
    <2>1. Untouched(w)
      BY <1>1, <1>4 DEF Poll, MemberExpires, Untouched, Fetch, Expire, workerVars
    <2> QED
      BY <2>1, UntouchedStaysOK
  <1>5. CASE Restart(w)
    <2>1. /\ UNCHANGED <<assigned, position>>
          /\ pc[w] = "down" /\ pc'[w] = "poll"
      BY <1>1, <1>5 DEF WorkerTypes, Restart, Goto, groupVars
    <2>2. HandOK(w)'
      BY <1>1, <2>1 DEF HandOK
    <2> QED
      BY <2>1, <2>2, StaysReached DEF InHand
  <1> QED
    BY <1>2, <1>3, <1>4, <1>5 DEF OwnStep, HoldStep, OverStep

\* A rebalance takes the members to the committed offsets, and they have nothing
\* in hand.
LEMMA RebalanceOK ==
  ASSUME ConsumerInv, [Next]_vars, GroupRebalance, NEW w \in Worker
  PROVE  HandOK(w)' /\ ReachedOK(w)'
  <1>1. PICK owner : Rebalance(Polling, owner)
    BY DEF GroupRebalance
  <1>2. pc' = pc /\ rec' = rec /\ call' = call
    BY DEF GroupRebalance, workerVars, serviceVars
  <1>3. CASE w \in Polling
    <2>1. position'[w] = committed /\ pc[w] = "poll"
      BY <1>1, <1>3 DEF Rebalance, Polling
    <2>2. HandOK(w) /\ AccountedRecords \subseteq AccountedRecords' /\ PassedOK
      BY AccountsGrow DEF ConsumerInv, WorkersOK
    <2>3. HandOK(w)'
      BY <1>2, <2>1, <2>2 DEF HandOK
    <2>4. ReachedOK(w)'
      BY <2>1, <2>2 DEF ReachedOK, PassedOK, Passed
    <2> QED
      BY <2>3, <2>4
  <1>4. CASE w \notin Polling
    <2>1. Untouched(w)
      BY <1>1, <1>2, <1>4 DEF Rebalance, Untouched
    <2> QED
      BY <2>1, UntouchedStaysOK
  <1> QED
    BY <1>3, <1>4

LEMMA WorkersKept ==
  ASSUME ConsumerInv, [Next]_vars
  PROVE  WorkersOK'
  <1> SUFFICES ASSUME NEW v \in Worker
               PROVE  HandOK(v)' /\ ReachedOK(v)'
    BY DEF WorkersOK
  <1>1. CASE UNCHANGED vars
    <2>1. Untouched(v)
      BY <1>1 DEF vars, Untouched, serviceVars, groupVars, workerVars
    <2> QED
      BY <2>1, UntouchedStaysOK
  <1>2. CASE GroupRebalance
    BY <1>2, RebalanceOK
  <1>3. ASSUME NEW w \in Worker, OwnStep(w) \/ CallStep(w)
        PROVE  HandOK(v)' /\ ReachedOK(v)'
    <2>1. CASE v # w
      BY <1>3, <2>1, OthersUntouched, UntouchedStaysOK
    <2>2. CASE v = w
      BY <1>3, <2>2, OwnOK, CallOK
    <2> QED
      BY <2>1, <2>2
  <1> QED
    BY <1>1, <1>2, <1>3, NextCases

-----------------------------------------------------------------------------
(* Offsets and tables. *)

\* An offset is committed only by a worker whose record is accounted for.
LEMMA CommittedMoves ==
  ASSUME ConsumerInv, [Next]_vars
  PROVE  \/ committed' = committed
         \/ \E w \in Worker : CommitPositions(w) /\ pc[w] \in {"commit", "letter"}
  <1>1. CASE UNCHANGED vars
    BY <1>1 DEF vars, groupVars
  <1>2. CASE GroupRebalance
    BY <1>2 DEF GroupRebalance, Rebalance
  <1>3. ASSUME NEW w \in Worker, OwnStep(w) \/ CallStep(w)
        PROVE  committed' = committed
               \/ (CommitPositions(w) /\ pc[w] \in {"commit", "letter"})
    <2>2. CASE CommitDone(w) \/ CommitLetter(w) \/ CommitError(w)
      BY <2>2 DEF CommitDone, CommitLetter, CommitError, groupVars
    <2>3. CASE \/ Restart(w) \/ Accept(w) \/ Refuse(w) \/ SkipDuplicate(w)
               \/ SelectProcessed(w) \/ InsertProcessed(w) \/ InsertProcessedConflict(w)
               \/ CommitRefused(w) \/ SelectFailure(w) \/ RecordFailure(w)
               \/ RecordFailureConflict(w) \/ PublishDeadLetter(w)
               \/ ProcessedEventsError(w) \/ AbandonRecord(w)
      BY <2>3 DEF Restart, Accept, Refuse, SkipDuplicate, SelectProcessed,
           InsertProcessed, InsertProcessedConflict, CommitRefused, SelectFailure,
           RecordFailure, RecordFailureConflict, PublishDeadLetter,
           ProcessedEventsError, AbandonRecord, groupVars
    <2>4. CASE \/ PollPoison(w) \/ IdleExit(w) \/ StopExit(w) \/ CommitLetterRefused(w)
               \/ CommitLetterError(w) \/ Crash(w) \/ Poll(w) \/ MemberExpires(w)
               \/ Receive(w)
      BY <2>4 DEF PollPoison, IdleExit, StopExit, CommitLetterRefused,
           CommitLetterError, Crash, Exit, Leave, Poll, Fetch, MemberExpires, Expire,
           Receive, HandOut
    <2>5. CASE CallStep(w) /\ ~Crash(w)
      BY <2>5 DEF CallStep, CallService, ServiceStep, ServiceFault, ServiceDone,
           ServiceTransient, ServiceRejected, groupVars
    <2> QED
      BY <1>3, <2>2, <2>3, <2>4, <2>5 DEF OwnStep
  <1> QED
    BY <1>1, <1>2, <1>3, NextCases

LEMMA PassedKept ==
  ASSUME ConsumerInv, [Next]_vars
  PROVE  PassedOK'
  <1> SUFFICES ASSUME NEW r \in Record, r[2] <= committed'[r[1]]
               PROVE  r \in AccountedRecords'
    BY DEF PassedOK, Passed
  <1>1. PassedOK /\ AccountedRecords \subseteq AccountedRecords'
    BY AccountsGrow DEF ConsumerInv
  <1>2. CASE committed' = committed
    BY <1>1, <1>2 DEF PassedOK, Passed
  <1>3. ASSUME NEW w \in Worker, CommitPositions(w), pc[w] \in {"commit", "letter"}
        PROVE  r \in AccountedRecords'
    <2>1. r[1] \in Partition
      BY RecordFacts
    <2>2. CASE r[1] \in assigned[w]
      <3>1. r[2] <= position[w][r[1]]
        BY <1>3, <2>1, <2>2 DEF CommitPositions
      <3> QED
        BY <1>1, <1>3, <2>2, <3>1 DEF ConsumerInv, WorkersOK, ReachedOK, InHand
    <2>3. CASE r[1] \notin assigned[w]
      <3>1. r[2] <= committed[r[1]]
        BY <1>3, <2>1, <2>3 DEF CommitPositions
      <3> QED
        BY <1>1, <3>1 DEF PassedOK, Passed
    <2> QED
      BY <2>2, <2>3
  <1> QED
    BY <1>2, <1>3, CommittedMoves

\* Where the tables grow.
LEMMA OutcomeSteps ==
  ASSUME ConsumerInv, [Next]_vars
  PROVE  \/ UNCHANGED outcomeVars
         \/ \E w \in Worker :
              \/ /\ pc[w] = "insert" /\ processed' = processed \cup {EventOf(w)}
                 /\ UNCHANGED <<failed, dlq, abandoned>>
              \/ /\ rec[w] \in Record
                 /\ UNCHANGED processed
                 /\ failed' \in {failed, failed \cup {rec[w]}}
                 /\ abandoned' \in {abandoned, abandoned \cup {rec[w]}}
                 /\ \/ UNCHANGED dlq
                    \/ pc[w] = "publish" /\ dlq' = dlq \cup {rec[w]}
  <1>1. CASE UNCHANGED vars
    BY <1>1 DEF vars
  <1>2. CASE GroupRebalance
    BY <1>2 DEF GroupRebalance
  <1>3. ASSUME NEW w \in Worker, OwnStep(w) \/ CallStep(w)
        PROVE  \/ UNCHANGED outcomeVars
               \/ /\ pc[w] = "insert" /\ processed' = processed \cup {EventOf(w)}
                  /\ UNCHANGED <<failed, dlq, abandoned>>
               \/ /\ rec[w] \in Record
                  /\ UNCHANGED processed
                  /\ failed' \in {failed, failed \cup {rec[w]}}
                  /\ abandoned' \in {abandoned, abandoned \cup {rec[w]}}
                  /\ \/ UNCHANGED dlq
                     \/ pc[w] = "publish" /\ dlq' = dlq \cup {rec[w]}
    <2>0. HandOK(w)
      BY DEF ConsumerInv, WorkersOK
    <2>1. CASE InsertProcessed(w) \/ ProcessedEventsError(w)
      BY <2>1 DEF InsertProcessed, ProcessedEventsError, outcomeVars
    <2>2. CASE RecordFailure(w) \/ RecordFailureConflict(w)
      BY <2>0, <2>2 DEF RecordFailure, RecordFailureConflict, Abandon, HandOK
    <2>3. CASE PublishDeadLetter(w)
      BY <2>0, <2>3 DEF PublishDeadLetter, HandOK
    <2>4. CASE AbandonRecord(w)
      BY <2>0, <2>4 DEF AbandonRecord, Abandon, HandOK
    <2>5. CASE \/ Restart(w) \/ Poll(w) \/ PollPoison(w) \/ IdleExit(w) \/ Receive(w)
               \/ Accept(w) \/ Refuse(w) \/ SkipDuplicate(w) \/ SelectProcessed(w)
               \/ InsertProcessedConflict(w) \/ CommitDone(w) \/ CommitRefused(w)
               \/ SelectFailure(w) \/ CommitLetter(w) \/ CommitLetterRefused(w)
               \/ StopExit(w) \/ MemberExpires(w) \/ CommitError(w)
               \/ CommitLetterError(w)
      BY <2>5 DEF Restart, Poll, PollPoison, IdleExit, Receive, Accept, Refuse,
           SkipDuplicate, SelectProcessed, InsertProcessedConflict, CommitDone,
           CommitRefused, SelectFailure, CommitLetter, CommitLetterRefused, StopExit,
           MemberExpires, CommitError, CommitLetterError
    <2>6. CASE CallStep(w)
      BY <2>6 DEF CallStep, CallService, ServiceStep, ServiceFault, ServiceDone,
           ServiceTransient, ServiceRejected, Crash
    <2> QED
      BY <1>3, <2>1, <2>2, <2>3, <2>4, <2>5, <2>6 DEF OwnStep
  <1> QED
    BY <1>1, <1>2, <1>3, NextCases

LEMMA TablesOK ==
  ASSUME ConsumerInv, [Next]_vars
  PROVE  /\ ProcessedIsApplied' /\ DeadLetterIsRecorded'
         /\ processed' \subseteq Event
         /\ failed' \subseteq Record /\ dlq' \subseteq Record /\ abandoned' \subseteq Record
  <1>1. /\ RecordedEvents \subseteq RecordedEvents' /\ OutcomesGrow
        /\ processed \subseteq RecordedEvents /\ dlq \subseteq failed
        /\ processed \subseteq Event
        /\ failed \subseteq Record /\ dlq \subseteq Record /\ abandoned \subseteq Record
    BY AccountsGrow DEF ConsumerInv, ProcessedIsApplied, DeadLetterIsRecorded, TypeOK
  <1>2. \A w \in Worker : HandOK(w)
    BY DEF ConsumerInv, WorkersOK
  <1>3. \A w \in Worker : pc[w] = "insert" =>
          EventOf(w) \in Event /\ EventOf(w) \in RecordedEvents
    BY <1>2 DEF HandOK
  <1>4. \A w \in Worker : pc[w] = "publish" => rec[w] \in failed
    BY <1>2 DEF HandOK
  <1> QED
    BY <1>1, <1>3, <1>4, OutcomeSteps
       DEF ProcessedIsApplied, DeadLetterIsRecorded, outcomeVars, OutcomesGrow

-----------------------------------------------------------------------------
(* Types. *)

Label == {"down", "poll", "validate", "assert", "call", "select", "insert", "commit",
          "record", "store", "publish", "letter"}

WorkerTypeOK ==
  /\ pc \in [Worker -> Label]
  /\ rec \in [Worker -> Record \cup {NoRecord}]
  /\ attempt \in [Worker -> 0 .. MaxAttempts]
  /\ faults \in 0 .. MaxFaults

LEMMA WorkerTypesKept ==
  ASSUME ConsumerInv, [Next]_vars
  PROVE  WorkerTypeOK'
  <1>1. WorkerTypeOK
    BY DEF ConsumerInv, TypeOK, WorkerTypeOK, Label
  <1> USE ConsumerAssumption DEF WorkerTypeOK
  <1>2. CASE UNCHANGED vars
    BY <1>1, <1>2 DEF vars, workerVars
  <1>3. CASE GroupRebalance
    BY <1>1, <1>3 DEF GroupRebalance, workerVars
  <1>4. ASSUME NEW w \in Worker, OwnStep(w) \/ CallStep(w)
        PROVE  WorkerTypeOK'
    <2>0. faults' \in 0 .. MaxFaults
      <3>1. CASE \/ StopExit(w) \/ MemberExpires(w) \/ ProcessedEventsError(w)
                 \/ CommitError(w) \/ AbandonRecord(w) \/ CommitLetterError(w)
                 \/ ServiceFault(w) \/ Crash(w)
        BY <1>1, <3>1, FaultTypes DEF StopExit, MemberExpires, ProcessedEventsError,
           CommitError, AbandonRecord, CommitLetterError, ServiceFault, Crash
      <3>2. CASE \/ Restart(w) \/ Poll(w) \/ PollPoison(w) \/ IdleExit(w) \/ Receive(w)
                 \/ Accept(w) \/ Refuse(w) \/ SkipDuplicate(w) \/ SelectProcessed(w)
                 \/ InsertProcessed(w) \/ InsertProcessedConflict(w)
                 \/ CommitDone(w) \/ CommitRefused(w)
        BY <1>1, <3>2 DEF Restart, Poll, PollPoison, IdleExit, Receive, Accept, Refuse,
             SkipDuplicate, SelectProcessed, InsertProcessed, InsertProcessedConflict,
             CommitDone, CommitRefused
      <3>3. CASE \/ SelectFailure(w) \/ RecordFailure(w) \/ RecordFailureConflict(w)
                 \/ PublishDeadLetter(w) \/ CommitLetter(w) \/ CommitLetterRefused(w)
                 \/ CallService(w) \/ ServiceStep(w) \/ ServiceDone(w)
                 \/ ServiceTransient(w) \/ ServiceRejected(w)
        BY <1>1, <3>3 DEF SelectFailure, RecordFailure, RecordFailureConflict,
             PublishDeadLetter, CommitLetter, CommitLetterRefused, CallService,
             ServiceStep, ServiceDone, ServiceTransient, ServiceRejected
      <3> QED
        BY <1>4, <3>1, <3>2, <3>3 DEF OwnStep, CallStep
    <2> USE <1>1, <2>0 DEF Goto, Label
    <2>1. CASE Receive(w)
      <3>1. PICK p \in Buffered(w) :
              HandOut(w, p) /\ rec' = [rec EXCEPT ![w] = <<p, position[w][p] + 1>>]
        BY <2>1 DEF Receive
      <3>2. p \in Partition
        BY <3>1 DEF Buffered, ConsumerInv, GroupInv, GroupTypeOK
      <3>3. <<p, position[w][p] + 1>> \in Record
        BY <3>1, <3>2, HandedOut DEF ConsumerInv
      <3> QED
        BY <2>1, <3>1, <3>3 DEF Receive
    <2>2. CASE InsertProcessedConflict(w) \/ ProcessedEventsError(w) \/ ServiceTransient(w)
      <3>1. RetryOrFail(w)
        BY <2>2 DEF InsertProcessedConflict, ProcessedEventsError, ServiceTransient
      <3>2. attempt' \in [Worker -> 0 .. MaxAttempts]
        BY <3>1 DEF RetryOrFail
      <3> QED
        BY <3>1, <3>2 DEF RetryOrFail
    <2>3. CASE Accept(w)
      <3>1. 1 \in 0 .. MaxAttempts
        OBVIOUS
      <3> QED
        BY <2>3, <3>1 DEF Accept
    <2>4. CASE OverStep(w)
      <3>1. NextMessage(w)
        BY <2>4 DEF OverStep, CommitDone, CommitRefused, CommitError,
             RecordFailureConflict, AbandonRecord, CommitLetter, Abandon
      <3> QED
        BY <3>1 DEF NextMessage
    <2>5. CASE PollPoison(w) \/ IdleExit(w) \/ StopExit(w) \/ CommitLetterRefused(w)
               \/ CommitLetterError(w) \/ Crash(w)
      <3>1. Exit(w)
        BY <2>5 DEF PollPoison, IdleExit, StopExit, CommitLetterRefused,
             CommitLetterError, Crash
      <3> QED
        BY <3>1 DEF Exit
    <2>6. CASE \/ Restart(w) \/ Refuse(w) \/ SkipDuplicate(w) \/ SelectProcessed(w)
               \/ InsertProcessed(w) \/ SelectFailure(w) \/ RecordFailure(w)
               \/ PublishDeadLetter(w) \/ CallService(w) \/ ServiceDone(w)
               \/ ServiceRejected(w)
      BY <2>6 DEF Restart, Refuse, SkipDuplicate, SelectProcessed, InsertProcessed,
           SelectFailure, RecordFailure, PublishDeadLetter, CallService, ServiceDone,
           ServiceRejected
    <2>7. CASE Poll(w) \/ MemberExpires(w) \/ ServiceStep(w) \/ ServiceFault(w)
      BY <2>7 DEF Poll, MemberExpires, ServiceStep, ServiceFault, workerVars
    <2> QED
      BY <1>4, <2>1, <2>2, <2>3, <2>4, <2>5, <2>6, <2>7 DEF OwnStep, CallStep, OverStep
  <1> QED
    BY <1>2, <1>3, <1>4, NextCases

-----------------------------------------------------------------------------
(* The theorems. *)

\* At first every worker is down, and nothing has been read or written ...
LEMMA ConsumerInvInit == Init => ConsumerInv
  <1> SUFFICES ASSUME Init PROVE ConsumerInv
    OBVIOUS
  <1>1. ServiceInv /\ GroupInv
    BY ServiceInvInit, GroupInitInv DEF Init
  <1>2. SuccessIsDurable
    BY DEF Init, ServiceInit, SuccessIsDurable, NoCall
  <1>3. TypeOK
    BY <1>1, ConsumerAssumption, TopicAssumption
       DEF Init, TypeOK, ServiceInv, LockInv, GroupInv
  <1>4. WorkersOK
    BY TopicAssumption DEF Init, WorkersOK, HandOK, ReachedOK, ServiceInit, GroupInit,
                           NoCall
  <1>5. PassedOK
    <2>1. \A r \in Record : committed[r[1]] = 0 /\ r[2] \in 1 .. End(r[1])
      BY RecordFacts DEF Init, GroupInit, Start0
    <2> QED
      BY <2>1, RecordFacts, GroupAssumption DEF PassedOK, Passed
  <1>6. ProcessedIsApplied /\ DeadLetterIsRecorded
    BY DEF Init, ProcessedIsApplied, DeadLetterIsRecorded
  <1> QED
    BY <1>1, <1>2, <1>3, <1>4, <1>5, <1>6 DEF ConsumerInv

\* ... and every step of a worker, of the group and of what fails them keeps the
\* invariant.
LEMMA ConsumerInvStep == ConsumerInv /\ [Next]_vars => ConsumerInv'
  <1> SUFFICES ASSUME ConsumerInv, [Next]_vars PROVE ConsumerInv'
    OBVIOUS
  <1>1. ServiceInv' /\ SuccessIsDurable'
    BY StepIsServiceStep, ServiceInvStep, SuccessStep DEF ConsumerInv
  <1>2. GroupInv'
    BY GroupKept
  <1>3. ProcessedIsApplied' /\ DeadLetterIsRecorded'
    BY TablesOK
  <1>4. TypeOK'
    BY <1>1, <1>2, TablesOK, WorkerTypesKept
       DEF TypeOK, WorkerTypeOK, Label, ServiceInv, LockInv, GroupInv
  <1> QED
    BY <1>1, <1>2, <1>3, <1>4, WorkersKept, PassedKept DEF ConsumerInv

\* The inductive invariant of the consumer.
THEOREM ConsumerInvariant == Spec => []ConsumerInv
  BY ConsumerInvInit, ConsumerInvStep, PTL DEF Spec

\* Every variable keeps its type.
THEOREM ConsumerTypes == Spec => []TypeOK
  BY ConsumerInvariant, PTL DEF ConsumerInv

\* To the database and the cache, any number of workers with their crashes,
\* redeliveries, retries and rebalances is a number of clients of process_event:
\* what holds of ServiceSpec holds of the consumer.
THEOREM ConsumerIsClient == Spec => ServiceSpec
  <1>1. Init => ServiceInit
    BY DEF Init
  <1>2. ConsumerInv /\ [Next]_vars => [ServiceNext]_serviceVars
    BY StepIsServiceStep
  <1> QED
    BY <1>1, <1>2, ConsumerInvariant, PTL DEF Spec, ServiceSpec

\* In particular each event of the topic counts at most once, in one step of the
\* ledger, however often it is delivered.
THEOREM ConsumerKeepsLedger == Spec => ImplementsLedger
  BY ConsumerIsClient, LedgerRefinement, PTL

\* No offset is committed past a record that still needs a delivery: each one was
\* applied, or is in the dead letter topic, or its failure handling was given up.
THEOREM NothingIsSkipped == Spec => []CommittedIsAccounted
  <1>1. ConsumerInv => CommittedIsAccounted
    BY DEF ConsumerInv, PassedOK, AccountedRecords, CommittedIsAccounted
  <1> QED
    BY <1>1, ConsumerInvariant, PTL

\* What is marked as processed, and will be skipped from then on, is in the history.
THEOREM MarkedIsApplied == Spec => []ProcessedIsApplied
  BY ConsumerInvariant, PTL DEF ConsumerInv

\* Each dead letter has its row in "failed_events".
THEOREM LettersAreRecorded == Spec => []DeadLetterIsRecorded
  BY ConsumerInvariant, PTL DEF ConsumerInv

-----------------------------------------------------------------------------
(* One worker and the cache.  While the worker's event is not marked, the     *)
(* property says nothing of the event's row; by the time it is marked, the    *)
(* cache shows what the row has, and nobody else writes either of them.       *)

\* What the worker knows of the row and the cache, by where it is.
CallShown(w) ==
  /\ At(w, "sync") => call[w].quantity = quantity[MyKey(w)]
  /\ At(w, "done") => cache[MyKey(w)] = quantity[MyKey(w)]

CacheOK(w) ==
  /\ pc[w] = "call" => EventOf(w) \notin processed /\ CallShown(w)
  /\ pc[w] \in {"select", "insert"} =>
       cache[KeyOf[EventOf(w)]] = quantity[KeyOf[EventOf(w)]]

OneWorkerInv == CacheFollowsProcessed /\ \A w \in Worker : CacheOK(w)

\* Steps of a call that leave the cache alone, or write the row's quantity.
LEMMA QuietCacheStep ==
  ASSUME ServiceInv, NEW w \in Client, CallShown(w), CacheFollowsProcessed,
         Proceed(w) \/ Fail(w), ~CommitChange(w), ~LoseCommitReply(w),
         UNCHANGED processed
  PROVE  CallShown(w)' /\ CacheFollowsProcessed'
  <1>1. /\ call \in [Client -> Call] /\ call[w] \in Call
        /\ cache \in [Key -> Int \cup {NotCached}]
    BY DEF ServiceInv, LockInv, ServiceTypeOK
  <1>2. UNCHANGED <<rows, quantity, history>>
    <2>1. NoTableStep(w) \/ RollbackStep(w) \/ LockStep(w)
      BY DEF Proceed, Fail, NoTableStep, RollbackStep, LockStep
    <2> QED
      BY <1>1, <2>1, NoTableStepIsQuiet, RollbackStepEnds, TablesKept
  <1>3. PICK k, q : k = MyKey(w) /\ q = quantity[k]
    OBVIOUS
  <1>4. CASE SyncCache(w) \/ CacheError(w)
    <2>1. /\ At(w, "sync")
          /\ cache' = [cache EXCEPT ![k] = call[w].quantity] \/ cache' = cache
          /\ SyncCache(w) => cache' = [cache EXCEPT ![k] = call[w].quantity]
      BY <1>3, <1>4 DEF SyncCache, CacheError, SetCache
    <2>2. call[w].quantity = q
      BY <1>3, <2>1 DEF CallShown
    <2>3. CacheFollowsProcessed'
      BY <1>1, <1>2, <1>3, <2>1, <2>2 DEF CacheFollowsProcessed
    <2>4. /\ call'[w].event = call[w].event
          /\ \/ SyncCache(w) /\ call'[w].stage = "done"
             \/ call'[w].stage = "transient"
      BY <1>1, <1>4 DEF SyncCache, CacheError, MoveTo, Call
    <2>5. k \in Key
      BY <1>3, <2>1, RowInUse DEF At, ServiceInv, LockInv
    <2> QED
      BY <1>1, <1>2, <1>3, <2>1, <2>2, <2>3, <2>4, <2>5 DEF CallShown, At, MyKey
  <1>5. CASE ~SyncCache(w) /\ ~CacheError(w)
    <2>1. cache' = cache
      BY <1>5 DEF Proceed, Fail, FindDuplicate, FindNoDuplicate, LockRow, FindNoRow,
         InsertRow, InsertConflict, RejectNegative, CommitConflict, DatabaseError
    <2>2. CacheFollowsProcessed'
      BY <1>2, <2>1 DEF CacheFollowsProcessed
    <2>3. CASE FindDuplicate(w)
      BY <1>1, <1>2, <2>2, <2>3 DEF FindDuplicate, CallShown, At, MyKey, Call
    <2>4. CASE ~FindDuplicate(w)
      <3>1. call'[w].stage \in {"lock", "apply", "insert", "transient", "rejected"}
        BY <1>1, <1>5, <2>4 DEF Proceed, Fail, FindNoDuplicate, LockRow, FindNoRow,
           InsertRow, InsertConflict, RejectNegative, CommitConflict, DatabaseError,
           MoveTo, Call
      <3> QED
        BY <2>2, <3>1 DEF CallShown, At
    <2> QED
      BY <2>3, <2>4
  <1> QED
    BY <1>4, <1>5

\* A commit makes an event that is not marked the last one of its row.
LEMMA CommitCacheStep ==
  ASSUME ServiceInv, NEW w \in Client, CacheFollowsProcessed,
         CommitChange(w) \/ LoseCommitReply(w), call[w].event \notin processed,
         UNCHANGED processed
  PROVE  CallShown(w)' /\ CacheFollowsProcessed'
  <1>0. PICK k, e, n : k = MyKey(w) /\ e = call[w].event /\ n = Len(history[k])
    OBVIOUS
  <1>1. CommitStep(w) /\ cache' = cache
    BY DEF CommitChange, LoseCommitReply, CommitStep, Commit
  <1>2. /\ k \in Key /\ n \in Nat
        /\ DOMAIN history'[k] = 1 .. n + 1
        /\ history'[k][n + 1].event = e
        /\ \A l \in Key : l # k => history'[l] = history[l]
    BY <1>0, <1>1, CommitAppends
  <1>3. /\ WriteChange(k, e, quantity[k], Delta[e])
        /\ quantity \in [Key -> Int] /\ call \in [Client -> Call]
    BY <1>0, <1>1, CommitEffect DEF ServiceInv, LockInv, ServiceTypeOK, StoreTypeOK
  <1>4. /\ quantity'[k] = quantity[k] + Delta[e]
        /\ \A l \in Key : l # k => quantity'[l] = quantity[l]
    BY <1>2, <1>3 DEF WriteChange
  <1>5. Len(history'[k]) = n + 1
    <2>1. history'[k] \in Seq(Entry)
      BY <1>2, CommitTypes, <1>1 DEF ServiceTypeOK, StoreTypeOK, ServiceInv, LockInv
    <2> QED
      BY <1>2, <2>1
  <1>6. CacheFollowsProcessed'
    <2> SUFFICES ASSUME NEW l \in Key, history'[l] # <<>>,
                        history'[l][Len(history'[l])].event \in processed
                 PROVE  cache[l] = quantity'[l]
      BY <1>1 DEF CacheFollowsProcessed
    <2>1. l # k
      BY <1>0, <1>2, <1>5
    <2> QED
      BY <1>2, <1>4, <2>1 DEF CacheFollowsProcessed
  <1>7. CallShown(w)'
    <2>1. call[w].quantity = quantity[k]
      BY <1>0 DEF CommitChange, LoseCommitReply, Commit, ServiceInv, LockInv,
                  LockProtectsRead
    <2>2. /\ call'[w].stage \in {"sync", "transient"} /\ call'[w].event = e
          /\ call'[w].quantity = call[w].quantity + Delta[e]
      BY <1>0, <1>3 DEF CommitChange, LoseCommitReply, Commit, After, Call
    <2> QED
      BY <1>0, <1>4, <2>1, <2>2 DEF CallShown, At, MyKey
  <1> QED
    BY <1>6, <1>7

\* What a worker does outside process_event: it marks its event, whose row the cache
\* shows, or nothing.
LEMMA OwnCacheStep ==
  ASSUME ConsumerInv, OneWorkerInv, NEW w \in Worker, \A v \in Worker : v = w,
         OwnStep(w), [Next]_vars
  PROVE  OneWorkerInv'
  <1>1. /\ quantity' = quantity /\ history' = history /\ cache' = cache /\ call' = call
    BY OwnStepIsOutside DEF serviceVars, storeVars
  <1>2. HandOK(w) /\ CacheOK(w) /\ CacheFollowsProcessed /\ pc = [v \in Worker |-> pc[v]]
    BY DEF ConsumerInv, WorkersOK, OneWorkerInv, TypeOK
  <1>3. /\ pc'[w] = "call" => pc[w] = "call" /\ rec'[w] = rec[w]
        /\ pc'[w] \in {"select", "insert"} =>
             pc[w] \in {"select", "insert"} /\ rec'[w] = rec[w]
    <2>1. CASE SelectProcessed(w) \/ InsertProcessed(w) \/ InsertProcessedConflict(w)
               \/ ProcessedEventsError(w)
      BY <1>2, <2>1 DEF SelectProcessed, InsertProcessed, InsertProcessedConflict,
         ProcessedEventsError, RetryOrFail, Goto
    <2>2. CASE Restart(w) \/ Receive(w) \/ Accept(w) \/ Refuse(w) \/ SkipDuplicate(w)
               \/ SelectFailure(w) \/ RecordFailure(w) \/ PublishDeadLetter(w)
      BY <1>2, <2>2 DEF Restart, Receive, Accept, Refuse, SkipDuplicate, SelectFailure,
         RecordFailure, PublishDeadLetter, Goto
    <2>3. CASE \/ PollPoison(w) \/ IdleExit(w) \/ CommitDone(w) \/ CommitRefused(w)
               \/ RecordFailureConflict(w) \/ CommitLetter(w) \/ CommitLetterRefused(w)
               \/ StopExit(w) \/ CommitError(w) \/ AbandonRecord(w)
               \/ CommitLetterError(w)
      BY <1>2, <2>3 DEF PollPoison, IdleExit, CommitDone, CommitRefused,
         RecordFailureConflict, CommitLetter, CommitLetterRefused, StopExit,
         CommitError, AbandonRecord, CommitLetterError, Abandon, NextMessage, Exit, Goto
    <2>4. CASE Poll(w) \/ MemberExpires(w)
      BY <2>4 DEF Poll, MemberExpires, workerVars
    <2> QED
      BY <2>1, <2>2, <2>3, <2>4 DEF OwnStep
  <1>4. \/ processed' = processed
        \/ pc[w] = "insert" /\ processed' = processed \cup {EventOf(w)}
    <2>1. \A v \in Worker : v = w
      OBVIOUS
    <2> QED
      BY <2>1, OutcomeSteps DEF outcomeVars
  <1>5. CacheOK(w)'
    BY <1>1, <1>2, <1>3, <1>4 DEF CacheOK, CallShown, At, MyKey, EventOf
  <1>6. CacheFollowsProcessed'
    <2> SUFFICES ASSUME NEW k \in Key, history[k] # <<>>,
                        NEW e, e = history[k][Len(history[k])].event, e \in processed'
                 PROVE  cache[k] = quantity[k]
      BY <1>1 DEF CacheFollowsProcessed
    <2>1. CASE e \in processed
      BY <1>2, <2>1 DEF CacheFollowsProcessed
    <2>2. CASE e \notin processed
      <3>1. pc[w] = "insert" /\ e = EventOf(w)
        BY <1>4, <2>2
      <3>2. KeyOf[e] = k
        <4>1. history[k] \in Seq(Entry)
          BY DEF ConsumerInv, ServiceInv, LockInv, ServiceTypeOK, StoreTypeOK
        <4>2. Len(history[k]) \in DOMAIN history[k]
          BY <4>1, EmptySeq, LenProperties
        <4> QED
          BY <4>2 DEF ConsumerInv, ServiceInv, TableInv, HistoryOnItsRow
      <3> QED
        BY <1>2, <3>1, <3>2 DEF CacheOK
    <2> QED
      BY <2>1, <2>2
  <1> QED
    BY <1>5, <1>6 DEF OneWorkerInv

LEMMA CallCacheStep ==
  ASSUME ConsumerInv, OneWorkerInv, NEW w \in Worker, \A v \in Worker : v = w,
         CallStep(w)
  PROVE  OneWorkerInv'
  <1>1. /\ HandOK(w) /\ CacheOK(w) /\ CacheFollowsProcessed /\ ServiceInv
        /\ pc = [v \in Worker |-> pc[v]] /\ w \in Client
        /\ call \in [Client -> Call]
    BY TopicAssumption DEF ConsumerInv, WorkersOK, OneWorkerInv, TypeOK, ServiceTypeOK
  <1>2. processed' = processed
    BY DEF CallStep, CallService, ServiceStep, ServiceFault, ServiceDone,
       ServiceTransient, ServiceRejected, Crash, outcomeVars
  <1>3. CASE CallService(w)
    <2>1. /\ pc'[w] = "call" /\ rec' = rec /\ call'[w].stage = "lookup"
          /\ EventOf(w) \notin processed
          /\ quantity' = quantity /\ history' = history /\ cache' = cache
      BY <1>1, <1>3 DEF CallService, Start, Goto, storeVars
    <2>2. CacheFollowsProcessed'
      BY <1>1, <1>2, <2>1 DEF CacheFollowsProcessed
    <2>3. CacheOK(w)'
      BY <1>2, <2>1 DEF CacheOK, CallShown, At, EventOf
    <2> QED
      BY <2>2, <2>3 DEF OneWorkerInv
  <1>4. CASE ServiceStep(w) \/ ServiceFault(w)
    <2>1. /\ pc[w] = "call"
          /\ Proceed(w) \/ Fail(w)
          /\ pc' = pc /\ rec' = rec
      BY <1>4 DEF ServiceStep, ServiceFault, workerVars
    <2>2. /\ CallShown(w) /\ call[w].event = EventOf(w) /\ EventOf(w) \notin processed
      BY <1>1, <2>1 DEF CacheOK, HandOK
    <2>3. CallShown(w)' /\ CacheFollowsProcessed'
      BY <1>1, <1>2, <2>1, <2>2, QuietCacheStep, CommitCacheStep
    <2> QED
      BY <1>2, <2>1, <2>2, <2>3 DEF OneWorkerInv, CacheOK, EventOf
  <1>5. CASE \/ ServiceDone(w) \/ ServiceTransient(w) \/ ServiceRejected(w)
             \/ Crash(w)
    <2>1. quantity' = quantity /\ history' = history /\ cache' = cache
      BY <1>5 DEF ServiceDone, ServiceTransient, ServiceRejected, Crash, Return, storeVars
    <2>2. CacheFollowsProcessed'
      BY <1>1, <1>2, <2>1 DEF CacheFollowsProcessed
    <2>3. CASE ServiceDone(w)
      <3>1. pc'[w] = "select" /\ rec' = rec /\ pc[w] = "call" /\ At(w, "done")
        BY <1>1, <2>3 DEF ServiceDone, Goto
      <3>2. cache[KeyOf[EventOf(w)]] = quantity[KeyOf[EventOf(w)]]
        BY <1>1, <3>1 DEF CacheOK, CallShown, HandOK, MyKey
      <3> QED
        BY <2>1, <2>2, <3>1, <3>2 DEF OneWorkerInv, CacheOK, EventOf
    <2>4. CASE ServiceTransient(w) \/ ServiceRejected(w) \/ Crash(w)
      <3>1. pc'[w] \in {"assert", "record", "down"}
        BY <1>1, <2>4 DEF ServiceTransient, ServiceRejected, Crash, RetryOrFail, Exit, Goto
      <3> QED
        BY <2>2, <3>1 DEF OneWorkerInv, CacheOK
    <2> QED
      BY <1>5, <2>3, <2>4
  <1> QED
    BY <1>3, <1>4, <1>5 DEF CallStep

\* With one worker, once the last change of a row has been marked the cache shows the
\* row's quantity, whatever failed on the way.
THEOREM OneWorkerCache ==
  ASSUME \A v, w \in Worker : v = w
  PROVE  Spec => []CacheFollowsProcessed
  <1>1. Init => OneWorkerInv
    BY DEF Init, ServiceInit, StoreInit, OneWorkerInv, CacheFollowsProcessed, CacheOK
  <1>2. ConsumerInv /\ OneWorkerInv /\ [Next]_vars => OneWorkerInv'
    <2> SUFFICES ASSUME ConsumerInv, OneWorkerInv, [Next]_vars PROVE OneWorkerInv'
      OBVIOUS
    <2>1. CASE UNCHANGED <<serviceVars, workerVars, outcomeVars>>
      <3>1. /\ quantity' = quantity /\ history' = history /\ cache' = cache /\ call' = call
            /\ pc' = pc /\ rec' = rec /\ processed' = processed
        BY <2>1 DEF serviceVars, storeVars, workerVars, outcomeVars
      <3>2. CacheFollowsProcessed'
        BY <3>1 DEF OneWorkerInv, CacheFollowsProcessed
      <3>3. ASSUME NEW w \in Worker PROVE CacheOK(w)'
        BY <3>1 DEF OneWorkerInv, CacheOK, CallShown, At, MyKey, EventOf
      <3> QED
        BY <3>2, <3>3 DEF OneWorkerInv
    <2>2. CASE UNCHANGED vars \/ GroupRebalance
      BY <2>1, <2>2 DEF vars, GroupRebalance
    <2>3. ASSUME NEW w \in Worker, OwnStep(w) \/ CallStep(w)
          PROVE  OneWorkerInv'
      BY <2>3, OwnCacheStep, CallCacheStep
    <2> QED
      BY <2>1, <2>2, <2>3, NextCases
  <1>3. OneWorkerInv => CacheFollowsProcessed
    BY DEF OneWorkerInv
  <1> QED
    BY <1>1, <1>2, <1>3, ConsumerInvariant, PTL DEF Spec

\* No committed offset moves back, whoever commits.
THEOREM OffsetsOnlyGrow == Spec => OffsetsNeverMoveBack
  <1>1. ConsumerInv /\ [Next]_vars =>
          [\A p \in Partition : committed[p] <= committed'[p]]_vars
    BY GroupKept DEF NoneMovesBack
  <1> QED
    BY <1>1, ConsumerInvariant, PTL DEF Spec, OffsetsNeverMoveBack

=============================================================================
