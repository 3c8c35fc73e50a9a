-------------------------- MODULE BatchConsumer_proofs -------------------------
(***************************************************************************)
(* Proofs about BatchConsumer, for any number of workers, partitions,      *)
(* records and failures, and any batch size.                               *)
(***************************************************************************)
EXTENDS BatchConsumer, InventoryTopic_proofs

-----------------------------------------------------------------------------
(* The elements of a sequence. *)

LEMMA RangeOfTail ==
  ASSUME NEW S, NEW s \in Seq(S), s # <<>>
  PROVE  Range(s) = {Head(s)} \cup Range(Tail(s))
  <1> DEFINE t == Tail(s)
  <1>1. /\ Range(s) = {s[i] : i \in 1 .. Len(s)}
        /\ t \in Seq(S) /\ Len(t) = Len(s) - 1
        /\ \A i \in 1 .. Len(t) : t[i] = s[i + 1]
        /\ Head(s) = s[1] /\ Len(s) \in Nat \ {0}
    BY HeadTailProperties, RangeEquality, EmptySeq, LenProperties
  <1> HIDE DEF t
  <1>2. Range(t) = {t[i] : i \in 1 .. Len(t)}
    BY <1>1, RangeEquality
  <1>3. ASSUME NEW x \in Range(s)
        PROVE  x \in {Head(s)} \cup Range(t)
    <2>1. PICK i \in 1 .. Len(s) : x = s[i]
      BY <1>1
    <2>2. CASE i = 1
      BY <1>1, <2>1, <2>2
    <2>3. CASE i # 1
      <3>1. i - 1 \in 1 .. Len(t) /\ x = s[(i - 1) + 1]
        BY <1>1, <2>1, <2>3
      <3> QED
        BY <1>1, <1>2, <3>1
    <2> QED
      BY <2>2, <2>3
  <1>4. Range(t) \subseteq Range(s) /\ Head(s) \in Range(s)
    <2>1. \A i \in 1 .. Len(t) : i + 1 \in 1 .. Len(s)
      BY <1>1
    <2> QED
      BY <1>1, <1>2, <2>1
  <1> QED
    BY <1>3, <1>4 DEF t

LEMMA RangeOfAppend ==
  ASSUME NEW S, NEW s \in Seq(S), NEW e \in S
  PROVE  Range(Append(s, e)) = Range(s) \cup {e}
  <1> DEFINE t == Append(s, e)
  <1>1. /\ t \in Seq(S) /\ Len(t) = Len(s) + 1 /\ Len(s) \in Nat
        /\ \A i \in 1 .. Len(s) : t[i] = s[i]
        /\ t[Len(s) + 1] = e
    BY AppendProperties, LenProperties
  <1> HIDE DEF t
  <1>2. /\ Range(s) = {s[i] : i \in 1 .. Len(s)}
        /\ Range(t) = {t[i] : i \in 1 .. Len(t)}
    BY <1>1, RangeEquality
  <1>3. 1 .. Len(t) = (1 .. Len(s)) \cup {Len(s) + 1}
    BY <1>1
  <1>4. Range(t) = Range(s) \cup {e}
    BY <1>1, <1>2, <1>3
  <1> QED
    BY <1>4 DEF t

\* Two sequences that have room together, one of them not empty: the room is kept
\* when it loses its head, and when the head goes to the other one.
LEMMA TailLeavesRoom ==
  ASSUME NEW S, NEW s \in Seq(S), NEW b \in Seq(S), NEW n \in Nat, s # <<>>
  PROVE  /\ Len(b) + Len(s) <= n => Len(b) + Len(Tail(s)) <= n
         /\ Len(s) + Len(b) <= n => Len(Tail(s)) + Len(b) <= n
  <1>1. Len(Tail(s)) = Len(s) - 1 /\ Len(s) \in Nat /\ Len(b) \in Nat
    BY HeadTailProperties, LenProperties
  <1> QED
    BY <1>1

LEMMA TransferKeepsRoom ==
  ASSUME NEW S, NEW s \in Seq(S), NEW b \in Seq(S), NEW e \in S, NEW n \in Nat,
         s # <<>>, Len(b) + Len(s) <= n
  PROVE  /\ Len(Append(b, e)) + Len(Tail(s)) <= n
         /\ Len(b) + 1 >= n => Tail(s) = <<>>
  <1>1. /\ Len(Tail(s)) = Len(s) - 1 /\ Len(s) \in Nat \ {0} /\ Len(b) \in Nat
        /\ Tail(s) \in Seq(S) /\ Len(Append(b, e)) = Len(b) + 1
    BY HeadTailProperties, LenProperties, AppendProperties, EmptySeq
  <1>2. Len(Tail(s)) = 0 => Tail(s) = <<>>
    <2> DEFINE t == Tail(s)
    <2>1. t \in Seq(S)
      BY <1>1
    <2> HIDE DEF t
    <2>2. Len(t) = 0 => t = <<>>
      BY <2>1, EmptySeq
    <2> QED
      BY <2>2 DEF t
  <1> QED
    BY <1>1, <1>2

LEMMA RangeOfEmpty == Range(<<>>) = {}
  BY DEF Range

-----------------------------------------------------------------------------
(* What poll() returns. *)

\* Records, in a number that fits a batch, and all that are before the offsets.
LEMMA OrderFacts ==
  ASSUME GroupInv, NEW w \in Worker, NEW f \in Fetches(w), NEW s \in Orders(w, f)
  PROVE  /\ s \in Seq(Record)
         /\ Len(s) <= BatchSize
         /\ \A r \in Record : r[2] <= f[r[1]] => r[2] <= position[w][r[1]] \/ r \in Range(s)
  <1>1. PICK n \in 0 .. BatchSize : s \in [1 .. n -> NewRecords(w, f)]
    BY DEF Orders
  <1>2. \A r \in NewRecords(w, f) : \E i \in DOMAIN s : s[i] = r
    BY DEF Orders
  <1>3. n \in Nat /\ n <= BatchSize
    BY <1>1, BatchAssumption
  <1>4. /\ f \in Offsets /\ position[w] \in Offsets
    BY DEF Fetches, GroupInv, GroupTypeOK
  <1>5. NewRecords(w, f) \subseteq Record
    <2> SUFFICES ASSUME NEW p \in Partition, NEW i \in position[w][p] + 1 .. f[p]
                 PROVE  <<p, i>> \in Record
      BY DEF NewRecords
    <2>1. i \in 1 .. End(p)
      BY <1>4, OffsetFacts, GroupAssumption
    <2> QED
      BY <2>1, PlaceIsRecord
  <1>6. s \in Seq(Record) /\ Len(s) = n
    <2>1. s \in [1 .. n -> Record]
      BY <1>1, <1>5
    <2>2. s \in Seq(Record)
      BY <1>3, <2>1, SeqDef
    <2> QED
      BY <1>3, <2>1, <2>2, LenProperties
  <1>7. ASSUME NEW r \in Record, r[2] <= f[r[1]], ~(r[2] <= position[w][r[1]])
        PROVE  r \in Range(s)
    <2>1. /\ r[1] \in Partition /\ r[2] \in Nat /\ r = <<r[1], r[2]>>
      BY RecordFacts, GroupAssumption
    <2>2. position[w][r[1]] \in Nat /\ f[r[1]] \in Nat
      BY <1>4, <2>1, OffsetFacts
    <2>3. r[2] \in position[w][r[1]] + 1 .. f[r[1]]
      BY <1>7, <2>1, <2>2
    <2>4. r \in {r[1]} \X (position[w][r[1]] + 1 .. f[r[1]])
      BY <2>1, <2>3
    <2>5. r \in NewRecords(w, f)
      BY <2>1, <2>4 DEF NewRecords
    <2> QED
      BY <1>2, <2>5 DEF Range
  <1> QED
    BY <1>3, <1>6, <1>7

-----------------------------------------------------------------------------
(* The inductive invariant. *)

\* Records that a worker has been through.
AttemptedRecords == {r \in Record : Applied(r)} \cup unprocessed \cup dropped

\* Records that a worker has been given and has still to go through.
Waiting(w) == Range(polled[w]) \cup Range(batch[w])

\* What a worker has of its last poll, by where it is.
BatchOK(w) ==
  /\ Len(batch[w]) + Len(polled[w]) <= BatchSize
  /\ pc[w] # "load" => polled[w] = <<>>
  /\ pc[w] \in {"poll", "down", "commit"} => batch[w] = <<>>
  /\ \A r \in Range(batch[w]) : MayBeValid(r)
  /\ IF pc[w] = "call"
     THEN /\ batch[w] # <<>> /\ call[w].stage # "idle"
          /\ call[w].event = MessageOf(Head(batch[w])).event
     ELSE call[w].stage = "idle"

\* A worker's positions are past no record that is neither attempted nor waiting.
ReachedOK(w) ==
  \A r \in Record :
    r[1] \in assigned[w] /\ r[2] <= position[w][r[1]] =>
      r \in AttemptedRecords \cup Waiting(w)

PassedOK == \A r \in Record : Passed(r) => r \in AttemptedRecords

WorkersOK == \A w \in Worker : BatchOK(w) /\ ReachedOK(w)

ConsumerInv ==
  /\ TypeOK /\ ServiceInv /\ SuccessIsDurable /\ GroupInv
  /\ WorkersOK
  /\ PassedOK

-----------------------------------------------------------------------------
(* The kinds of steps. *)

\* A worker's steps outside process_event.
OwnStep(w) ==
  \/ Restart(w) \/ Poll(w) \/ EmptyPoll(w) \/ PollPoison(w) \/ StopExit(w)
  \/ AddEvent(w) \/ DropRecord(w) \/ FlushBatch(w) \/ BatchDone(w)
  \/ CommitDone(w) \/ CommitRefused(w) \/ CommitError(w) \/ MemberExpires(w)

\* Its steps in process_event, around it, and its end.
CallStep(w) ==
  \/ CallService(w) \/ ServiceStep(w) \/ ServiceFault(w)
  \/ EventDone(w) \/ EventFailed(w) \/ Crash(w)

LEMMA NextCases ==
  ASSUME Next
  PROVE  GroupRebalance \/ \E w \in Worker : OwnStep(w) \/ CallStep(w)
  BY DEF Next, Work, Environment, OwnStep, CallStep

\* The services see nothing of a worker's own steps.
LEMMA OwnStepIsOutside ==
  ASSUME NEW w \in Worker, OwnStep(w)
  PROVE  UNCHANGED serviceVars
  BY DEF OwnStep, Restart, Poll, EmptyPoll, PollPoison, StopExit, AddEvent, DropRecord,
         FlushBatch, BatchDone, CommitDone, CommitRefused, CommitError, MemberExpires

\* The event of a batched record.
LEMMA BatchHead ==
  ASSUME ConsumerInv, NEW w \in Worker, batch[w] # <<>>
  PROVE  /\ Head(batch[w]) \in Record
         /\ MessageOf(Head(batch[w])).event \in Event
  <1>1. batch[w] \in Seq(Record) /\ \A r \in Range(batch[w]) : MayBeValid(r)
    BY DEF ConsumerInv, TypeOK, WorkersOK, BatchOK
  <1>2. Head(batch[w]) \in Record /\ Head(batch[w]) \in Range(batch[w])
    BY <1>1, RangeOfTail, HeadTailProperties
  <1> QED
    BY <1>1, <1>2, RecordFacts

\* Every step of the consumer is a step of the service, or none.
LEMMA StepIsServiceStep ==
  ASSUME ConsumerInv, [Next]_vars
  PROVE  [ServiceNext]_serviceVars
  <1>1. CASE UNCHANGED vars
    BY <1>1 DEF vars
  <1>2. CASE GroupRebalance
    BY <1>2 DEF GroupRebalance
  <1>3. ASSUME NEW w \in Worker, OwnStep(w)
        PROVE  [ServiceNext]_serviceVars
    BY <1>3, OwnStepIsOutside
  <1>4. ASSUME NEW w \in Worker, CallStep(w)
        PROVE  [ServiceNext]_serviceVars
    <2>1. w \in Client
      BY TopicAssumption
    <2>2. CASE CallService(w)
      <3>1. MessageOf(Head(batch[w])).event \in Event
        BY <2>2, BatchHead DEF CallService
      <3> QED
        BY <2>1, <2>2, <3>1 DEF CallService, ServiceNext
    <2>3. CASE ServiceStep(w) \/ ServiceFault(w)
      BY <2>1, <2>3 DEF ServiceStep, ServiceFault, ServiceNext
    <2>4. CASE EventDone(w) \/ EventFailed(w)
      BY <2>1, <2>4 DEF EventDone, EventFailed, ServiceNext
    <2>5. CASE Crash(w)
      BY <2>1, <2>5, CrashIsAbort DEF Crash, ConsumerInv
    <2> QED
      BY <1>4, <2>2, <2>3, <2>4, <2>5 DEF CallStep
  <1> QED
    BY <1>1, <1>2, <1>3, <1>4, NextCases

\* What a step is to the group.
LEMMA StepIsGroupStep ==
  ASSUME NEW w \in Worker, OwnStep(w) \/ CallStep(w)
  PROVE  GroupStep(w)
  <1>1. CASE \/ Restart(w) \/ EmptyPoll(w) \/ AddEvent(w) \/ DropRecord(w)
             \/ FlushBatch(w) \/ BatchDone(w) \/ CommitRefused(w)
    BY <1>1 DEF Restart, EmptyPoll, AddEvent, DropRecord, FlushBatch, BatchDone,
         CommitRefused, GroupStep
  <1>2. CASE Poll(w) \/ PollPoison(w) \/ StopExit(w) \/ Crash(w) \/ MemberExpires(w)
    BY <1>2 DEF Poll, PollPoison, StopExit, Crash, MemberExpires, Exit, GroupStep
  <1>3. CASE CommitDone(w) \/ CommitError(w)
    BY <1>3 DEF CommitDone, CommitError, GroupStep
  <1>4. CASE CallStep(w) /\ ~Crash(w)
    BY <1>4 DEF CallStep, CallService, ServiceStep, ServiceFault, EventDone,
         EventFailed, GroupStep
  <1> QED
    BY <1>1, <1>2, <1>3, <1>4 DEF OwnStep

\* The group's invariant is kept, and committed offsets do not move back.
LEMMA GroupKept ==
  ASSUME ConsumerInv, [Next]_vars
  PROVE  GroupInv' /\ NoneMovesBack
  <1>0. GroupInv
    BY DEF ConsumerInv
  <1>1. CASE UNCHANGED vars
    BY <1>0, <1>1, GroupStutters DEF vars
  <1>2. CASE GroupRebalance
    <2>1. Polling \in SUBSET Worker
      BY DEF Polling
    <2>2. PICK owner : Rebalance(Polling, owner)
      BY <1>2 DEF GroupRebalance
    <2> HIDE DEF Polling
    <2> QED
      BY <1>0, <2>1, <2>2, RebalanceKeeps
  <1>3. ASSUME NEW w \in Worker, OwnStep(w) \/ CallStep(w)
        PROVE  GroupInv' /\ NoneMovesBack
    BY <1>0, <1>3, StepIsGroupStep, GroupStepKeeps
  <1> QED
    BY <1>1, <1>2, <1>3, NextCases

-----------------------------------------------------------------------------
(* The workers. *)

\* What has been attempted stays so.
LEMMA AttemptsGrow ==
  ASSUME ConsumerInv, [Next]_vars
  PROVE  AttemptedRecords \subseteq AttemptedRecords'
  <1>1. RecordedEvents \subseteq RecordedEvents'
    BY StepIsServiceStep, RecordedEventsGrow DEF ConsumerInv
  <1>2. unprocessed \subseteq unprocessed' /\ dropped \subseteq dropped'
    <2> USE DEF outcomeVars
    <2>1. CASE UNCHANGED vars
      BY <2>1 DEF vars
    <2>2. CASE GroupRebalance
      BY <2>2 DEF GroupRebalance
    <2>3. ASSUME NEW w \in Worker, OwnStep(w) \/ CallStep(w)
          PROVE  unprocessed \subseteq unprocessed' /\ dropped \subseteq dropped'
      BY <2>3 DEF OwnStep, CallStep, Restart, Poll, EmptyPoll, PollPoison, StopExit,
         AddEvent, DropRecord, FlushBatch, BatchDone, CommitDone, CommitRefused,
         CommitError, MemberExpires, CallService, ServiceStep, ServiceFault, EventDone,
         EventFailed, Crash
    <2> QED
      BY <2>1, <2>2, <2>3, NextCases
  <1>3. \A r \in Record : Applied(r) => Applied(r)'
    <2>1. \A r \in Record :
            /\ Applied(r) <=> MessageOf(r).event \in RecordedEvents
            /\ Applied(r)' <=> MessageOf(r).event \in RecordedEvents'
      BY AppliedFacts, RecordFacts, ServiceAssumption DEF Applied, RecordedEvents
    <2> QED
      BY <1>1, <2>1
  <1> QED
    BY <1>2, <1>3 DEF AttemptedRecords

\* What the steps below have in common: the types that they start from.
WorkerTypes ==
  /\ call \in [Client -> Call]
  /\ pc = [u \in Worker |-> pc[u]]
  /\ polled \in [Worker -> Seq(Record)]
  /\ batch \in [Worker -> Seq(Record)]
  /\ assigned \in [Worker -> SUBSET Partition]
  /\ position = [u \in Worker |-> position[u]]
  /\ Worker \subseteq Client

LEMMA WorkerTypesHold ==
  ASSUME ConsumerInv
  PROVE  WorkerTypes
  BY TopicAssumption DEF ConsumerInv, TypeOK, ServiceTypeOK, GroupTypeOK, WorkerTypes

\* What worker v knows does not depend on the steps of another one.
Untouched(v) ==
  /\ pc'[v] = pc[v] /\ polled'[v] = polled[v] /\ batch'[v] = batch[v]
  /\ call'[v] = call[v]
  /\ assigned'[v] = assigned[v] /\ position'[v] = position[v]

LEMMA OthersUntouched ==
  ASSUME ConsumerInv, NEW w \in Worker, OwnStep(w) \/ CallStep(w),
         NEW v \in Worker, v # w
  PROVE  Untouched(v)
  <1>0. WorkerTypes /\ w \in Client /\ v \in Client
    BY WorkerTypesHold, TopicAssumption
  <1>1. pc'[v] = pc[v] /\ polled'[v] = polled[v] /\ batch'[v] = batch[v]
    <2> USE <1>0 DEF WorkerTypes, Goto, Exit, NextEvent
    <2>1. CASE OwnStep(w)
      BY <2>1 DEF OwnStep, Restart, Poll, EmptyPoll, PollPoison, StopExit, AddEvent,
         DropRecord, FlushBatch, BatchDone, CommitDone, CommitRefused, CommitError,
         MemberExpires
    <2>2. CASE CallStep(w)
      BY <2>2 DEF CallStep, CallService, ServiceStep, ServiceFault, EventDone,
         EventFailed, Crash
    <2> QED
      BY <2>1, <2>2
  <1>2. call'[v] = call[v]
    <2>1. CASE OwnStep(w)
      BY <2>1, OwnStepIsOutside DEF serviceVars
    <2>2. CASE ServiceStep(w) \/ ServiceFault(w)
      BY <1>0, <2>2, CallGoesOn DEF ServiceStep, ServiceFault, OthersWait, ConsumerInv, TypeOK
    <2>3. CASE CallService(w) \/ EventDone(w) \/ EventFailed(w) \/ Crash(w)
      BY <1>0, <2>3 DEF WorkerTypes, CallService, EventDone, EventFailed, Crash, Start,
                        Return
    <2> QED
      BY <2>1, <2>2, <2>3 DEF CallStep
  <1>3. assigned'[v] = assigned[v] /\ position'[v] = position[v]
    BY StepIsGroupStep, OthersKeepPlace DEF ConsumerInv
  <1> QED
    BY <1>1, <1>2, <1>3 DEF Untouched

LEMMA UntouchedStaysOK ==
  ASSUME ConsumerInv, [Next]_vars, NEW v \in Worker, Untouched(v)
  PROVE  BatchOK(v)' /\ ReachedOK(v)'
  <1>1. BatchOK(v) /\ ReachedOK(v)
    BY DEF ConsumerInv, WorkersOK
  <1>2. BatchOK(v)'
    BY <1>1 DEF BatchOK, Untouched, MayBeValid, MessageOf
  <1>3. ReachedOK(v)'
    BY <1>1, AttemptsGrow DEF ReachedOK, Untouched, Waiting
  <1> QED
    BY <1>2, <1>3

\* A worker that keeps its place in the partitions, and lets no record go that it
\* has not attempted, is past nothing new.
LEMMA StaysReached ==
  ASSUME ConsumerInv, [Next]_vars, NEW w \in Worker,
         assigned'[w] = assigned[w], position'[w] = position[w],
         Waiting(w) \subseteq AttemptedRecords' \cup Waiting(w)'
  PROVE  ReachedOK(w)'
  <1>1. ReachedOK(w) /\ AttemptedRecords \subseteq AttemptedRecords'
    BY AttemptsGrow DEF ConsumerInv, WorkersOK
  <1> QED
    BY <1>1 DEF ReachedOK

\* A worker that ends has nothing and owns nothing.
LEMMA ExitOK ==
  ASSUME ConsumerInv, NEW w \in Worker, Exit(w), call'[w].stage = "idle"
  PROVE  BatchOK(w)' /\ ReachedOK(w)'
  <1>1. /\ pc'[w] = "down" /\ assigned'[w] = {}
        /\ polled'[w] = <<>> /\ batch'[w] = <<>>
    BY WorkerTypesHold DEF WorkerTypes, Exit, Goto, Leave
  <1>2. Len(<<>>) = 0 /\ Range(<<>>) = {}
    BY RangeOfEmpty
  <1>3. BatchOK(w)'
    BY <1>1, <1>2, BatchAssumption DEF BatchOK
  <1>4. ReachedOK(w)'
    BY <1>1 DEF ReachedOK
  <1> QED
    BY <1>3, <1>4

\* All that poll() returns waits, and it is all that the positions have passed.
LEMMA PollOK ==
  ASSUME ConsumerInv, [Next]_vars, NEW w \in Worker, Poll(w)
  PROVE  BatchOK(w)' /\ ReachedOK(w)'
  <1>0. WorkerTypes /\ BatchOK(w) /\ ReachedOK(w)
    BY WorkerTypesHold DEF ConsumerInv, WorkersOK
  <1>a. PICK f \in Fetches(w) :
          /\ FetchAll(w, f)
          /\ \E order \in Orders(w, f) : polled' = [polled EXCEPT ![w] = order]
    BY DEF Poll
  <1>1. PICK order \in Orders(w, f) : polled' = [polled EXCEPT ![w] = order]
    BY <1>a
  <1>2. /\ order \in Seq(Record) /\ Len(order) <= BatchSize
        /\ \A r \in Record :
             r[2] <= f[r[1]] => r[2] <= position[w][r[1]] \/ r \in Range(order)
    BY OrderFacts DEF ConsumerInv
  <1>3. /\ pc[w] = "poll" /\ pc'[w] = "load"
        /\ polled'[w] = order /\ batch' = batch /\ call' = call
        /\ assigned' = assigned /\ position'[w] = f
    BY <1>0, <1>a, <1>1 DEF WorkerTypes, Poll, Goto, FetchAll, serviceVars
  <1>4. polled[w] = <<>> /\ batch[w] = <<>> /\ Len(<<>>) = 0 /\ Range(<<>>) = {}
    BY <1>0, <1>3, RangeOfEmpty DEF BatchOK
  <1>5. BatchOK(w)'
    <2>1. Len(order) \in Nat
      BY <1>2, LenProperties
    <2> QED
      BY <1>0, <1>2, <1>3, <1>4, <2>1 DEF BatchOK
  <1>6. ReachedOK(w)'
    <2> SUFFICES ASSUME NEW r \in Record, r[1] \in assigned[w], r[2] <= f[r[1]]
                 PROVE  r \in AttemptedRecords' \cup Waiting(w)'
      BY <1>3 DEF ReachedOK
    <2>1. CASE r[2] <= position[w][r[1]]
      BY <1>0, <1>4, <2>1, AttemptsGrow DEF ReachedOK, Waiting
    <2>2. CASE r \in Range(order)
      BY <1>3, <2>2 DEF Waiting
    <2> QED
      BY <1>2, <2>1, <2>2
  <1> QED
    BY <1>5, <1>6

\* A record goes from the poll to the batch, or is dropped.
LEMMA LoadOK ==
  ASSUME ConsumerInv, [Next]_vars, NEW w \in Worker, AddEvent(w) \/ DropRecord(w)
  PROVE  BatchOK(w)' /\ ReachedOK(w)'
  <1> DEFINE r == Head(polled[w])
             t == Tail(polled[w])
             b == Append(batch[w], r)
  <1>0. WorkerTypes /\ BatchOK(w) /\ polled[w] # <<>> /\ pc[w] = "load"
    BY WorkerTypesHold DEF ConsumerInv, WorkersOK, AddEvent, DropRecord
  <1>1. /\ polled[w] \in Seq(Record) /\ batch[w] \in Seq(Record)
        /\ r \in Record /\ b # <<>>
        /\ Range(polled[w]) = {r} \cup Range(t)
        /\ Range(b) = Range(batch[w]) \cup {r}
    <2>1. /\ polled[w] \in Seq(Record) /\ batch[w] \in Seq(Record)
          /\ r \in Record
      BY <1>0, HeadTailProperties DEF WorkerTypes
    <2>2. Range(polled[w]) = {r} \cup Range(t)
      BY <1>0, <2>1, RangeOfTail
    <2> HIDE DEF r
    <2>3. b # <<>> /\ Range(b) = Range(batch[w]) \cup {r}
      BY <2>1, RangeOfAppend, AppendProperties
    <2> QED
      BY <2>1, <2>2, <2>3
  <1>2. /\ Len(batch[w]) + Len(t) <= BatchSize
        /\ Len(b) + Len(t) <= BatchSize
        /\ Len(batch[w]) + 1 >= BatchSize => t = <<>>
    <2>1. Len(batch[w]) + Len(polled[w]) <= BatchSize /\ BatchSize \in Nat
      BY <1>0, BatchAssumption DEF BatchOK
    <2> QED
      BY <1>0, <1>1, <2>1, TailLeavesRoom, TransferKeepsRoom
  <1>3. UNCHANGED <<call, assigned, position>> /\ polled'[w] = t
    BY <1>0 DEF AddEvent, DropRecord, serviceVars, groupVars, WorkerTypes
  <1>4. CASE AddEvent(w)
    <2>1. /\ MayBeValid(r)
          /\ batch'[w] = b
          /\ pc'[w] = IF Len(batch[w]) + 1 >= BatchSize THEN "process" ELSE "load"
      BY <1>0, <1>4 DEF AddEvent, Goto, WorkerTypes
    <2> HIDE DEF r, t, b
    <2>2. \A x \in Range(b) : MayBeValid(x)'
      BY <1>0, <1>1, <2>1 DEF BatchOK, MayBeValid, MessageOf
    <2>3. pc'[w] \in {"process", "load"} /\ (pc'[w] # "load" => t = <<>>)
      BY <1>2, <2>1
    <2>4. BatchOK(w)'
      BY <1>0, <1>2, <1>3, <2>1, <2>2, <2>3 DEF BatchOK
    <2>5. Waiting(w) \subseteq Waiting(w)'
      BY <1>1, <1>3, <2>1 DEF Waiting
    <2> QED
      BY <1>3, <2>4, <2>5, StaysReached
  <1>5. CASE DropRecord(w)
    <2>1. batch' = batch /\ pc' = pc /\ dropped' = dropped \cup {r}
      BY <1>5 DEF DropRecord
    <2> HIDE DEF r, t, b
    <2>2. BatchOK(w)'
      BY <1>0, <1>2, <1>3, <2>1 DEF BatchOK, MayBeValid, MessageOf
    <2>3. Waiting(w) \subseteq AttemptedRecords' \cup Waiting(w)'
      BY <1>1, <1>3, <2>1 DEF Waiting, AttemptedRecords
    <2> QED
      BY <1>3, <2>2, <2>3, StaysReached
  <1> QED
    BY <1>4, <1>5

LEMMA OwnOK ==
  ASSUME ConsumerInv, [Next]_vars, NEW w \in Worker, OwnStep(w)
  PROVE  BatchOK(w)' /\ ReachedOK(w)'
  <1>1. WorkerTypes /\ BatchOK(w) /\ call' = call
    BY WorkerTypesHold, OwnStepIsOutside DEF ConsumerInv, WorkersOK, serviceVars
  <1>2. CASE Poll(w) \/ AddEvent(w) \/ DropRecord(w)
    BY <1>2, PollOK, LoadOK
  <1>3. CASE PollPoison(w) \/ StopExit(w)
    BY <1>1, <1>3, ExitOK DEF PollPoison, StopExit, BatchOK
  <1>4. CASE MemberExpires(w)
    <2>1. Untouched(w)
      BY <1>1, <1>4 DEF MemberExpires, Untouched, Expire
    <2> QED
      BY <2>1, UntouchedStaysOK
  <1>5. CASE \/ Restart(w) \/ EmptyPoll(w) \/ FlushBatch(w) \/ BatchDone(w)
             \/ CommitDone(w) \/ CommitRefused(w) \/ CommitError(w)
    <2>1. UNCHANGED <<polled, batch, assigned, position>>
      BY <1>5 DEF Restart, EmptyPoll, FlushBatch, BatchDone, CommitDone, CommitRefused,
         CommitError, groupVars, CommitPositions
    <2>2. /\ pc'[w] = "process" => pc[w] = "load" /\ polled[w] = <<>>
          /\ pc'[w] = "poll" => polled[w] = <<>> /\ batch[w] = <<>>
          /\ pc'[w] = "commit" => polled[w] = <<>> /\ batch[w] = <<>>
          /\ pc'[w] \in {"process", "poll", "commit", "load"} /\ pc[w] # "call"
      BY <1>1, <1>5 DEF WorkerTypes, BatchOK, Goto, Restart, EmptyPoll, FlushBatch,
         BatchDone, CommitDone, CommitRefused, CommitError
    <2>3. BatchOK(w)'
      BY <1>1, <2>1, <2>2 DEF BatchOK, MayBeValid, MessageOf
    <2>4. Waiting(w)' = Waiting(w)
      BY <2>1 DEF Waiting
    <2> QED
      BY <2>1, <2>3, <2>4, StaysReached
  <1> QED
    BY <1>2, <1>3, <1>4, <1>5 DEF OwnStep

\* An event leaves the batch when it has been applied or its processing failed.
LEMMA NextEventOK ==
  ASSUME ConsumerInv, [Next]_vars, NEW w \in Worker, EventDone(w) \/ EventFailed(w)
  PROVE  BatchOK(w)' /\ ReachedOK(w)'
  <1> DEFINE r == Head(batch[w])
             t == Tail(batch[w])
  <1>0. WorkerTypes /\ BatchOK(w) /\ pc[w] = "call" /\ w \in Client
    BY WorkerTypesHold, TopicAssumption DEF ConsumerInv, WorkersOK, EventDone, EventFailed
  <1>1. /\ batch[w] \in Seq(Record) /\ batch[w] # <<>>
        /\ r \in Record /\ t \in Seq(Record)
        /\ Len(t) = Len(batch[w]) - 1
        /\ Range(batch[w]) = {r} \cup Range(t)
        /\ call[w].event = MessageOf(r).event /\ MessageOf(r).event \in Event
    BY <1>0, BatchHead, RangeOfTail, HeadTailProperties DEF WorkerTypes, BatchOK
  <1>2. /\ UNCHANGED <<assigned, position, polled>> /\ batch'[w] = t
        /\ pc'[w] = "process" /\ call'[w].stage = "idle"
    BY <1>0 DEF EventDone, EventFailed, NextEvent, Goto, Return, groupVars, WorkerTypes,
         NoCall
  <1>3. r \in AttemptedRecords'
    <2>1. CASE EventDone(w)
      <3>1. Recorded(call[w].event)
        BY <1>0, <2>1 DEF EventDone, At, ConsumerInv, SuccessIsDurable
      <3>2. Applied(r)
        BY <1>1, <3>1, ServiceAssumption DEF Applied
      <3>3. r \in AttemptedRecords
        BY <1>1, <3>2 DEF AttemptedRecords
      <3> QED
        BY <3>3, AttemptsGrow
    <2>2. CASE EventFailed(w)
      BY <2>2 DEF EventFailed, AttemptedRecords
    <2> QED
      BY <2>1, <2>2
  <1>4. Len(t) + Len(polled[w]) <= BatchSize
    <2>1. /\ Len(batch[w]) + Len(polled[w]) <= BatchSize /\ BatchSize \in Nat
          /\ polled[w] \in Seq(Record)
      BY <1>0, BatchAssumption DEF BatchOK, WorkerTypes
    <2> QED
      BY <1>1, <2>1, TailLeavesRoom
  <1> HIDE DEF r, t
  <1>5. BatchOK(w)'
    BY <1>0, <1>1, <1>2, <1>4 DEF BatchOK, MayBeValid, MessageOf
  <1>6. Waiting(w) \subseteq AttemptedRecords' \cup Waiting(w)'
    BY <1>1, <1>2, <1>3 DEF Waiting
  <1> QED
    BY <1>2, <1>5, <1>6, StaysReached

LEMMA CallOK ==
  ASSUME ConsumerInv, [Next]_vars, NEW w \in Worker, CallStep(w)
  PROVE  BatchOK(w)' /\ ReachedOK(w)'
  <1>1. WorkerTypes /\ BatchOK(w) /\ w \in Client
    BY WorkerTypesHold, TopicAssumption DEF ConsumerInv, WorkersOK
  <1>2. CASE Crash(w)
    <2>1. call'[w].stage = "idle"
      BY <1>1, <1>2 DEF WorkerTypes, Crash, NoCall
    <2> QED
      BY <1>2, <2>1, ExitOK DEF Crash
  <1>3. CASE EventDone(w) \/ EventFailed(w)
    BY <1>3, NextEventOK
  <1>4. CASE CallService(w) \/ ServiceStep(w) \/ ServiceFault(w)
    <2>1. UNCHANGED <<assigned, position, polled, batch>>
      BY <1>4 DEF CallService, ServiceStep, ServiceFault, groupVars
    <2>2. /\ batch[w] # <<>> /\ pc'[w] = "call" /\ pc[w] \in {"process", "call"}
          /\ call'[w].stage # "idle"
          /\ call'[w].event = MessageOf(Head(batch[w])).event
      <3>1. CASE CallService(w)
        BY <1>1, <3>1 DEF WorkerTypes, CallService, Goto, Start
      <3>2. CASE ServiceStep(w) \/ ServiceFault(w)
        <4>1. call'[w].stage # "idle" /\ call'[w].event = call[w].event
          BY <1>1, <3>2, CallGoesOn DEF ServiceStep, ServiceFault, ConsumerInv, TypeOK
        <4> QED
          BY <1>1, <3>2, <4>1 DEF ServiceStep, ServiceFault, BatchOK
      <3> QED
        BY <1>4, <3>1, <3>2
    <2>3. BatchOK(w)'
      BY <1>1, <2>1, <2>2 DEF BatchOK, MayBeValid, MessageOf
    <2>4. Waiting(w)' = Waiting(w)
      BY <2>1 DEF Waiting
    <2> QED
      BY <2>1, <2>3, <2>4, StaysReached
  <1> QED
    BY <1>2, <1>3, <1>4 DEF CallStep

\* A rebalance takes the members to the committed offsets, and nothing waits.
LEMMA RebalanceOK ==
  ASSUME ConsumerInv, [Next]_vars, GroupRebalance, NEW w \in Worker
  PROVE  BatchOK(w)' /\ ReachedOK(w)'
  <1>1. PICK owner : Rebalance(Polling, owner)
    BY DEF GroupRebalance
  <1>2. UNCHANGED <<pc, polled, batch, call>>
    BY DEF GroupRebalance, serviceVars
  <1>3. CASE w \in Polling
    <2>1. position'[w] = committed
      BY <1>1, <1>3 DEF Rebalance
    <2>2. BatchOK(w) /\ PassedOK
      BY DEF ConsumerInv, WorkersOK
    <2>3. BatchOK(w)'
      BY <1>2, <2>2 DEF BatchOK, MayBeValid, MessageOf
    <2>4. ReachedOK(w)'
      BY <2>1, <2>2, AttemptsGrow DEF ReachedOK, PassedOK, Passed
    <2> QED
      BY <2>3, <2>4
  <1>4. CASE w \notin Polling
    <2>1. Untouched(w)
      BY <1>1, <1>2, <1>4 DEF Rebalance, Untouched
    <2> QED
      BY <2>1, UntouchedStaysOK
  <1> QED
    BY <1>3, <1>4

LEMMA WorkersKept ==
  ASSUME ConsumerInv, [Next]_vars
  PROVE  WorkersOK'
  <1> SUFFICES ASSUME NEW v \in Worker
               PROVE  BatchOK(v)' /\ ReachedOK(v)'
    BY DEF WorkersOK
  <1>1. CASE UNCHANGED vars
    <2>1. Untouched(v)
      BY <1>1 DEF vars, Untouched, serviceVars, groupVars
    <2> QED
      BY <2>1, UntouchedStaysOK
  <1>2. CASE GroupRebalance
    BY <1>2, RebalanceOK
  <1>3. ASSUME NEW w \in Worker, OwnStep(w) \/ CallStep(w)
        PROVE  BatchOK(v)' /\ ReachedOK(v)'
    <2>1. CASE v # w
      BY <1>3, <2>1, OthersUntouched, UntouchedStaysOK
    <2>2. CASE v = w
      BY <1>3, <2>2, OwnOK, CallOK
    <2> QED
      BY <2>1, <2>2
  <1> QED
    BY <1>1, <1>2, <1>3, NextCases

-----------------------------------------------------------------------------
(* Offsets and types. *)

\* An offset is committed only by a worker that has been through its poll.
LEMMA CommittedMoves ==
  ASSUME [Next]_vars
  PROVE  \/ committed' = committed
         \/ \E w \in Worker : CommitPositions(w) /\ pc[w] = "commit"
  <1>1. CASE UNCHANGED vars
    BY <1>1 DEF vars, groupVars
  <1>2. CASE GroupRebalance
    BY <1>2 DEF GroupRebalance, Rebalance
  <1>3. ASSUME NEW w \in Worker, OwnStep(w) \/ CallStep(w)
        PROVE  committed' = committed \/ (CommitPositions(w) /\ pc[w] = "commit")
    <2>1. CASE CommitDone(w) \/ CommitRefused(w) \/ CommitError(w)
      BY <2>1 DEF CommitDone, CommitRefused, CommitError, groupVars
    <2>2. CASE \/ Restart(w) \/ Poll(w) \/ EmptyPoll(w) \/ PollPoison(w) \/ StopExit(w)
               \/ AddEvent(w) \/ DropRecord(w) \/ FlushBatch(w) \/ BatchDone(w)
               \/ MemberExpires(w)
      BY <2>2 DEF Restart, Poll, FetchAll, EmptyPoll, PollPoison, StopExit, Exit, Leave,
         AddEvent, DropRecord, FlushBatch, BatchDone, MemberExpires, Expire, groupVars
    <2>3. CASE CallStep(w)
      BY <2>3 DEF CallStep, CallService, ServiceStep, ServiceFault, EventDone,
         EventFailed, Crash, Exit, Leave, groupVars
    <2> QED
      BY <1>3, <2>1, <2>2, <2>3 DEF OwnStep
  <1> QED
    BY <1>1, <1>2, <1>3, NextCases

LEMMA PassedKept ==
  ASSUME ConsumerInv, [Next]_vars
  PROVE  PassedOK'
  <1> SUFFICES ASSUME NEW r \in Record, r[2] <= committed'[r[1]]
               PROVE  r \in AttemptedRecords'
    BY DEF PassedOK, Passed
  <1>1. PassedOK /\ AttemptedRecords \subseteq AttemptedRecords'
    BY AttemptsGrow DEF ConsumerInv
  <1>2. CASE committed' = committed
    BY <1>1, <1>2 DEF PassedOK, Passed
  <1>3. ASSUME NEW w \in Worker, CommitPositions(w), pc[w] = "commit"
        PROVE  r \in AttemptedRecords'
    <2>1. r[1] \in Partition
      BY RecordFacts
    <2>2. CASE r[1] \in assigned[w]
      <3>1. r[2] <= position[w][r[1]]
        BY <1>3, <2>1, <2>2 DEF CommitPositions
      <3>2. polled[w] = <<>> /\ batch[w] = <<>>
        BY <1>3 DEF ConsumerInv, WorkersOK, BatchOK
      <3>3. r \notin Waiting(w)
        BY <3>2, RangeOfEmpty DEF Waiting
      <3> QED
        BY <1>1, <2>2, <3>1, <3>3 DEF ConsumerInv, WorkersOK, ReachedOK
    <2>3. CASE r[1] \notin assigned[w]
      <3>1. r[2] <= committed[r[1]]
        BY <1>3, <2>1, <2>3 DEF CommitPositions
      <3> QED
        BY <1>1, <3>1 DEF PassedOK, Passed
    <2> QED
      BY <2>2, <2>3
  <1> QED
    BY <1>2, <1>3, CommittedMoves

Label == {"down", "poll", "load", "process", "call", "commit"}

WorkerTypeOK ==
  /\ pc \in [Worker -> Label]
  /\ faults \in 0 .. MaxFaults
  /\ polled \in [Worker -> Seq(Record)]
  /\ batch \in [Worker -> Seq(Record)]
  /\ dropped \subseteq Record /\ unprocessed \subseteq Record

LEMMA WorkerTypesKept ==
  ASSUME ConsumerInv, [Next]_vars
  PROVE  WorkerTypeOK'
  <1>1. WorkerTypeOK
    BY DEF ConsumerInv, TypeOK, WorkerTypeOK, Label
  <1> USE DEF WorkerTypeOK
  <1>2. CASE UNCHANGED vars
    BY <1>1, <1>2 DEF vars, outcomeVars
  <1>3. CASE GroupRebalance
    BY <1>1, <1>3 DEF GroupRebalance, outcomeVars
  <1>4. ASSUME NEW w \in Worker, OwnStep(w) \/ CallStep(w)
        PROVE  WorkerTypeOK'
    <2>1. faults' \in 0 .. MaxFaults
      <3>1. CASE \/ StopExit(w) \/ MemberExpires(w) \/ CommitError(w) \/ ServiceFault(w)
                 \/ Crash(w)
        BY <1>1, <3>1, FaultTypes DEF StopExit, MemberExpires, CommitError, ServiceFault,
           Crash
      <3>2. CASE \/ Restart(w) \/ Poll(w) \/ EmptyPoll(w) \/ PollPoison(w)
                 \/ AddEvent(w) \/ DropRecord(w) \/ FlushBatch(w) \/ BatchDone(w)
                 \/ CommitDone(w) \/ CommitRefused(w)
                 \/ CallService(w) \/ ServiceStep(w) \/ EventDone(w) \/ EventFailed(w)
        BY <1>1, <3>2 DEF Restart, Poll, EmptyPoll, PollPoison, AddEvent, DropRecord,
           FlushBatch, BatchDone, CommitDone, CommitRefused, CallService, ServiceStep,
           EventDone, EventFailed
      <3> QED
        BY <1>4, <3>1, <3>2 DEF OwnStep, CallStep
    <2>2. <<>> \in Seq(Record)
      BY EmptySeq
    <2> USE <1>1, <2>1 DEF Goto, Label, outcomeVars
    <2>3. CASE Poll(w)
      <3>1. PICK f \in Fetches(w) : \E s \in Orders(w, f) : polled' = [polled EXCEPT ![w] = s]
        BY <2>3 DEF Poll
      <3>2. PICK s \in Orders(w, f) : polled' = [polled EXCEPT ![w] = s]
        BY <3>1
      <3>3. s \in Seq(Record)
        BY OrderFacts DEF ConsumerInv
      <3> QED
        BY <2>3, <3>2, <3>3 DEF Poll
    <2>4. CASE PollPoison(w) \/ StopExit(w) \/ Crash(w)
      BY <2>2, <2>4 DEF PollPoison, StopExit, Crash, Exit
    <2>5. CASE AddEvent(w) \/ DropRecord(w)
      <3>1. polled[w] # <<>> /\ polled[w] \in Seq(Record) /\ batch[w] \in Seq(Record)
        BY <2>5 DEF AddEvent, DropRecord
      <3>2. Head(polled[w]) \in Record /\ Tail(polled[w]) \in Seq(Record)
        BY <3>1, HeadTailProperties
      <3>3. Append(batch[w], Head(polled[w])) \in Seq(Record)
        BY <3>1, <3>2, AppendProperties
      <3> QED
        BY <2>5, <3>2, <3>3 DEF AddEvent, DropRecord
    <2>6. CASE EventDone(w) \/ EventFailed(w)
      <3>1. batch[w] # <<>> /\ batch[w] \in Seq(Record)
        BY <2>6 DEF EventDone, EventFailed, ConsumerInv, WorkersOK, BatchOK
      <3>2. Head(batch[w]) \in Record /\ Tail(batch[w]) \in Seq(Record)
        BY <3>1, HeadTailProperties
      <3> QED
        BY <2>6, <3>2 DEF EventDone, EventFailed, NextEvent
    <2>7. CASE \/ Restart(w) \/ EmptyPoll(w) \/ FlushBatch(w) \/ BatchDone(w)
               \/ CommitDone(w) \/ CommitRefused(w) \/ CommitError(w)
               \/ MemberExpires(w) \/ CallService(w) \/ ServiceStep(w)
               \/ ServiceFault(w)
      BY <2>7 DEF Restart, EmptyPoll, FlushBatch, BatchDone, CommitDone, CommitRefused,
         CommitError, MemberExpires, CallService, ServiceStep, ServiceFault
    <2> QED
      BY <1>4, <2>3, <2>4, <2>5, <2>6, <2>7 DEF OwnStep, CallStep
  <1> QED
    BY <1>2, <1>3, <1>4, NextCases

-----------------------------------------------------------------------------
(* The theorems. *)

\* At first every worker is down, and nothing has been read ...
LEMMA ConsumerInvInit == Init => ConsumerInv
  <1> SUFFICES ASSUME Init PROVE ConsumerInv
    OBVIOUS
  <1>1. ServiceInv /\ GroupInv
    BY ServiceInvInit, GroupInitInv DEF Init
  <1>2. SuccessIsDurable
    BY DEF Init, ServiceInit, SuccessIsDurable, NoCall
  <1>3. TypeOK
    BY <1>1, TopicAssumption, EmptySeq DEF Init, TypeOK, ServiceInv, LockInv, GroupInv
  <1>4. WorkersOK
    <2>1. Len(<<>>) = 0 /\ Range(<<>>) = {}
      BY RangeOfEmpty
    <2> QED
      BY <2>1, TopicAssumption, BatchAssumption
         DEF Init, WorkersOK, BatchOK, ReachedOK, ServiceInit, GroupInit, NoCall
  <1>5. PassedOK
    <2>1. \A r \in Record : committed[r[1]] = 0 /\ r[2] \in 1 .. End(r[1])
      BY RecordFacts DEF Init, GroupInit, Start0
    <2> QED
      BY <2>1, RecordFacts, GroupAssumption DEF PassedOK, Passed
  <1> QED
    BY <1>1, <1>2, <1>3, <1>4, <1>5 DEF ConsumerInv

\* ... and every step of a worker, of the group and of what fails them keeps the
\* invariant.
LEMMA ConsumerInvStep == ConsumerInv /\ [Next]_vars => ConsumerInv'
  <1> SUFFICES ASSUME ConsumerInv, [Next]_vars PROVE ConsumerInv'
    OBVIOUS
  <1>1. ServiceInv' /\ SuccessIsDurable'
    BY StepIsServiceStep, ServiceInvStep, SuccessStep DEF ConsumerInv
  <1>2. GroupInv'
    BY GroupKept
  <1>3. TypeOK'
    BY <1>1, <1>2, WorkerTypesKept
       DEF TypeOK, WorkerTypeOK, Label, ServiceInv, LockInv, GroupInv
  <1> QED
    BY <1>1, <1>2, <1>3, WorkersKept, PassedKept DEF ConsumerInv

\* The inductive invariant of the batch consumer.
THEOREM BatchInvariant == Spec => []ConsumerInv
  BY ConsumerInvInit, ConsumerInvStep, PTL DEF Spec

\* Every variable keeps its type.
THEOREM BatchTypes == Spec => []TypeOK
  BY BatchInvariant, PTL DEF ConsumerInv

\* To the database and the cache, batch workers are clients of process_event.
THEOREM BatchIsClient == Spec => ServiceSpec
  <1>1. Init => ServiceInit
    BY DEF Init
  <1>2. ConsumerInv /\ [Next]_vars => [ServiceNext]_serviceVars
    BY StepIsServiceStep
  <1> QED
    BY <1>1, <1>2, BatchInvariant, PTL DEF Spec, ServiceSpec

\* Each event counts at most once, in one step of the ledger, however often it is
\* delivered and whichever worker's batch it is in.
THEOREM BatchKeepsLedger == Spec => ImplementsLedger
  BY BatchIsClient, LedgerRefinement, PTL

\* No offset is committed past a record that no worker has been through.
THEOREM NothingIsUntried == Spec => []CommittedIsAttempted
  <1>1. ConsumerInv => CommittedIsAttempted
    BY DEF ConsumerInv, PassedOK, AttemptedRecords, CommittedIsAttempted
  <1> QED
    BY <1>1, BatchInvariant, PTL

\* A batch never outgrows its size, and none waits from one poll to the next.
THEOREM BatchesFit == Spec => []BatchWithinPoll
  <1>1. ConsumerInv => BatchWithinPoll
    BY DEF ConsumerInv, WorkersOK, BatchOK, BatchWithinPoll
  <1> QED
    BY <1>1, BatchInvariant, PTL

=============================================================================
