---------------------------- MODULE BatchConsumer -----------------------------
(***************************************************************************)
(* BatchKafkaInventoryConsumer (app/consumer/batch_kafka_consumer.py) with *)
(* BatchProcessingService (app/services/batch_processing_service.py): the  *)
(* consumer that the worker runs by default.                               *)
(*                                                                         *)
(* A worker is a sequential process; "pc" is where it is:                  *)
(*   poll      self._consumer.poll in consume_forever                      *)
(*   load      the loop over the polled messages, up to the last flush     *)
(*   process   the loop of process_batch, between two events               *)
(*   call      inside process_event                                        *)
(*   commit    the commit at the end of _process_batch                     *)
(*   down      the process has ended; its container will be restarted      *)
(*                                                                         *)
(* Left out: metrics, and the anomaly detection that follows a change,     *)
(* whose errors are caught and whose result nothing here reads.            *)
(***************************************************************************)
EXTENDS InventoryTopic

CONSTANT
  BatchSize     \* batch_size, which is also the max_records of poll

ASSUME BatchAssumption == BatchSize \in Nat \ {0}

VARIABLES
  polled,       \* records of the last poll that are not looked at yet
  batch,        \* the current batch: records added, or still to be processed
  dropped,      \* records that failed validation (for properties)
  unprocessed   \* records whose processing failed (for properties)

outcomeVars == <<dropped, unprocessed>>
vars == <<serviceVars, groupVars, pc, faults, polled, batch, outcomeVars>>

Init ==
  /\ ServiceInit
  /\ GroupInit
  /\ pc = [w \in Worker |-> "down"]
  /\ faults = 0
  /\ polled = [w \in Worker |-> <<>>]
  /\ batch = [w \in Worker |-> <<>>]
  /\ dropped = {} /\ unprocessed = {}

-----------------------------------------------------------------------------
(* consume_forever. *)

Restart(w) ==
  /\ pc[w] = "down"
  /\ Goto(w, "poll")
  /\ UNCHANGED <<serviceVars, groupVars, faults, polled, batch, outcomeVars>>

\* Mutant of NewRecords: off by one.
RecordsAfterNext(w, f) ==
  UNION {{p} \X (position[w][p] + 2 .. f[p] + 1) : p \in Partition}

\* The records between a worker's positions and the offsets f.
NewRecords(w, f) ==
  UNION {{p} \X (position[w][p] + 1 .. f[p]) : p \in Partition}

\* In s the records of a partition follow each other in its order.
Grouped(s) ==
  \A i, j \in DOMAIN s :
    i < j /\ s[i][1] = s[j][1] => s[j][2] - s[i][2] = j - i

\* Mutant of Orders: poll without max_records.
OrdersWithoutLimit(w, f) ==
  {s \in UNION {[1 .. n -> NewRecords(w, f)] : n \in 0 .. 2 * BatchSize} :
     Grouped(s) /\ \A r \in NewRecords(w, f) : \E i \in DOMAIN s : s[i] = r}

\* What poll(max_records=batch_size) may return when it goes on to the offsets f:
\* all records up to there, if they are not too many.  They come partition after
\* partition; the order of the partitions is the fetcher's.
Orders(w, f) ==
  {s \in UNION {[1 .. n -> NewRecords(w, f)] : n \in 0 .. BatchSize} :
     Grouped(s) /\ \A r \in NewRecords(w, f) : \E i \in DOMAIN s : s[i] = r}

Poll(w) ==
  /\ pc[w] = "poll"
  /\ \E f \in Fetches(w) :
       /\ ~Poisoned(w, f)
       /\ FetchAll(w, f)
       /\ \E order \in Orders(w, f) : polled' = [polled EXCEPT ![w] = order]
  /\ Goto(w, "load")
  /\ UNCHANGED <<serviceVars, faults, batch, outcomeVars>>

\* poll() times out with nothing; consume_forever flushes the batch.
EmptyPoll(w) ==
  /\ pc[w] = "poll"
  /\ w \in member
  /\ Goto(w, "load")
  /\ UNCHANGED <<serviceVars, groupVars, faults, polled, batch, outcomeVars>>

\* The process ends, and with it what it had polled and batched.
Exit(w) ==
  /\ Goto(w, "down")
  /\ Leave(w)
  /\ polled' = [polled EXCEPT ![w] = <<>>]
  /\ batch' = [batch EXCEPT ![w] = <<>>]

\* json.loads raises out of poll; "batch_kafka_consumer_error", and the worker ends.
PollPoison(w) ==
  /\ pc[w] = "poll"
  /\ w \in member
  /\ \E f \in Fetches(w) : Poisoned(w, f) /\ Orders(w, f) # {}
  /\ Exit(w)
  /\ UNCHANGED <<serviceVars, faults, outcomeVars>>

\* stop() is noticed between two polls.
StopExit(w) ==
  /\ pc[w] = "poll"
  /\ w \in member
  /\ Fault
  /\ Exit(w)
  /\ UNCHANGED <<serviceVars, outcomeVars>>

Polling == {w \in Worker : pc[w] = "poll"}

GroupRebalance ==
  /\ \E owner \in [Partition -> Polling] : Rebalance(Polling, owner)
  /\ UNCHANGED <<serviceVars, pc, faults, polled, batch, outcomeVars>>

MemberExpires(w) ==
  /\ Fault
  /\ Expire(w)
  /\ UNCHANGED <<serviceVars, pc, polled, batch, outcomeVars>>

Crash(w) ==
  /\ pc[w] # "down"
  /\ Fault
  /\ Exit(w)
  /\ call' = [call EXCEPT ![w] = NoCall]
  /\ Release(w)
  /\ UNCHANGED <<rows, quantity, history, cache, outcomeVars>>

-----------------------------------------------------------------------------
(* Loading a batch: _deserialize_message, add_event, flush_batch. *)

\* A valid event joins the batch, which is processed as soon as it is full.
AddEvent(w) ==
  /\ pc[w] = "load"
  /\ polled[w] # <<>>
  /\ MayBeValid(Head(polled[w]))
  /\ polled' = [polled EXCEPT ![w] = Tail(@)]
  /\ batch' = [batch EXCEPT ![w] = Append(@, Head(polled[w]))]
  /\ Goto(w, IF Len(batch[w]) + 1 >= BatchSize THEN "process" ELSE "load")
  /\ UNCHANGED <<serviceVars, groupVars, faults, outcomeVars>>

\* An invalid one is logged, and that is all.
DropRecord(w) ==
  /\ pc[w] = "load"
  /\ polled[w] # <<>>
  /\ MayBeInvalid(Head(polled[w]))
  /\ polled' = [polled EXCEPT ![w] = Tail(@)]
  /\ dropped' = dropped \cup {Head(polled[w])}
  /\ UNCHANGED <<serviceVars, groupVars, pc, faults, batch, unprocessed>>

\* Mutants of FlushBatch: a batch that is not full waits for the next poll; it
\* is thrown away.
KeepBatch(w) ==
  /\ pc[w] = "load"
  /\ polled[w] = <<>>
  /\ Goto(w, "poll")
  /\ UNCHANGED <<serviceVars, groupVars, faults, polled, batch, outcomeVars>>

DiscardBatch(w) ==
  /\ pc[w] = "load"
  /\ polled[w] = <<>>
  /\ Goto(w, "poll")
  /\ batch' = [batch EXCEPT ![w] = <<>>]
  /\ UNCHANGED <<serviceVars, groupVars, faults, polled, outcomeVars>>

\* After the last message, or after none, a batch that has begun is processed as it is.
FlushBatch(w) ==
  /\ pc[w] = "load"
  /\ polled[w] = <<>>
  /\ Goto(w, IF batch[w] = <<>> THEN "poll" ELSE "process")
  /\ UNCHANGED <<serviceVars, groupVars, faults, polled, batch, outcomeVars>>

-----------------------------------------------------------------------------
(* process_batch: each event in a transaction of its own. *)

CallService(w) ==
  /\ pc[w] = "process"
  /\ batch[w] # <<>>
  /\ Start(w, MessageOf(Head(batch[w])).event)
  /\ Goto(w, "call")
  /\ UNCHANGED <<groupVars, faults, polled, batch, outcomeVars>>

ServiceStep(w) ==
  /\ pc[w] = "call"
  /\ Proceed(w)
  /\ UNCHANGED <<groupVars, pc, faults, polled, batch, outcomeVars>>

ServiceFault(w) ==
  /\ pc[w] = "call"
  /\ Fault
  /\ Fail(w)
  /\ UNCHANGED <<groupVars, pc, polled, batch, outcomeVars>>

NextEvent(w) ==
  /\ batch' = [batch EXCEPT ![w] = Tail(@)]
  /\ Goto(w, "process")

EventDone(w) ==
  /\ pc[w] = "call"
  /\ At(w, "done")
  /\ Return(w)
  /\ NextEvent(w)
  /\ UNCHANGED <<groupVars, faults, polled, outcomeVars>>

\* Any exception of process_event makes a failed result, and no more.
EventFailed(w) ==
  /\ pc[w] = "call"
  /\ call[w].stage \in {"transient", "rejected"}
  /\ Return(w)
  /\ unprocessed' = unprocessed \cup {Head(batch[w])}
  /\ NextEvent(w)
  /\ UNCHANGED <<groupVars, faults, polled, dropped>>

BatchDone(w) ==
  /\ pc[w] = "process"
  /\ batch[w] = <<>>
  /\ Goto(w, "commit")
  /\ UNCHANGED <<serviceVars, groupVars, faults, polled, batch, outcomeVars>>

\* The offsets are committed whatever the batch's status is ...
CommitDone(w) ==
  /\ pc[w] = "commit"
  /\ CommitPositions(w)
  /\ Goto(w, "load")
  /\ UNCHANGED <<serviceVars, faults, polled, batch, outcomeVars>>

\* ... and a KafkaError is logged: from a group that has removed this worker,
CommitRefused(w) ==
  /\ pc[w] = "commit"
  /\ w \notin member
  /\ Goto(w, "load")
  /\ UNCHANGED <<serviceVars, groupVars, faults, polled, batch, outcomeVars>>

\* or by a failure that may have come after the broker wrote.
CommitError(w) ==
  /\ pc[w] = "commit"
  /\ w \in member
  /\ Fault
  /\ UNCHANGED groupVars \/ CommitPositions(w)
  /\ Goto(w, "load")
  /\ UNCHANGED <<serviceVars, polled, batch, outcomeVars>>

-----------------------------------------------------------------------------

Work(w) ==
  \/ AddEvent(w)
  \/ DropRecord(w)
  \/ FlushBatch(w)
  \/ CallService(w)
  \/ ServiceStep(w)
  \/ EventDone(w)
  \/ EventFailed(w)
  \/ BatchDone(w)
  \/ CommitDone(w)
  \/ CommitRefused(w)

Environment(w) ==
  \/ StopExit(w)
  \/ MemberExpires(w)
  \/ Crash(w)
  \/ ServiceFault(w)
  \/ CommitError(w)

Next ==
  \/ GroupRebalance
  \/ \E w \in Worker :
       \/ Restart(w) \/ Poll(w) \/ EmptyPoll(w) \/ PollPoison(w)
       \/ Work(w)
       \/ Environment(w)

Spec == Init /\ [][Next]_vars

\* As for RecordConsumer, but a batch worker never ends for want of messages: it
\* polls again, and the group meets it in one of its polls.
Fairness ==
  /\ SF_vars(GroupRebalance)
  /\ \A w \in Worker :
       /\ WF_vars(Restart(w))
       /\ WF_vars(Work(w))
       /\ SF_vars(Poll(w) \/ PollPoison(w))
       /\ SF_vars(ServiceStep(w))

FairSpec == Spec /\ Fairness

-----------------------------------------------------------------------------
(* Properties. *)

TypeOK ==
  /\ ServiceTypeOK
  /\ GroupTypeOK
  /\ pc \in [Worker -> {"down", "poll", "load", "process", "call", "commit"}]
  /\ faults \in 0 .. MaxFaults
  /\ polled \in [Worker -> Seq(Record)]
  /\ batch \in [Worker -> Seq(Record)]
  /\ dropped \subseteq Record /\ unprocessed \subseteq Record

\* A committed offset never passes a record that no worker has looked at: each
\* one was applied, or its processing failed, or its validation did.  poll()
\* moves the positions past everything it returns, so this rests on
\* max_records being the batch size and on the flush before the next poll.
CommittedIsAttempted ==
  \A r \in Record : Passed(r) => Applied(r) \/ r \in unprocessed \cup dropped

\* A batch never holds more than batch_size events, and none waits from one poll
\* to the next: the flush on an empty poll has nothing to do.
BatchWithinPoll ==
  \A w \in Worker :
    /\ Len(batch[w]) + Len(polled[w]) <= BatchSize
    /\ pc[w] = "poll" => batch[w] = <<>> /\ polled[w] = <<>>

\* Every good event is taken up at last: applied, or tried and given up.
EveryEventAttempted ==
  \A r \in Record :
    MessageOf(r).kind = "event" => <>(Applied(r) \/ r \in unprocessed)

\* What README.md says: "Permanently failed events are persisted in
\* failed_events and published to the inventory_dlq Kafka topic", and "Kafka
\* offsets are committed only after successful processing or successful DLQ
\* publishing".  This consumer does neither for any event (nothing calls
\* its failed_event_service and dlq_publisher), so what it passes must be applied.
CommittedIsSettled == \A r \in Record : Passed(r) => Applied(r)

=============================================================================
