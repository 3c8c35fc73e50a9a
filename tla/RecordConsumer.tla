---------------------------- MODULE RecordConsumer ----------------------------
(***************************************************************************)
(* KafkaInventoryConsumer (app/consumer/kafka_consumer.py), the consumer   *)
(* that the worker runs when batch processing is disabled, with the        *)
(* services it calls: ProcessedEventService, InventoryService (module      *)
(* InventoryService), RetryService, FailedEventService and the dead letter *)
(* producer.  Several workers of one consumer group (module ConsumerGroup) *)
(* share the database and the cache.                                       *)
(*                                                                         *)
(* A worker is a sequential process; "pc" is the call it is about to make: *)
(*   poll      next(self._consumer) in consume_forever                     *)
(*   validate  _deserialize_message and validate in process_record         *)
(*   assert    assert_not_processed, at the start of an attempt            *)
(*   call      inside process_event                                        *)
(*   select, insert   the two statements of mark_processed                 *)
(*   commit    commit after success or for a duplicate                     *)
(*   record, store   the two statements of record_failure, and             *)
(*   publish, letter   publish_failed_event and commit, all four in        *)
(*             _handle_permanent_failure                                   *)
(*   down      the process has ended; its container will be restarted      *)
(*                                                                         *)
(* Bounds: MaxFaults failures of the environment in a behaviour.           *)
(* Left out: the backoff sleeps and metrics, the several publish attempts  *)
(* behind one publish_failed_event (a record is in the dead letter topic   *)
(* or not), and the catch-all branch for unexpected exceptions.            *)
(***************************************************************************)
EXTENDS InventoryTopic

CONSTANTS
  MaxAttempts,  \* kafka_consumer_max_attempts
  NoRecord      \* the record of a worker that has none in hand

ASSUME ConsumerAssumption == MaxAttempts \in Nat \ {0}

VARIABLES
  rec,          \* the record each worker has in hand, <<partition, index>>
  attempt,      \* the attempt of RetryService.execute each worker is in
  processed,    \* event ids in "processed_events"
  failed,       \* records in "failed_events"
  dlq,          \* records in the dead letter topic
  abandoned     \* records whose failure handling was given up (for properties)

workerVars == <<pc, rec, attempt>>
outcomeVars == <<processed, failed, dlq, abandoned>>
vars == <<serviceVars, groupVars, workerVars, outcomeVars, faults>>

EventOf(w) == MessageOf(rec[w]).event

Init ==
  /\ ServiceInit
  /\ GroupInit
  /\ pc = [w \in Worker |-> "down"]
  /\ rec = [w \in Worker |-> NoRecord]
  /\ attempt = [w \in Worker |-> 0]
  /\ processed = {} /\ failed = {} /\ dlq = {} /\ abandoned = {}
  /\ faults = 0

-----------------------------------------------------------------------------

\* process_record returns; consume_forever asks for the next message.
NextMessage(w) ==
  /\ Goto(w, "poll")
  /\ rec' = [rec EXCEPT ![w] = NoRecord]
  /\ attempt' = [attempt EXCEPT ![w] = 0]

\* The process ends: by the end of consume_forever, by an exception that leaves
\* it, or by a crash.
Exit(w) ==
  /\ Goto(w, "down")
  /\ rec' = [rec EXCEPT ![w] = NoRecord]
  /\ attempt' = [attempt EXCEPT ![w] = 0]
  /\ Leave(w)

\* Mutant of RetryOrFail: one attempt too many.
RetryOnceMore(w) ==
  /\ IF attempt[w] <= MaxAttempts
     THEN /\ Goto(w, "assert")
          /\ attempt' = [attempt EXCEPT ![w] = @ + 1]
     ELSE /\ Goto(w, "record")
          /\ UNCHANGED attempt
  /\ UNCHANGED rec

\* RetryService.execute after an InventoryTransientError.
RetryOrFail(w) ==
  /\ IF attempt[w] < MaxAttempts
     THEN /\ Goto(w, "assert")
          /\ attempt' = [attempt EXCEPT ![w] = @ + 1]
     ELSE /\ Goto(w, "record")
          /\ UNCHANGED attempt
  /\ UNCHANGED rec

-----------------------------------------------------------------------------
(* consume_forever. *)

\* The container is started, at first or by "restart: unless-stopped".
Restart(w) ==
  /\ pc[w] = "down"
  /\ Goto(w, "poll")
  /\ UNCHANGED <<serviceVars, groupVars, rec, attempt, outcomeVars, faults>>

Poll(w) ==
  /\ pc[w] = "poll"
  /\ \E f \in Fetches(w) : ~Poisoned(w, f) /\ Fetch(w, f)
  /\ UNCHANGED <<serviceVars, workerVars, outcomeVars, faults>>

\* json.loads raises out of the iterator, and the worker ends.
PollPoison(w) ==
  /\ pc[w] = "poll"
  /\ w \in member
  /\ Buffered(w) = {}
  /\ \E f \in Fetches(w) : Poisoned(w, f)
  /\ Exit(w)
  /\ UNCHANGED <<serviceVars, outcomeVars, faults>>

Receive(w) ==
  /\ pc[w] = "poll"
  /\ \E p \in Buffered(w) :
       /\ HandOut(w, p)
       /\ rec' = [rec EXCEPT ![w] = <<p, position[w][p] + 1>>]
  /\ Goto(w, "validate")
  /\ UNCHANGED <<serviceVars, attempt, outcomeVars, faults>>

\* consumer_timeout_ms passes and nothing has arrived: the iteration ends, whether
\* there is nothing to read, the fetch is slow, or the group is still rebalancing.
IdleExit(w) ==
  /\ pc[w] = "poll"
  /\ Buffered(w) = {}
  /\ Exit(w)
  /\ UNCHANGED <<serviceVars, outcomeVars, faults>>

\* stop() was called: the loop is left with the message that was just received.
StopExit(w) ==
  /\ pc[w] = "poll"
  /\ Buffered(w) # {}
  /\ Fault
  /\ Exit(w)
  /\ UNCHANGED <<serviceVars, outcomeVars>>

\* The workers that wait in poll, with nothing left to hand out.
Polling == {w \in Worker : pc[w] = "poll" /\ Buffered(w) = {}}

GroupRebalance ==
  /\ \E owner \in [Partition -> Polling] : Rebalance(Polling, owner)
  /\ UNCHANGED <<serviceVars, workerVars, outcomeVars, faults>>

\* A worker is too slow for the group's timeouts, and the group removes it.
MemberExpires(w) ==
  /\ Fault
  /\ Expire(w)
  /\ UNCHANGED <<serviceVars, workerVars, outcomeVars>>

Crash(w) ==
  /\ pc[w] # "down"
  /\ Fault
  /\ Exit(w)
  /\ call' = [call EXCEPT ![w] = NoCall]
  /\ Release(w)
  /\ UNCHANGED <<rows, quantity, history, cache, outcomeVars>>

-----------------------------------------------------------------------------
(* process_record: validation. *)

Accept(w) ==
  /\ pc[w] = "validate"
  /\ MayBeValid(rec[w])
  /\ Goto(w, "assert")
  /\ attempt' = [attempt EXCEPT ![w] = 1]
  /\ UNCHANGED <<serviceVars, groupVars, rec, outcomeVars, faults>>

\* Mutant of Refuse: the record is committed and nothing else.
RefuseAndCommit(w) ==
  /\ pc[w] = "validate"
  /\ MayBeInvalid(rec[w])
  /\ Goto(w, "commit")
  /\ UNCHANGED <<serviceVars, groupVars, rec, attempt, outcomeVars, faults>>

Refuse(w) ==
  /\ pc[w] = "validate"
  /\ MayBeInvalid(rec[w])
  /\ Goto(w, "record")
  /\ UNCHANGED <<serviceVars, groupVars, rec, attempt, outcomeVars, faults>>

-----------------------------------------------------------------------------
(* _process_event_once, under RetryService.execute. *)

\* Mutant of SkipDuplicate: a duplicate is not committed.
SkipUncommitted(w) ==
  /\ pc[w] = "assert"
  /\ EventOf(w) \in processed
  /\ NextMessage(w)
  /\ UNCHANGED <<serviceVars, groupVars, outcomeVars, faults>>

\* assert_not_processed raises DuplicateEvent, and the record is skipped.
SkipDuplicate(w) ==
  /\ pc[w] = "assert"
  /\ EventOf(w) \in processed
  /\ Goto(w, "commit")
  /\ UNCHANGED <<serviceVars, groupVars, rec, attempt, outcomeVars, faults>>

CallService(w) ==
  /\ pc[w] = "assert"
  /\ EventOf(w) \notin processed
  /\ Start(w, EventOf(w))
  /\ Goto(w, "call")
  /\ UNCHANGED <<groupVars, rec, attempt, outcomeVars, faults>>

ServiceStep(w) ==
  /\ pc[w] = "call"
  /\ Proceed(w)
  /\ UNCHANGED <<groupVars, workerVars, outcomeVars, faults>>

ServiceFault(w) ==
  /\ pc[w] = "call"
  /\ Fault
  /\ Fail(w)
  /\ UNCHANGED <<groupVars, workerVars, outcomeVars>>

ServiceDone(w) ==
  /\ pc[w] = "call"
  /\ At(w, "done")
  /\ Return(w)
  /\ Goto(w, "select")
  /\ UNCHANGED <<groupVars, rec, attempt, outcomeVars, faults>>

\* Mutant of ServiceTransient: the error is swallowed, and the event is marked as
\* processed.
TransientIsSuccess(w) ==
  /\ pc[w] = "call"
  /\ At(w, "transient")
  /\ Return(w)
  /\ Goto(w, "select")
  /\ UNCHANGED <<groupVars, rec, attempt, outcomeVars, faults>>

ServiceTransient(w) ==
  /\ pc[w] = "call"
  /\ At(w, "transient")
  /\ Return(w)
  /\ RetryOrFail(w)
  /\ UNCHANGED <<groupVars, outcomeVars, faults>>

\* Mutants of ServiceRejected: a business error is committed and nothing else; it
\* is published without a row in failed_events.
RejectedIsCommitted(w) ==
  /\ pc[w] = "call"
  /\ At(w, "rejected")
  /\ Return(w)
  /\ Goto(w, "commit")
  /\ UNCHANGED <<groupVars, rec, attempt, outcomeVars, faults>>

RejectedIsUnrecorded(w) ==
  /\ pc[w] = "call"
  /\ At(w, "rejected")
  /\ Return(w)
  /\ Goto(w, "publish")
  /\ UNCHANGED <<groupVars, rec, attempt, outcomeVars, faults>>

ServiceRejected(w) ==
  /\ pc[w] = "call"
  /\ At(w, "rejected")
  /\ Return(w)
  /\ Goto(w, "record")
  /\ UNCHANGED <<groupVars, rec, attempt, outcomeVars, faults>>

\* mark_processed looks for the event's row ...
SelectProcessed(w) ==
  /\ pc[w] = "select"
  /\ Goto(w, IF EventOf(w) \in processed THEN "commit" ELSE "insert")
  /\ UNCHANGED <<serviceVars, groupVars, rec, attempt, outcomeVars, faults>>

\* ... and inserts it.
InsertProcessed(w) ==
  /\ pc[w] = "insert"
  /\ EventOf(w) \notin processed
  /\ processed' = processed \cup {EventOf(w)}
  /\ Goto(w, "commit")
  /\ UNCHANGED <<serviceVars, groupVars, rec, attempt, failed, dlq, abandoned, faults>>

\* Another worker has inserted it since: the unique index on event_id.
InsertProcessedConflict(w) ==
  /\ pc[w] = "insert"
  /\ EventOf(w) \in processed
  /\ RetryOrFail(w)
  /\ UNCHANGED <<serviceVars, groupVars, outcomeVars, faults>>

\* A database error in assert_not_processed or mark_processed; the insert may
\* have been committed before its reply was lost.
ProcessedEventsError(w) ==
  /\ pc[w] \in {"assert", "select", "insert"}
  /\ Fault
  /\ \/ UNCHANGED processed
     \/ pc[w] = "insert" /\ processed' = processed \cup {EventOf(w)}
  /\ RetryOrFail(w)
  /\ UNCHANGED <<serviceVars, groupVars, failed, dlq, abandoned>>

-----------------------------------------------------------------------------
(* Committing the offset, after success and for a duplicate. *)

CommitDone(w) ==
  /\ pc[w] = "commit"
  /\ CommitPositions(w)
  /\ NextMessage(w)
  /\ UNCHANGED <<serviceVars, outcomeVars, faults>>

\* The group has removed this worker: CommitFailedError, which is logged.
CommitRefused(w) ==
  /\ pc[w] = "commit"
  /\ w \notin member
  /\ NextMessage(w)
  /\ UNCHANGED <<serviceVars, groupVars, outcomeVars, faults>>

\* Another KafkaError, logged as well; the broker may have done the commit.
CommitError(w) ==
  /\ pc[w] = "commit"
  /\ w \in member
  /\ Fault
  /\ UNCHANGED groupVars \/ CommitPositions(w)
  /\ NextMessage(w)
  /\ UNCHANGED <<serviceVars, outcomeVars>>

-----------------------------------------------------------------------------
(* _handle_permanent_failure. *)

\* record_failure looks for a row of this topic, partition and offset ...
SelectFailure(w) ==
  /\ pc[w] = "record"
  /\ Goto(w, IF rec[w] \in failed THEN "publish" ELSE "store")
  /\ UNCHANGED <<serviceVars, groupVars, rec, attempt, outcomeVars, faults>>

\* ... and inserts it.
RecordFailure(w) ==
  /\ pc[w] = "store"
  /\ rec[w] \notin failed
  /\ failed' = failed \cup {rec[w]}
  /\ Goto(w, "publish")
  /\ UNCHANGED <<serviceVars, groupVars, rec, attempt, processed, dlq, abandoned, faults>>

\* "failure_handling_incomplete" is logged, and the record is not committed.
Abandon(w) ==
  /\ abandoned' = abandoned \cup {rec[w]}
  /\ NextMessage(w)

\* Another worker has inserted it since: uq_failed_events_source_location.
RecordFailureConflict(w) ==
  /\ pc[w] = "store"
  /\ rec[w] \in failed
  /\ Abandon(w)
  /\ UNCHANGED <<serviceVars, groupVars, processed, failed, dlq, faults>>

PublishDeadLetter(w) ==
  /\ pc[w] = "publish"
  /\ dlq' = dlq \cup {rec[w]}
  /\ Goto(w, "letter")
  /\ UNCHANGED <<serviceVars, groupVars, rec, attempt, processed, failed, abandoned, faults>>

\* record_failure or publish_failed_event raises, before or after its effect.
AbandonRecord(w) ==
  /\ pc[w] \in {"record", "store", "publish"}
  /\ Fault
  /\ \/ UNCHANGED <<failed, dlq>>
     \/ pc[w] = "store" /\ failed' = failed \cup {rec[w]} /\ UNCHANGED dlq
     \/ pc[w] = "publish" /\ dlq' = dlq \cup {rec[w]} /\ UNCHANGED failed
  /\ Abandon(w)
  /\ UNCHANGED <<serviceVars, groupVars, processed>>

CommitLetter(w) ==
  /\ pc[w] = "letter"
  /\ CommitPositions(w)
  /\ NextMessage(w)
  /\ UNCHANGED <<serviceVars, outcomeVars, faults>>

\* A failed commit here raises KafkaProcessingError out of an exception handler
\* of process_record, and the worker ends.
CommitLetterRefused(w) ==
  /\ pc[w] = "letter"
  /\ w \notin member
  /\ Exit(w)
  /\ UNCHANGED <<serviceVars, outcomeVars, faults>>

CommitLetterError(w) ==
  /\ pc[w] = "letter"
  /\ w \in member
  /\ Fault
  /\ Exit(w)
  /\ UNCHANGED <<serviceVars, outcomeVars>>

-----------------------------------------------------------------------------

\* What a worker does by itself.
Work(w) ==
  \/ Receive(w)
  \/ Accept(w)
  \/ Refuse(w)
  \/ SkipDuplicate(w)
  \/ CallService(w)
  \/ ServiceStep(w)
  \/ ServiceDone(w)
  \/ ServiceTransient(w)
  \/ ServiceRejected(w)
  \/ SelectProcessed(w)
  \/ InsertProcessed(w)
  \/ InsertProcessedConflict(w)
  \/ CommitDone(w)
  \/ CommitRefused(w)
  \/ SelectFailure(w)
  \/ RecordFailure(w)
  \/ RecordFailureConflict(w)
  \/ PublishDeadLetter(w)
  \/ CommitLetter(w)
  \/ CommitLetterRefused(w)

\* What the environment does to it.
Environment(w) ==
  \/ StopExit(w)
  \/ MemberExpires(w)
  \/ Crash(w)
  \/ ServiceFault(w)
  \/ ProcessedEventsError(w)
  \/ CommitError(w)
  \/ AbandonRecord(w)
  \/ CommitLetterError(w)

Next ==
  \/ GroupRebalance
  \/ \E w \in Worker :
       Restart(w) \/ Poll(w) \/ PollPoison(w) \/ IdleExit(w) \/ Work(w) \/ Environment(w)

Spec == Init /\ [][Next]_vars

\* Workers, services and the group's coordinator make progress, and a container
\* that has ended is started again (docker-compose: "restart: unless-stopped").
\* An iteration that is slow ends after a second, and a new process tries again:
\* a rebalance, or a fetch, that is possible again and again comes in time at last.
\* PostgreSQL serves the waiters of a lock in turn.
Fairness ==
  /\ SF_vars(GroupRebalance)
  /\ \A w \in Worker :
       /\ WF_vars(Restart(w))
       /\ WF_vars(Work(w))
       /\ WF_vars(IdleExit(w))
       /\ SF_vars(Poll(w) \/ PollPoison(w))
       /\ SF_vars(ServiceStep(w))

FairSpec == Spec /\ Fairness

-----------------------------------------------------------------------------
(* Properties. *)

Settled(r) == Applied(r) \/ r \in dlq

TypeOK ==
  /\ ServiceTypeOK
  /\ GroupTypeOK
  /\ pc \in [Worker -> {"down", "poll", "validate", "assert", "call", "select",
                        "insert", "commit", "record", "store", "publish",
                        "letter"}]
  /\ rec \in [Worker -> Record \cup {NoRecord}]
  /\ attempt \in [Worker -> 0 .. MaxAttempts]
  /\ processed \subseteq Event
  /\ failed \subseteq Record /\ dlq \subseteq Record /\ abandoned \subseteq Record
  /\ faults \in 0 .. MaxFaults

\* A committed offset never passes a record that was neither applied nor sent to
\* the dead letter topic, unless its failure handling was given up on the way:
\* redelivery stops only when nothing is left to do, whatever crashes, lost
\* commits and rebalances came before.
CommittedIsAccounted ==
  \A r \in Record : Passed(r) => Settled(r) \/ r \in abandoned

\* An event in "processed_events", on which redelivered records are skipped, is
\* in the history: a skip never loses a change.
ProcessedIsApplied == processed \subseteq RecordedEvents

\* Whatever is in the dead letter topic has its row in "failed_events".
DeadLetterIsRecorded == dlq \subseteq failed

\* The committed offsets never move back, not by a worker the group has removed
\* and not by a commit after a rebalance.
OffsetsNeverMoveBack ==
  [][\A p \in Partition : committed[p] <= committed'[p]]_vars

\* With one worker, once the last change of a key has been marked processed the
\* cache shows the key's quantity, whatever failed on the way.
CacheFollowsProcessed ==
  \A k \in Key :
    /\ history[k] # <<>>
    /\ history[k][Len(history[k])].event \in processed
    => cache[k] = quantity[k]

\* Every record is passed at last, in spite of any bounded number of failures.
EveryRecordCommitted ==
  \A p \in Partition : <>[](committed[p] = Len(Log[p]))

=============================================================================
