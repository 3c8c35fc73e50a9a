----------------------------- MODULE SalesConsumer -----------------------------
(***************************************************************************)
(* KafkaSalesConsumer (app/consumer/sales_kafka_consumer.py) with the      *)
(* services it calls: SalesService, RetryService and the dead letter       *)
(* producer.  Its workers share the database with clients of the inventory *)
(* service (Client \ Worker), so that both writers of the stock are        *)
(* composed here.                                                          *)
(*                                                                         *)
(* "pc" is the call a worker is about to make:                             *)
(*   poll      next(self._consumer) in consume_forever                     *)
(*   validate  _deserialize_message and validate in process_record         *)
(*   attempt   an attempt of RetryService.execute                          *)
(*   call      inside SalesService.process_event                           *)
(*   publish   publish_failed_event in _handle_permanent_failure           *)
(*   commit    _safe_commit                                                *)
(*   down      consume_forever has ended                                   *)
(*                                                                         *)
(* There is no table of processed or of failed events here: the sale id    *)
(* alone makes a redelivery harmless, and a dead letter is the only trace  *)
(* of a failure.  Bounds: MaxFaults failures of the environment.           *)
(***************************************************************************)
EXTENDS SalesService, InventoryTopic

CONSTANTS
  MaxAttempts,  \* kafka_consumer_max_attempts
  NoRecord      \* the record of a worker that has none in hand

ASSUME SalesConsumerAssumption ==
  /\ MaxAttempts \in Nat \ {0}
  /\ \A p \in Partition : \A i \in DOMAIN Log[p] :
       Log[p][i].event \in SaleEvent \cup {NoEvent}

VARIABLES
  rec,          \* the record each worker has in hand, <<partition, index>>
  attempt,      \* the attempt of RetryService.execute each worker is in
  dlq,          \* records in the dead letter topic
  lost          \* records whose dead letter was not acknowledged (for properties)

workerVars == <<pc, rec, attempt>>
tableVars == <<serviceVars, sales>>
letterVars == <<dlq, lost>>
vars == <<tableVars, groupVars, workerVars, letterVars, faults>>

Init ==
  /\ ServiceInit
  /\ sales = {}
  /\ GroupInit
  /\ pc = [w \in Worker |-> "down"]
  /\ rec = [w \in Worker |-> NoRecord]
  /\ attempt = [w \in Worker |-> 0]
  /\ dlq = {} /\ lost = {}
  /\ faults = 0

-----------------------------------------------------------------------------
(* consume_forever. *)

\* process_record returns; the loop asks for the next message.
NextMessage(w) ==
  /\ Goto(w, "poll")
  /\ rec' = [rec EXCEPT ![w] = NoRecord]
  /\ attempt' = [attempt EXCEPT ![w] = 0]

\* The consumer is closed, or its process dies.
Exit(w) ==
  /\ Goto(w, "down")
  /\ rec' = [rec EXCEPT ![w] = NoRecord]
  /\ attempt' = [attempt EXCEPT ![w] = 0]
  /\ Leave(w)

\* Whoever runs this consumer starts it, at first or again.
Restart(w) ==
  /\ pc[w] = "down"
  /\ Goto(w, "poll")
  /\ UNCHANGED <<tableVars, groupVars, rec, attempt, letterVars, faults>>

Poll(w) ==
  /\ pc[w] = "poll"
  /\ \E f \in Fetches(w) : ~Poisoned(w, f) /\ Fetch(w, f)
  /\ UNCHANGED <<tableVars, workerVars, letterVars, faults>>

\* json.loads raises out of the iterator, and the loop ends.
PollPoison(w) ==
  /\ pc[w] = "poll"
  /\ w \in member
  /\ Buffered(w) = {}
  /\ \E f \in Fetches(w) : Poisoned(w, f)
  /\ Exit(w)
  /\ UNCHANGED <<tableVars, letterVars, faults>>

Receive(w) ==
  /\ pc[w] = "poll"
  /\ \E p \in Buffered(w) :
       /\ HandOut(w, p)
       /\ rec' = [rec EXCEPT ![w] = <<p, position[w][p] + 1>>]
  /\ Goto(w, "validate")
  /\ UNCHANGED <<tableVars, attempt, letterVars, faults>>

\* consumer_timeout_ms passes and nothing has arrived: nothing to read, a slow
\* fetch, or a group that is still rebalancing.
IdleExit(w) ==
  /\ pc[w] = "poll"
  /\ Buffered(w) = {}
  /\ Exit(w)
  /\ UNCHANGED <<tableVars, letterVars, faults>>

\* stop() was called: the loop is left with the message just received.
StopExit(w) ==
  /\ pc[w] = "poll"
  /\ Buffered(w) # {}
  /\ Fault
  /\ Exit(w)
  /\ UNCHANGED <<tableVars, letterVars>>

Polling == {w \in Worker : pc[w] = "poll" /\ Buffered(w) = {}}

GroupRebalance ==
  /\ \E owner \in [Partition -> Polling] : Rebalance(Polling, owner)
  /\ UNCHANGED <<tableVars, workerVars, letterVars, faults>>

MemberExpires(w) ==
  /\ Fault
  /\ Expire(w)
  /\ UNCHANGED <<tableVars, workerVars, letterVars>>

Crash(w) ==
  /\ pc[w] # "down"
  /\ Fault
  /\ Exit(w)
  /\ call' = [call EXCEPT ![w] = NoCall]
  /\ Release(w)
  /\ UNCHANGED <<rows, quantity, history, cache, sales, letterVars>>

-----------------------------------------------------------------------------
(* process_record. *)

Accept(w) ==
  /\ pc[w] = "validate"
  /\ MayBeValid(rec[w])
  /\ Goto(w, "attempt")
  /\ attempt' = [attempt EXCEPT ![w] = 1]
  /\ UNCHANGED <<tableVars, groupVars, rec, letterVars, faults>>

Refuse(w) ==
  /\ pc[w] = "validate"
  /\ MayBeInvalid(rec[w])
  /\ Goto(w, "publish")
  /\ UNCHANGED <<tableVars, groupVars, rec, attempt, letterVars, faults>>

CallService(w) ==
  /\ pc[w] = "attempt"
  /\ Start(w, MessageOf(rec[w]).event)
  /\ Goto(w, "call")
  /\ UNCHANGED <<sales, groupVars, rec, attempt, letterVars, faults>>

ServiceStep(w) ==
  /\ pc[w] = "call"
  /\ ProceedSale(w)
  /\ UNCHANGED <<groupVars, workerVars, letterVars, faults>>

ServiceFault(w) ==
  /\ pc[w] = "call"
  /\ Fault
  /\ FailSale(w)
  /\ UNCHANGED <<groupVars, workerVars, letterVars>>

ServiceDone(w) ==
  /\ pc[w] = "call"
  /\ At(w, "done")
  /\ Return(w)
  /\ Goto(w, "commit")
  /\ UNCHANGED <<sales, groupVars, rec, attempt, letterVars, faults>>

\* RetryService.execute, after a SalesTransientError.
ServiceTransient(w) ==
  /\ pc[w] = "call"
  /\ At(w, "transient")
  /\ Return(w)
  /\ IF attempt[w] < MaxAttempts
     THEN /\ Goto(w, "attempt")
          /\ attempt' = [attempt EXCEPT ![w] = @ + 1]
     ELSE /\ Goto(w, "publish")
          /\ UNCHANGED attempt
  /\ UNCHANGED <<sales, groupVars, rec, letterVars, faults>>

\* Mutant of ServiceRejected: a business error is committed and nothing else.
RejectedIsCommitted(w) ==
  /\ pc[w] = "call"
  /\ At(w, "rejected")
  /\ Return(w)
  /\ Goto(w, "commit")
  /\ UNCHANGED <<sales, groupVars, rec, attempt, letterVars, faults>>

\* A SalesBusinessRuleError is not retried.
ServiceRejected(w) ==
  /\ pc[w] = "call"
  /\ At(w, "rejected")
  /\ Return(w)
  /\ Goto(w, "publish")
  /\ UNCHANGED <<sales, groupVars, rec, attempt, letterVars, faults>>

-----------------------------------------------------------------------------
(* _handle_permanent_failure and _safe_commit. *)

PublishDeadLetter(w) ==
  /\ pc[w] = "publish"
  /\ dlq' = dlq \cup {rec[w]}
  /\ Goto(w, "commit")
  /\ UNCHANGED <<tableVars, groupVars, rec, attempt, lost, faults>>

\* The publication raises, before or after its effect.  The exception is logged,
\* and the offset is committed all the same.
PublishError(w) ==
  /\ pc[w] = "publish"
  /\ Fault
  /\ UNCHANGED dlq \/ dlq' = dlq \cup {rec[w]}
  /\ lost' = lost \cup {rec[w]}
  /\ Goto(w, "commit")
  /\ UNCHANGED <<tableVars, groupVars, rec, attempt>>

CommitDone(w) ==
  /\ pc[w] = "commit"
  /\ CommitPositions(w)
  /\ NextMessage(w)
  /\ UNCHANGED <<tableVars, letterVars, faults>>

\* The group has removed this worker: CommitFailedError, which is logged.
CommitRefused(w) ==
  /\ pc[w] = "commit"
  /\ w \notin member
  /\ NextMessage(w)
  /\ UNCHANGED <<tableVars, groupVars, letterVars, faults>>

\* Another KafkaError, logged as well; the broker may have done the commit.
CommitError(w) ==
  /\ pc[w] = "commit"
  /\ w \in member
  /\ Fault
  /\ UNCHANGED groupVars \/ CommitPositions(w)
  /\ NextMessage(w)
  /\ UNCHANGED <<tableVars, letterVars>>

-----------------------------------------------------------------------------
(* The other writer: clients of InventoryService.process_event. *)

Restocker == Client \ Worker

Restock(c) ==
  /\ \/ \E e \in Event \ SaleEvent : Start(c, e)
     \/ Proceed(c)
     \/ Return(c)
  /\ UNCHANGED <<sales, groupVars, workerVars, letterVars, faults>>

RestockFault(c) ==
  /\ Fault
  /\ Fail(c) \/ Abort(c)
  /\ UNCHANGED <<sales, groupVars, workerVars, letterVars>>

-----------------------------------------------------------------------------

\* What a worker does by itself.
Work(w) ==
  \/ Restart(w)
  \/ Poll(w)
  \/ PollPoison(w)
  \/ Receive(w)
  \/ IdleExit(w)
  \/ Accept(w)
  \/ Refuse(w)
  \/ CallService(w)
  \/ ServiceStep(w)
  \/ ServiceDone(w)
  \/ ServiceTransient(w)
  \/ ServiceRejected(w)
  \/ PublishDeadLetter(w)
  \/ CommitDone(w)
  \/ CommitRefused(w)

\* What the environment does to it.
Environment(w) ==
  \/ StopExit(w)
  \/ MemberExpires(w)
  \/ Crash(w)
  \/ ServiceFault(w)
  \/ PublishError(w)
  \/ CommitError(w)

Next ==
  \/ GroupRebalance
  \/ \E w \in Worker : Work(w) \/ Environment(w)
  \/ \E c \in Restocker : Restock(c) \/ RestockFault(c)

Spec == Init /\ [][Next]_vars

-----------------------------------------------------------------------------
(* Properties. *)

\* Every variable keeps its type.
TypeOK ==
  /\ ServiceTypeOK
  /\ GroupTypeOK
  /\ sales \subseteq SaleRow
  /\ pc \in [Worker -> {"down", "poll", "validate", "attempt", "call", "publish",
                        "commit"}]
  /\ rec \in [Worker -> Record \cup {NoRecord}]
  /\ attempt \in [Worker -> 0 .. MaxAttempts]
  /\ dlq \subseteq Record /\ lost \subseteq Record
  /\ faults \in 0 .. MaxFaults

\* A committed offset never passes a request whose sale is not in the table,
\* unless its dead letter is out or its publication failed: whatever crashes,
\* lost commits and rebalances came before.
CommittedSaleIsAccounted ==
  \A r \in Record : Passed(r) =>
    \/ r \in dlq \cup lost
    \/ MessageOf(r).event # NoEvent /\ Sold(SaleOf[MessageOf(r).event])

\* A consumer that loses the race for a sale finds it made when it tries again:
\* as long as nothing fails, contention alone uses up no second attempt, so that
\* no request of a sale that was made ends as a dead letter for want of retries.
ContentionIsRetried ==
  faults = 0 => \A w \in Worker : pc[w] = "publish" => attempt[w] <= 1

=============================================================================
