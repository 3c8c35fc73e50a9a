---------------------------- MODULE InventoryTopic ----------------------------
(***************************************************************************)
(* What the consumers of the topics (RecordConsumer and BatchConsumer of   *)
(* events, SalesConsumer of sales) have in common: the records they read,  *)
(* the group they use, the life of the worker process (app/consumer/       *)
(* worker.py, docker-compose.yml), and a budget for the failures of what   *)
(* surrounds them.                                                         *)
(***************************************************************************)
EXTENDS InventoryService, ConsumerGroup

CONSTANT
  MaxFaults     \* bound on the failures in a behaviour

\* What a record's value can be: a good event, an event dated in the future (the
\* validator compares it with the clock, so the same record may be good later),
\* JSON that the schema rejects, and bytes that are not JSON.
Message ==
  [kind : {"event", "future"}, event : Event]
    \cup [kind : {"malformed", "poison"}, event : {NoEvent}]

ASSUME TopicAssumption ==
  /\ Worker \subseteq Client
  /\ Log \in [Partition -> Seq(Message)]
  /\ MaxFaults \in Nat

VARIABLES
  pc,           \* where each worker is
  faults        \* failures so far

Record == UNION {{p} \X DOMAIN Log[p] : p \in Partition}

MessageOf(r) == Log[r[1]][r[2]]

\* InventoryEvent.model_validate and InventoryEventValidator.validate let the
\* record through, or do not; for a future event that depends on the moment.
MayBeValid(r) == MessageOf(r).kind \in {"event", "future"}

MayBeInvalid(r) == MessageOf(r).kind \in {"malformed", "future"}

\* The records of a fetch whose value_deserializer raises.
Poisoned(w, f) ==
  \E p \in Partition : \E i \in position[w][p] + 1 .. f[p] :
    Log[p][i].kind = "poison"

\* The record's event has changed the stock (now, or at an earlier delivery).
Applied(r) == MessageOf(r).event # NoEvent /\ Recorded(MessageOf(r).event)

Passed(r) == r[2] <= committed[r[1]]

\* One more failure of the environment.
Fault == faults < MaxFaults /\ faults' = faults + 1

Goto(w, label) == pc' = [pc EXCEPT ![w] = label]

=============================================================================
