---------------------------- MODULE AnomalyPipeline ----------------------------
(***************************************************************************)
(* What BatchProcessingService does with an event beside counting it:      *)
(* _process_single_event calls InventoryService.process_event, and then,   *)
(* unless the event was a duplicate, _detect_and_persist_anomalies, which  *)
(* runs the rules (app/services/anomaly_detection_service.py), stores what *)
(* they find, raises an alert for it and publishes the alert               *)
(* (app/producer/alert_kafka_producer.py).                                 *)
(*                                                                         *)
(* The clients are worker processes.  Each one's detection goes through    *)
(*   row -> rules -> persist -> alert -> publish                           *)
(* and ends at any of them; its statements run in sessions of their own,   *)
(* after the commit and without locks, so that the row and the history are *)
(* read at different times.  READ COMMITTED is PostgreSQL's default and    *)
(* the engine's.                                                           *)
(*                                                                         *)
(* Abstractions.  What the two queries of the table of sales return is     *)
(* chosen from constants (no writer of sales runs here).  Every change is  *)
(* within the 24 hours the rules look back.  An anomaly keeps the numbers  *)
(* its description states.  Bounds: MaxFaults failures of the environment. *)
(***************************************************************************)
EXTENDS InventoryService, DetectionRules, SequencesExt

CONSTANTS
  DaySales,     \* what SuddenSalesSpike may read: [count, total, largest]
  RapidSales,   \* how many sales RapidConsecutiveSales may read
  MaxPublish,   \* kafka_publish_attempts
  MaxFaults     \* bound on the failures in a behaviour

ASSUME PipelineAssumption ==
  /\ DaySales \subseteq [count : Nat, total : Nat, largest : Nat]
  /\ RapidSales \subseteq Nat
  /\ MaxPublish \in Nat \ {0}
  /\ MaxFaults \in Nat
  /\ Client \cap Event = {}

VARIABLES
  timeline,     \* the order in which the transactions began, by changed_at =
                \* now(): clients whose transaction is open, and events whose
                \* history row is committed
  detect,       \* where each client's detection is
  anomalies,    \* rows of table "anomalies"
  alerts,       \* rows of table "alerts"
  inflight,     \* copies of each event's alert in the producer, not settled yet
  topic,        \* copies of it in the alerts topic
  examined,     \* events whose rules have run (for properties)
  faults        \* failures so far

detectionVars == <<detect, anomalies, alerts, inflight, topic, examined>>
vars == <<serviceVars, timeline, detectionVars, faults>>

Finding == [event : Event, severity : Severity,
            type : {"negative", "spike", "adjustment", "rapid"},
            change : Event \cup {NoEvent}, from : Int, to : Int, amount : Int]

Detection == [stage : {"none", "row", "rules", "persist", "alert", "publish"},
              event : Event \cup {NoEvent}, seen : Int, found : Seq(Finding),
              attempt : 0 .. MaxPublish]

NoDetection == [stage |-> "none", event |-> NoEvent, seen |-> 0, found |-> <<>>,
                attempt |-> 0]

Init ==
  /\ ServiceInit
  /\ timeline = <<>>
  /\ detect = [c \in Client |-> NoDetection]
  /\ anomalies = {} /\ alerts = {} /\ examined = {}
  /\ inflight = [e \in Event |-> 0] /\ topic = [e \in Event |-> 0]
  /\ faults = 0

Fault == faults < MaxFaults /\ faults' = faults + 1

Detecting(c, stage) == detect[c].stage = stage

MyEvent(c) == detect[c].event

Leave(c) == detect' = [detect EXCEPT ![c] = NoDetection]

-----------------------------------------------------------------------------
(* process_event, and what the caller makes of its result. *)

\* "changed_at" of the transaction that a step of client c opens, commits or
\* rolls back.
Stamp(c) ==
  timeline' =
    IF history' # history THEN ReplaceAll(timeline, c, call[c].event)
    ELSE IF call'[c].stage \notin InTransaction THEN RemoveFirst(timeline, c)
    ELSE IF At(c, "lookup") THEN Append(timeline, c)
    ELSE timeline

CallService(c, e) ==
  /\ Detecting(c, "none")
  /\ Start(c, e)
  /\ UNCHANGED <<timeline, detectionVars, faults>>

Serve(c) ==
  /\ Proceed(c)
  /\ Stamp(c)
  /\ UNCHANGED <<detectionVars, faults>>

ServeFault(c) ==
  /\ Fault
  /\ Fail(c)
  /\ Stamp(c)
  /\ UNCHANGED detectionVars

\* Mutants of TakeResult: duplicates are examined as well; nothing is.
TakeAnyResult(c) ==
  /\ At(c, "done")
  /\ detect' = [detect EXCEPT ![c] = [NoDetection EXCEPT !.stage = "row",
                                                         !.event = call[c].event]]
  /\ Return(c)
  /\ UNCHANGED <<timeline, anomalies, alerts, inflight, topic, examined, faults>>

TakeNoResult(c) ==
  /\ At(c, "done")
  /\ ~call[c].duplicate
  /\ Return(c)
  /\ UNCHANGED <<timeline, detectionVars, faults>>

\* The event has just changed the stock: _detect_and_persist_anomalies.
TakeResult(c) ==
  /\ At(c, "done")
  /\ ~call[c].duplicate
  /\ detect' = [detect EXCEPT ![c] = [NoDetection EXCEPT !.stage = "row",
                                                         !.event = call[c].event]]
  /\ Return(c)
  /\ UNCHANGED <<timeline, anomalies, alerts, inflight, topic, examined, faults>>

\* A duplicate or an error: the event is counted and left.
TakeNothing(c) ==
  /\ At(c, "done") => call[c].duplicate
  /\ Return(c)
  /\ UNCHANGED <<timeline, detectionVars, faults>>

\* The process dies, in the call or in the detection; what its producer held
\* dies with it or was delivered.
Crash(c) ==
  /\ Fault
  /\ ~At(c, "idle") \/ ~Detecting(c, "none")
  /\ call' = [call EXCEPT ![c] = NoCall]
  /\ Release(c)
  /\ timeline' = RemoveFirst(timeline, c)
  /\ Leave(c)
  /\ UNCHANGED <<rows, quantity, history, cache, anomalies, alerts, inflight,
                 topic, examined>>

-----------------------------------------------------------------------------
(* detect_anomalies. *)

\* session.get(Inventory, ...): a committed row, not locked.
ReadRow(c) ==
  /\ Detecting(c, "row")
  /\ detect' = [detect EXCEPT ![c].stage = "rules",
                              ![c].seen = quantity[KeyOf[MyEvent(c)]]]
  /\ UNCHANGED <<serviceVars, timeline, anomalies, alerts, inflight, topic,
                 examined, faults>>

\* The place of changed_at of event e among the others.
Place(e) == SelectInSeq(timeline, LAMBDA x : x = e)

\* Mutant of Latest: the rows are in ascending order.
Earliest(k) ==
  CHOOSE h \in ToSet(history[k]) :
    \A g \in ToSet(history[k]) : Place(h.event) <= Place(g.event)

\* ORDER BY changed_at DESC, its first row.
Latest(k) ==
  CHOOSE h \in ToSet(history[k]) :
    \A g \in ToSet(history[k]) : Place(h.event) >= Place(g.event)

Found(e, type, severity) ==
  [event |-> e, type |-> type, severity |-> severity, change |-> NoEvent,
   from |-> 0, to |-> 0, amount |-> 0]

\* The rules, in their order, after event e, on a row that showed "seen".
Findings(e, seen, day, rapid) ==
  LET last == Latest(KeyOf[e])
      If(fires, finding) == IF fires THEN <<finding>> ELSE <<>>
  IN  If(NegativeFires(seen), Found(e, "negative", "critical"))
      \o If(SpikeFires(day), Found(e, "spike", SpikeSeverity(day)))
      \o If(AdjustmentFires(last.delta, last.before, seen),
            [event |-> e, type |-> "adjustment",
             severity |-> AdjustmentSeverity(last.delta, last.before, seen),
             change |-> last.event, from |-> last.before, to |-> seen,
             amount |-> Magnitude(last.delta)])
      \o If(RapidFires(rapid), Found(e, "rapid", RapidSeverity(rapid)))

\* The rules have found this; nothing more is done when it is nothing.
Keep(c, found) ==
  /\ detect' = [detect EXCEPT ![c] =
       IF found = <<>> THEN NoDetection
       ELSE [@ EXCEPT !.stage = "persist", !.seen = 0, !.found = found]]
  /\ examined' = examined \cup {MyEvent(c)}
  /\ UNCHANGED <<serviceVars, timeline, anomalies, alerts, inflight, topic>>

RunRules(c) ==
  /\ Detecting(c, "rules")
  /\ \E day \in DaySales, rapid \in RapidSales :
       Keep(c, Findings(MyEvent(c), detect[c].seen, day, rapid))
  /\ UNCHANGED faults

\* A rule's query fails.  The rule is skipped, and the later ones fail with it,
\* in the transaction that the error has aborted.
RuleError(c) ==
  /\ Detecting(c, "rules")
  /\ Fault
  /\ \E day \in DaySales, rapid \in RapidSales :
       LET all == Findings(MyEvent(c), detect[c].seen, day, rapid)
       IN  \E n \in 0 .. Len(all) - 1 : Keep(c, SubSeq(all, 1, n))

-----------------------------------------------------------------------------
(* persist_anomalies. *)

HasAnomaly(e) == \E a \in anomalies : a.event = e

\* The anomaly's row, unless its event has one; then the alert for a severe one.
\* (For an event that has one, the alert would have no anomaly, and is refused.)
PersistAnomaly(c) ==
  /\ Detecting(c, "persist")
  /\ HasAnomaly(MyEvent(c)) \/ Len(detect[c].found) = 1
  /\ LET new == Head(detect[c].found)
     IN  /\ anomalies' = IF HasAnomaly(MyEvent(c)) THEN anomalies
                         ELSE anomalies \cup {new}
         /\ IF new.severity \in Severe /\ ~HasAnomaly(MyEvent(c))
            THEN detect' = [detect EXCEPT ![c].stage = "alert"]
            ELSE Leave(c)
  /\ UNCHANGED <<serviceVars, timeline, alerts, inflight, topic, examined, faults>>

\* Several anomalies of one event: the second one breaks ix_anomalies_event_id
\* (neither SELECT has seen the other's row, as nothing is flushed in between),
\* and none is stored.
PersistConflict(c) ==
  /\ Detecting(c, "persist")
  /\ ~HasAnomaly(MyEvent(c))
  /\ Len(detect[c].found) > 1
  /\ Leave(c)
  /\ UNCHANGED <<serviceVars, timeline, anomalies, alerts, inflight, topic,
                 examined, faults>>

-----------------------------------------------------------------------------
(* _generate_and_publish_alerts. *)

StoreAlert(c) ==
  alerts' = alerts \cup {[event |-> MyEvent(c),
                          severity |-> Head(detect[c].found).severity]}

\* Mutant of CreateAlert: the alert is stored, and not published.
CreateAlertOnly(c) ==
  /\ Detecting(c, "alert")
  /\ StoreAlert(c)
  /\ Leave(c)
  /\ UNCHANGED <<serviceVars, timeline, anomalies, inflight, topic, examined, faults>>

\* create_alert: there can be no earlier alert of an anomaly that is new.  Then
\* publish_alert sends it for the first time.
CreateAlert(c) ==
  /\ Detecting(c, "alert")
  /\ StoreAlert(c)
  /\ detect' = [detect EXCEPT ![c].stage = "publish", ![c].attempt = 1]
  /\ inflight' = [inflight EXCEPT ![MyEvent(c)] = @ + 1]
  /\ UNCHANGED <<serviceVars, timeline, anomalies, topic, examined, faults>>

\* A statement of these methods fails, and what has been done stays.  The reply
\* to a COMMIT may be lost after its effect.
DetectionError(c) ==
  /\ detect[c].stage \in {"row", "persist", "alert"}
  /\ Fault
  /\ \/ UNCHANGED <<anomalies, alerts>>
     \/ /\ Detecting(c, "persist")
        /\ ~HasAnomaly(MyEvent(c)) /\ Len(detect[c].found) = 1
        /\ anomalies' = anomalies \cup {Head(detect[c].found)}
        /\ UNCHANGED alerts
     \/ /\ Detecting(c, "alert")
        /\ StoreAlert(c)
        /\ UNCHANGED anomalies
  /\ Leave(c)
  /\ UNCHANGED <<serviceVars, timeline, inflight, topic, examined>>

\* A record that the producer holds reaches the topic, at whatever time ...
Deliver(e) ==
  /\ inflight[e] > 0
  /\ inflight' = [inflight EXCEPT ![e] = @ - 1]
  /\ topic' = [topic EXCEPT ![e] = @ + 1]

\* ... in time for future.get: publish_alert returns.
Published(c) ==
  /\ Detecting(c, "publish")
  /\ Deliver(MyEvent(c))
  /\ Leave(c)
  /\ UNCHANGED <<serviceVars, timeline, anomalies, alerts, examined, faults>>

\* ... after future.get has given up on it, or the process has ended.
DeliveredLate(e) ==
  /\ \A c \in Client :
       MyEvent(c) = e /\ Detecting(c, "publish") => inflight[e] >= 2
  /\ Deliver(e)
  /\ UNCHANGED <<serviceVars, timeline, detect, anomalies, alerts, examined, faults>>

\* future.get raises a KafkaError: send again, or give up.  The copy stays with
\* the producer, which may deliver it (delivery_timeout_ms is longer than the
\* wait), or is dropped by it.
PublishTimeout(c) ==
  /\ Detecting(c, "publish")
  /\ Fault
  /\ \E kept \in {inflight[MyEvent(c)], inflight[MyEvent(c)] - 1} :
       IF detect[c].attempt < MaxPublish
       THEN /\ inflight' = [inflight EXCEPT ![MyEvent(c)] = kept + 1]
            /\ detect' = [detect EXCEPT ![c].attempt = @ + 1]
       ELSE /\ inflight' = [inflight EXCEPT ![MyEvent(c)] = kept]
            /\ Leave(c)
  /\ UNCHANGED <<serviceVars, timeline, anomalies, alerts, topic, examined>>

-----------------------------------------------------------------------------

Next ==
  \/ \E c \in Client :
       \/ \E e \in Event : CallService(c, e)
       \/ Serve(c)
       \/ ServeFault(c)
       \/ TakeResult(c)
       \/ TakeNothing(c)
       \/ Crash(c)
       \/ ReadRow(c)
       \/ RunRules(c)
       \/ RuleError(c)
       \/ PersistAnomaly(c)
       \/ PersistConflict(c)
       \/ CreateAlert(c)
       \/ DetectionError(c)
       \/ Published(c)
       \/ PublishTimeout(c)
  \/ \E e \in Event : DeliveredLate(e)

Spec == Init /\ [][Next]_vars

-----------------------------------------------------------------------------
(* Properties. *)

\* Every variable keeps its type.
TypeOK ==
  /\ ServiceTypeOK
  /\ timeline \in Seq(Client \cup Event)
  /\ detect \in [Client -> Detection]
  /\ anomalies \subseteq Finding
  /\ alerts \subseteq [event : Event, severity : Severe]
  /\ inflight \in [Event -> 0 .. MaxPublish]
  /\ topic \in [Event -> 0 .. MaxPublish]
  /\ examined \subseteq Event
  /\ faults \in 0 .. MaxFaults

\* The events that are on their way to an examination.
Pending ==
  {MyEvent(c) : c \in Client} \cup
  {call[c].event : c \in {d \in Client : call[d].stage \in {"sync", "done"}
                                          /\ ~call[d].duplicate}}

\* An event is examined once: never by two clients, and not again when it comes
\* back as a duplicate, so that persist_anomalies never finds a row of its event.
ExaminedOnce ==
  \A c \in Client : detect[c].stage \in {"row", "rules"} =>
    /\ MyEvent(c) \notin examined
    /\ ~HasAnomaly(MyEvent(c))
    /\ \A d \in Client \ {c} : MyEvent(d) # MyEvent(c)

\* The changes of the stock that no rule has looked at and none is going to.
Unexamined == RecordedEvents \ (examined \cup Pending)

\* Each failure costs one change its examination at most, however the deliveries
\* overlap.  (Detection is skipped for a duplicate, so a change whose client
\* crashed, lost the reply to COMMIT or met a cache error is never examined; what
\* other clients are doing at that time is not lost with it.)
OneUnexaminedPerFailure == Cardinality(Unexamined) <= faults

\* The numbers a severe adjustment reports do not add up.  Between quantities
\* that are not negative no change exceeds the larger of the two, so "high" and
\* "critical", over 100 %, arise only when the row and the history are read at
\* different times or the row read as the latest is not the last one.
\* (docs/anomaly_detection.md calls an adjustment from 100 to 30 "HIGH"; to the
\* code it is 70 %, and "low".)
SevereAdjustmentIsTorn ==
  \A a \in anomalies : a.type = "adjustment" /\ a.severity \in Severe =>
    a.amount # Magnitude(a.to - a.from)

\* What an adjustment reports was there: a change of the history of the event's
\* own row, and a quantity that the row had once.  The change is the event's own
\* or one whose transaction began after it, never an earlier one.
ReportsRecentChange ==
  \A a \in anomalies : a.type = "adjustment" =>
    LET of == history[KeyOf[a.event]]
    IN  /\ \E i \in DOMAIN of : of[i].event = a.change /\ of[i].before = a.from
        /\ \E i \in DOMAIN of : of[i].after = a.to
        /\ Place(a.change) >= Place(a.event)

\* The events with a severe anomaly whose client is through with them, and whose
\* alert is not in the topic, is there twice, or may still come to be.
Mistold ==
  {e \in {a.event : a \in {b \in anomalies : b.severity \in Severe}} :
     /\ \A c \in Client : MyEvent(c) # e
     /\ topic[e] # 1 \/ inflight[e] # 0}

\* Each failure spoils the telling of one severe anomaly at most: a send that
\* times out and arrives late, or a client that dies, touches no other's alert.
OneMistoldPerFailure == Cardinality(Mistold) <= faults

=============================================================================
