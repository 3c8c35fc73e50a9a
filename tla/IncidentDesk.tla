----------------------------- MODULE IncidentDesk -----------------------------
(***************************************************************************)
(* The tables "anomalies" and "alerts" after detection: AlertService       *)
(* (app/services/alert_service.py) and AnomalyService (anomaly_service.py) *)
(* behind their endpoints (app/api/v1/endpoints/alerts.py, anomalies.py).  *)
(*                                                                         *)
(* Workers (Creator) store anomalies and call create_alert for the severe  *)
(* ones; API processes (Desk) each serve one request after the other,      *)
(* since the endpoints block their event loop.  The shipped container runs *)
(* one API process; the model allows several.  Every SELECT and every      *)
(* COMMIT is a step of its own, without row locks.  create_alert is called *)
(* again and again for an anomaly, as docs/alerting_system.md describes    *)
(* ("Same anomaly again"), more often than module AnomalyPipeline does.    *)
(*                                                                         *)
(* Both update methods are alike: SELECT the row, assign its columns,      *)
(* COMMIT.  SQLAlchemy writes only the columns whose value has changed     *)
(* since the SELECT: a new time always, the status only if it was another. *)
(*                                                                         *)
(* Abstractions: of a time, whether it is set; of triggered_at, whether it *)
(* has left the deduplication window.  That suppressed_until has passed is *)
(* no state of its own, since nothing reads it.  Bound: MaxAnomalies rows. *)
(***************************************************************************)
EXTENDS Integers, FiniteSets, SequencesExt

CONSTANTS
  Creator,      \* worker processes
  Desk,         \* API processes
  Severities,   \* severities of the anomalies that are detected
  MaxAnomalies  \* bound on the anomalies

ASSUME DeskAssumption ==
  /\ Severities \subseteq {"low", "medium", "high", "critical"}
  /\ MaxAnomalies \in Nat

VARIABLES
  table,        \* the rows of "alerts" and of "anomalies", oldest first
  creating,     \* the anomaly for which each creator is about to insert an alert
  request       \* what each desk is doing

vars == <<table, creating, request>>

Table == {"alerts", "anomalies"}

\* The statuses that a request can ask for: acknowledge, resolve and suppress
\* for an alert, any for an anomaly.
Wanted ==
  [alerts |-> {"acknowledged", "resolved", "suppressed"},
   anomalies |-> {"open", "investigating", "resolved"}]

Initial == [alerts |-> "triggered", anomalies |-> "open"]

\* The statuses that come with a time: acknowledged_at, resolved_at,
\* suppressed_until.
Timed == {"acknowledged", "resolved", "suppressed"}

\* What the statements of get_alert_stats and of get_stats count, in their order.
Queries ==
  [alerts |-> <<"all", "triggered", "acknowledged", "resolved", "suppressed",
                "critical", "high">>,
   anomalies |-> <<"all", "open", "investigating", "resolved",
                   "critical", "high", "medium", "low">>]

Row == [anomaly : 1 .. MaxAnomalies, severity : Severities,
        status : UNION {Wanted[t] \cup {Initial[t]} : t \in Table},
        times : SUBSET Timed, expired : BOOLEAN]

NewRow(t, a, severity) ==
  [anomaly |-> a, severity |-> severity, status |-> Initial[t], times |-> {},
   expired |-> FALSE]

NoRequest == [kind |-> "none"]

Init ==
  /\ table = [t \in Table |-> <<>>]
  /\ creating = [c \in Creator |-> 0]
  /\ request = [d \in Desk |-> NoRequest]

-----------------------------------------------------------------------------
(* create_alert. *)

\* persist_anomalies has stored one more anomaly.
StoreAnomaly ==
  /\ Len(table["anomalies"]) < MaxAnomalies
  /\ \E s \in Severities :
       table' = [table EXCEPT !["anomalies"] =
                   Append(@, NewRow("anomalies", Len(@) + 1, s))]
  /\ UNCHANGED <<creating, request>>

\* The alerts of anomaly a that are not resolved and within the window.
Recent(a) ==
  {i \in DOMAIN table["alerts"] :
     LET l == table["alerts"][i]
     IN  l.anomaly = a /\ l.status # "resolved" /\ ~l.expired}

ToBeAlerted ==
  {a \in DOMAIN table["anomalies"] :
     table["anomalies"][a].severity \in {"high", "critical"}}

\* The SELECT finds an alert, which is returned.
FindAlert(c) ==
  /\ creating[c] = 0
  /\ \E a \in ToBeAlerted : Recent(a) # {}
  /\ UNCHANGED vars

FindNoAlert(c) ==
  /\ creating[c] = 0
  /\ \E a \in ToBeAlerted :
       /\ Recent(a) = {}
       /\ creating' = [creating EXCEPT ![c] = a]
  /\ UNCHANGED <<table, request>>

\* Mutant of HasAlert: the index on event_id is not unique.
NeverHasAlert(a) == FALSE

\* ix_alerts_event_id, of which there is one anomaly (ix_anomalies_event_id).
HasAlert(a) == \E i \in DOMAIN table["alerts"] : table["alerts"][i].anomaly = a

InsertAlert(c) ==
  /\ creating[c] # 0
  /\ ~HasAlert(creating[c])
  /\ table' = [table EXCEPT !["alerts"] =
       Append(@, NewRow("alerts", creating[c],
                        table["anomalies"][creating[c]].severity))]
  /\ creating' = [creating EXCEPT ![c] = 0]
  /\ UNCHANGED request

\* Another alert of the event, resolved, expired or inserted since the SELECT,
\* breaks the index; or the COMMIT fails: AlertTransientError.
InsertFails(c) ==
  /\ creating[c] # 0
  /\ creating' = [creating EXCEPT ![c] = 0]
  /\ UNCHANGED <<table, request>>

\* alert_deduplication_window_seconds have passed.
Expire ==
  /\ \E i \in DOMAIN table["alerts"] :
       /\ ~table["alerts"][i].expired
       /\ table' = [table EXCEPT !["alerts"][i].expired = TRUE]
  /\ UNCHANGED <<creating, request>>

-----------------------------------------------------------------------------
(* acknowledge_alert, resolve_alert, suppress_alert, update_anomaly_status. *)

\* SELECT of the row, by its id.
ReadForUpdate(d, t) ==
  /\ request[d] = NoRequest
  /\ \E i \in DOMAIN table[t], s \in Wanted[t] :
       request' = [request EXCEPT ![d] =
         [kind |-> "update", table |-> t, row |-> i, wanted |-> s,
          seen |-> table[t][i].status]]
  /\ UNCHANGED <<table, creating>>

\* Mutants of Assigned: every status sets a time; the other times are cleared.
AssignedTimeAlways(row, wanted, seen) ==
  [row EXCEPT !.status = IF wanted # seen THEN wanted ELSE @,
              !.times = @ \cup {wanted}]

AssignedAlone(row, wanted, seen) ==
  [row EXCEPT !.status = IF wanted # seen THEN wanted ELSE @,
              !.times = {wanted} \cap Timed]

\* The row after the UPDATE.
Assigned(row, wanted, seen) ==
  [row EXCEPT !.status = IF wanted # seen THEN wanted ELSE @,
              !.times = @ \cup ({wanted} \cap Timed)]

\* COMMIT.  The response (a refreshed alert, or the anomaly as it was assigned)
\* or the error that a lost reply becomes changes nothing more.
Update(d) ==
  /\ request[d].kind = "update"
  /\ LET r == request[d]
     IN  table' = [table EXCEPT ![r.table][r.row] = Assigned(@, r.wanted, r.seen)]
  /\ request' = [request EXCEPT ![d] = NoRequest]
  /\ UNCHANGED creating

UpdateFails(d) ==
  /\ request[d].kind = "update"
  /\ request' = [request EXCEPT ![d] = NoRequest]
  /\ UNCHANGED <<table, creating>>

-----------------------------------------------------------------------------
(* get_alert_stats and get_stats: one statement per number. *)

Counted(t, query) ==
  Cardinality({i \in DOMAIN table[t] :
                 query \in {"all", table[t][i].status, table[t][i].severity}})

\* Mutant of NextQuery: the total is counted last.
NextQueryTotalLast(t, n) ==
  Queries[t][IF n = Len(Queries[t]) THEN 1 ELSE n + 1]

\* What the n-th statement counts.
NextQuery(t, n) == Queries[t][n]

StartStats(d, t) ==
  /\ request[d] = NoRequest
  /\ request' = [request EXCEPT ![d] =
       [kind |-> "stats", table |-> t, asked |-> 0,
        counts |-> [q \in ToSet(Queries[t]) |-> 0]]]
  /\ UNCHANGED <<table, creating>>

CountNext(d) ==
  /\ request[d].kind = "stats"
  /\ LET t == request[d].table
         n == request[d].asked + 1
     IN  /\ n <= Len(Queries[t])
         /\ request' = [request EXCEPT
              ![d].asked = n,
              ![d].counts[NextQuery(t, n)] = Counted(t, NextQuery(t, n))]
  /\ UNCHANGED <<table, creating>>

\* The numbers are returned, or a statement fails.
EndStats(d) ==
  /\ request[d].kind = "stats"
  /\ request' = [request EXCEPT ![d] = NoRequest]
  /\ UNCHANGED <<table, creating>>

-----------------------------------------------------------------------------

Next ==
  \/ StoreAnomaly
  \/ Expire
  \/ \E c \in Creator :
       FindAlert(c) \/ FindNoAlert(c) \/ InsertAlert(c) \/ InsertFails(c)
  \/ \E d \in Desk :
       \/ \E t \in Table : ReadForUpdate(d, t) \/ StartStats(d, t)
       \/ Update(d)
       \/ UpdateFails(d)
       \/ CountNext(d)
       \/ EndStats(d)

Spec == Init /\ [][Next]_vars

-----------------------------------------------------------------------------
(* Properties. *)

\* Every variable keeps its type.
TypeOK ==
  /\ DOMAIN table = Table
  /\ \A t \in Table : \A i \in DOMAIN table[t] : table[t][i] \in Row
  /\ creating \in [Creator -> 0 .. MaxAnomalies]
  /\ \A d \in Desk :
       /\ request[d].kind \in {"none", "update", "stats"}
       /\ request[d].kind = "update" => request[d].row \in DOMAIN table[request[d].table]

\* An anomaly has one alert at most, for ever, also when two calls of
\* create_alert find none at once.  This is the unique index on event_id.  Its
\* price, that the alert of an anomaly which is resolved or out of the window
\* gets no successor, is what TriggeredAgain and its run are about.
OneAlertPerAnomaly ==
  \A i, j \in DOMAIN table["alerts"] :
    table["alerts"][i].anomaly = table["alerts"][j].anomaly => i = j

\* Whatever the operators' statements overlap with, and although a status that
\* is found already set is not written, a row whose status comes with a time has
\* that time.
StatusHasItsTime ==
  \A t \in Table : \A i \in DOMAIN table[t] :
    LET r == table[t][i] IN r.status \in Timed => r.status \in r.times

AlertsOf(t, a) == {i \in DOMAIN t["alerts"] : t["alerts"][i].anomaly = a}

\* docs/alerting_system.md:147, the anomaly again and the window over: "New Alert
\* generated (ID: A2) - outside window".  README.md:258: "SUPPRESSED (can
\* transition back to TRIGGERED after suppression expires)".  By either, an
\* anomaly whose alert is suppressed and out of its window, and for which
\* create_alert is called again, can get a triggered alert: the new one or the
\* suppressed one.  The code has no step that makes either.
TriggeredAgain ==
  \A c \in Creator :
    LET a == creating[c]
    IN  /\ a # 0
        /\ HasAlert(a)
        /\ \A i \in AlertsOf(table, a) :
             table["alerts"][i].expired /\ table["alerts"][i].status = "suppressed"
        => ENABLED (/\ Next
                    /\ \E i \in AlertsOf(table', a) :
                         table'["alerts"][i].status = "triggered")

\* Finished statistics, though each number is of another moment, never show a
\* total or a status count larger than the severities' counts together.
StatsBounded ==
  \A d \in Desk :
    request[d].kind = "stats" /\ request[d].asked = Len(Queries[request[d].table]) =>
      LET counts == request[d].counts
          graded == {"critical", "high", "medium", "low"} \cap DOMAIN counts
      IN  \A q \in DOMAIN counts \ graded :
            counts[q] <= counts["critical"] + counts["high"]
                           + IF request[d].table = "alerts" THEN 0
                             ELSE counts["medium"] + counts["low"]

=============================================================================
