------------------------- MODULE IncidentDesk_proofs -------------------------
(***************************************************************************)
(* Theorems about IncidentDesk: whatever the creators' look-ups, the       *)
(* operators' updates and the statistics overlap with, an anomaly has one  *)
(* alert at most, a status comes with its time and the numbers of the      *)
(* statistics are possible ones, for every number of workers and of API    *)
(* processes and every bound on the anomalies.                             *)
(*                                                                         *)
(* A step of any of them does one of three things to the tables: nothing,  *)
(* it adds a row at the end of one of them, or it replaces one row of one  *)
(* of them.  StepsOnTables says so once and for all, with what each kind   *)
(* of row is like; the rest of the argument is about these three cases.    *)
(***************************************************************************)
EXTENDS IncidentDesk, SequenceTheorems, FiniteSetTheorems, TLAPS

-----------------------------------------------------------------------------
(* The inductive invariant. *)

\* The two tables hold rows, of as many anomalies as the bound admits.
TablesOK ==
  /\ table \in [Table -> Seq(Row)]
  /\ Len(table["anomalies"]) <= MaxAnomalies

\* The severities of each table's rows: the ones its statistics count.
Grades == [alerts |-> {"critical", "high"},
           anomalies |-> {"critical", "high", "medium", "low"}]

\* Only severe anomalies have alerts.
SeveritiesOK ==
  \A t \in Table : \A i \in DOMAIN table[t] : table[t][i].severity \in Grades[t]

\* A creator inserts an alert for a severe anomaly that is in its table.
CreatingOK ==
  /\ creating \in [Creator -> 0 .. MaxAnomalies]
  /\ \A c \in Creator : creating[c] # 0 =>
       /\ creating[c] \in DOMAIN table["anomalies"]
       /\ table["anomalies"][creating[c]].severity \in Grades["alerts"]

\* An update asks for a status that its endpoint offers, of a row that is there.
RequestOK(r) ==
  /\ "kind" \in DOMAIN r
  /\ r.kind \in {"none", "update", "stats"}
  /\ r.kind = "update" =>
       /\ r.table \in Table
       /\ r.row \in DOMAIN table[r.table]
       /\ r.wanted \in Wanted[r.table]

RequestsOK ==
  /\ request = [d \in Desk |-> request[d]]
  /\ \A d \in Desk : RequestOK(request[d])

DeskInv ==
  /\ TablesOK
  /\ SeveritiesOK
  /\ CreatingOK
  /\ RequestsOK
  /\ OneAlertPerAnomaly
  /\ StatusHasItsTime

-----------------------------------------------------------------------------
(* What a step does to the tables. *)

Adds(t, row) == table' = [table EXCEPT ![t] = Append(@, row)]

Replaces(t, i, row) == table' = [table EXCEPT ![t] = [@ EXCEPT ![i] = row]]

\* A row that may be added: without a time, and of an anomaly that has no alert.
Fresh(t, row) ==
  /\ row \in Row
  /\ row.status = Initial[t]
  /\ row.severity \in Grades[t]
  /\ t = "alerts" => ~HasAlert(row.anomaly)
  /\ t = "anomalies" => Len(table["anomalies"]) < MaxAnomalies

\* A row that may replace another one: of the same anomaly and severity, and with
\* its time.
Successor(old, row) ==
  /\ row \in Row
  /\ row.anomaly = old.anomaly
  /\ row.severity = old.severity
  /\ row.status \in Timed => row.status \in row.times

AddStep == \E t \in Table, row \in Row : Fresh(t, row) /\ Adds(t, row)

ReplaceStep ==
  \E t \in Table : \E i \in DOMAIN table[t], row \in Row :
    Successor(table[t][i], row) /\ Replaces(t, i, row)

\* The statuses, table by table.
LEMMA Statuses ==
  /\ \A t \in Table : Wanted[t] \subseteq {"acknowledged", "resolved", "suppressed",
                                           "open", "investigating"}
  /\ Initial["alerts"] = "triggered" /\ Initial["anomalies"] = "open"
  /\ UNION {Wanted[t] \cup {Initial[t]} : t \in Table}
       = {"acknowledged", "resolved", "suppressed", "open", "investigating",
          "triggered"}
BY DEF Wanted, Initial, Table

\* A fresh row of either table is a row.
LEMMA NewRowIsFresh ==
  ASSUME NEW t \in Table, NEW a \in 1 .. MaxAnomalies, NEW s \in Severities
  PROVE  /\ NewRow(t, a, s) \in Row
         /\ NewRow(t, a, s).status = Initial[t]
         /\ NewRow(t, a, s).anomaly = a
         /\ NewRow(t, a, s).severity = s
<1>1. Initial[t] \in UNION {Wanted[u] \cup {Initial[u]} : u \in Table}
  OBVIOUS
<1> QED BY <1>1 DEF NewRow, Row

\* The row that an update writes may replace the one it finds, whatever was seen
\* when the row was read.
LEMMA AssignedSucceeds ==
  ASSUME NEW row \in Row, NEW t \in Table, NEW wanted \in Wanted[t], NEW seen,
         row.status \in Timed => row.status \in row.times
  PROVE  Successor(row, Assigned(row, wanted, seen))
<1> DEFINE status == IF wanted # seen THEN wanted ELSE row.status
           times == row.times \cup ({wanted} \cap Timed)
<1>1. Assigned(row, wanted, seen) =
        [anomaly |-> row.anomaly, severity |-> row.severity, status |-> status,
         times |-> times, expired |-> row.expired]
  <2>1. row = [anomaly |-> row.anomaly, severity |-> row.severity,
               status |-> row.status, times |-> row.times, expired |-> row.expired]
    BY DEF Row
  <2>2. Assigned(row, wanted, seen) =
          [[row EXCEPT !.status = status] EXCEPT !.times = times]
    BY <2>1 DEF Assigned
  <2> QED BY <2>1, <2>2
<1>2. wanted \in UNION {Wanted[u] \cup {Initial[u]} : u \in Table}
  OBVIOUS
<1>3. status \in UNION {Wanted[u] \cup {Initial[u]} : u \in Table}
  BY <1>2 DEF Row
<1>4. times \in SUBSET Timed
  BY DEF Row
<1>5. Assigned(row, wanted, seen) \in Row
  BY <1>1, <1>3, <1>4 DEF Row
<1>6. status \in Timed => status \in times
  OBVIOUS
<1> QED BY <1>1, <1>5, <1>6 DEF Successor

-----------------------------------------------------------------------------
(* The tables after a step. *)

LEMMA AfterAdd ==
  ASSUME TablesOK, NEW t \in Table, NEW row \in Row, Fresh(t, row), Adds(t, row)
  PROVE  /\ TablesOK'
         /\ \A u \in Table : DOMAIN table[u] \subseteq DOMAIN table'[u]
         /\ \A u \in Table : \A i \in DOMAIN table[u] : table'[u][i] = table[u][i]
         /\ \A u \in Table : \A i \in DOMAIN table'[u] \ DOMAIN table[u] :
              u = t /\ i = Len(table[t]) + 1 /\ table'[u][i] = row
<1>1. table[t] \in Seq(Row)
  BY DEF TablesOK
<1>2. /\ table'[t] = Append(table[t], row)
      /\ \A u \in Table \ {t} : table'[u] = table[u]
      /\ DOMAIN table' = Table
  BY DEF TablesOK, Adds
<1>3. /\ Append(table[t], row) \in Seq(Row)
      /\ Len(Append(table[t], row)) = Len(table[t]) + 1
      /\ \A i \in 1 .. Len(table[t]) : Append(table[t], row)[i] = table[t][i]
      /\ Append(table[t], row)[Len(table[t]) + 1] = row
  BY <1>1
<1>4. table' \in [Table -> Seq(Row)]
  <2>1. \A u \in Table : table'[u] \in Seq(Row)
    BY <1>2, <1>3 DEF TablesOK
  <2>2. table' = [u \in Table |-> table'[u]]
    BY DEF TablesOK, Adds
  <2> QED BY <2>1, <2>2
<1>5. /\ DOMAIN table[t] = 1 .. Len(table[t])
      /\ DOMAIN table'[t] = 1 .. Len(table[t]) + 1
      /\ Len(table[t]) \in Nat
  BY <1>1, <1>2, <1>3
<1>6. Len(table'["anomalies"]) <= MaxAnomalies
  <2>1. CASE t = "anomalies"
    <3>1. Len(table[t]) < MaxAnomalies
      BY <2>1 DEF Fresh
    <3> QED BY <2>1, <3>1, <1>2, <1>3, <1>5, DeskAssumption
  <2>2. CASE t # "anomalies"
    BY <2>2, <1>2 DEF TablesOK, Table
  <2> QED BY <2>1, <2>2
<1>7. \A u \in Table : DOMAIN table[u] \subseteq DOMAIN table'[u]
  BY <1>2, <1>5
<1>8. \A u \in Table : \A i \in DOMAIN table[u] : table'[u][i] = table[u][i]
  BY <1>2, <1>3, <1>5
<1>9. \A u \in Table : \A i \in DOMAIN table'[u] \ DOMAIN table[u] :
        u = t /\ i = Len(table[t]) + 1 /\ table'[u][i] = row
  <2> SUFFICES ASSUME NEW u \in Table, NEW i \in DOMAIN table'[u] \ DOMAIN table[u]
               PROVE  u = t /\ i = Len(table[t]) + 1 /\ table'[u][i] = row
    OBVIOUS
  <2>1. u = t
    BY <1>2
  <2>2. i = Len(table[t]) + 1
    BY <2>1, <1>5
  <2> QED BY <2>1, <2>2, <1>2, <1>3
<1> QED BY <1>4, <1>6, <1>7, <1>8, <1>9 DEF TablesOK

LEMMA AfterReplace ==
  ASSUME TablesOK, NEW t \in Table, NEW i \in DOMAIN table[t], NEW row \in Row,
         Replaces(t, i, row)
  PROVE  /\ TablesOK'
         /\ \A u \in Table : DOMAIN table'[u] = DOMAIN table[u]
         /\ table'[t][i] = row
         /\ \A u \in Table : \A j \in DOMAIN table[u] :
              table'[u][j] = table[u][j] \/ (u = t /\ j = i)
<1>1. table[t] \in Seq(Row)
  BY DEF TablesOK
<1>2. /\ table'[t] = [table[t] EXCEPT ![i] = row]
      /\ \A u \in Table \ {t} : table'[u] = table[u]
      /\ DOMAIN table' = Table
  BY DEF TablesOK, Replaces
<1>3. /\ table'[t] \in Seq(Row)
      /\ Len(table'[t]) = Len(table[t])
      /\ DOMAIN table'[t] = DOMAIN table[t]
  BY <1>1, <1>2, ExceptSeq
<1>4. table' \in [Table -> Seq(Row)]
  <2>1. \A u \in Table : table'[u] \in Seq(Row)
    BY <1>2, <1>3 DEF TablesOK
  <2>2. table' = [u \in Table |-> table'[u]]
    BY DEF TablesOK, Replaces
  <2> QED BY <2>1, <2>2
<1>5. Len(table'["anomalies"]) = Len(table["anomalies"])
  BY <1>2, <1>3 DEF Table
<1>6. \A u \in Table : DOMAIN table'[u] = DOMAIN table[u]
  BY <1>2, <1>3
<1>7. table'[t][i] = row
  BY <1>2
<1>8. \A u \in Table : \A j \in DOMAIN table[u] :
        table'[u][j] = table[u][j] \/ (u = t /\ j = i)
  BY <1>2
<1> QED BY <1>4, <1>5, <1>6, <1>7, <1>8 DEF TablesOK


-----------------------------------------------------------------------------
(* Every step is one of the three. *)

LEMMA StoringAdds ==
  ASSUME TablesOK, StoreAnomaly
  PROVE  AddStep
<1> DEFINE t == "anomalies"
           n == Len(table[t])
<1>1. table[t] \in Seq(Row) /\ n \in Nat /\ n < MaxAnomalies
  BY DEF TablesOK, Table, StoreAnomaly
<1>2. PICK s \in Severities :
        table' = [table EXCEPT ![t] = Append(@, NewRow(t, n + 1, s))]
  BY DEF StoreAnomaly, TablesOK, Table
<1>3. n + 1 \in 1 .. MaxAnomalies /\ t \in Table
  BY <1>1, DeskAssumption DEF Table
<1>4. s \in Grades[t]
  BY DeskAssumption DEF Grades
<1>5. Fresh(t, NewRow(t, n + 1, s)) /\ NewRow(t, n + 1, s) \in Row
  BY <1>1, <1>3, <1>4, NewRowIsFresh DEF Fresh
<1> QED BY <1>2, <1>3, <1>5 DEF AddStep, Adds

LEMMA InsertingAdds ==
  ASSUME TablesOK, CreatingOK, NEW c \in Creator, InsertAlert(c)
  PROVE  AddStep
<1> DEFINE a == creating[c]
           severity == table["anomalies"][a].severity
           row == NewRow("alerts", a, severity)
<1>1. a # 0 /\ ~HasAlert(a) /\ table' = [table EXCEPT !["alerts"] = Append(@, row)]
  BY DEF InsertAlert
<1>2. a \in DOMAIN table["anomalies"] /\ a \in 1 .. MaxAnomalies
  BY <1>1, DeskAssumption DEF CreatingOK
<1>3. "alerts" \in Table /\ "anomalies" \in Table
  BY DEF Table
<1>4. severity \in Severities /\ severity \in Grades["alerts"]
  <2>1. table["anomalies"][a] \in Row
    BY <1>2, <1>3 DEF TablesOK
  <2> QED BY <1>1, <2>1 DEF Row, CreatingOK
<1>5. /\ row \in Row /\ row.status = Initial["alerts"] /\ row.anomaly = a
      /\ row.severity = severity
  BY <1>2, <1>3, <1>4, NewRowIsFresh
<1>6. Fresh("alerts", row)
  BY <1>1, <1>4, <1>5 DEF Fresh
<1> QED BY <1>1, <1>3, <1>5, <1>6 DEF AddStep, Adds

LEMMA ExpiryReplaces ==
  ASSUME TablesOK, StatusHasItsTime, Expire
  PROVE  ReplaceStep
<1>1. "alerts" \in Table
  BY DEF Table
<1>2. PICK i \in DOMAIN table["alerts"] :
        table' = [table EXCEPT !["alerts"][i].expired = TRUE]
  BY DEF Expire
<1> DEFINE old == table["alerts"][i]
           row == [old EXCEPT !.expired = TRUE]
<1>3. old \in Row
  BY <1>1 DEF TablesOK
<1>4. /\ row \in Row
      /\ row.anomaly = old.anomaly /\ row.severity = old.severity
      /\ row.status = old.status /\ row.times = old.times
  BY <1>3 DEF Row
<1>5. old.status \in Timed => old.status \in old.times
  BY <1>1 DEF StatusHasItsTime
<1>6. Successor(old, row)
  BY <1>4, <1>5 DEF Successor
<1>7. Replaces("alerts", i, row)
  BY <1>1, <1>2 DEF Replaces, TablesOK
<1> HIDE DEF row
<1> QED BY <1>1, <1>4, <1>6, <1>7 DEF ReplaceStep

LEMMA UpdateReplaces ==
  ASSUME TablesOK, RequestsOK, StatusHasItsTime, NEW d \in Desk, Update(d)
  PROVE  ReplaceStep
<1> DEFINE r == request[d]
           t == r.table
           i == r.row
           row == Assigned(table[t][i], r.wanted, r.seen)
<1>1. t \in Table /\ i \in DOMAIN table[t] /\ r.wanted \in Wanted[t]
  BY DEF RequestsOK, RequestOK, Update
<1>2. table' = [table EXCEPT ![t] = [@ EXCEPT ![i] = row]]
  BY <1>1 DEF Update, TablesOK
<1>3. table[t][i] \in Row
  BY <1>1 DEF TablesOK
<1>4. table[t][i].status \in Timed => table[t][i].status \in table[t][i].times
  BY <1>1 DEF StatusHasItsTime
<1>5. Successor(table[t][i], row)
  BY <1>1, <1>3, <1>4, AssignedSucceeds
<1>6. row \in Row
  BY <1>5 DEF Successor
<1> QED BY <1>1, <1>2, <1>5, <1>6 DEF ReplaceStep, Replaces

\* A step leaves the tables alone, adds a fresh row, or replaces a row by a
\* successor of it.
LEMMA StepsOnTables ==
  ASSUME DeskInv, [Next]_vars
  PROVE  table' = table \/ AddStep \/ ReplaceStep
<1> USE DEF DeskInv
<1>1. CASE StoreAnomaly
  BY <1>1, StoringAdds
<1>2. CASE Expire
  BY <1>2, ExpiryReplaces
<1>3. ASSUME NEW c \in Creator, FindAlert(c) \/ FindNoAlert(c) \/ InsertFails(c)
      PROVE  table' = table
  BY <1>3 DEF FindAlert, FindNoAlert, InsertFails, vars
<1>4. ASSUME NEW c \in Creator, InsertAlert(c)
      PROVE  AddStep
  BY <1>4, InsertingAdds
<1>5. ASSUME NEW d \in Desk, NEW t \in Table, ReadForUpdate(d, t) \/ StartStats(d, t)
      PROVE  table' = table
  BY <1>5 DEF ReadForUpdate, StartStats
<1>6. ASSUME NEW d \in Desk, Update(d)
      PROVE  ReplaceStep
  BY <1>6, UpdateReplaces
<1>7. ASSUME NEW d \in Desk, UpdateFails(d) \/ CountNext(d) \/ EndStats(d)
      PROVE  table' = table
  BY <1>7 DEF UpdateFails, CountNext, EndStats
<1>8. CASE UNCHANGED vars
  BY <1>8 DEF vars
<1> QED BY <1>1, <1>2, <1>3, <1>4, <1>5, <1>6, <1>7, <1>8 DEF Next

-----------------------------------------------------------------------------
(* Each part of the invariant is preserved. *)

\* The tables stay tables, and no row goes away.
LEMMA TablesPreserved ==
  ASSUME TablesOK, table' = table \/ AddStep \/ ReplaceStep
  PROVE  TablesOK' /\ \A t \in Table : DOMAIN table[t] \subseteq DOMAIN table'[t]
<1>1. CASE table' = table
  BY <1>1 DEF TablesOK
<1>2. CASE AddStep
  BY <1>2, AfterAdd DEF AddStep
<1>3. CASE ReplaceStep
  BY <1>3, AfterReplace DEF ReplaceStep
<1> QED BY <1>1, <1>2, <1>3

\* No row changes its severity, and a new one has one that is counted.
LEMMA SeveritiesPreserved ==
  ASSUME TablesOK, SeveritiesOK, table' = table \/ AddStep \/ ReplaceStep
  PROVE  /\ SeveritiesOK'
         /\ \A t \in Table : \A i \in DOMAIN table[t] :
              table'[t][i].severity = table[t][i].severity
<1>1. CASE table' = table
  BY <1>1 DEF SeveritiesOK
<1>2. CASE AddStep
  <2>1. PICK t \in Table, row \in Row : Fresh(t, row) /\ Adds(t, row)
    BY <1>2 DEF AddStep
  <2>2. /\ \A u \in Table : \A i \in DOMAIN table[u] : table'[u][i] = table[u][i]
        /\ \A u \in Table : \A i \in DOMAIN table'[u] \ DOMAIN table[u] :
             u = t /\ i = Len(table[t]) + 1 /\ table'[u][i] = row
    BY <2>1, AfterAdd
  <2>3. ASSUME NEW u \in Table, NEW i \in DOMAIN table'[u]
        PROVE  table'[u][i].severity \in Grades[u]
    <3>1. CASE i \in DOMAIN table[u]
      BY <2>2, <3>1 DEF SeveritiesOK
    <3>2. CASE i \notin DOMAIN table[u]
      BY <2>1, <2>2, <3>2 DEF Fresh
    <3> QED BY <3>1, <3>2
  <2> QED BY <2>2, <2>3 DEF SeveritiesOK
<1>3. CASE ReplaceStep
  <2>1. PICK t \in Table : \E i \in DOMAIN table[t], row \in Row :
               Successor(table[t][i], row) /\ Replaces(t, i, row)
    BY <1>3 DEF ReplaceStep
  <2>2. PICK i \in DOMAIN table[t], row \in Row :
               Successor(table[t][i], row) /\ Replaces(t, i, row)
    BY <2>1
  <2>3. /\ \A u \in Table : DOMAIN table'[u] = DOMAIN table[u]
        /\ table'[t][i] = row
        /\ \A u \in Table : \A j \in DOMAIN table[u] :
             table'[u][j] = table[u][j] \/ (u = t /\ j = i)
    BY <2>2, AfterReplace
  <2>4. row.severity = table[t][i].severity
    BY <2>2 DEF Successor
  <2>5. \A u \in Table : \A j \in DOMAIN table[u] :
          table'[u][j].severity = table[u][j].severity
    BY <2>3, <2>4
  <2> QED BY <2>3, <2>5 DEF SeveritiesOK
<1> QED BY <1>1, <1>2, <1>3

LEMMA OneAlertPreserved ==
  ASSUME TablesOK, OneAlertPerAnomaly, table' = table \/ AddStep \/ ReplaceStep
  PROVE  OneAlertPerAnomaly'
<1>0. "alerts" \in Table
  BY DEF Table
<1>1. CASE table' = table
  BY <1>1 DEF OneAlertPerAnomaly
<1>2. CASE AddStep
  <2>1. PICK t \in Table, row \in Row : Fresh(t, row) /\ Adds(t, row)
    BY <1>2 DEF AddStep
  <2>2. /\ \A i \in DOMAIN table["alerts"] : table'["alerts"][i] = table["alerts"][i]
        /\ \A i \in DOMAIN table'["alerts"] \ DOMAIN table["alerts"] :
             "alerts" = t /\ i = Len(table[t]) + 1 /\ table'["alerts"][i] = row
    BY <1>0, <2>1, AfterAdd
  <2>3. t = "alerts" =>
          \A i \in DOMAIN table["alerts"] : table["alerts"][i].anomaly # row.anomaly
    BY <2>1 DEF Fresh, HasAlert
  <2> SUFFICES ASSUME NEW i \in DOMAIN table'["alerts"], NEW j \in DOMAIN table'["alerts"],
                      table'["alerts"][i].anomaly = table'["alerts"][j].anomaly
               PROVE  i = j
    BY DEF OneAlertPerAnomaly
  <2>4. CASE i \in DOMAIN table["alerts"] /\ j \in DOMAIN table["alerts"]
    BY <2>2, <2>4 DEF OneAlertPerAnomaly
  <2>5. CASE i \notin DOMAIN table["alerts"] /\ j \in DOMAIN table["alerts"]
    BY <2>2, <2>3, <2>5
  <2>6. CASE i \in DOMAIN table["alerts"] /\ j \notin DOMAIN table["alerts"]
    BY <2>2, <2>3, <2>6
  <2>7. CASE i \notin DOMAIN table["alerts"] /\ j \notin DOMAIN table["alerts"]
    BY <2>2, <2>7
  <2> QED BY <2>4, <2>5, <2>6, <2>7
<1>3. CASE ReplaceStep
  <2>1. PICK t \in Table : \E i \in DOMAIN table[t], row \in Row :
               Successor(table[t][i], row) /\ Replaces(t, i, row)
    BY <1>3 DEF ReplaceStep
  <2>2. PICK i \in DOMAIN table[t], row \in Row :
               Successor(table[t][i], row) /\ Replaces(t, i, row)
    BY <2>1
  <2>3. /\ DOMAIN table'["alerts"] = DOMAIN table["alerts"]
        /\ table'[t][i] = row
        /\ \A j \in DOMAIN table["alerts"] :
             table'["alerts"][j] = table["alerts"][j] \/ ("alerts" = t /\ j = i)
    BY <1>0, <2>2, AfterReplace
  <2>4. row.anomaly = table[t][i].anomaly
    BY <2>2 DEF Successor
  <2>5. \A j \in DOMAIN table["alerts"] :
          table'["alerts"][j].anomaly = table["alerts"][j].anomaly
    BY <2>3, <2>4
  <2> QED BY <2>3, <2>5 DEF OneAlertPerAnomaly
<1> QED BY <1>1, <1>2, <1>3

LEMMA TimesPreserved ==
  ASSUME TablesOK, StatusHasItsTime, table' = table \/ AddStep \/ ReplaceStep
  PROVE  StatusHasItsTime'
<1>1. CASE table' = table
  BY <1>1 DEF StatusHasItsTime
<1>2. CASE AddStep
  <2>1. PICK t \in Table, row \in Row : Fresh(t, row) /\ Adds(t, row)
    BY <1>2 DEF AddStep
  <2>2. /\ \A u \in Table : \A i \in DOMAIN table[u] : table'[u][i] = table[u][i]
        /\ \A u \in Table : \A i \in DOMAIN table'[u] \ DOMAIN table[u] :
             u = t /\ i = Len(table[t]) + 1 /\ table'[u][i] = row
    BY <2>1, AfterAdd
  <2>3. row.status \notin Timed
    BY <2>1, Statuses DEF Fresh, Timed, Table
  <2> SUFFICES ASSUME NEW u \in Table, NEW i \in DOMAIN table'[u]
               PROVE  table'[u][i].status \in Timed
                        => table'[u][i].status \in table'[u][i].times
    BY DEF StatusHasItsTime
  <2>4. CASE i \in DOMAIN table[u]
    BY <2>2, <2>4 DEF StatusHasItsTime
  <2>5. CASE i \notin DOMAIN table[u]
    BY <2>2, <2>3, <2>5
  <2> QED BY <2>4, <2>5
<1>3. CASE ReplaceStep
  <2>1. PICK t \in Table : \E i \in DOMAIN table[t], row \in Row :
               Successor(table[t][i], row) /\ Replaces(t, i, row)
    BY <1>3 DEF ReplaceStep
  <2>2. PICK i \in DOMAIN table[t], row \in Row :
               Successor(table[t][i], row) /\ Replaces(t, i, row)
    BY <2>1
  <2>3. /\ \A u \in Table : DOMAIN table'[u] = DOMAIN table[u]
        /\ table'[t][i] = row
        /\ \A u \in Table : \A j \in DOMAIN table[u] :
             table'[u][j] = table[u][j] \/ (u = t /\ j = i)
    BY <2>2, AfterReplace
  <2>4. row.status \in Timed => row.status \in row.times
    BY <2>2 DEF Successor
  <2> QED BY <2>3, <2>4 DEF StatusHasItsTime
<1> QED BY <1>1, <1>2, <1>3

LEMMA CreatingPreserved ==
  ASSUME DeskInv, [Next]_vars
  PROVE  CreatingOK'
<1>1. /\ TablesOK' /\ DOMAIN table["anomalies"] \subseteq DOMAIN table'["anomalies"]
      /\ \A a \in DOMAIN table["anomalies"] :
           table'["anomalies"][a].severity = table["anomalies"][a].severity
  BY StepsOnTables, TablesPreserved, SeveritiesPreserved DEF DeskInv, Table
<1>2. CreatingOK
  BY DEF DeskInv
<1>3. CASE UNCHANGED creating
  BY <1>1, <1>2, <1>3 DEF CreatingOK
<1>4. ASSUME NEW c \in Creator, FindNoAlert(c)
      PROVE  CreatingOK'
  <2>1. PICK a \in ToBeAlerted : creating' = [creating EXCEPT ![c] = a]
    BY <1>4 DEF FindNoAlert
  <2>2. /\ a \in DOMAIN table["anomalies"]
        /\ table["anomalies"][a].severity \in Grades["alerts"]
    BY <2>1 DEF ToBeAlerted, Grades
  <2>3. a \in 0 .. MaxAnomalies
    <3>1. table["anomalies"] \in Seq(Row) /\ Len(table["anomalies"]) <= MaxAnomalies
      BY DEF DeskInv, TablesOK, Table
    <3> QED BY <2>2, <3>1, DeskAssumption
  <2> QED BY <1>1, <1>2, <2>1, <2>2, <2>3 DEF CreatingOK
<1>5. ASSUME NEW c \in Creator, InsertAlert(c) \/ InsertFails(c)
      PROVE  CreatingOK'
  <2>1. creating' = [creating EXCEPT ![c] = 0]
    BY <1>5 DEF InsertAlert, InsertFails
  <2> QED BY <1>1, <1>2, <2>1, DeskAssumption DEF CreatingOK
<1>6. ASSUME NEW d \in Desk, NEW t \in Table, ReadForUpdate(d, t) \/ StartStats(d, t)
      PROVE  UNCHANGED creating
  BY <1>6 DEF ReadForUpdate, StartStats
<1>7. ASSUME NEW d \in Desk, Update(d) \/ UpdateFails(d) \/ CountNext(d) \/ EndStats(d)
      PROVE  UNCHANGED creating
  BY <1>7 DEF Update, UpdateFails, CountNext, EndStats
<1>8. CASE StoreAnomaly \/ Expire \/ UNCHANGED vars
  BY <1>3, <1>8 DEF StoreAnomaly, Expire, vars
<1>9. ASSUME NEW c \in Creator, FindAlert(c)
      PROVE  UNCHANGED creating
  BY <1>9 DEF FindAlert, vars
<1> QED BY <1>3, <1>4, <1>5, <1>6, <1>7, <1>8, <1>9 DEF Next

\* What a desk does with its own request; the other desks' stay as they are, and
\* the rows that they are about stay where they are.
LEMMA RequestsPreserved ==
  ASSUME DeskInv, [Next]_vars
  PROVE  RequestsOK'
<1>1. \A t \in Table : DOMAIN table[t] \subseteq DOMAIN table'[t]
  BY StepsOnTables, TablesPreserved DEF DeskInv
<1>2. RequestsOK
  BY DEF DeskInv
<1>3. ASSUME NEW r, RequestOK(r)
      PROVE  RequestOK(r)'
  BY <1>1, <1>3 DEF RequestOK
<1>4. CASE UNCHANGED request
  BY <1>2, <1>3, <1>4 DEF RequestsOK
<1>5. ASSUME NEW d \in Desk, NEW r, RequestOK(r), request' = [request EXCEPT ![d] = r]
      PROVE  RequestsOK'
  BY <1>2, <1>3, <1>5 DEF RequestsOK
<1>6. ASSUME NEW d \in Desk, NEW t \in Table, ReadForUpdate(d, t)
      PROVE  RequestsOK'
  <2>1. PICK i \in DOMAIN table[t], s \in Wanted[t] :
          request' = [request EXCEPT ![d] =
            [kind |-> "update", table |-> t, row |-> i, wanted |-> s,
             seen |-> table[t][i].status]]
    BY <1>6 DEF ReadForUpdate
  <2>2. RequestOK([kind |-> "update", table |-> t, row |-> i, wanted |-> s,
                   seen |-> table[t][i].status])
    BY DEF RequestOK
  <2> QED BY <1>5, <2>1, <2>2
<1>7. ASSUME NEW d \in Desk, NEW t \in Table, StartStats(d, t)
      PROVE  RequestsOK'
  <2> DEFINE r == [kind |-> "stats", table |-> t, asked |-> 0,
                   counts |-> [q \in ToSet(Queries[t]) |-> 0]]
  <2>1. request' = [request EXCEPT ![d] = r]
    BY <1>7 DEF StartStats
  <2>2. RequestOK(r)
    BY DEF RequestOK
  <2> HIDE DEF r
  <2> QED BY <1>5, <2>1, <2>2
<1>8. ASSUME NEW d \in Desk, Update(d) \/ UpdateFails(d) \/ EndStats(d)
      PROVE  RequestsOK'
  <2>1. request' = [request EXCEPT ![d] = NoRequest]
    BY <1>8 DEF Update, UpdateFails, EndStats
  <2>2. RequestOK(NoRequest)
    BY DEF RequestOK, NoRequest
  <2> QED BY <1>5, <2>1, <2>2
<1>9. ASSUME NEW d \in Desk, CountNext(d)
      PROVE  RequestsOK'
  <2> DEFINE n == request[d].asked + 1
             counts == [request[d].counts EXCEPT
                          ![NextQuery(request[d].table, n)] =
                             Counted(request[d].table, NextQuery(request[d].table, n))]
             r == [[request[d] EXCEPT !.asked = n] EXCEPT !.counts = counts]
  <2>1. request[d].kind = "stats" /\ "kind" \in DOMAIN request[d]
    BY <1>2, <1>9 DEF CountNext, RequestsOK, RequestOK
  <2>2. request' = [request EXCEPT ![d] = r]
    BY <1>9 DEF CountNext
  <2> HIDE DEF n, counts
  <2>3. r.kind = "stats" /\ "kind" \in DOMAIN r
    BY <2>1
  <2>4. RequestOK(r)
    BY <2>3 DEF RequestOK
  <2> HIDE DEF r
  <2> QED BY <1>5, <2>2, <2>4
<1>10. CASE StoreAnomaly \/ Expire \/ UNCHANGED vars
  BY <1>4, <1>10 DEF StoreAnomaly, Expire, vars
<1>11. ASSUME NEW c \in Creator,
              FindAlert(c) \/ FindNoAlert(c) \/ InsertAlert(c) \/ InsertFails(c)
       PROVE  UNCHANGED request
  BY <1>11 DEF FindAlert, FindNoAlert, InsertAlert, InsertFails, vars
<1> QED BY <1>4, <1>6, <1>7, <1>8, <1>9, <1>10, <1>11 DEF Next

-----------------------------------------------------------------------------
(* The theorems. *)

LEMMA DeskInvInit == Init => DeskInv
<1> SUFFICES ASSUME Init PROVE DeskInv
  OBVIOUS
<1>1. table = [t \in Table |-> <<>>] /\ <<>> \in Seq(Row) /\ Len(<<>>) = 0
  BY EmptySeq DEF Init
<1>2. table["anomalies"] = <<>> /\ table["alerts"] = <<>> /\ \A t \in Table : table[t] = <<>>
  BY <1>1 DEF Table
<1>3. TablesOK
  BY <1>1, <1>2, DeskAssumption DEF TablesOK
<1>4. CreatingOK
  BY DeskAssumption DEF CreatingOK, Init
<1>5. RequestsOK
  BY DEF RequestsOK, RequestOK, Init, NoRequest
<1>6. OneAlertPerAnomaly /\ StatusHasItsTime /\ SeveritiesOK
  BY <1>2 DEF OneAlertPerAnomaly, StatusHasItsTime, SeveritiesOK
<1> QED BY <1>3, <1>4, <1>5, <1>6 DEF DeskInv

LEMMA DeskInvNext == DeskInv /\ [Next]_vars => DeskInv'
<1> SUFFICES ASSUME DeskInv, [Next]_vars PROVE DeskInv'
  OBVIOUS
<1>1. table' = table \/ AddStep \/ ReplaceStep
  BY StepsOnTables
<1>2. TablesOK'
  BY <1>1, TablesPreserved DEF DeskInv
<1>3. OneAlertPerAnomaly'
  BY <1>1, OneAlertPreserved DEF DeskInv
<1>4. StatusHasItsTime'
  BY <1>1, TimesPreserved DEF DeskInv
<1>5. SeveritiesOK'
  BY <1>1, SeveritiesPreserved DEF DeskInv
<1> QED BY <1>2, <1>3, <1>4, <1>5, CreatingPreserved, RequestsPreserved DEF DeskInv

\* The invariant from which the others follow.
THEOREM DeskInvariant == Spec => []DeskInv
<1> QED BY DeskInvInit, DeskInvNext, PTL DEF Spec

\* Every variable keeps its type.
THEOREM DeskTypes == Spec => []TypeOK
<1>1. DeskInv => TypeOK
  BY DEF DeskInv, TablesOK, CreatingOK, RequestsOK, RequestOK, TypeOK
<1> QED BY <1>1, DeskInvariant, PTL

\* An anomaly has one alert at most, whatever calls of create_alert overlap and
\* whatever became of its alert since.
THEOREM OneAlert == Spec => []OneAlertPerAnomaly
<1>1. DeskInv => OneAlertPerAnomaly
  BY DEF DeskInv
<1> QED BY <1>1, DeskInvariant, PTL

\* A row whose status comes with a time has that time, although an update writes
\* the status only when it differs from the one that it read, which may be stale.
THEOREM StatusTimes == Spec => []StatusHasItsTime
<1>1. DeskInv => StatusHasItsTime
  BY DEF DeskInv
<1> QED BY <1>1, DeskInvariant, PTL

-----------------------------------------------------------------------------
(* The statistics.  Each number is of another moment, but rows are never     *)
(* deleted and never change their severity, and the severities are counted   *)
(* last: what was counted before is at most what the severities will amount  *)
(* to, each as it was counted or, until then, as it is.                      *)

Graded(t, s) == Cardinality({i \in DOMAIN table[t] : table[t][i].severity = s})

\* What the n-th number of a request, about severity s, is or would be now.
Expected(r, s, n) == IF n <= r.asked THEN r.counts[s] ELSE Graded(r.table, s)

\* What the severities amount to.
Limit(r) ==
  IF r.table = "alerts"
  THEN Expected(r, "critical", 6) + Expected(r, "high", 7)
  ELSE Expected(r, "critical", 5) + Expected(r, "high", 6)
         + (Expected(r, "medium", 7) + Expected(r, "low", 8))

StatsOK(r) ==
  r.kind = "stats" =>
    /\ DOMAIN r = {"kind", "table", "asked", "counts"}
    /\ r.table \in Table
    /\ r.asked \in 0 .. Len(Queries[r.table])
    /\ r.counts \in [ToSet(Queries[r.table]) -> Nat]
    /\ \A q \in ToSet(Queries[r.table]) \ Grades[r.table] : r.counts[q] <= Limit(r)

StatsInv == \A d \in Desk : StatsOK(request[d])

\* Where the severities stand among the statements.
LEMMA Positions ==
  /\ DOMAIN Queries["alerts"] = 1 .. 7 /\ Len(Queries["alerts"]) = 7
  /\ DOMAIN Queries["anomalies"] = 1 .. 8 /\ Len(Queries["anomalies"]) = 8
  /\ Queries["alerts"][6] = "critical" /\ Queries["alerts"][7] = "high"
  /\ Queries["anomalies"][5] = "critical" /\ Queries["anomalies"][6] = "high"
  /\ Queries["anomalies"][7] = "medium" /\ Queries["anomalies"][8] = "low"
  /\ \A t \in Table : \A i, j \in 1 .. Len(Queries[t]) :
       Queries[t][i] = Queries[t][j] => i = j
<1>1. Queries["alerts"] = <<"all", "triggered", "acknowledged", "resolved", "suppressed",
                            "critical", "high">>
  BY DEF Queries
<1>2. Queries["anomalies"] = <<"all", "open", "investigating", "resolved",
                               "critical", "high", "medium", "low">>
  BY DEF Queries
<1>3. \A i, j \in 1 .. 7 : Queries["alerts"][i] = Queries["alerts"][j] => i = j
  BY <1>1
<1>4. \A i, j \in 1 .. 8 : Queries["anomalies"][i] = Queries["anomalies"][j] => i = j
  BY <1>2
<1>5. Len(Queries["alerts"]) = 7 /\ Len(Queries["anomalies"]) = 8
  BY <1>1, <1>2
<1>6. DOMAIN Queries["alerts"] = 1 .. 7 /\ DOMAIN Queries["anomalies"] = 1 .. 8
  BY <1>1, <1>2
<1>7. Queries["alerts"][6] = "critical" /\ Queries["alerts"][7] = "high"
  BY <1>1
<1>8. /\ Queries["anomalies"][5] = "critical" /\ Queries["anomalies"][6] = "high"
      /\ Queries["anomalies"][7] = "medium" /\ Queries["anomalies"][8] = "low"
  BY <1>2
<1>9. \A t \in Table : \A i, j \in 1 .. Len(Queries[t]) :
        Queries[t][i] = Queries[t][j] => i = j
  BY <1>3, <1>4, <1>5 DEF Table
<1> QED BY <1>5, <1>6, <1>7, <1>8, <1>9

\* The rows of a table are finitely many.
LEMMA TableIsFinite ==
  ASSUME TablesOK, NEW t \in Table
  PROVE  /\ IsFiniteSet(DOMAIN table[t])
         /\ \A S \in SUBSET DOMAIN table[t] :
              IsFiniteSet(S) /\ Cardinality(S) \in Nat
<1>1. DOMAIN table[t] = 1 .. Len(table[t]) /\ Len(table[t]) \in Nat
  BY LenProperties DEF TablesOK
<1>2. IsFiniteSet(DOMAIN table[t])
  BY <1>1, FS_Interval
<1>3. ASSUME NEW S \in SUBSET DOMAIN table[t]
      PROVE  IsFiniteSet(S) /\ Cardinality(S) \in Nat
  BY <1>2, FS_Subset, FS_CardinalityType
<1> QED BY <1>2, <1>3

LEMMA CardinalityOfUnion ==
  ASSUME NEW S, NEW T, IsFiniteSet(S), IsFiniteSet(T)
  PROVE  /\ IsFiniteSet(S \cup T)
         /\ Cardinality(S \cup T) <= Cardinality(S) + Cardinality(T)
<1>1. /\ IsFiniteSet(S \cup T)
      /\ Cardinality(S \cup T) = Cardinality(S) + Cardinality(T) - Cardinality(S \cap T)
  BY FS_Union
<1>2. IsFiniteSet(S \cap T)
  BY FS_Subset
<1>3. Cardinality(S) \in Nat /\ Cardinality(T) \in Nat /\ Cardinality(S \cap T) \in Nat
  BY <1>2, FS_CardinalityType
<1> QED BY <1>1, <1>3

\* A statement about a severity counts its rows: no status has such a name.
LEMMA CountedGrade ==
  ASSUME TablesOK, NEW t \in Table, NEW s \in Grades[t]
  PROVE  Counted(t, s) = Graded(t, s) /\ Graded(t, s) \in Nat
<1>1. s \in {"critical", "high", "medium", "low"}
  BY DEF Grades, Table
<1>2. \A i \in DOMAIN table[t] :
        table[t][i].status \in {"acknowledged", "resolved", "suppressed", "open",
                                "investigating", "triggered"}
  <2> SUFFICES ASSUME NEW i \in DOMAIN table[t]
               PROVE  table[t][i].status \in {"acknowledged", "resolved", "suppressed",
                                              "open", "investigating", "triggered"}
    OBVIOUS
  <2>1. table[t][i] \in Row
    BY DEF TablesOK
  <2>2. table[t][i].status \in UNION {Wanted[u] \cup {Initial[u]} : u \in Table}
    BY <2>1 DEF Row
  <2> QED BY <2>2, Statuses
<1>3. \A i \in DOMAIN table[t] :
        s \in {"all", table[t][i].status, table[t][i].severity}
          <=> table[t][i].severity = s
  BY <1>1, <1>2
<1>4. Counted(t, s) = Graded(t, s)
  BY <1>3 DEF Counted, Graded
<1>5. {i \in DOMAIN table[t] : table[t][i].severity = s} \in SUBSET DOMAIN table[t]
  OBVIOUS
<1> QED BY <1>4, <1>5, TableIsFinite DEF Graded

\* No statement counts more than all rows, and each of them has a severity.
LEMMA CountedAtMostAll ==
  ASSUME TablesOK, SeveritiesOK, NEW t \in Table, NEW q
  PROVE  /\ Counted(t, q) \in Nat
         /\ t = "alerts" => Counted(t, q) <= Graded(t, "critical") + Graded(t, "high")
         /\ t = "anomalies" =>
              Counted(t, q) <= Graded(t, "critical") + Graded(t, "high")
                                 + (Graded(t, "medium") + Graded(t, "low"))
<1> DEFINE D == DOMAIN table[t]
           G(s) == {i \in D : table[t][i].severity = s}
           Q == {i \in D : q \in {"all", table[t][i].status, table[t][i].severity}}
<1>1. /\ IsFiniteSet(D) /\ Q \in SUBSET D
      /\ \A s : G(s) \in SUBSET D /\ IsFiniteSet(G(s)) /\ Cardinality(G(s)) \in Nat
      /\ Cardinality(Q) \in Nat /\ Cardinality(D) \in Nat
  BY TableIsFinite
<1>2. Cardinality(Q) <= Cardinality(D)
  BY <1>1, FS_Subset
<1>3. /\ Counted(t, q) = Cardinality(Q)
      /\ \A s : Graded(t, s) = Cardinality(G(s))
  BY DEF Counted, Graded
<1>4. CASE t = "alerts"
  <2>1. D = G("critical") \cup G("high")
    BY <1>4 DEF SeveritiesOK, Grades
  <2> HIDE DEF D, G, Q
  <2>2. Cardinality(D) <= Cardinality(G("critical")) + Cardinality(G("high"))
    BY <1>1, <2>1, CardinalityOfUnion
  <2> QED BY <1>1, <1>2, <1>3, <1>4, <2>2
<1>5. CASE t = "anomalies"
  <2> DEFINE A == G("critical") \cup G("high")
             B == G("medium") \cup G("low")
  <2>1. D = A \cup B
    BY <1>5 DEF SeveritiesOK, Grades
  <2> HIDE DEF D, G, Q
  <2>2. /\ IsFiniteSet(A) /\ Cardinality(A) <= Cardinality(G("critical")) + Cardinality(G("high"))
        /\ IsFiniteSet(B) /\ Cardinality(B) <= Cardinality(G("medium")) + Cardinality(G("low"))
    BY <1>1, CardinalityOfUnion
  <2>3. Cardinality(A) \in Nat /\ Cardinality(B) \in Nat
    BY <2>2, FS_CardinalityType
  <2> HIDE DEF A, B
  <2>4. Cardinality(D) <= Cardinality(A) + Cardinality(B)
    BY <2>1, <2>2, CardinalityOfUnion
  <2> QED BY <1>1, <1>2, <1>3, <1>5, <2>2, <2>3, <2>4
<1> QED BY <1>1, <1>3, <1>4, <1>5 DEF Table

\* As rows are only added, a severity's rows become more.
LEMMA GradedGrows ==
  ASSUME DeskInv, [Next]_vars, NEW t \in Table, NEW s
  PROVE  /\ Graded(t, s) \in Nat /\ Graded(t, s)' \in Nat
         /\ Graded(t, s) <= Graded(t, s)'
<1> DEFINE S == {i \in DOMAIN table[t] : table[t][i].severity = s}
           T == {i \in DOMAIN table'[t] : table'[t][i].severity = s}
<1>1. /\ TablesOK' /\ DOMAIN table[t] \subseteq DOMAIN table'[t]
      /\ \A i \in DOMAIN table[t] : table'[t][i].severity = table[t][i].severity
  BY StepsOnTables, TablesPreserved, SeveritiesPreserved DEF DeskInv
<1>2. S \subseteq T
  BY <1>1
<1>3. IsFiniteSet(T) /\ Cardinality(T) \in Nat
  <2>1. DOMAIN table'[t] = 1 .. Len(table'[t]) /\ Len(table'[t]) \in Nat
    BY <1>1, LenProperties DEF TablesOK
  <2>2. IsFiniteSet(DOMAIN table'[t])
    BY <2>1, FS_Interval
  <2> QED BY <2>2, FS_Subset, FS_CardinalityType
<1>4. Cardinality(S) \in Nat
  <2>1. S \in SUBSET DOMAIN table[t]
    OBVIOUS
  <2> QED BY <2>1, TableIsFinite DEF DeskInv
<1>5. Cardinality(S) <= Cardinality(T)
  BY <1>2, <1>3, FS_Subset
<1> QED BY <1>3, <1>4, <1>5 DEF Graded

\* The limit does not fall when the tables change ...
LEMMA LimitGrows ==
  ASSUME DeskInv, [Next]_vars, NEW r, r.kind = "stats", StatsOK(r)
  PROVE  StatsOK(r)'
<1>1. /\ DOMAIN r = {"kind", "table", "asked", "counts"} /\ r.table \in Table
      /\ r.asked \in 0 .. Len(Queries[r.table])
      /\ r.counts \in [ToSet(Queries[r.table]) -> Nat]
      /\ \A q \in ToSet(Queries[r.table]) \ Grades[r.table] : r.counts[q] <= Limit(r)
  BY DEF StatsOK
<1>2. ASSUME NEW n \in 1 .. Len(Queries[r.table]), NEW s, s = Queries[r.table][n]
      PROVE  /\ Expected(r, s, n) \in Nat /\ Expected(r, s, n)' \in Nat
             /\ Expected(r, s, n) <= Expected(r, s, n)'
  <2>1. s \in ToSet(Queries[r.table])
    BY <1>1, <1>2, Positions DEF ToSet, Table
  <2>2. r.counts[s] \in Nat
    BY <1>1, <2>1
  <2>3. /\ Graded(r.table, s) \in Nat /\ Graded(r.table, s)' \in Nat
        /\ Graded(r.table, s) <= Graded(r.table, s)'
    BY <1>1, GradedGrows
  <2> QED BY <2>2, <2>3 DEF Expected
<1>3. Limit(r) \in Nat /\ Limit(r)' \in Nat /\ Limit(r) <= Limit(r)'
  <2>1. CASE r.table = "alerts"
    <3>1. /\ Expected(r, "critical", 6) \in Nat /\ Expected(r, "critical", 6)' \in Nat
          /\ Expected(r, "critical", 6) <= Expected(r, "critical", 6)'
          /\ Expected(r, "high", 7) \in Nat /\ Expected(r, "high", 7)' \in Nat
          /\ Expected(r, "high", 7) <= Expected(r, "high", 7)'
      BY <1>2, <2>1, Positions
    <3> QED BY <2>1, <3>1 DEF Limit
  <2>2. CASE r.table # "alerts"
    <3>1. r.table = "anomalies"
      BY <1>1, <2>2 DEF Table
    <3>2. /\ Expected(r, "critical", 5) \in Nat /\ Expected(r, "critical", 5)' \in Nat
          /\ Expected(r, "critical", 5) <= Expected(r, "critical", 5)'
          /\ Expected(r, "high", 6) \in Nat /\ Expected(r, "high", 6)' \in Nat
          /\ Expected(r, "high", 6) <= Expected(r, "high", 6)'
      BY <1>2, <3>1, Positions
    <3>3. /\ Expected(r, "medium", 7) \in Nat /\ Expected(r, "medium", 7)' \in Nat
          /\ Expected(r, "medium", 7) <= Expected(r, "medium", 7)'
          /\ Expected(r, "low", 8) \in Nat /\ Expected(r, "low", 8)' \in Nat
          /\ Expected(r, "low", 8) <= Expected(r, "low", 8)'
      BY <1>2, <3>1, Positions
    <3> QED BY <2>2, <3>2, <3>3 DEF Limit
  <2> QED BY <2>1, <2>2
<1>4. ASSUME NEW q \in ToSet(Queries[r.table]) \ Grades[r.table]
      PROVE  r.counts[q] <= Limit(r)'
  <2>1. r.counts[q] \in Nat /\ r.counts[q] <= Limit(r)
    BY <1>1
  <2> QED BY <1>3, <2>1
<1> QED BY <1>1, <1>4 DEF StatsOK

\* ... nor when a number is added: a severity is counted as it is ...
LEMMA CountKeepsExpected ==
  ASSUME TablesOK, NEW t \in Table, NEW r, NEW new, NEW n \in 1 .. Len(Queries[t]),
         r.table = t, new.table = t, r.asked = n - 1, new.asked = n,
         r.counts \in [ToSet(Queries[t]) -> Nat],
         new.counts = [r.counts EXCEPT ![Queries[t][n]] = Counted(t, Queries[t][n])],
         NEW i \in 1 .. Len(Queries[t]), NEW s \in Grades[t], s = Queries[t][i]
  PROVE  Expected(new, s, i) = Expected(r, s, i) /\ Expected(r, s, i) \in Nat
<1>1. s \in ToSet(Queries[t]) /\ Queries[t][n] \in ToSet(Queries[t])
  BY Positions DEF ToSet, Table
<1>2. Counted(t, s) = Graded(t, s) /\ Graded(t, s) \in Nat
  BY CountedGrade
<1>3. n \in Int /\ i \in Int /\ Len(Queries[t]) \in Nat
  BY Positions DEF Table
<1>4. CASE i < n
  <2>1. s # Queries[t][n]
    BY <1>3, <1>4, Positions
  <2>2. new.counts[s] = r.counts[s] /\ i <= n - 1 /\ i <= n
    BY <1>1, <1>3, <1>4, <2>1
  <2> QED BY <1>1, <2>2 DEF Expected
<1>5. CASE i = n
  <2>1. new.counts[s] = Graded(t, s)
    BY <1>1, <1>2, <1>5
  <2>2. ~(i <= n - 1) /\ i <= n
    BY <1>3, <1>5
  <2> QED BY <1>2, <2>1, <2>2 DEF Expected
<1>6. CASE i > n
  <2>1. ~(i <= n - 1) /\ ~(i <= n)
    BY <1>3, <1>6
  <2> QED BY <1>2, <2>1 DEF Expected
<1> QED BY <1>3, <1>4, <1>5, <1>6

LEMMA CountKeepsLimit ==
  ASSUME TablesOK, NEW t \in Table, NEW r, NEW new, NEW n \in 1 .. Len(Queries[t]),
         r.table = t, new.table = t, r.asked = n - 1, new.asked = n,
         r.counts \in [ToSet(Queries[t]) -> Nat],
         new.counts = [r.counts EXCEPT ![Queries[t][n]] = Counted(t, Queries[t][n])]
  PROVE  Limit(new) = Limit(r) /\ Limit(r) \in Nat
<1>1. ASSUME NEW i \in 1 .. Len(Queries[t]), Queries[t][i] \in Grades[t]
      PROVE  /\ Expected(new, Queries[t][i], i) = Expected(r, Queries[t][i], i)
             /\ Expected(r, Queries[t][i], i) \in Nat
  BY <1>1, CountKeepsExpected
<1>2. CASE t = "alerts"
  <2>1. /\ Expected(new, "critical", 6) = Expected(r, "critical", 6)
        /\ Expected(new, "high", 7) = Expected(r, "high", 7)
        /\ Expected(r, "critical", 6) \in Nat /\ Expected(r, "high", 7) \in Nat
    BY <1>1, <1>2, Positions DEF Grades
  <2> QED BY <1>2, <2>1 DEF Limit
<1>3. CASE t = "anomalies"
  <2>1. /\ Expected(new, "critical", 5) = Expected(r, "critical", 5)
        /\ Expected(new, "high", 6) = Expected(r, "high", 6)
        /\ Expected(r, "critical", 5) \in Nat /\ Expected(r, "high", 6) \in Nat
    BY <1>1, <1>3, Positions DEF Grades
  <2>2. /\ Expected(new, "medium", 7) = Expected(r, "medium", 7)
        /\ Expected(new, "low", 8) = Expected(r, "low", 8)
        /\ Expected(r, "medium", 7) \in Nat /\ Expected(r, "low", 8) \in Nat
    BY <1>1, <1>3, Positions DEF Grades
  <2> QED BY <1>3, <2>1, <2>2 DEF Limit
<1> QED BY <1>2, <1>3 DEF Table

\* ... and anything else is counted while no severity has been.
LEMMA PlainWithinLimit ==
  ASSUME TablesOK, SeveritiesOK, NEW t \in Table, NEW r, NEW n \in 1 .. Len(Queries[t]),
         r.table = t, r.asked = n - 1, Queries[t][n] \notin Grades[t]
  PROVE  Counted(t, Queries[t][n]) <= Limit(r)
<1>1. CASE t = "alerts"
  <2>1. n \in 1 .. 7 /\ n # 6 /\ n # 7
    BY <1>1, Positions DEF Grades
  <2>2. /\ Expected(r, "critical", 6) = Graded(t, "critical")
        /\ Expected(r, "high", 7) = Graded(t, "high")
    BY <2>1 DEF Expected
  <2> QED BY <1>1, <2>2, CountedAtMostAll DEF Limit
<1>2. CASE t = "anomalies"
  <2>1. n \in 1 .. 8 /\ n # 5 /\ n # 6 /\ n # 7 /\ n # 8
    BY <1>2, Positions DEF Grades
  <2>2. /\ Expected(r, "critical", 5) = Graded(t, "critical")
        /\ Expected(r, "high", 6) = Graded(t, "high")
        /\ Expected(r, "medium", 7) = Graded(t, "medium")
        /\ Expected(r, "low", 8) = Graded(t, "low")
    BY <2>1 DEF Expected
  <2> QED BY <1>2, <2>2, CountedAtMostAll DEF Limit
<1> QED BY <1>1, <1>2 DEF Table

\* A request that goes on counting keeps its numbers within the limit.
LEMMA CountKeepsStats ==
  ASSUME DeskInv, NEW r, r.kind = "stats", StatsOK(r),
         NEW n, n = r.asked + 1, n <= Len(Queries[r.table]),
         NEW q, q = Queries[r.table][n],
         NEW new, DOMAIN new = DOMAIN r, new.kind = "stats", new.table = r.table,
         new.asked = n, new.counts = [r.counts EXCEPT ![q] = Counted(r.table, q)]
  PROVE  StatsOK(new)
<1> DEFINE t == r.table
<1>1. /\ DOMAIN r = {"kind", "table", "asked", "counts"} /\ t \in Table
      /\ r.asked \in 0 .. Len(Queries[t])
      /\ r.counts \in [ToSet(Queries[t]) -> Nat]
      /\ \A p \in ToSet(Queries[t]) \ Grades[t] : r.counts[p] <= Limit(r)
  BY DEF StatsOK
<1>2. /\ n \in 1 .. Len(Queries[t]) /\ r.asked = n - 1
      /\ n \in 0 .. Len(Queries[t])
  BY <1>1, Positions DEF Table
<1>3. /\ DOMAIN new = {"kind", "table", "asked", "counts"}
      /\ new.kind = "stats" /\ new.table = t /\ new.asked = n
      /\ new.counts = [r.counts EXCEPT ![q] = Counted(t, q)]
  BY <1>1
<1>4. TablesOK /\ SeveritiesOK
  BY DEF DeskInv
<1>5. Counted(t, q) \in Nat
  BY <1>1, <1>4, CountedAtMostAll
<1>6. new.counts \in [ToSet(Queries[t]) -> Nat]
  BY <1>1, <1>3, <1>5
<1>7. Limit(new) = Limit(r)
  <2>1. new.counts = [r.counts EXCEPT ![Queries[t][n]] = Counted(t, Queries[t][n])]
    BY <1>3
  <2>2. r.table = t
    OBVIOUS
  <2> HIDE DEF t
  <2> QED BY <1>1, <1>2, <1>3, <1>4, <2>1, <2>2, CountKeepsLimit
<1>8. ASSUME NEW p \in ToSet(Queries[t]) \ Grades[t]
      PROVE  new.counts[p] <= Limit(new)
  <2>1. CASE p = q
    <3>1. new.counts[p] = Counted(t, q)
      BY <1>1, <1>3, <1>8, <2>1
    <3>2. Counted(t, q) <= Limit(r)
      BY <1>1, <1>2, <1>4, <1>8, <2>1, PlainWithinLimit
    <3> QED BY <1>7, <3>1, <3>2
  <2>2. CASE p # q
    <3>1. new.counts[p] = r.counts[p]
      BY <1>1, <1>3, <1>8, <2>2
    <3> QED BY <1>1, <1>7, <1>8, <3>1
  <2> QED BY <2>1, <2>2
<1> QED BY <1>1, <1>2, <1>3, <1>6, <1>8 DEF StatsOK

LEMMA StatsStep ==
  ASSUME DeskInv, StatsInv, [Next]_vars
  PROVE  StatsInv'
<1>1. request = [d \in Desk |-> request[d]]
  BY DEF DeskInv, RequestsOK
<1>2. ASSUME NEW r, StatsOK(r) PROVE StatsOK(r)'
  <2>1. CASE r.kind = "stats"
    BY <1>2, <2>1, LimitGrows
  <2>2. CASE r.kind # "stats"
    BY <2>2 DEF StatsOK
  <2> QED BY <2>1, <2>2
<1>3. CASE UNCHANGED request
  BY <1>2, <1>3 DEF StatsInv
<1>4. ASSUME NEW d \in Desk, NEW r, StatsOK(r), request' = [request EXCEPT ![d] = r]
      PROVE  StatsInv'
  BY <1>1, <1>2, <1>4 DEF StatsInv
<1>5. ASSUME NEW d \in Desk, NEW t \in Table, ReadForUpdate(d, t)
      PROVE  StatsInv'
  <2>1. PICK i \in DOMAIN table[t], s \in Wanted[t] :
          request' = [request EXCEPT ![d] =
            [kind |-> "update", table |-> t, row |-> i, wanted |-> s,
             seen |-> table[t][i].status]]
    BY <1>5 DEF ReadForUpdate
  <2>2. StatsOK([kind |-> "update", table |-> t, row |-> i, wanted |-> s,
                 seen |-> table[t][i].status])
    BY DEF StatsOK
  <2> QED BY <1>4, <2>1, <2>2
<1>6. ASSUME NEW d \in Desk, NEW t \in Table, StartStats(d, t)
      PROVE  StatsInv'
  <2> DEFINE none == [q \in ToSet(Queries[t]) |-> 0]
             r == [kind |-> "stats", table |-> t, asked |-> 0, counts |-> none]
  <2>1. request' = [request EXCEPT ![d] = r]
    BY <1>6 DEF StartStats
  <2>2. /\ r.table = t /\ r.asked = 0 /\ r.counts = none
        /\ DOMAIN r = {"kind", "table", "asked", "counts"}
    OBVIOUS
  <2>3. none \in [ToSet(Queries[t]) -> Nat] /\ \A q \in ToSet(Queries[t]) : none[q] = 0
    OBVIOUS
  <2>4. Len(Queries[t]) \in Nat /\ Len(Queries[t]) # 0
    BY Positions DEF Table
  <2> HIDE DEF none, r
  <2>5. Limit(r) \in Nat
    <3>1. \A s : Graded(t, s) \in Nat
      BY GradedGrows
    <3>2. \A s, n : n \in {5, 6, 7, 8} => Expected(r, s, n) = Graded(t, s)
      BY <2>2 DEF Expected
    <3> QED BY <3>1, <3>2 DEF Limit
  <2>6. 0 <= Limit(r) /\ 0 \in 0 .. Len(Queries[t])
    BY <2>4, <2>5
  <2>7. StatsOK(r)
    BY <2>2, <2>3, <2>6 DEF StatsOK
  <2> QED BY <1>4, <2>1, <2>7
<1>7. ASSUME NEW d \in Desk, Update(d) \/ UpdateFails(d) \/ EndStats(d)
      PROVE  StatsInv'
  <2>1. request' = [request EXCEPT ![d] = NoRequest]
    BY <1>7 DEF Update, UpdateFails, EndStats
  <2>2. StatsOK(NoRequest)
    BY DEF StatsOK, NoRequest
  <2> QED BY <1>4, <2>1, <2>2
<1>8. ASSUME NEW d \in Desk, CountNext(d)
      PROVE  StatsInv'
  <2> DEFINE n == request[d].asked + 1
             q == NextQuery(request[d].table, n)
             counts == [request[d].counts EXCEPT ![q] = Counted(request[d].table, q)]
             r == [[request[d] EXCEPT !.asked = n] EXCEPT !.counts = counts]
  <2>1. /\ request[d].kind = "stats" /\ n <= Len(Queries[request[d].table])
        /\ request' = [request EXCEPT ![d] = r]
    BY <1>8 DEF CountNext
  <2>2. q = Queries[request[d].table][n] /\ StatsOK(request[d])
    BY DEF NextQuery, StatsInv
  <2>3. DOMAIN request[d] = {"kind", "table", "asked", "counts"}
    BY <2>1, <2>2 DEF StatsOK
  <2>4. /\ DOMAIN r = DOMAIN request[d] /\ r.kind = "stats"
        /\ r.table = request[d].table /\ r.asked = n /\ r.counts = counts
    BY <2>1, <2>3
  <2>5. StatsOK(r)
    <3> HIDE DEF r
    <3> QED BY <2>1, <2>2, <2>4, CountKeepsStats
  <2> HIDE DEF r
  <2> QED BY <1>4, <2>1, <2>5
<1>9. CASE StoreAnomaly \/ Expire \/ UNCHANGED vars
  BY <1>3, <1>9 DEF StoreAnomaly, Expire, vars
<1>10. ASSUME NEW c \in Creator,
              FindAlert(c) \/ FindNoAlert(c) \/ InsertAlert(c) \/ InsertFails(c)
       PROVE  UNCHANGED request
  BY <1>10 DEF FindAlert, FindNoAlert, InsertAlert, InsertFails, vars
<1> QED BY <1>3, <1>5, <1>6, <1>7, <1>8, <1>9, <1>10 DEF Next

LEMMA StatsInvariant == Spec => []StatsInv
<1>1. Init => StatsInv
  BY DEF Init, NoRequest, StatsInv, StatsOK
<1> QED BY <1>1, StatsStep, DeskInvariant, PTL DEF Spec

\* Finished statistics never show a total, or a status count, larger than the counts
\* of the severities together, whatever is stored and updated between the statements.
THEOREM StatisticsAddUp == Spec => []StatsBounded
<1>1. StatsInv => StatsBounded
  <2> SUFFICES ASSUME StatsInv, NEW d \in Desk, request[d].kind = "stats",
                      request[d].asked = Len(Queries[request[d].table]),
                      NEW q \in DOMAIN request[d].counts
                                  \ {"critical", "high", "medium", "low"}
               PROVE  request[d].counts[q]
                        <= request[d].counts["critical"] + request[d].counts["high"]
                             + IF request[d].table = "alerts" THEN 0
                               ELSE request[d].counts["medium"] + request[d].counts["low"]
    BY DEF StatsBounded
  <2> DEFINE r == request[d]
             t == r.table
  <2>1. /\ t \in Table
        /\ r.counts \in [ToSet(Queries[t]) -> Nat]
        /\ \A p \in ToSet(Queries[t]) \ Grades[t] : r.counts[p] <= Limit(r)
    BY DEF StatsInv, StatsOK
  <2>2. r.counts[q] <= Limit(r)
    BY <2>1 DEF Grades, Table
  <2>3. CASE t = "alerts"
    <3>1. r.asked = 7
      BY <2>3, Positions
    <3>2. Limit(r) = r.counts["critical"] + r.counts["high"]
      BY <2>3, <3>1 DEF Limit, Expected
    <3>3. "critical" \in ToSet(Queries[t]) /\ "high" \in ToSet(Queries[t])
      BY <2>3, Positions DEF ToSet
    <3> QED BY <2>1, <2>2, <2>3, <3>2, <3>3
  <2>4. CASE t = "anomalies"
    <3>1. r.asked = 8
      BY <2>4, Positions
    <3>2. Limit(r) = r.counts["critical"] + r.counts["high"]
                       + (r.counts["medium"] + r.counts["low"])
      BY <2>4, <3>1 DEF Limit, Expected
    <3> QED BY <2>2, <2>4, <3>2
  <2> QED BY <2>1, <2>3, <2>4 DEF Table
<1> QED BY <1>1, StatsInvariant, PTL

=============================================================================
