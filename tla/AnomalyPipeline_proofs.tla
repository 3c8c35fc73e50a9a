------------------------ MODULE AnomalyPipeline_proofs ------------------------
(***************************************************************************)
(* Proofs about AnomalyPipeline, for any number of workers, events, rows   *)
(* and failures, and about the arithmetic of DetectionRules.               *)
(***************************************************************************)
EXTENDS AnomalyPipeline, InventoryService_proofs

-----------------------------------------------------------------------------
(* What the limits of LargeInventoryAdjustment come to, for all numbers.   *)

\* Two of the severities are for more than 100 %.
LEMMA SevereIsOverAll ==
  ASSUME NEW delta \in Int, NEW before \in Int, NEW current \in Int,
         AdjustmentSeverity(delta, before, current) \in Severe
  PROVE  Magnitude(delta) > Reference(before, current)
  BY DEF AdjustmentSeverity, Graded, Severe, Magnitude, Reference, Larger

\* No change between two quantities that are not negative exceeds the larger one.
LEMMA ChangeWithinReference ==
  ASSUME NEW before \in Nat, NEW current \in Nat
  PROVE  Magnitude(current - before) <= Reference(before, current)
  BY DEF Magnitude, Reference, Larger

\* The rule (anomaly_detection_service.py:160-211) finds an adjustment "high" or
\* "critical" only if the change it has read does not lead from the quantity
\* before it to the quantity of the row: no severe report adds up.
THEOREM SevereIsTorn ==
  ASSUME NEW delta \in Int, NEW before \in Nat, NEW current \in Nat,
         AdjustmentSeverity(delta, before, current) \in Severe
  PROVE  Magnitude(delta) # Magnitude(current - before)
  <1>1. Magnitude(delta) > Reference(before, current)
    BY SevereIsOverAll
  <1>2. Magnitude(current - before) <= Reference(before, current)
    BY ChangeWithinReference
  <1>3. /\ Magnitude(delta) \in Int /\ Magnitude(current - before) \in Int
        /\ Reference(before, current) \in Int
    BY DEF Magnitude, Reference, Larger
  <1> QED
    BY <1>1, <1>2, <1>3

-----------------------------------------------------------------------------
(* Sequences. *)

\* The place of an element in a sequence is the first one where it is.
LEMMA PlaceFacts ==
  ASSUME NEW S, timeline \in Seq(S), NEW e
  PROVE  /\ Place(e) \in 0 .. Len(timeline)
         /\ (\E i \in DOMAIN timeline : timeline[i] = e)
              => Place(e) \in DOMAIN timeline /\ timeline[Place(e)] = e
  <1> DEFINE n == Len(timeline)
             I == {i \in 1 .. n : timeline[i] = e}
  <1>1. n \in Nat /\ DOMAIN timeline = 1 .. n
    BY LenProperties
  <1>2. Place(e) = IF I # {} THEN Min(I) ELSE 0
    BY DEF Place, SelectInSeq
  <1>3. I # {} => Min(I) \in I
    <2> SUFFICES ASSUME I # {} PROVE Min(I) \in I
      OBVIOUS
    <2>1. I \subseteq Nat
      BY <1>1
    <2> HIDE DEF I
    <2>2. \E m \in I : \A i \in I : m <= i
      BY <2>1, LeastElement
    <2> QED
      BY <2>2 DEF Min
  <1> QED
    BY <1>1, <1>2, <1>3

\* Taking an element out of a sequence.
LEMMA RemoveFirstFacts ==
  ASSUME NEW S, NEW s \in Seq(S), NEW x
  PROVE  /\ RemoveFirst(s, x) \in Seq(S)
         /\ \/ RemoveFirst(s, x) = s /\ \A i \in 1 .. Len(s) : s[i] # x
            \/ \E p \in 1 .. Len(s) :
                /\ s[p] = x
                /\ Len(RemoveFirst(s, x)) = Len(s) - 1
                /\ \A i \in 1 .. Len(s) - 1 :
                     RemoveFirst(s, x)[i] = IF i < p THEN s[i] ELSE s[i + 1]
  <1> DEFINE n == Len(s)
             I == {i \in 1 .. n : s[i] = x}
  <1>1. n \in Nat
    BY LenProperties
  <1>2. CASE I = {}
    BY <1>2 DEF RemoveFirst
  <1>3. CASE I # {}
    <2> DEFINE p == Min(I)
    <2>1. p \in I
      <3>1. I \subseteq Nat
        BY <1>1
      <3> HIDE DEF I
      <3>2. \E m \in I : \A i \in I : m <= i
        BY <1>3, <3>1, LeastElement
      <3> QED
        BY <3>2 DEF Min
    <2>2. RemoveFirst(s, x) = RemoveAt(s, p)
      BY <1>3 DEF RemoveFirst, SelectInSeq
    <2> HIDE DEF p
    <2>3. p \in 1 .. n /\ s[p] = x
      BY <2>1
    <2> DEFINE a == SubSeq(s, 1, p - 1)
               b == SubSeq(s, p + 1, n)
    <2>4. RemoveFirst(s, x) = a \o b
      BY <2>2 DEF RemoveAt
    <2>5. /\ a \in Seq(S) /\ Len(a) = p - 1
          /\ \A i \in 1 .. p - 1 : a[i] = s[i]
      BY <1>1, <2>3, SubSeqProperties
    <2>6. /\ b \in Seq(S) /\ Len(b) = n - p
          /\ \A i \in 1 .. n - p : b[i] = s[p + i]
      BY <1>1, <2>3, SubSeqProperties
    <2> HIDE DEF a, b
    <2>7. /\ a \o b \in Seq(S) /\ Len(a \o b) = n - 1
          /\ \A i \in 1 .. n - 1 : (a \o b)[i] = IF i < p THEN s[i] ELSE s[i + 1]
      <3>1. /\ a \o b \in Seq(S) /\ Len(a \o b) = Len(a) + Len(b)
            /\ \A i \in 1 .. Len(a) + Len(b) :
                 (a \o b)[i] = IF i <= Len(a) THEN a[i] ELSE b[i - Len(a)]
        BY <2>5, <2>6, ConcatProperties
      <3>2. Len(a) + Len(b) = n - 1
        BY <1>1, <2>3, <2>5, <2>6
      <3>3. ASSUME NEW i \in 1 .. n - 1
            PROVE  (a \o b)[i] = IF i < p THEN s[i] ELSE s[i + 1]
        <4>1. (a \o b)[i] = IF i <= p - 1 THEN a[i] ELSE b[i - (p - 1)]
          BY <3>1, <3>2, <2>5
        <4>2. CASE i < p
          BY <4>1, <4>2, <2>3, <2>5
        <4>3. CASE ~(i < p)
          <5>1. i - (p - 1) \in 1 .. n - p /\ p + (i - (p - 1)) = i + 1
            BY <1>1, <2>3, <4>3
          <5> QED
            BY <4>1, <4>3, <5>1, <2>3, <2>6
        <4> QED
          BY <4>2, <4>3
      <3> QED
        BY <3>1, <3>2, <3>3
    <2> QED
      BY <2>3, <2>4, <2>7
  <1> QED
    BY <1>2, <1>3

\* A sequence of findings, or none, after another.
LEMMA ConcatIn ==
  ASSUME NEW S, NEW s \in Seq(S), NEW t \in Seq(S)
  PROVE  s \o t \in Seq(S)
  BY ConcatProperties

\* What there is at the places of a sequence is in its set.
LEMMA InSet ==
  ASSUME NEW S, NEW s \in Seq(S)
  PROVE  \A i \in DOMAIN s : s[i] \in S
  BY LenProperties, ElementOfSeq

-----------------------------------------------------------------------------
(* The inductive invariant. *)

\* Whose the examination of event e is: of the client that has just changed the
\* stock by it, or that examines it, or reports what it has found.
Owns(c, e) ==
  \/ ~Detecting(c, "none") /\ MyEvent(c) = e
  \/ call[c].stage \in {"sync", "done"} /\ ~call[c].duplicate /\ call[c].event = e

\* What the detection of a client is about, by where it is.
DetectOK(c) ==
  /\ IF Detecting(c, "none") THEN detect[c] = NoDetection
     ELSE At(c, "idle") /\ MyEvent(c) \in RecordedEvents
  /\ detect[c].stage \in {"row", "rules"} => MyEvent(c) \notin examined
  /\ detect[c].stage \in {"persist", "alert", "publish"} =>
       /\ MyEvent(c) \in examined
       /\ detect[c].found # <<>>
       /\ \A i \in DOMAIN detect[c].found : detect[c].found[i].event = MyEvent(c)
  /\ Detecting(c, "persist") => ~HasAnomaly(MyEvent(c))
  /\ detect[c].stage \in {"alert", "publish"} => Head(detect[c].found).severity \in Severe

\* A change that its client has not been told of yet is not examined yet.
CallOK(c) ==
  /\ call[c].stage \in InTransaction => ~call[c].duplicate
  /\ call[c].stage \in {"sync", "done"} /\ ~call[c].duplicate
       => call[c].event \notin examined

\* A client that publishes waits for a copy of its alert; there are as many copies
\* as it has sent, at most.
SentOK(c) ==
  /\ detect[c].stage \in {"persist", "alert"}
       => inflight[MyEvent(c)] = 0 /\ topic[MyEvent(c)] = 0
  /\ Detecting(c, "publish") =>
       /\ inflight[MyEvent(c)] > 0
       /\ inflight[MyEvent(c)] + topic[MyEvent(c)] <= detect[c].attempt

ClientOK(c) == DetectOK(c) /\ CallOK(c) /\ SentOK(c)

ClientsOK == \A c \in Client : ClientOK(c)

CopiesOK ==
  \A e \in Event :
    /\ inflight[e] + topic[e] <= MaxPublish
    /\ e \notin examined => inflight[e] = 0 /\ topic[e] = 0

\* No event has two owners.
SoleOwners == \A c, d \in Client, e \in Event : Owns(c, e) /\ Owns(d, e) => c = d

ExaminedOK ==
  /\ examined \subseteq RecordedEvents
  /\ \A a \in anomalies : a.event \in examined

\* The types of the variables that are not the service's, without the bounds on
\* the copies of an alert.
PipelineTypes ==
  /\ timeline \in Seq(Client \cup Event)
  /\ detect \in [Client -> Detection]
  /\ anomalies \subseteq Finding
  /\ alerts \subseteq [event : Event, severity : Severe]
  /\ inflight \in [Event -> Nat]
  /\ topic \in [Event -> Nat]
  /\ examined \subseteq Event
  /\ faults \in 0 .. MaxFaults

OwnerInv ==
  /\ PipelineTypes /\ ServiceInv /\ SuccessIsDurable
  /\ ClientsOK /\ SoleOwners /\ ExaminedOK /\ CopiesOK

-----------------------------------------------------------------------------
(* The kinds of steps. *)

\* The steps of a client's detection.
DetectStep(c) ==
  \/ ReadRow(c) \/ RunRules(c) \/ RuleError(c)
  \/ PersistAnomaly(c) \/ PersistConflict(c)
  \/ CreateAlert(c) \/ DetectionError(c) \/ Published(c) \/ PublishTimeout(c)

\* The steps of its calls.
CallStep(c) ==
  \/ \E e \in Event : CallService(c, e)
  \/ Serve(c) \/ ServeFault(c) \/ TakeResult(c) \/ TakeNothing(c) \/ Crash(c)

LEMMA NextCases ==
  ASSUME Next
  PROVE  \/ \E c \in Client : CallStep(c) \/ DetectStep(c)
         \/ \E e \in Event : DeliveredLate(e)
  BY DEF Next, CallStep, DetectStep

\* The detection sees the tables of the service, and leaves them alone.
LEMMA DetectStepIsOutside ==
  ASSUME NEW c \in Client, DetectStep(c)
  PROVE  UNCHANGED <<serviceVars, timeline>>
  <1>1. CASE ReadRow(c) \/ RunRules(c) \/ RuleError(c)
    BY <1>1 DEF ReadRow, RunRules, RuleError, Keep
  <1>2. CASE PersistAnomaly(c) \/ PersistConflict(c) \/ CreateAlert(c)
    BY <1>2 DEF PersistAnomaly, PersistConflict, CreateAlert
  <1>3. CASE DetectionError(c) \/ Published(c) \/ PublishTimeout(c)
    BY <1>3 DEF DetectionError, Published, PublishTimeout
  <1> QED
    BY <1>1, <1>2, <1>3 DEF DetectStep

\* Every step of the pipeline is a step of the service, or none.
LEMMA StepIsServiceStep ==
  ASSUME ServiceInv, [Next]_vars
  PROVE  [ServiceNext]_serviceVars
  <1>1. CASE UNCHANGED vars
    BY <1>1 DEF vars
  <1>2. ASSUME NEW c \in Client, CallStep(c)
        PROVE  [ServiceNext]_serviceVars
    <2>1. CASE \E e \in Event : CallService(c, e)
      BY <2>1 DEF CallService, ServiceNext
    <2>2. CASE Serve(c) \/ ServeFault(c)
      BY <2>2 DEF Serve, ServeFault, ServiceNext
    <2>3. CASE TakeResult(c) \/ TakeNothing(c)
      BY <2>3 DEF TakeResult, TakeNothing, ServiceNext
    <2>4. CASE Crash(c)
      BY <2>4, CrashIsAbort DEF Crash
    <2> QED
      BY <1>2, <2>1, <2>2, <2>3, <2>4 DEF CallStep
  <1>3. ASSUME NEW c \in Client, DetectStep(c)
        PROVE  [ServiceNext]_serviceVars
    BY <1>3, DetectStepIsOutside
  <1>4. ASSUME NEW e \in Event, DeliveredLate(e)
        PROVE  [ServiceNext]_serviceVars
    BY <1>4 DEF DeliveredLate
  <1> QED
    BY <1>1, <1>2, <1>3, <1>4, NextCases

\* What becomes of a call of process_event: a transaction goes on or a result is
\* on its way, which is of a duplicate unless the event is committed now.
LEMMA ServeCases ==
  ASSUME ServiceTypeOK, NEW c \in Client, Proceed(c) \/ Fail(c)
  PROVE  \/ call'[c].stage \in InTransaction /\ call[c].stage \in InTransaction
            /\ call'[c].duplicate = call[c].duplicate
         \/ call'[c].stage \in {"transient", "rejected"}
         \/ call'[c].stage \in {"sync", "done"} /\ call'[c].duplicate
         \/ call'[c].stage = "done" /\ call[c].stage = "sync"
            /\ call'[c].duplicate = call[c].duplicate
         \/ CommitStep(c) /\ call[c].stage = "apply" /\ call'[c].stage = "sync"
            /\ call'[c].duplicate = call[c].duplicate
  <1>1. call \in [Client -> Call]
    BY DEF ServiceTypeOK
  <1> USE <1>1 DEF MoveTo, Call, At, InTransaction
  <1>2. CASE FindDuplicate(c)
    BY <1>2 DEF FindDuplicate
  <1>3. CASE FindNoDuplicate(c) \/ FindNoRow(c)
    BY <1>3 DEF FindNoDuplicate, FindNoRow
  <1>4. CASE LockRow(c) \/ InsertRow(c)
    BY <1>4 DEF LockRow, InsertRow
  <1>5. CASE SyncCache(c)
    BY <1>5 DEF SyncCache
  <1>6. CASE \/ InsertConflict(c) \/ RejectNegative(c) \/ CommitConflict(c)
             \/ CacheError(c) \/ DatabaseError(c)
    BY <1>6 DEF InsertConflict, RejectNegative, CommitConflict, CacheError, DatabaseError
  <1>7. CASE CommitChange(c)
    BY <1>7 DEF CommitChange, Commit, CommitStep
  <1>8. CASE LoseCommitReply(c)
    BY <1>8 DEF LoseCommitReply, Commit
  <1> QED
    BY <1>2, <1>3, <1>4, <1>5, <1>6, <1>7, <1>8 DEF Proceed, Fail

-----------------------------------------------------------------------------
(* What the rules find. *)

\* The row that is read as the latest is a row of the history, and none of the
\* others has a later changed_at.
LEMMA LatestFacts ==
  ASSUME StoreTypeOK, timeline \in Seq(Client \cup Event), NEW k \in Key,
         history[k] # <<>>
  PROVE  /\ \E i \in DOMAIN history[k] : Latest(k) = history[k][i]
         /\ \A j \in DOMAIN history[k] : Place(history[k][j].event) <= Place(Latest(k).event)
  <1> DEFINE h == history[k]
             H == ToSet(h)
             P == {Place(x.event) : x \in H}
             n == Len(timeline)
  <1>1. h \in Seq(Entry) /\ n \in Nat
    BY LenProperties DEF StoreTypeOK
  <1>2. H = {h[i] : i \in DOMAIN h}
    BY DEF ToSet
  <1>3. H # {}
    <2>1. 1 \in DOMAIN h
      BY <1>1, LenProperties, EmptySeq
    <2> QED
      BY <1>2, <2>1
  <1>4. \A e : Place(e) \in 0 .. n
    BY PlaceFacts
  <1>5. \E x \in H : \A y \in H : Place(x.event) >= Place(y.event)
    <2> HIDE DEF H
    <2>1. P \subseteq Nat /\ P # {} /\ \A p \in P : p <= n
      BY <1>1, <1>3, <1>4
    <2> HIDE DEF P
    <2>2. PICK p \in P : \A q \in P : q <= p
      BY <1>1, <2>1, GreatestElement
    <2> USE DEF P
    <2>3. PICK x \in H : p = Place(x.event)
      BY <2>2
    <2>4. \A y \in H : Place(x.event) >= Place(y.event)
      BY <2>1, <2>2, <2>3
    <2> QED
      BY <2>4
  <1>6. Latest(k) = CHOOSE x \in H : \A y \in H : Place(x.event) >= Place(y.event)
    BY DEF Latest
  <1> HIDE DEF H
  <1>7. Latest(k) \in H /\ \A y \in H : Place(Latest(k).event) >= Place(y.event)
    BY <1>5, <1>6
  <1>8. \A j \in DOMAIN h : Place(h[j].event) <= Place(Latest(k).event)
    <2> TAKE j \in DOMAIN h
    <2>1. h[j] \in H
      BY <1>2
    <2>2. Place(h[j].event) \in Int /\ Place(Latest(k).event) \in Int
      BY <1>1, <1>4
    <2> QED
      BY <1>7, <2>1, <2>2
  <1> QED
    BY <1>2, <1>7, <1>8

\* What an adjustment reports is a change of the row's history, not an earlier one
\* than the event's own, with the severity of the rule.
Reported(x, e, seen) ==
  /\ x.to = seen
  /\ \E i \in DOMAIN history[KeyOf[e]] :
       LET h == history[KeyOf[e]][i]
       IN  /\ x.change = h.event /\ x.from = h.before /\ x.amount = Magnitude(h.delta)
           /\ x.severity = AdjustmentSeverity(h.delta, h.before, seen)
           /\ Place(h.event) >= Place(e)

\* What may be found after event e on a row that showed "seen".
Findable(e, seen) ==
  {x \in Finding : x.event = e /\ (x.type = "adjustment" => Reported(x, e, seen))}

LEMMA FindingsFacts ==
  ASSUME StoreTypeOK, timeline \in Seq(Client \cup Event), HistoryOnItsRow,
         NEW e \in RecordedEvents, NEW seen \in Int, NEW day, NEW rapid
  PROVE  Findings(e, seen, day, rapid) \in Seq(Findable(e, seen))
  <1> USE ServiceAssumption
  <1> DEFINE k == KeyOf[e]
             last == Latest(k)
             S == Findable(e, seen)
             adjustment ==
               [event |-> e, type |-> "adjustment",
                severity |-> AdjustmentSeverity(last.delta, last.before, seen),
                change |-> last.event, from |-> last.before, to |-> seen,
                amount |-> Magnitude(last.delta)]
             If(fires, finding) == IF fires THEN <<finding>> ELSE <<>>
             a == If(NegativeFires(seen), Found(e, "negative", "critical"))
             b == If(SpikeFires(day), Found(e, "spike", SpikeSeverity(day)))
             c == If(AdjustmentFires(last.delta, last.before, seen), adjustment)
             d == If(RapidFires(rapid), Found(e, "rapid", RapidSeverity(rapid)))
  <1>1. e \in Event /\ k \in Key
    BY DEF RecordedEvents
  <1>2. PICK j \in DOMAIN history[k] : history[k][j].event = e
    BY DEF RecordedEvents, Recorded, HistoryOnItsRow
  <1>3. history[k] \in Seq(Entry)
    BY <1>1 DEF StoreTypeOK
  <1>4. history[k] # <<>>
    BY <1>2, EmptySeq
  <1>5. PICK i \in DOMAIN history[k] : last = history[k][i]
    BY <1>1, <1>4, LatestFacts
  <1>6. Place(last.event) >= Place(e)
    <2>1. Place(e) <= Place(last.event)
      BY <1>1, <1>2, <1>4, LatestFacts
    <2>2. Place(e) \in Int /\ Place(last.event) \in Int
      BY PlaceFacts
    <2> QED
      BY <2>1, <2>2
  <1>7. last \in Entry
    BY <1>3, <1>5, InSet
  <1>8. \A x, y, m, h, v : Graded(x, y, m, h, v) \in Severity
    BY DEF Graded, Severity
  <1>9. ASSUME NEW type \in {"negative", "spike", "rapid"}, NEW severity \in Severity
        PROVE  Found(e, type, severity) \in S
    BY <1>1 DEF Found, Findable, Finding
  <1>10. adjustment \in S
    <2>1. AdjustmentSeverity(last.delta, last.before, seen) \in Severity
      BY <1>8 DEF AdjustmentSeverity
    <2>2. Magnitude(last.delta) \in Int
      BY <1>7 DEF Magnitude, Entry
    <2>3. adjustment \in Finding
      BY <1>1, <1>7, <2>1, <2>2 DEF Finding, Entry
    <2>4. Reported(adjustment, e, seen)
      BY <1>5, <1>6 DEF Reported
    <2> QED
      BY <2>3, <2>4 DEF Findable
  <1>11. ASSUME NEW x \in S, NEW fires
         PROVE  If(fires, x) \in Seq(S)
    BY EmptySeq
  <1>12. a \in Seq(S)
    BY <1>9, <1>11 DEF Severity
  <1>13. b \in Seq(S)
    BY <1>8, <1>9, <1>11 DEF SpikeSeverity
  <1>14. c \in Seq(S)
    <2> HIDE DEF adjustment, If, last
    <2> QED
      BY <1>10, <1>11
  <1>15. d \in Seq(S)
    BY <1>8, <1>9, <1>11 DEF RapidSeverity
  <1>16. Findings(e, seen, day, rapid) = a \o b \o c \o d
    BY DEF Findings
  <1> HIDE DEF a, b, c, d, S
  <1>17. a \o b \in Seq(S)
    BY <1>12, <1>13, ConcatIn
  <1>18. a \o b \o c \in Seq(S)
    BY <1>14, <1>17, ConcatIn
  <1>19. a \o b \o c \o d \in Seq(S)
    BY <1>15, <1>18, ConcatIn
  <1> QED
    BY <1>16, <1>19 DEF S

\* What the rules find, or what is found before one of them fails.
LEMMA ExamineStep ==
  ASSUME OwnerInv, NEW c \in Client, RunRules(c) \/ RuleError(c)
  PROVE  /\ Detecting(c, "rules") /\ MyEvent(c) \in RecordedEvents
         /\ \E found \in Seq(Findable(MyEvent(c), detect[c].seen)) : Keep(c, found)
         /\ UNCHANGED faults \/ Fault
  <1> DEFINE e == MyEvent(c)
             seen == detect[c].seen
             S == Findable(e, seen)
  <1>1. Detecting(c, "rules") /\ (UNCHANGED faults \/ Fault)
    BY DEF RunRules, RuleError
  <1>2. e \in RecordedEvents /\ seen \in Int
    <2>1. detect[c] \in Detection /\ DetectOK(c) /\ ~Detecting(c, "none")
      BY <1>1 DEF OwnerInv, PipelineTypes, ClientsOK, ClientOK, Detecting
    <2> QED
      BY <2>1 DEF DetectOK, Detection
  <1>3. \A day, rapid : Findings(e, seen, day, rapid) \in Seq(S)
    BY <1>2, FindingsFacts
       DEF OwnerInv, PipelineTypes, ServiceInv, LockInv, ServiceTypeOK, TableInv
  <1> HIDE DEF S
  <1>4. CASE RunRules(c)
    BY <1>1, <1>2, <1>3, <1>4 DEF RunRules, S
  <1>5. CASE RuleError(c)
    <2>1. PICK day \in DaySales : \E rapid \in RapidSales :
                 LET all == Findings(e, seen, day, rapid)
                 IN  \E n \in 0 .. Len(all) - 1 : Keep(c, SubSeq(all, 1, n))
      BY <1>5 DEF RuleError
    <2>2. PICK rapid \in RapidSales :
                 LET all == Findings(e, seen, day, rapid)
                 IN  \E n \in 0 .. Len(all) - 1 : Keep(c, SubSeq(all, 1, n))
      BY <2>1
    <2> DEFINE all == Findings(e, seen, day, rapid)
    <2>3. PICK n \in 0 .. Len(all) - 1 : Keep(c, SubSeq(all, 1, n))
      BY <2>2
    <2>4. all \in Seq(S)
      BY <1>3
    <2> HIDE DEF all
    <2>5. SubSeq(all, 1, n) \in Seq(S)
      <3>1. Len(all) \in Nat /\ \A i \in 1 .. Len(all) : all[i] \in S
        BY <2>4, LenProperties, ElementOfSeq
      <3>2. n \in Int /\ \A i \in 1 .. n : all[i] \in S
        BY <3>1
      <3> QED
        BY <3>2, SubSeqProperties
    <2> QED
      BY <1>1, <1>2, <2>3, <2>5 DEF S
  <1> QED
    BY <1>4, <1>5

-----------------------------------------------------------------------------
(* The steps of a detection. *)

\* Client c's detection goes on about the same event, or ends.
Moves(c, x) ==
  /\ ~Detecting(c, "none")
  /\ x \in Detection
  /\ detect' = [detect EXCEPT ![c] = x]
  /\ x = NoDetection \/ (x.stage # "none" /\ x.event = MyEvent(c))
  /\ UNCHANGED <<serviceVars, timeline>>

\* It touches what is about its event only.
TouchesOwn(c) ==
  /\ examined' \in {examined, examined \cup {MyEvent(c)}}
  /\ anomalies \subseteq anomalies'
  /\ \A a \in anomalies' \ anomalies : a.event = MyEvent(c)
  /\ inflight' \in [Event -> Nat] /\ topic' \in [Event -> Nat]
  /\ \A e \in Event \ {MyEvent(c)} : inflight'[e] = inflight[e] /\ topic'[e] = topic[e]

\* What it leaves its own event in.
OwnAfter(c) ==
  /\ DetectOK(c)' /\ SentOK(c)'
  /\ \A a \in anomalies' \ anomalies : MyEvent(c) \in examined'
  /\ inflight'[MyEvent(c)] + topic'[MyEvent(c)] <= MaxPublish
  /\ MyEvent(c) \notin examined' => inflight'[MyEvent(c)] = 0 /\ topic'[MyEvent(c)] = 0

\* As it is the event's only owner, nobody else notices.
LEMMA MoveKeeps ==
  ASSUME OwnerInv, NEW c \in Client, NEW x, Moves(c, x), TouchesOwn(c), OwnAfter(c)
  PROVE  ClientsOK' /\ SoleOwners' /\ ExaminedOK' /\ CopiesOK'
  <1> DEFINE e == MyEvent(c)
  <1>1. e \in Event /\ e \in RecordedEvents /\ At(c, "idle") /\ Owns(c, e)
    BY DEF OwnerInv, ClientsOK, ClientOK, DetectOK, Moves, Owns, RecordedEvents
  <1>2. detect \in [Client -> Detection]
    BY DEF OwnerInv, PipelineTypes
  <1>3. \A d \in Client : detect'[d] = IF d = c THEN x ELSE detect[d]
    BY <1>2 DEF Moves
  <1>4. call' = call /\ RecordedEvents' = RecordedEvents
    BY DEF Moves, serviceVars, storeVars, RecordedEvents, Recorded
  <1>5. ASSUME NEW d \in Client, NEW f, Owns(d, f)'
        PROVE  Owns(d, f)
    BY <1>3, <1>4, <1>5 DEF Owns, Moves, Detecting, MyEvent, NoDetection
  <1>6. SoleOwners'
    BY <1>5 DEF OwnerInv, SoleOwners
  <1>7. ASSUME NEW d \in Client, d # c
        PROVE  ClientOK(d)'
    <2>1. detect'[d] = detect[d] /\ MyEvent(d)' = MyEvent(d)
      BY <1>3, <1>7 DEF MyEvent
    <2>2. ~Owns(d, e)
      BY <1>1, <1>7 DEF OwnerInv, SoleOwners
    <2>3. ClientOK(d)
      BY DEF OwnerInv, ClientsOK
    <2>4. ~Detecting(d, "none") =>
            /\ MyEvent(d) # e /\ MyEvent(d) \in Event
            /\ MyEvent(d) \in examined' <=> MyEvent(d) \in examined
            /\ HasAnomaly(MyEvent(d))' => HasAnomaly(MyEvent(d))
            /\ inflight'[MyEvent(d)] = inflight[MyEvent(d)]
            /\ topic'[MyEvent(d)] = topic[MyEvent(d)]
      <3> SUFFICES ASSUME ~Detecting(d, "none")
                   PROVE  /\ MyEvent(d) # e /\ MyEvent(d) \in Event
                          /\ MyEvent(d) \in examined' <=> MyEvent(d) \in examined
                          /\ HasAnomaly(MyEvent(d))' => HasAnomaly(MyEvent(d))
                          /\ inflight'[MyEvent(d)] = inflight[MyEvent(d)]
                          /\ topic'[MyEvent(d)] = topic[MyEvent(d)]
        OBVIOUS
      <3>1. MyEvent(d) # e /\ MyEvent(d) \in Event
        BY <2>2, <2>3 DEF Owns, ClientOK, DetectOK, RecordedEvents
      <3>2. MyEvent(d) \in examined' <=> MyEvent(d) \in examined
        BY <3>1 DEF TouchesOwn
      <3>3. HasAnomaly(MyEvent(d))' => HasAnomaly(MyEvent(d))
        BY <2>1, <3>1 DEF TouchesOwn, HasAnomaly
      <3>4. inflight'[MyEvent(d)] = inflight[MyEvent(d)] /\ topic'[MyEvent(d)] = topic[MyEvent(d)]
        BY <3>1 DEF TouchesOwn
      <3> QED
        BY <3>1, <3>2, <3>3, <3>4
    <2>5. DetectOK(d)'
      BY <1>4, <2>1, <2>3, <2>4 DEF ClientOK, DetectOK, Detecting, At
    <2>6. CallOK(d)'
      BY <1>4, <2>2, <2>3 DEF ClientOK, CallOK, TouchesOwn, Owns
    <2>7. SentOK(d)'
      BY <2>1, <2>3, <2>4 DEF ClientOK, SentOK, Detecting
    <2> QED
      BY <2>5, <2>6, <2>7 DEF ClientOK
  <1>8. ClientOK(c)'
    <2>1. CallOK(c)'
      BY <1>1, <1>4 DEF CallOK, At, InTransaction
    <2> QED
      BY <2>1 DEF OwnAfter, ClientOK
  <1>9. ExaminedOK'
    BY <1>1, <1>4 DEF OwnerInv, ExaminedOK, TouchesOwn, OwnAfter
  <1>10. CopiesOK'
    BY DEF OwnerInv, CopiesOK, TouchesOwn, OwnAfter
  <1> QED
    BY <1>6, <1>7, <1>8, <1>9, <1>10 DEF ClientsOK

\* What is known of a client whose detection is under way.
LEMMA AtWork ==
  ASSUME OwnerInv, NEW c \in Client, ~Detecting(c, "none")
  PROVE  /\ detect[c] \in Detection /\ MyEvent(c) \in Event
         /\ MyEvent(c) \in RecordedEvents /\ KeyOf[MyEvent(c)] \in Key
         /\ At(c, "idle") /\ DetectOK(c) /\ SentOK(c)
         /\ inflight[MyEvent(c)] \in Nat /\ topic[MyEvent(c)] \in Nat
         /\ inflight[MyEvent(c)] + topic[MyEvent(c)] <= MaxPublish
  BY ServiceAssumption DEF OwnerInv, PipelineTypes, ClientsOK, ClientOK, DetectOK, CopiesOK,
     RecordedEvents

\* A detection that ends leaves nothing behind at its client.
LEMMA EndOfWork ==
  ASSUME NEW c \in Client, detect'[c] = NoDetection
  PROVE  DetectOK(c)' /\ SentOK(c)'
  BY DEF DetectOK, SentOK, Detecting, NoDetection

LEMMA NoDetectionType == NoDetection \in Detection
  BY EmptySeq, PipelineAssumption DEF NoDetection, Detection

\* A step of a detection moves the client on, and keeps the types of what it
\* writes.
Effect(c) ==
  /\ \E x \in Detection : Moves(c, x)
  /\ TouchesOwn(c)
  /\ OwnAfter(c)
  /\ anomalies' \subseteq Finding
  /\ alerts' \subseteq [event : Event, severity : Severe]
  /\ UNCHANGED faults \/ Fault

LEMMA ReadRowEffect ==
  ASSUME OwnerInv, NEW c \in Client, ReadRow(c)
  PROVE  Effect(c)
  <1> DEFINE x == [[detect[c] EXCEPT !.stage = "rules"]
                     EXCEPT !.seen = quantity[KeyOf[MyEvent(c)]]]
  <1>1. ~Detecting(c, "none") /\ detect[c].stage = "row"
    BY DEF ReadRow, Detecting
  <1>2. quantity[KeyOf[MyEvent(c)]] \in Int
    BY <1>1, AtWork DEF OwnerInv, ServiceInv, LockInv, ServiceTypeOK, StoreTypeOK
  <1>3. x \in Detection /\ x.stage = "rules" /\ x.event = MyEvent(c)
    BY <1>1, <1>2, AtWork DEF Detection, MyEvent
  <1>4. detect' = [detect EXCEPT ![c] = x] /\ detect'[c] = x
    BY DEF ReadRow, OwnerInv, PipelineTypes
  <1>5. UNCHANGED <<serviceVars, timeline, anomalies, alerts, inflight, topic, examined, faults>>
    BY DEF ReadRow
  <1> HIDE DEF x
  <1>6. Moves(c, x)
    BY <1>1, <1>3, <1>4, <1>5 DEF Moves
  <1>7. TouchesOwn(c)
    BY <1>5 DEF TouchesOwn, OwnerInv, PipelineTypes
  <1>8. RecordedEvents' = RecordedEvents /\ call' = call
    BY <1>5 DEF RecordedEvents, Recorded, serviceVars, storeVars
  <1>9. DetectOK(c)' /\ SentOK(c)'
    BY <1>1, <1>3, <1>4, <1>5, <1>8, AtWork DEF DetectOK, SentOK, Detecting, At, MyEvent
  <1>10. OwnAfter(c)
    BY <1>1, <1>5, <1>9, AtWork DEF OwnAfter, OwnerInv, CopiesOK
  <1> QED
    BY <1>3, <1>5, <1>6, <1>7, <1>10 DEF Effect, OwnerInv, PipelineTypes

LEMMA ExamineEffect ==
  ASSUME OwnerInv, NEW c \in Client, RunRules(c) \/ RuleError(c)
  PROVE  Effect(c)
  <1> DEFINE e == MyEvent(c)
             S == Findable(e, detect[c].seen)
  <1>1. Detecting(c, "rules") /\ (UNCHANGED faults \/ Fault)
    BY ExamineStep
  <1>2. PICK found \in Seq(S) : Keep(c, found)
    BY ExamineStep
  <1> DEFINE y == [detect[c] EXCEPT !.stage = "persist", !.seen = 0, !.found = found]
             x == IF found = <<>> THEN NoDetection ELSE y
  <1>3. ~Detecting(c, "none") /\ detect[c].stage = "rules"
    BY <1>1 DEF Detecting
  <1>4. found \in Seq(Finding) /\ \A i \in DOMAIN found : found[i].event = e
    <2>1. S \subseteq Finding /\ \A z \in S : z.event = e
      BY DEF Findable
    <2> HIDE DEF S
    <2>2. found \in Seq(Finding)
      BY <2>1, SeqMonotonic
    <2>3. \A i \in DOMAIN found : found[i] \in S
      BY InSet
    <2> QED
      BY <2>1, <2>2, <2>3
  <1> HIDE DEF S
  <1>5. /\ y \in Detection /\ y.stage = "persist" /\ y.event = e /\ y.found = found
    <2>1. detect[c] \in Detection /\ found \in Seq(Finding)
      BY <1>3, <1>4, AtWork
    <2> DEFINE old == detect[c]
    <2>2. old = [stage |-> old.stage, event |-> old.event, seen |-> old.seen,
                 found |-> old.found, attempt |-> old.attempt]
      BY <2>1 DEF Detection
    <2> HIDE DEF old
    <2>3. y = [stage |-> "persist", event |-> old.event, seen |-> 0, found |-> found,
               attempt |-> old.attempt]
      <3>1. y = [old EXCEPT !.stage = "persist", !.seen = 0, !.found = found]
        BY DEF old
      <3> HIDE DEF y
      <3> QED
        BY <2>2, <3>1
    <2> USE DEF old
    <2> HIDE DEF y
    <2> QED
      BY <2>1, <2>3 DEF Detection, MyEvent
  <1>6. detect' = [detect EXCEPT ![c] = x] /\ detect'[c] = x
    BY <1>2 DEF Keep, OwnerInv, PipelineTypes
  <1>7. /\ examined' = examined \cup {e}
        /\ UNCHANGED <<serviceVars, timeline, anomalies, alerts, inflight, topic>>
    BY <1>2 DEF Keep
  <1> HIDE DEF y
  <1>8. x \in Detection
    BY <1>5, NoDetectionType
  <1>9. Moves(c, x)
    BY <1>3, <1>5, <1>6, <1>7, <1>8 DEF Moves
  <1>10. TouchesOwn(c)
    BY <1>7 DEF TouchesOwn, OwnerInv, PipelineTypes
  <1>11. RecordedEvents' = RecordedEvents /\ call' = call
    BY <1>7 DEF RecordedEvents, Recorded, serviceVars, storeVars
  <1>12. e \notin examined /\ ~HasAnomaly(e) /\ inflight[e] = 0 /\ topic[e] = 0
    BY <1>3, AtWork DEF DetectOK, HasAnomaly, OwnerInv, ExaminedOK, CopiesOK
  <1>13. DetectOK(c)' /\ SentOK(c)'
    <2>1. CASE found = <<>>
      BY <1>6, <2>1, EndOfWork
    <2>2. CASE found # <<>>
      <3>1. detect'[c] = y /\ \A f : HasAnomaly(f)' <=> HasAnomaly(f)
        BY <1>6, <1>7, <2>2 DEF HasAnomaly
      <3>2. DetectOK(c)'
        BY <1>3, <1>4, <1>5, <1>7, <1>11, <1>12, <2>2, <3>1, AtWork
           DEF DetectOK, Detecting, At, MyEvent, HasAnomaly
      <3> QED
        BY <1>5, <1>7, <1>12, <3>1, <3>2 DEF SentOK, Detecting, MyEvent
    <2> QED
      BY <2>1, <2>2
  <1>14. OwnAfter(c)
    BY <1>3, <1>7, <1>13, AtWork DEF OwnAfter
  <1> QED
    BY <1>1, <1>7, <1>8, <1>9, <1>10, <1>14 DEF Effect, OwnerInv, PipelineTypes

LEMMA PersistEffect ==
  ASSUME OwnerInv, NEW c \in Client, PersistAnomaly(c) \/ PersistConflict(c)
  PROVE  Effect(c)
  <1> DEFINE e == MyEvent(c)
             new == Head(detect[c].found)
             y == [detect[c] EXCEPT !.stage = "alert"]
  <1>1. ~Detecting(c, "none") /\ detect[c].stage = "persist"
    BY DEF PersistAnomaly, PersistConflict, Detecting
  <1>2. /\ ~HasAnomaly(e) /\ e \in examined /\ detect[c].found # <<>>
        /\ inflight[e] = 0 /\ topic[e] = 0
    BY <1>1, AtWork DEF DetectOK, SentOK, Detecting
  <1>3. new \in Finding /\ new.event = e
    <2>1. detect[c].found \in Seq(Finding) /\ detect[c].found # <<>>
      BY <1>1, <1>2, AtWork DEF Detection
    <2>2. 1 \in DOMAIN detect[c].found /\ new = detect[c].found[1]
      BY <2>1, LenProperties, EmptySeq
    <2> QED
      BY <1>1, <2>1, <2>2, InSet, AtWork DEF DetectOK
  <1>4. /\ y \in Detection /\ y.stage = "alert" /\ y.event = e
        /\ y.found = detect[c].found /\ y.attempt = detect[c].attempt
    BY <1>1, AtWork DEF Detection, MyEvent
  <1> HIDE DEF y
  <1>5. PICK x \in {y, NoDetection} :
          /\ detect' = [detect EXCEPT ![c] = x]
          /\ x = y => new.severity \in Severe
          /\ anomalies' \in {anomalies, anomalies \cup {new}}
          /\ UNCHANGED <<serviceVars, timeline, alerts, inflight, topic, examined, faults>>
    <2>1. CASE PersistAnomaly(c)
      <3>1. /\ anomalies' = anomalies \cup {new}
            /\ UNCHANGED <<serviceVars, timeline, alerts, inflight, topic, examined, faults>>
        BY <2>1, <1>2 DEF PersistAnomaly
      <3>2. CASE new.severity \in Severe
        <4>1. detect' = [detect EXCEPT ![c] = y]
          BY <2>1, <1>2, <3>2 DEF PersistAnomaly, y
        <4> QED
          BY <3>1, <3>2, <4>1
      <3>3. CASE new.severity \notin Severe
        <4>1. detect' = [detect EXCEPT ![c] = NoDetection]
          BY <2>1, <1>2, <3>3 DEF PersistAnomaly, Leave
        <4>2. y # NoDetection
          BY <1>4 DEF NoDetection
        <4> QED
          BY <3>1, <4>1, <4>2
      <3> QED
        BY <3>2, <3>3
    <2>2. CASE PersistConflict(c)
      <3>1. y # NoDetection
        BY <1>4 DEF NoDetection
      <3> QED
        BY <2>2, <3>1 DEF PersistConflict, Leave
    <2> QED
      BY <2>1, <2>2
  <1>6. x \in Detection /\ detect'[c] = x
    BY <1>4, <1>5, NoDetectionType DEF OwnerInv, PipelineTypes
  <1>7. Moves(c, x)
    BY <1>1, <1>4, <1>5, <1>6 DEF Moves
  <1>8. TouchesOwn(c)
    BY <1>3, <1>5 DEF TouchesOwn, OwnerInv, PipelineTypes
  <1>9. RecordedEvents' = RecordedEvents /\ call' = call
    BY <1>5 DEF RecordedEvents, Recorded, serviceVars, storeVars
  <1>10. DetectOK(c)' /\ SentOK(c)'
    <2>1. CASE x = NoDetection
      BY <1>6, <2>1, EndOfWork
    <2>2. CASE x = y
      <3>1. new.severity \in Severe
        BY <1>5, <2>2
      <3>2. DetectOK(c)'
        BY <1>1, <1>2, <1>4, <1>5, <1>6, <1>9, <2>2, <3>1, AtWork
           DEF DetectOK, Detecting, At, MyEvent
      <3> QED
        BY <1>2, <1>4, <1>5, <1>6, <2>2, <3>2 DEF SentOK, Detecting, MyEvent
    <2> QED
      BY <2>1, <2>2
  <1>11. OwnAfter(c)
    BY <1>1, <1>2, <1>5, <1>10, AtWork DEF OwnAfter
  <1>12. anomalies' \subseteq Finding
    BY <1>3, <1>5 DEF OwnerInv, PipelineTypes
  <1> QED
    BY <1>5, <1>6, <1>7, <1>8, <1>11, <1>12 DEF Effect, OwnerInv, PipelineTypes

\* A copy of an alert in the producer's hands becomes one in the topic.
LEMMA DeliverFacts ==
  ASSUME inflight \in [Event -> Nat], topic \in [Event -> Nat], NEW e \in Event, Deliver(e)
  PROVE  /\ inflight' \in [Event -> Nat] /\ topic' \in [Event -> Nat]
         /\ inflight[e] > 0 /\ inflight'[e] = inflight[e] - 1 /\ topic'[e] = topic[e] + 1
         /\ \A f \in Event \ {e} : inflight'[f] = inflight[f] /\ topic'[f] = topic[f]
  <1>1. inflight[e] - 1 \in Nat /\ topic[e] + 1 \in Nat
    BY DEF Deliver
  <1> QED
    BY <1>1 DEF Deliver

\* The alert of a severe anomaly is an alert.
LEMMA StoreAlertType ==
  ASSUME OwnerInv, NEW c \in Client, detect[c].stage = "alert", StoreAlert(c)
  PROVE  alerts' \subseteq [event : Event, severity : Severe]
  <1>1. MyEvent(c) \in Event /\ Head(detect[c].found).severity \in Severe
    BY AtWork DEF DetectOK, Detecting
  <1> QED
    BY <1>1 DEF StoreAlert, OwnerInv, PipelineTypes

LEMMA CreateAlertEffect ==
  ASSUME OwnerInv, NEW c \in Client, CreateAlert(c)
  PROVE  Effect(c)
  <1> DEFINE e == MyEvent(c)
             x == [[detect[c] EXCEPT !.stage = "publish"] EXCEPT !.attempt = 1]
  <1>1. ~Detecting(c, "none") /\ detect[c].stage = "alert"
    BY DEF CreateAlert, Detecting
  <1>2. e \in Event /\ inflight[e] = 0 /\ topic[e] = 0
    BY <1>1, AtWork DEF SentOK
  <1>3. x \in Detection /\ x.stage = "publish" /\ x.event = e /\ x.found = detect[c].found
        /\ x.attempt = 1
    <2>1. 1 \in 0 .. MaxPublish
      BY PipelineAssumption
    <2> QED
      BY <1>1, <2>1, AtWork DEF Detection, MyEvent
  <1>4. detect' = [detect EXCEPT ![c] = x] /\ detect'[c] = x
    BY DEF CreateAlert, OwnerInv, PipelineTypes
  <1>5. /\ UNCHANGED <<serviceVars, timeline, anomalies, topic, examined, faults>>
        /\ inflight' = [inflight EXCEPT ![e] = inflight[e] + 1] /\ StoreAlert(c)
    BY DEF CreateAlert
  <1> HIDE DEF x
  <1>6. Moves(c, x)
    BY <1>1, <1>3, <1>4, <1>5 DEF Moves
  <1>7. /\ inflight' \in [Event -> Nat] /\ topic' \in [Event -> Nat]
        /\ inflight'[e] = 1 /\ topic'[e] = 0
        /\ \A f \in Event \ {e} : inflight'[f] = inflight[f] /\ topic'[f] = topic[f]
    BY <1>2, <1>5 DEF OwnerInv, PipelineTypes
  <1>8. TouchesOwn(c)
    BY <1>5, <1>7 DEF TouchesOwn
  <1>9. RecordedEvents' = RecordedEvents /\ call' = call
    BY <1>5 DEF RecordedEvents, Recorded, serviceVars, storeVars
  <1>10. DetectOK(c)'
    BY <1>1, <1>3, <1>4, <1>5, <1>9, AtWork DEF DetectOK, Detecting, At, MyEvent
  <1>11. SentOK(c)'
    BY <1>3, <1>4, <1>7 DEF SentOK, Detecting, MyEvent
  <1>12. OwnAfter(c)
    <2>1. e \in examined /\ 1 <= MaxPublish
      BY <1>1, AtWork, PipelineAssumption DEF DetectOK
    <2> QED
      BY <1>5, <1>7, <1>10, <1>11, <2>1 DEF OwnAfter
  <1>13. alerts' \subseteq [event : Event, severity : Severe]
    BY <1>1, <1>5, StoreAlertType
  <1> QED
    BY <1>3, <1>5, <1>6, <1>8, <1>12, <1>13 DEF Effect, OwnerInv, PipelineTypes

\* The detection ends, and its event is left in order.
LEMMA LeaveEffect ==
  ASSUME OwnerInv, NEW c \in Client, ~Detecting(c, "none"), Leave(c),
         UNCHANGED <<serviceVars, timeline, examined>>,
         TouchesOwn(c), anomalies' \subseteq Finding,
         \A a \in anomalies' \ anomalies : MyEvent(c) \in examined,
         alerts' \subseteq [event : Event, severity : Severe],
         inflight'[MyEvent(c)] + topic'[MyEvent(c)] <= MaxPublish,
         MyEvent(c) \notin examined => inflight'[MyEvent(c)] = 0 /\ topic'[MyEvent(c)] = 0,
         UNCHANGED faults \/ Fault
  PROVE  Effect(c)
  <1>1. detect' = [detect EXCEPT ![c] = NoDetection] /\ detect'[c] = NoDetection
    BY DEF Leave, OwnerInv, PipelineTypes
  <1>2. Moves(c, NoDetection)
    BY <1>1, NoDetectionType DEF Moves
  <1>3. DetectOK(c)' /\ SentOK(c)'
    BY <1>1, EndOfWork
  <1>4. OwnAfter(c)
    BY <1>3 DEF OwnAfter
  <1> QED
    BY <1>2, <1>4, NoDetectionType DEF Effect

LEMMA ErrorEffect ==
  ASSUME OwnerInv, NEW c \in Client, DetectionError(c)
  PROVE  Effect(c)
  <1>1. /\ ~Detecting(c, "none") /\ Leave(c) /\ Fault
        /\ UNCHANGED <<serviceVars, timeline, inflight, topic, examined>>
    BY DEF DetectionError, Detecting
  <1>2. /\ inflight'[MyEvent(c)] + topic'[MyEvent(c)] <= MaxPublish
        /\ MyEvent(c) \notin examined => inflight'[MyEvent(c)] = 0 /\ topic'[MyEvent(c)] = 0
    BY <1>1, AtWork DEF OwnerInv, CopiesOK
  <1>3. CASE UNCHANGED <<anomalies, alerts>>
    <2>1. TouchesOwn(c)
      BY <1>1, <1>3 DEF TouchesOwn, OwnerInv, PipelineTypes
    <2> QED
      BY <1>1, <1>2, <1>3, <2>1, LeaveEffect DEF OwnerInv, PipelineTypes
  <1>4. CASE /\ Detecting(c, "persist")
             /\ Len(detect[c].found) = 1
             /\ anomalies' = anomalies \cup {Head(detect[c].found)}
             /\ UNCHANGED alerts
    <2> DEFINE new == Head(detect[c].found)
    <2>1. new \in Finding /\ new.event = MyEvent(c) /\ MyEvent(c) \in examined
      <3>1. /\ detect[c].found \in Seq(Finding) /\ MyEvent(c) \in examined
            /\ \A i \in DOMAIN detect[c].found : detect[c].found[i].event = MyEvent(c)
        BY <1>4, AtWork DEF Detection, DetectOK, Detecting
      <3>2. 1 \in DOMAIN detect[c].found /\ new = detect[c].found[1]
        BY <1>4, <3>1, LenProperties, EmptySeq
      <3> QED
        BY <3>1, <3>2, InSet
    <2>2. TouchesOwn(c)
      BY <1>1, <1>4, <2>1 DEF TouchesOwn, OwnerInv, PipelineTypes
    <2>3. anomalies' \subseteq Finding
      BY <1>4, <2>1 DEF OwnerInv, PipelineTypes
    <2> QED
      BY <1>1, <1>2, <1>4, <2>1, <2>2, <2>3, LeaveEffect DEF OwnerInv, PipelineTypes
  <1>5. CASE Detecting(c, "alert") /\ StoreAlert(c) /\ UNCHANGED anomalies
    <2>1. TouchesOwn(c)
      BY <1>1, <1>5 DEF TouchesOwn, OwnerInv, PipelineTypes
    <2>2. alerts' \subseteq [event : Event, severity : Severe]
      BY <1>5, StoreAlertType DEF Detecting
    <2> QED
      BY <1>1, <1>2, <1>5, <2>1, <2>2, LeaveEffect DEF OwnerInv, PipelineTypes
  <1> QED
    BY <1>3, <1>4, <1>5 DEF DetectionError

LEMMA PublishedEffect ==
  ASSUME OwnerInv, NEW c \in Client, Published(c)
  PROVE  Effect(c)
  <1>1. /\ ~Detecting(c, "none") /\ detect[c].stage = "publish" /\ Leave(c)
        /\ Deliver(MyEvent(c))
        /\ UNCHANGED <<serviceVars, timeline, anomalies, alerts, examined, faults>>
    BY DEF Published, Detecting
  <1>2. MyEvent(c) \in Event /\ MyEvent(c) \in examined
    BY <1>1, AtWork DEF DetectOK
  <1>3. /\ inflight' \in [Event -> Nat] /\ topic' \in [Event -> Nat]
        /\ inflight'[MyEvent(c)] = inflight[MyEvent(c)] - 1
        /\ topic'[MyEvent(c)] = topic[MyEvent(c)] + 1
        /\ \A f \in Event \ {MyEvent(c)} : inflight'[f] = inflight[f] /\ topic'[f] = topic[f]
    BY <1>1, <1>2, DeliverFacts DEF OwnerInv, PipelineTypes
  <1>4. TouchesOwn(c)
    BY <1>1, <1>3 DEF TouchesOwn
  <1>5. inflight'[MyEvent(c)] + topic'[MyEvent(c)] <= MaxPublish
    BY <1>1, <1>3, AtWork
  <1> QED
    BY <1>1, <1>2, <1>4, <1>5, LeaveEffect DEF OwnerInv, PipelineTypes

LEMMA TimeoutEffect ==
  ASSUME OwnerInv, NEW c \in Client, PublishTimeout(c)
  PROVE  Effect(c)
  <1> DEFINE e == MyEvent(c)
             n == detect[c].attempt
  <1>1. /\ ~Detecting(c, "none") /\ detect[c].stage = "publish" /\ Fault
        /\ UNCHANGED <<serviceVars, timeline, anomalies, alerts, topic, examined>>
    BY DEF PublishTimeout, Detecting
  <1>2. /\ e \in Event /\ e \in examined
        /\ inflight[e] > 0 /\ inflight[e] + topic[e] <= n
        /\ inflight[e] \in Nat /\ topic[e] \in Nat /\ n \in 0 .. MaxPublish
        /\ inflight[e] + topic[e] <= MaxPublish
    BY <1>1, AtWork DEF DetectOK, SentOK, Detecting, Detection
  <1>3. PICK kept \in {inflight[e], inflight[e] - 1} :
          IF n < MaxPublish
          THEN /\ inflight' = [inflight EXCEPT ![e] = kept + 1]
               /\ detect' = [detect EXCEPT ![c].attempt = @ + 1]
          ELSE /\ inflight' = [inflight EXCEPT ![e] = kept]
               /\ Leave(c)
    BY DEF PublishTimeout
  <1>4. kept \in Nat /\ kept <= inflight[e]
    BY <1>2, <1>3
  <1>5. CASE n < MaxPublish
    <2> DEFINE x == [detect[c] EXCEPT !.attempt = n + 1]
    <2>1. /\ inflight' = [inflight EXCEPT ![e] = kept + 1]
          /\ detect' = [detect EXCEPT ![c] = x] /\ detect'[c] = x
      BY <1>3, <1>5 DEF OwnerInv, PipelineTypes
    <2>2. /\ x \in Detection /\ x.stage = "publish" /\ x.event = e
          /\ x.found = detect[c].found /\ x.attempt = n + 1
      <3>1. n + 1 \in 0 .. MaxPublish
        BY <1>2, <1>5, PipelineAssumption
      <3> QED
        BY <1>1, <3>1, AtWork DEF Detection, MyEvent
    <2> HIDE DEF x
    <2>3. Moves(c, x)
      BY <1>1, <2>1, <2>2 DEF Moves
    <2>4. /\ inflight' \in [Event -> Nat] /\ topic' \in [Event -> Nat]
          /\ inflight'[e] = kept + 1 /\ topic'[e] = topic[e]
          /\ \A f \in Event \ {e} : inflight'[f] = inflight[f] /\ topic'[f] = topic[f]
      BY <1>1, <1>2, <1>4, <2>1 DEF OwnerInv, PipelineTypes
    <2>5. TouchesOwn(c)
      BY <1>1, <2>4 DEF TouchesOwn
    <2>6. RecordedEvents' = RecordedEvents /\ call' = call
      BY <1>1 DEF RecordedEvents, Recorded, serviceVars, storeVars
    <2>7. DetectOK(c)'
      BY <1>1, <1>2, <2>1, <2>2, <2>6, AtWork DEF DetectOK, Detecting, At, MyEvent
    <2>8. /\ inflight'[e] > 0
          /\ inflight'[e] + topic'[e] <= n + 1
          /\ inflight'[e] + topic'[e] <= MaxPublish
      BY <1>2, <1>4, <1>5, <2>4, PipelineAssumption
    <2>9. SentOK(c)'
      BY <2>1, <2>2, <2>8 DEF SentOK, Detecting, MyEvent
    <2>10. OwnAfter(c)
      BY <1>1, <1>2, <2>7, <2>8, <2>9 DEF OwnAfter
    <2> QED
      BY <1>1, <2>2, <2>3, <2>5, <2>10 DEF Effect, OwnerInv, PipelineTypes
  <1>6. CASE ~(n < MaxPublish)
    <2>1. inflight' = [inflight EXCEPT ![e] = kept] /\ Leave(c)
      BY <1>3, <1>6
    <2>2. /\ inflight' \in [Event -> Nat] /\ topic' \in [Event -> Nat]
          /\ inflight'[e] = kept /\ topic'[e] = topic[e]
          /\ \A f \in Event \ {e} : inflight'[f] = inflight[f] /\ topic'[f] = topic[f]
      BY <1>1, <1>2, <1>4, <2>1 DEF OwnerInv, PipelineTypes
    <2>3. TouchesOwn(c)
      BY <1>1, <2>2 DEF TouchesOwn
    <2>4. inflight'[e] + topic'[e] <= MaxPublish
      BY <1>2, <1>4, <2>2, PipelineAssumption
    <2> QED
      BY <1>1, <1>2, <2>1, <2>3, <2>4, LeaveEffect DEF OwnerInv, PipelineTypes
  <1> QED
    BY <1>5, <1>6

LEMMA DetectEffect ==
  ASSUME OwnerInv, NEW c \in Client, DetectStep(c)
  PROVE  Effect(c)
  BY ReadRowEffect, ExamineEffect, PersistEffect, CreateAlertEffect, ErrorEffect,
     PublishedEffect, TimeoutEffect DEF DetectStep

LEMMA FaultType ==
  ASSUME faults \in 0 .. MaxFaults, UNCHANGED faults \/ Fault
  PROVE  faults' \in 0 .. MaxFaults
  BY PipelineAssumption DEF Fault

\* The invariant survives every step of a detection.
LEMMA DetectStepKeeps ==
  ASSUME OwnerInv, NEW c \in Client, DetectStep(c)
  PROVE  /\ PipelineTypes' /\ ClientsOK' /\ SoleOwners' /\ ExaminedOK' /\ CopiesOK'
  <1>1. PICK x \in Detection : Moves(c, x)
    BY DetectEffect DEF Effect
  <1>2. Effect(c)
    BY DetectEffect
  <1>3. ClientsOK' /\ SoleOwners' /\ ExaminedOK' /\ CopiesOK'
    BY <1>1, <1>2, MoveKeeps DEF Effect
  <1>4. MyEvent(c) \in Event
    BY <1>1, AtWork DEF Moves
  <1>5. detect' \in [Client -> Detection]
    BY <1>1 DEF Moves, OwnerInv, PipelineTypes
  <1>6. timeline' = timeline
    BY <1>1 DEF Moves
  <1>7. examined' \subseteq Event /\ inflight' \in [Event -> Nat] /\ topic' \in [Event -> Nat]
    BY <1>2, <1>4 DEF Effect, TouchesOwn, OwnerInv, PipelineTypes
  <1>8. faults' \in 0 .. MaxFaults
    BY <1>2, FaultType DEF Effect, OwnerInv, PipelineTypes
  <1>9. PipelineTypes'
    BY <1>2, <1>5, <1>6, <1>7, <1>8 DEF Effect, OwnerInv, PipelineTypes
  <1> QED
    BY <1>3, <1>9

\* So does a delivery that nobody waits for any more.
LEMMA LateKeeps ==
  ASSUME OwnerInv, NEW e \in Event, DeliveredLate(e)
  PROVE  /\ PipelineTypes' /\ ClientsOK' /\ SoleOwners' /\ ExaminedOK' /\ CopiesOK'
  <1>1. /\ UNCHANGED <<serviceVars, timeline, detect, anomalies, alerts, examined, faults>>
        /\ Deliver(e)
        /\ \A c \in Client : MyEvent(c) = e /\ Detecting(c, "publish") => inflight[e] >= 2
    BY DEF DeliveredLate
  <1>2. /\ inflight' \in [Event -> Nat] /\ topic' \in [Event -> Nat]
        /\ inflight[e] > 0 /\ inflight'[e] = inflight[e] - 1 /\ topic'[e] = topic[e] + 1
        /\ \A f \in Event \ {e} : inflight'[f] = inflight[f] /\ topic'[f] = topic[f]
    BY <1>1, DeliverFacts DEF OwnerInv, PipelineTypes
  <1>3. RecordedEvents' = RecordedEvents /\ call' = call
    BY <1>1 DEF RecordedEvents, Recorded, serviceVars, storeVars
  <1>4. PipelineTypes'
    BY <1>1, <1>2 DEF OwnerInv, PipelineTypes
  <1>5. SoleOwners' /\ ExaminedOK'
    BY <1>1, <1>3 DEF OwnerInv, SoleOwners, ExaminedOK, Owns, Detecting, MyEvent
  <1>6. CopiesOK'
    <2>1. inflight[e] \in Nat /\ topic[e] \in Nat
      BY DEF OwnerInv, PipelineTypes
    <2>2. inflight'[e] + topic'[e] = inflight[e] + topic[e] /\ inflight[e] # 0
      BY <1>2, <2>1
    <2> QED
      BY <1>1, <1>2, <2>2 DEF OwnerInv, CopiesOK
  <1>7. ASSUME NEW c \in Client
        PROVE  ClientOK(c)'
    <2>1. ClientOK(c)
      BY DEF OwnerInv, ClientsOK
    <2>2. DetectOK(c)' /\ CallOK(c)'
      BY <1>1, <1>3, <2>1 DEF ClientOK, DetectOK, CallOK, Detecting, MyEvent, At, HasAnomaly
    <2>3. SentOK(c)'
      <3>1. CASE Detecting(c, "none")
        BY <1>1, <3>1 DEF SentOK, Detecting
      <3>2. CASE MyEvent(c) # e /\ ~Detecting(c, "none")
        <4>1. MyEvent(c) \in Event
          BY <3>2, AtWork
        <4> QED
          BY <1>1, <1>2, <2>1, <3>2, <4>1 DEF ClientOK, SentOK, Detecting, MyEvent
      <3>3. CASE MyEvent(c) = e /\ Detecting(c, "publish")
        <4>1. detect[c].attempt \in Int /\ topic[e] \in Nat /\ inflight[e] \in Nat
          <5>1. detect[c] \in Detection
            BY DEF OwnerInv, PipelineTypes
          <5> QED
            BY <5>1, PipelineAssumption DEF OwnerInv, PipelineTypes, Detection
        <4>2. inflight[e] >= 2 /\ inflight[e] + topic[e] <= detect[c].attempt
          BY <1>1, <2>1, <3>3 DEF ClientOK, SentOK
        <4>3. inflight'[e] > 0 /\ inflight'[e] + topic'[e] <= detect[c].attempt
          BY <1>2, <4>1, <4>2
        <4> QED
          BY <1>1, <3>3, <4>3 DEF SentOK, Detecting, MyEvent
      <3>4. CASE MyEvent(c) = e /\ detect[c].stage \in {"row", "rules", "persist", "alert"}
        BY <1>1, <1>2, <2>1, <3>4 DEF ClientOK, SentOK, Detecting, MyEvent
      <3>5. detect[c].stage \in {"none", "row", "rules", "persist", "alert", "publish"}
        BY DEF OwnerInv, PipelineTypes, Detection
      <3> QED
        BY <3>1, <3>2, <3>3, <3>4, <3>5 DEF Detecting
    <2> QED
      BY <2>2, <2>3 DEF ClientOK
  <1> QED
    BY <1>4, <1>5, <1>6, <1>7 DEF ClientsOK

-----------------------------------------------------------------------------
(* The steps of a call. *)

\* Whoever owns an event owns one that has changed the stock.
LEMMA OwnedIsRecorded ==
  ASSUME OwnerInv, NEW c \in Client, NEW e \in Event, Owns(c, e)
  PROVE  e \in RecordedEvents
  BY DEF OwnerInv, ClientsOK, ClientOK, DetectOK, Owns, SuccessIsDurable, RecordedEvents

\* A step of client c that keeps the rest of the pipeline as it is, and by which c
\* gets no event but one that is new in the history.
Calls(c) ==
  /\ UNCHANGED <<anomalies, alerts, inflight, topic, examined>>
  /\ RecordedEvents \subseteq RecordedEvents'
  /\ \A d \in Client : d # c => call'[d] = call[d] /\ detect'[d] = detect[d]
  /\ \A e \in Event : Owns(c, e)' => Owns(c, e) \/ e \notin RecordedEvents
  /\ ClientOK(c)'

LEMMA CallKeeps ==
  ASSUME OwnerInv, NEW c \in Client, Calls(c)
  PROVE  ClientsOK' /\ SoleOwners' /\ ExaminedOK' /\ CopiesOK'
  <1>1. /\ UNCHANGED <<anomalies, alerts, inflight, topic, examined>>
        /\ RecordedEvents \subseteq RecordedEvents'
        /\ \A d \in Client : d # c => call'[d] = call[d] /\ detect'[d] = detect[d]
    BY DEF Calls
  <1>2. ExaminedOK' /\ CopiesOK'
    BY <1>1 DEF OwnerInv, ExaminedOK, CopiesOK
  <1>3. ASSUME NEW d \in Client, d # c
        PROVE  ClientOK(d)'
    <2>1. ClientOK(d) /\ call'[d] = call[d] /\ detect'[d] = detect[d]
      BY <1>1, <1>3 DEF OwnerInv, ClientsOK
    <2>2. DetectOK(d)'
      BY <1>1, <2>1 DEF ClientOK, DetectOK, Detecting, At, MyEvent, HasAnomaly
    <2>3. CallOK(d)'
      BY <1>1, <2>1 DEF ClientOK, CallOK
    <2>4. SentOK(d)'
      BY <1>1, <2>1 DEF ClientOK, SentOK, Detecting, MyEvent
    <2> QED
      BY <2>2, <2>3, <2>4 DEF ClientOK
  <1>4. ASSUME NEW d \in Client, NEW e \in Event, d # c
        PROVE  Owns(d, e)' <=> Owns(d, e)
    BY <1>1, <1>4 DEF Owns, Detecting, MyEvent
  <1>5. ASSUME NEW d \in Client, NEW e \in Event, d # c, Owns(d, e)', Owns(c, e)'
        PROVE  FALSE
    <2>1. Owns(d, e) /\ e \in RecordedEvents
      BY <1>4, <1>5, OwnedIsRecorded
    <2>2. Owns(c, e)
      BY <1>5, <2>1 DEF Calls
    <2> QED
      BY <1>5, <2>1, <2>2 DEF OwnerInv, SoleOwners
  <1>6. SoleOwners'
    BY <1>4, <1>5 DEF OwnerInv, SoleOwners
  <1> QED
    BY <1>2, <1>3, <1>6 DEF ClientsOK, Calls

\* A client in a call does not detect anything, and is not left with an event when
\* its call ends.
LEMMA InCall ==
  ASSUME OwnerInv, NEW c \in Client, ~At(c, "idle")
  PROVE  detect[c] = NoDetection /\ call[c].event \in Event
  BY RowInUse DEF OwnerInv, ClientsOK, ClientOK, DetectOK, ServiceInv, LockInv

\* The times of transactions.
LEMMA StampType ==
  ASSUME OwnerInv, NEW c \in Client, ~At(c, "idle"), Stamp(c)
  PROVE  timeline' \in Seq(Client \cup Event)
  <1> DEFINE S == Client \cup Event
             e == call[c].event
  <1>1. timeline \in Seq(S) /\ c \in S /\ e \in S
    BY InCall DEF OwnerInv, PipelineTypes
  <1> HIDE DEF S, e
  <1>2. ReplaceAll(timeline, c, e) \in Seq(S)
    <2>1. Len(timeline) \in Nat /\ \A i \in 1 .. Len(timeline) : timeline[i] \in S
      BY <1>1, LenProperties, ElementOfSeq
    <2>2. ReplaceAll(timeline, c, e) =
            [i \in 1 .. Len(timeline) |-> IF timeline[i] = c THEN e ELSE timeline[i]]
      BY DEF ReplaceAll
    <2> QED
      BY <1>1, <2>1, <2>2, IsASeq
  <1>3. RemoveFirst(timeline, c) \in Seq(S)
    BY <1>1, RemoveFirstFacts
  <1>4. Append(timeline, c) \in Seq(S)
    BY <1>1, AppendProperties
  <1> QED
    BY <1>1, <1>2, <1>3, <1>4 DEF Stamp, S, e

\* What a step of a call keeps.
CallEffect(c) ==
  /\ timeline' \in Seq(Client \cup Event)
  /\ detect' \in [Client -> Detection]
  /\ UNCHANGED faults \/ Fault
  /\ Calls(c)

LEMMA StartEffect ==
  ASSUME OwnerInv, NEW c \in Client, NEW e \in Event, CallService(c, e)
  PROVE  CallEffect(c)
  <1>1. /\ detect[c].stage = "none" /\ call[c].stage = "idle"
        /\ call' = [call EXCEPT ![c] = [stage |-> "lookup", event |-> e,
                                        quantity |-> 0, duplicate |-> FALSE]]
        /\ UNCHANGED <<storeVars, cache, timeline, detectionVars, faults>>
    BY DEF CallService, Start, Detecting, At
  <1>2. call \in [Client -> Call] /\ detect \in [Client -> Detection]
    BY DEF OwnerInv, PipelineTypes, ServiceInv, LockInv, ServiceTypeOK
  <1>3. call'[c].stage = "lookup" /\ call'[c].duplicate = FALSE
    BY <1>1, <1>2
  <1>4. \A d \in Client : d # c => call'[d] = call[d]
    BY <1>1, <1>2
  <1>5. detect'[c] = NoDetection /\ UNCHANGED <<detect, examined>>
    BY <1>1 DEF detectionVars, OwnerInv, ClientsOK, ClientOK, DetectOK, Detecting
  <1>6. ClientOK(c)'
    BY <1>3, <1>5, EndOfWork DEF ClientOK, CallOK
  <1>7. \A f \in Event : ~Owns(c, f)'
    BY <1>3, <1>5 DEF Owns, Detecting, NoDetection
  <1> QED
    BY <1>1, <1>2, <1>4, <1>5, <1>6, <1>7
       DEF CallEffect, Calls, detectionVars, OwnerInv, PipelineTypes, RecordedEvents,
           Recorded, storeVars

LEMMA ServeEffect ==
  ASSUME OwnerInv, NEW c \in Client, Serve(c) \/ ServeFault(c)
  PROVE  CallEffect(c)
  <1>1. /\ Proceed(c) \/ Fail(c)
        /\ Stamp(c) /\ UNCHANGED detectionVars
        /\ UNCHANGED faults \/ Fault
    BY DEF Serve, ServeFault
  <1>2. ServiceTypeOK /\ ServiceInv
    BY DEF OwnerInv, ServiceInv, LockInv
  <1>3. /\ OthersWait(c) /\ ~At(c, "idle") /\ call'[c].stage # "idle"
        /\ call'[c].event = call[c].event
    BY <1>1, <1>2, CallGoesOn DEF At
  <1>4. detect'[c] = NoDetection /\ detect[c] = NoDetection /\ UNCHANGED <<detect, examined>>
    BY <1>1, <1>3, InCall DEF detectionVars
  <1>5. timeline' \in Seq(Client \cup Event)
    BY <1>1, <1>3, StampType
  <1>6. RecordedEvents \subseteq RecordedEvents'
    <2>1. [ServiceNext]_serviceVars
      BY <1>1 DEF ServiceNext
    <2> QED
      BY <1>2, <2>1, RecordedEventsGrow
  <1>7. CommitStep(c) => call[c].event \notin RecordedEvents
    <2> SUFFICES ASSUME CommitStep(c) PROVE call[c].event \notin RecordedEvents
      OBVIOUS
    <2>1. ~Recorded(call[c].event)
      BY <1>2, CommitEffect
    <2> QED
      BY <2>1 DEF RecordedEvents
  <1>8. CallOK(c)
    BY DEF OwnerInv, ClientsOK, ClientOK
  <1>9. \/ call'[c].stage \in InTransaction /\ call[c].stage \in InTransaction
           /\ call'[c].duplicate = call[c].duplicate
        \/ call'[c].stage \in {"transient", "rejected"}
        \/ call'[c].stage \in {"sync", "done"} /\ call'[c].duplicate
        \/ call'[c].stage = "done" /\ call[c].stage = "sync"
           /\ call'[c].duplicate = call[c].duplicate
        \/ CommitStep(c) /\ call[c].stage = "apply" /\ call'[c].stage = "sync"
           /\ call'[c].duplicate = call[c].duplicate
    BY <1>1, <1>2, ServeCases
  <1>10. CallOK(c)'
    <2>1. CASE CommitStep(c) /\ call[c].stage = "apply" /\ call'[c].stage = "sync"
               /\ call'[c].duplicate = call[c].duplicate
      BY <1>3, <1>4, <1>7, <2>1 DEF CallOK, InTransaction, OwnerInv, ExaminedOK
    <2>2. CASE call'[c].stage = "done" /\ call[c].stage = "sync"
               /\ call'[c].duplicate = call[c].duplicate
      BY <1>3, <1>4, <1>8, <2>2 DEF CallOK, InTransaction
    <2> QED
      BY <1>4, <1>8, <1>9, <2>1, <2>2 DEF CallOK, InTransaction
  <1>11. ClientOK(c)'
    BY <1>4, <1>10, EndOfWork DEF ClientOK
  <1>12. \A e \in Event : Owns(c, e)' => Owns(c, e) \/ e \notin RecordedEvents
    <2> TAKE e \in Event
    <2> HAVE Owns(c, e)'
    <2>1. call'[c].stage \in {"sync", "done"} /\ ~call'[c].duplicate /\ call[c].event = e
      BY <1>3, <1>4 DEF Owns, Detecting, NoDetection
    <2> QED
      BY <1>7, <1>9, <2>1 DEF Owns, InTransaction
  <1> QED
    BY <1>1, <1>3, <1>5, <1>6, <1>11, <1>12
       DEF CallEffect, Calls, detectionVars, OthersWait, OwnerInv, PipelineTypes

\* The end of a call, and its result.
LEMMA ReturnEffect ==
  ASSUME OwnerInv, NEW c \in Client, TakeResult(c) \/ TakeNothing(c)
  PROVE  CallEffect(c)
  <1> DEFINE e == call[c].event
             x == [NoDetection EXCEPT !.stage = "row", !.event = e]
  <1>1. /\ ~At(c, "idle") /\ call' = [call EXCEPT ![c] = NoCall]
        /\ UNCHANGED <<storeVars, cache, timeline, anomalies, alerts, inflight, topic,
                       examined, faults>>
    BY DEF TakeResult, TakeNothing, Return, Returned, At, detectionVars
  <1>2. call \in [Client -> Call] /\ detect \in [Client -> Detection]
    BY DEF OwnerInv, PipelineTypes, ServiceInv, LockInv, ServiceTypeOK
  <1>3. call'[c] = NoCall /\ \A d \in Client : d # c => call'[d] = call[d]
    BY <1>1, <1>2
  <1>4. detect[c] = NoDetection /\ e \in Event
    BY <1>1, InCall
  <1>5. x \in Detection /\ x.stage = "row" /\ x.event = e
    BY <1>4, NoDetectionType DEF Detection, NoDetection
  <1>6. RecordedEvents' = RecordedEvents
    BY <1>1 DEF RecordedEvents, Recorded, storeVars
  <1>7. CallOK(c)'
    BY <1>3 DEF CallOK, NoCall, InTransaction
  <1> HIDE DEF x
  <1>8. CASE TakeResult(c)
    <2>1. call[c].stage = "done" /\ ~call[c].duplicate /\ detect' = [detect EXCEPT ![c] = x]
      BY <1>8 DEF TakeResult, At, x
    <2>2. detect'[c] = x /\ \A d \in Client : d # c => detect'[d] = detect[d]
      BY <1>2, <2>1
    <2>3. e \in RecordedEvents /\ e \notin examined
      BY <1>4, <2>1 DEF OwnerInv, SuccessIsDurable, RecordedEvents, ClientsOK, ClientOK, CallOK
    <2>4. DetectOK(c)' /\ SentOK(c)'
      BY <1>1, <1>3, <1>5, <1>6, <2>2, <2>3 DEF DetectOK, SentOK, Detecting, MyEvent, At, NoCall
    <2>5. \A f \in Event : Owns(c, f)' => Owns(c, f)
      BY <1>3, <1>5, <2>1, <2>2 DEF Owns, MyEvent, NoCall
    <2> QED
      BY <1>1, <1>2, <1>3, <1>5, <1>6, <1>7, <2>1, <2>2, <2>4, <2>5
         DEF CallEffect, Calls, ClientOK, OwnerInv, PipelineTypes
  <1>9. CASE TakeNothing(c)
    <2>1. UNCHANGED detect
      BY <1>9 DEF TakeNothing, detectionVars
    <2>2. DetectOK(c)' /\ SentOK(c)'
      BY <1>4, <2>1, EndOfWork
    <2>3. \A f \in Event : ~Owns(c, f)'
      BY <1>3, <1>4, <2>1 DEF Owns, Detecting, NoDetection, NoCall
    <2> QED
      BY <1>1, <1>2, <1>3, <1>6, <1>7, <2>1, <2>2, <2>3
         DEF CallEffect, Calls, ClientOK, OwnerInv, PipelineTypes
  <1> QED
    BY <1>8, <1>9

LEMMA CrashEffect ==
  ASSUME OwnerInv, NEW c \in Client, Crash(c)
  PROVE  CallEffect(c)
  <1>1. /\ Fault /\ call' = [call EXCEPT ![c] = NoCall]
        /\ timeline' = RemoveFirst(timeline, c)
        /\ detect' = [detect EXCEPT ![c] = NoDetection]
        /\ UNCHANGED <<history, anomalies, alerts, inflight, topic, examined>>
    BY DEF Crash, Leave
  <1>2. call \in [Client -> Call] /\ detect \in [Client -> Detection]
    BY DEF OwnerInv, PipelineTypes, ServiceInv, LockInv, ServiceTypeOK
  <1>3. /\ call'[c] = NoCall /\ \A d \in Client : d # c => call'[d] = call[d]
        /\ detect'[c] = NoDetection /\ \A d \in Client : d # c => detect'[d] = detect[d]
        /\ detect' \in [Client -> Detection]
    BY <1>1, <1>2, NoDetectionType
  <1>4. RecordedEvents' = RecordedEvents
    BY <1>1 DEF RecordedEvents, Recorded
  <1>5. timeline' \in Seq(Client \cup Event)
    BY <1>1, RemoveFirstFacts DEF OwnerInv, PipelineTypes
  <1>6. CallOK(c)'
    BY <1>3 DEF CallOK, NoCall, InTransaction
  <1>7. \A f \in Event : ~Owns(c, f)'
    BY <1>3 DEF Owns, Detecting, NoDetection, NoCall
  <1> QED
    BY <1>1, <1>3, <1>4, <1>5, <1>6, <1>7, EndOfWork DEF CallEffect, Calls, ClientOK

LEMMA CallEffects ==
  ASSUME OwnerInv, NEW c \in Client, CallStep(c)
  PROVE  CallEffect(c)
  BY StartEffect, ServeEffect, ReturnEffect, CrashEffect DEF CallStep

\* The invariant survives every step of a call.
LEMMA CallStepKeeps ==
  ASSUME OwnerInv, NEW c \in Client, CallStep(c)
  PROVE  PipelineTypes' /\ ClientsOK' /\ SoleOwners' /\ ExaminedOK' /\ CopiesOK'
  <1>1. CallEffect(c)
    BY CallEffects
  <1>2. faults' \in 0 .. MaxFaults
    BY <1>1, FaultType DEF CallEffect, OwnerInv, PipelineTypes
  <1>3. PipelineTypes'
    BY <1>1, <1>2 DEF CallEffect, Calls, OwnerInv, PipelineTypes
  <1> QED
    BY <1>1, <1>3, CallKeeps DEF CallEffect

-----------------------------------------------------------------------------
(* The invariant. *)

LEMMA OwnerInvInit == Init => OwnerInv
  <1> SUFFICES ASSUME Init PROVE OwnerInv
    OBVIOUS
  <1>1. ServiceInv
    BY ServiceInvInit DEF Init
  <1>2. SuccessIsDurable
    BY DEF Init, ServiceInit, SuccessIsDurable, NoCall
  <1>3. PipelineTypes
    BY NoDetectionType, EmptySeq, PipelineAssumption DEF Init, PipelineTypes
  <1>4. \A c \in Client : detect[c] = NoDetection /\ call[c] = NoCall
    BY DEF Init, ServiceInit
  <1>5. ClientsOK /\ SoleOwners
    BY <1>4 DEF ClientsOK, ClientOK, DetectOK, CallOK, SentOK, SoleOwners, Owns, Detecting,
       NoDetection, NoCall, InTransaction
  <1>6. ExaminedOK /\ CopiesOK
    BY PipelineAssumption DEF Init, ExaminedOK, CopiesOK
  <1> QED
    BY <1>1, <1>2, <1>3, <1>5, <1>6 DEF OwnerInv

LEMMA OwnerInvStep == OwnerInv /\ [Next]_vars => OwnerInv'
  <1> SUFFICES ASSUME OwnerInv, [Next]_vars PROVE OwnerInv'
    OBVIOUS
  <1>1. [ServiceNext]_serviceVars
    BY StepIsServiceStep DEF OwnerInv
  <1>2. ServiceInv' /\ SuccessIsDurable'
    BY <1>1, ServiceInvStep, SuccessStep DEF OwnerInv
  <1>3. PipelineTypes' /\ ClientsOK' /\ SoleOwners' /\ ExaminedOK' /\ CopiesOK'
    <2>1. CASE UNCHANGED vars
      <3>1. UNCHANGED <<call, detect, timeline, anomalies, alerts, inflight, topic, examined,
                        faults, RecordedEvents>>
        BY <2>1 DEF vars, detectionVars, serviceVars, storeVars, RecordedEvents, Recorded
      <3> QED
        BY <3>1 DEF OwnerInv, PipelineTypes, ClientsOK, ClientOK, DetectOK, CallOK, SentOK,
           SoleOwners, Owns, ExaminedOK, CopiesOK, Detecting, MyEvent, At, HasAnomaly
    <2>2. ASSUME NEW c \in Client, CallStep(c) \/ DetectStep(c)
          PROVE  PipelineTypes' /\ ClientsOK' /\ SoleOwners' /\ ExaminedOK' /\ CopiesOK'
      BY <2>2, CallStepKeeps, DetectStepKeeps
    <2>3. ASSUME NEW e \in Event, DeliveredLate(e)
          PROVE  PipelineTypes' /\ ClientsOK' /\ SoleOwners' /\ ExaminedOK' /\ CopiesOK'
      BY <2>3, LateKeeps
    <2> QED
      BY <2>1, <2>2, <2>3, NextCases
  <1> QED
    BY <1>2, <1>3 DEF OwnerInv

\* Every event of which the stock knows has one owner at most, from the COMMIT to
\* the end of its detection, and its copies are counted by its owner's attempts.
THEOREM OwnerInvariant == Spec => []OwnerInv
  BY OwnerInvInit, OwnerInvStep, PTL DEF Spec

\* Workers with a detection behind each call are clients of the service: they put
\* nothing into it that its callers could not.
THEOREM PipelineIsClient == Spec => ServiceSpec
  <1>1. Init => ServiceInit
    BY DEF Init
  <1>2. OwnerInv /\ [Next]_vars => [ServiceNext]_serviceVars
    BY StepIsServiceStep DEF OwnerInv
  <1> QED
    BY <1>1, <1>2, OwnerInvariant, PTL DEF Spec, ServiceSpec

\* Every variable keeps its type; no alert is sent more often than the attempts
\* that publish_alert makes.
THEOREM PipelineTypesHold == Spec => []TypeOK
  <1>1. OwnerInv => TypeOK
    <2> SUFFICES ASSUME OwnerInv PROVE TypeOK
      OBVIOUS
    <2>1. ASSUME NEW e \in Event
          PROVE  inflight[e] \in 0 .. MaxPublish /\ topic[e] \in 0 .. MaxPublish
      <3>1. inflight[e] \in Nat /\ topic[e] \in Nat /\ inflight[e] + topic[e] <= MaxPublish
        BY DEF OwnerInv, PipelineTypes, CopiesOK
      <3> QED
        BY <3>1, PipelineAssumption
    <2> QED
      BY <2>1 DEF OwnerInv, PipelineTypes, TypeOK, ServiceInv, LockInv
  <1> QED
    BY <1>1, OwnerInvariant, PTL

\* No event is examined twice, and no anomaly of an event that is being examined
\* is stored already, however deliveries overlap and whatever fails.
THEOREM OneExamination == Spec => []ExaminedOnce
  <1>1. OwnerInv => ExaminedOnce
    <2> SUFFICES ASSUME OwnerInv, NEW c \in Client, detect[c].stage \in {"row", "rules"}
                 PROVE  /\ MyEvent(c) \notin examined
                        /\ ~HasAnomaly(MyEvent(c))
                        /\ \A d \in Client \ {c} : MyEvent(d) # MyEvent(c)
      BY DEF ExaminedOnce
    <2>1. ~Detecting(c, "none") /\ MyEvent(c) \in Event /\ MyEvent(c) \notin examined
      BY AtWork DEF Detecting, DetectOK
    <2>2. ~HasAnomaly(MyEvent(c))
      BY <2>1 DEF OwnerInv, ExaminedOK, HasAnomaly
    <2>3. ASSUME NEW d \in Client, d # c, MyEvent(d) = MyEvent(c)
          PROVE  FALSE
      <3>1. ~Detecting(d, "none")
        BY <2>1, <2>3, ServiceAssumption
           DEF OwnerInv, ClientsOK, ClientOK, DetectOK, MyEvent, NoDetection
      <3> QED
        BY <2>1, <2>3, <3>1 DEF OwnerInv, SoleOwners, Owns
    <2> QED
      BY <2>1, <2>2, <2>3
  <1> QED
    BY <1>1, OwnerInvariant, PTL

-----------------------------------------------------------------------------
(* What failures cost. *)

\* The event a client is at work on.
Subject(c) == IF Detecting(c, "none") THEN call[c].event ELSE MyEvent(c)

\* What stays as large as it was, or grows by one with a failure, is no larger than
\* the number of failures.
LEMMA CountStep ==
  ASSUME NEW S, NEW T, NEW n \in Nat, NEW m, IsFiniteSet(S), Cardinality(S) <= n,
         \/ m = n /\ T \subseteq S
         \/ m = n + 1 /\ \E x : T \subseteq S \cup {x}
  PROVE  IsFiniteSet(T) /\ Cardinality(T) <= m
  <1>1. CASE m = n /\ T \subseteq S
    <2>1. Cardinality(T) \in Nat /\ Cardinality(S) \in Nat /\ IsFiniteSet(T)
          /\ Cardinality(T) <= Cardinality(S)
      BY <1>1, FS_Subset, FS_CardinalityType
    <2> QED
      BY <1>1, <2>1
  <1>2. ASSUME m = n + 1, NEW x, T \subseteq S \cup {x}
        PROVE  IsFiniteSet(T) /\ Cardinality(T) <= m
    <2> DEFINE U == S \cup {x}
    <2>1. /\ IsFiniteSet(U) /\ Cardinality(S) \in Nat
          /\ Cardinality(U) = IF x \in S THEN Cardinality(S) ELSE Cardinality(S) + 1
      BY FS_AddElement, FS_CardinalityType
    <2> HIDE DEF U
    <2>2. T \in SUBSET U
      BY <1>2 DEF U
    <2>3. IsFiniteSet(T) /\ Cardinality(T) <= Cardinality(U) /\ Cardinality(T) \in Nat
      BY <2>1, <2>2, FS_Subset, FS_CardinalityType
    <2> QED
      BY <1>2, <2>1, <2>3
  <1> QED
    BY <1>1, <1>2

LEMMA CountWithin ==
  ASSUME NEW S, NEW T, NEW n \in Nat, IsFiniteSet(S), Cardinality(S) <= n, T \subseteq S
  PROVE  Cardinality(T) <= n
  BY CountStep

LEMMA FaultsAreCounted ==
  ASSUME OwnerInv PROVE faults \in Nat
  BY PipelineAssumption DEF OwnerInv, PipelineTypes

\* A step is a failure, which is counted, or none.
LEMMA FailsOrNot ==
  ASSUME OwnerInv, [Next]_vars
  PROVE  /\ faults \in Nat
         /\ \/ faults' = faults /\ ~Fault
            \/ faults' = faults + 1
         /\ faults' # faults => \E c \in Client : CallStep(c) \/ DetectStep(c)
  <1>1. faults \in Nat
    BY FaultsAreCounted
  <1>2. CASE UNCHANGED vars
    BY <1>1, <1>2 DEF vars, Fault
  <1>3. ASSUME NEW c \in Client, CallStep(c) \/ DetectStep(c)
        PROVE  UNCHANGED faults \/ Fault
    BY <1>3, CallEffects, DetectEffect DEF CallEffect, Effect
  <1>4. ASSUME NEW e \in Event, DeliveredLate(e)
        PROVE  UNCHANGED faults
    BY <1>4 DEF DeliveredLate
  <1> QED
    BY <1>1, <1>2, <1>3, <1>4, NextCases DEF Fault

\* Changes of the stock that have neither been examined nor have an owner.
Escaped ==
  {e \in RecordedEvents : e \notin examined /\ \A c \in Client : ~Owns(c, e)}

EscapedInv == IsFiniteSet(Escaped) /\ Cardinality(Escaped) <= faults

\* A call that nothing fails returns the change it has made.
LEMMA ServedToTheEnd ==
  ASSUME ServiceInv, NEW c \in Client, Proceed(c)
  PROVE  /\ call[c].stage \in {"sync", "done"} =>
              call'[c].stage = "done" /\ call'[c].duplicate = call[c].duplicate
         /\ \A e \in RecordedEvents' \ RecordedEvents :
              /\ e = call[c].event /\ call'[c].duplicate = call[c].duplicate
              /\ call[c].stage = "apply" /\ call'[c].stage = "sync"
  <1>1. call \in [Client -> Call] /\ ServiceTypeOK
    BY DEF ServiceInv, LockInv, ServiceTypeOK
  <1>2. CASE SyncCache(c)
    <2>1. call'[c].stage = "done" /\ call'[c].duplicate = call[c].duplicate
      BY <1>1, <1>2 DEF SyncCache, MoveTo, Call
    <2>2. RecordedEvents' = RecordedEvents
      BY <1>2 DEF SyncCache, RecordedEvents, Recorded, storeVars
    <2> QED
      BY <2>1, <2>2
  <1>3. CASE CommitChange(c)
    <2>1. CommitStep(c)
      BY <1>3 DEF CommitChange, CommitStep
    <2>2. /\ call[c].stage = "apply" /\ call'[c].stage = "sync"
          /\ call'[c].duplicate = call[c].duplicate
      BY <1>1, <1>3 DEF CommitChange, Commit, At, Call
    <2>3. \A e \in Event : Recorded(e)' <=> Recorded(e) \/ e = call[c].event
      BY <2>1, CommitRecords
    <2> QED
      BY <2>2, <2>3 DEF RecordedEvents
  <1>4. CASE \/ FindDuplicate(c) \/ FindNoDuplicate(c) \/ LockRow(c) \/ FindNoRow(c)
             \/ InsertRow(c) \/ InsertConflict(c) \/ RejectNegative(c) \/ CommitConflict(c)
    <2>1. call[c].stage \notin {"sync", "done"}
      BY <1>4 DEF FindDuplicate, FindNoDuplicate, LockRow, FindNoRow, InsertRow,
                  InsertConflict, RejectNegative, CommitConflict, At
    <2>2. UNCHANGED history
      BY <1>4 DEF FindDuplicate, FindNoDuplicate, LockRow, FindNoRow, InsertRow,
                  InsertConflict, RejectNegative, CommitConflict, storeVars
    <2> QED
      BY <2>1, <2>2 DEF RecordedEvents, Recorded
  <1> QED
    BY <1>2, <1>3, <1>4 DEF Proceed

\* An owner keeps its event until it has been examined, unless something fails.
LEMMA OwnerStays ==
  ASSUME OwnerInv, [Next]_vars, ~Fault, NEW c \in Client, NEW e \in Event, Owns(c, e)
  PROVE  e \in examined' \/ \E d \in Client : Owns(d, e)'
  <1>1. call \in [Client -> Call] /\ detect \in [Client -> Detection]
    BY DEF OwnerInv, PipelineTypes, ServiceInv, LockInv, ServiceTypeOK
  <1>2. CASE call'[c] = call[c] /\ detect'[c] = detect[c]
    BY <1>2 DEF Owns, Detecting, MyEvent
  <1>3. CASE UNCHANGED vars
    BY <1>2, <1>3 DEF vars, serviceVars, detectionVars
  <1>4. ASSUME NEW d \in Client, CallStep(d)
        PROVE  e \in examined' \/ \E f \in Client : Owns(f, e)'
    <2>1. CASE d # c
      BY <1>2, <1>4, <2>1, CallEffects DEF CallEffect, Calls
    <2>2. CASE d = c /\ \E f \in Event : CallService(c, f)
      BY <1>1, <2>2 DEF CallService, Start, Owns, At, Detecting, detectionVars
    <2>3. CASE d = c /\ Serve(c)
      <3>1. Proceed(c) /\ UNCHANGED detect /\ ~At(c, "idle")
        BY <2>3, CallGoesOn DEF Serve, detectionVars, At, OwnerInv, ServiceInv, LockInv
      <3>2. call[c].stage \in {"sync", "done"} /\ ~call[c].duplicate /\ call[c].event = e
        BY <3>1, InCall DEF Owns, Detecting, NoDetection
      <3>3. call'[c].stage = "done" /\ ~call'[c].duplicate /\ call'[c].event = e
        BY <3>1, <3>2, ServedToTheEnd, CallGoesOn DEF OwnerInv, ServiceInv, LockInv
      <3> QED
        BY <3>3 DEF Owns
    <2>4. CASE d = c /\ TakeResult(c)
      <3> DEFINE x == [NoDetection EXCEPT !.stage = "row", !.event = call[c].event]
      <3>1. /\ detect' = [detect EXCEPT ![c] = x] /\ ~At(c, "idle")
            /\ call[c].stage = "done"
        BY <2>4 DEF TakeResult, At
      <3>2. call[c].event = e
        BY <3>1, InCall DEF Owns, Detecting, NoDetection
      <3>3. x.stage = "row" /\ x.event = e
        BY <3>2 DEF NoDetection
      <3> HIDE DEF x
      <3> QED
        BY <1>1, <3>1, <3>3 DEF Owns, Detecting, MyEvent
    <2>5. CASE d = c /\ TakeNothing(c)
      <3>1. ~At(c, "idle") /\ (call[c].stage = "done" => call[c].duplicate)
            /\ call[c].stage \in Returned
        BY <2>5 DEF TakeNothing, Return, Returned, At
      <3>2. call[c].stage \in {"sync", "done"} /\ ~call[c].duplicate
        BY <3>1, InCall DEF Owns, Detecting, NoDetection
      <3> QED
        BY <3>1, <3>2 DEF Returned
    <2>6. CASE ServeFault(d) \/ Crash(d)
      BY <2>6 DEF ServeFault, Crash
    <2> QED
      BY <1>4, <2>1, <2>2, <2>3, <2>4, <2>5, <2>6 DEF CallStep
  <1>5. ASSUME NEW d \in Client, DetectStep(d)
        PROVE  e \in examined' \/ \E f \in Client : Owns(f, e)'
    <2>1. PICK x \in Detection : Moves(d, x)
      BY <1>5, DetectEffect DEF Effect
    <2>2. TouchesOwn(d)
      BY <1>5, DetectEffect DEF Effect
    <2>3. call' = call /\ detect' = [detect EXCEPT ![d] = x] /\ ~Detecting(d, "none")
      BY <2>1 DEF Moves, serviceVars
    <2>4. CASE d # c
      BY <1>2, <2>3, <2>4
    <2>5. CASE d = c
      <3>1. MyEvent(c) = e
        BY <2>3, <2>5, AtWork DEF Owns, At
      <3>2. CASE detect[c].stage \in {"persist", "alert", "publish"}
        BY <2>2, <2>3, <2>5, <3>1, <3>2, AtWork DEF DetectOK, TouchesOwn
      <3>3. CASE detect[c].stage \in {"row", "rules"}
        <4>1. ReadRow(c) \/ RunRules(c)
          BY <1>5, <2>5, <3>3 DEF DetectStep, RuleError, PersistAnomaly, PersistConflict,
             CreateAlert, DetectionError, Published, PublishTimeout, Detecting
        <4>2. CASE RunRules(c)
          BY <3>1, <4>2 DEF RunRules, Keep
        <4>3. CASE ReadRow(c)
          <5>1. detect'[c].stage = "rules" /\ detect'[c].event = e
            BY <1>1, <3>1, <4>3 DEF ReadRow, MyEvent, Detection
          <5> QED
            BY <5>1 DEF Owns, Detecting, MyEvent
        <4> QED
          BY <4>1, <4>2, <4>3
      <3> QED
        BY <1>1, <2>3, <2>5, <3>2, <3>3 DEF Detection, Detecting
    <2> QED
      BY <2>4, <2>5
  <1>6. ASSUME NEW f \in Event, DeliveredLate(f)
        PROVE  e \in examined' \/ \E d \in Client : Owns(d, e)'
    BY <1>2, <1>6 DEF DeliveredLate, serviceVars
  <1> QED
    BY <1>3, <1>4, <1>5, <1>6, NextCases

\* Only a client in its call adds to the history, and only its own event.
LEMMA RecordsOwn ==
  ASSUME OwnerInv, NEW c \in Client, Serve(c) \/ ServeFault(c)
  PROVE  ~At(c, "idle") /\ RecordedEvents' \subseteq RecordedEvents \cup {call[c].event}
  <1>1. ServiceInv /\ ServiceTypeOK
    BY DEF OwnerInv, ServiceInv, LockInv
  <1>2. Proceed(c) \/ Fail(c)
    BY DEF Serve, ServeFault
  <1>3. ~At(c, "idle")
    BY <1>1, <1>2, CallGoesOn DEF At
  <1>4. CASE Proceed(c)
    BY <1>1, <1>3, <1>4, ServedToTheEnd
  <1>5. CASE LoseCommitReply(c)
    <2>1. CommitStep(c)
      BY <1>5 DEF LoseCommitReply, CommitStep
    <2>2. \A f \in Event : Recorded(f)' <=> Recorded(f) \/ f = call[c].event
      BY <1>1, <2>1, CommitRecords
    <2> QED
      BY <1>3, <2>2 DEF RecordedEvents
  <1>6. CASE DatabaseError(c) \/ CacheError(c)
    BY <1>3, <1>6 DEF DatabaseError, CacheError, storeVars, RecordedEvents, Recorded
  <1> QED
    BY <1>2, <1>4, <1>5, <1>6 DEF Fail

\* Whatever a client does, and whatever happens to it, is about its own event.
LEMMA OthersStay ==
  ASSUME OwnerInv, NEW c \in Client, CallStep(c) \/ DetectStep(c)
  PROVE  /\ \A d \in Client : d # c => call'[d] = call[d] /\ detect'[d] = detect[d]
         /\ examined \subseteq examined'
         /\ RecordedEvents' \subseteq RecordedEvents \cup {Subject(c)}
  <1>1. CASE CallStep(c)
    <2>1. /\ \A d \in Client : d # c => call'[d] = call[d] /\ detect'[d] = detect[d]
          /\ examined' = examined
      BY <1>1, CallEffects DEF CallEffect, Calls
    <2>2. CASE Serve(c) \/ ServeFault(c)
      <3>1. Subject(c) = call[c].event
        BY <2>2, RecordsOwn, InCall DEF Subject, Detecting, NoDetection
      <3> QED
        BY <2>1, <2>2, <3>1, RecordsOwn
    <2>3. CASE UNCHANGED history
      BY <2>1, <2>3 DEF RecordedEvents, Recorded
    <2> QED
      BY <1>1, <2>2, <2>3 DEF CallStep, CallService, Start, TakeResult, TakeNothing, Return,
         Crash, storeVars
  <1>2. CASE DetectStep(c)
    <2>1. PICK x : detect' = [detect EXCEPT ![c] = x]
      BY <1>2, DetectEffect DEF Effect, Moves
    <2>2. examined \subseteq examined'
      BY <1>2, DetectEffect DEF Effect, TouchesOwn
    <2>3. UNCHANGED <<call, history>>
      BY <1>2, DetectStepIsOutside DEF serviceVars, storeVars
    <2> QED
      BY <2>1, <2>2, <2>3 DEF OwnerInv, PipelineTypes, RecordedEvents, Recorded
  <1> QED
    BY <1>1, <1>2

\* A failure of a client loses no event but its own ...
LEMMA LosesOwn ==
  ASSUME OwnerInv, NEW c \in Client, CallStep(c) \/ DetectStep(c)
  PROVE  Escaped' \subseteq Escaped \cup {Subject(c)}
  <1> SUFFICES ASSUME NEW e \in Escaped', e # Subject(c)
               PROVE  e \in Escaped
    OBVIOUS
  <1>1. /\ e \in RecordedEvents /\ e \in Event /\ e \notin examined
        /\ \A d \in Client : ~Owns(d, e)'
    BY OthersStay DEF Escaped, RecordedEvents
  <1>2. ~Owns(c, e)
    BY AtWork DEF Owns, Subject, At
  <1>3. ASSUME NEW d \in Client, d # c
        PROVE  ~Owns(d, e)
    BY <1>1, <1>3, OthersStay DEF Owns, Detecting, MyEvent
  <1> QED
    BY <1>1, <1>2, <1>3 DEF Escaped

\* ... and any other step loses none.
LEMMA LosesNone ==
  ASSUME OwnerInv, [Next]_vars, ~Fault
  PROVE  Escaped' \subseteq Escaped
  <1> SUFFICES ASSUME NEW e \in Escaped', e \notin Escaped
               PROVE  FALSE
    OBVIOUS
  <1>1. /\ e \in RecordedEvents' /\ e \in Event /\ e \notin examined'
        /\ \A d \in Client : ~Owns(d, e)'
    BY DEF Escaped, RecordedEvents
  <1>2. CASE UNCHANGED vars
    BY <1>2 DEF vars, serviceVars, storeVars, detectionVars, Escaped, RecordedEvents,
       Recorded, Owns, Detecting, MyEvent
  <1>3. ASSUME NEW f \in Event, DeliveredLate(f) PROVE FALSE
    BY <1>3 DEF DeliveredLate, serviceVars, storeVars, Escaped, RecordedEvents, Recorded,
       Owns, Detecting, MyEvent
  <1>4. ASSUME NEW c \in Client, CallStep(c) \/ DetectStep(c) PROVE FALSE
    <2>1. e \notin examined
      BY <1>1, <1>4, OthersStay
    <2>2. \A d \in Client : ~Owns(d, e)
      BY <1>1, OwnerStays
    <2>3. e \notin RecordedEvents
      BY <2>1, <2>2 DEF Escaped
    <2>4. UNCHANGED history => FALSE
      BY <1>1, <2>3 DEF RecordedEvents, Recorded
    <2>5. Serve(c)
      BY <1>4, <2>4, DetectStepIsOutside DEF CallStep, CallService, Start, ServeFault,
         TakeResult, TakeNothing, Return, Crash, serviceVars, storeVars
    <2>6. /\ e = call[c].event /\ call'[c].duplicate = call[c].duplicate
          /\ call[c].stage = "apply" /\ call'[c].stage = "sync"
      BY <1>1, <2>3, <2>5, ServedToTheEnd DEF OwnerInv, Serve
    <2>7. ~call[c].duplicate
      BY <2>6 DEF OwnerInv, ClientsOK, ClientOK, CallOK, InTransaction
    <2>8. call'[c].event = e
      BY <2>5, <2>6, CallGoesOn DEF Serve, OwnerInv, ServiceInv, LockInv
    <2> QED
      BY <1>1, <2>6, <2>7, <2>8 DEF Owns
  <1> QED
    BY <1>2, <1>3, <1>4, NextCases

\* Each failure costs one change of the stock its examination, at most.
THEOREM FailuresLoseOne == Spec => []OneUnexaminedPerFailure
  <1>1. Init => EscapedInv
    <2> SUFFICES ASSUME Init PROVE EscapedInv
      OBVIOUS
    <2>1. \A k \in Key : history[k] = <<>>
      BY DEF Init, ServiceInit, StoreInit
    <2>2. Escaped = {}
      BY <2>1, EmptySeq DEF Escaped, RecordedEvents, Recorded
    <2> QED
      BY <2>2, FS_EmptySet DEF Init, EscapedInv
  <1>2. OwnerInv /\ EscapedInv /\ [Next]_vars => EscapedInv'
    <2> SUFFICES ASSUME OwnerInv, EscapedInv, [Next]_vars PROVE EscapedInv'
      OBVIOUS
    <2>1. \/ faults' = faults /\ Escaped' \subseteq Escaped
          \/ faults' = faults + 1 /\ \E x : Escaped' \subseteq Escaped \cup {x}
      BY FailsOrNot, LosesNone, LosesOwn
    <2> QED
      BY <2>1, FailsOrNot, CountStep DEF EscapedInv
  <1>3. OwnerInv /\ EscapedInv => OneUnexaminedPerFailure
    <2> SUFFICES ASSUME OwnerInv, EscapedInv PROVE Cardinality(Unexamined) <= faults
      BY DEF OneUnexaminedPerFailure
    <2>1. Unexamined \subseteq Escaped
      BY DEF Unexamined, Escaped, Owns, Pending
    <2> QED
      BY <2>1, CountWithin, FaultsAreCounted DEF EscapedInv
  <1> QED
    BY <1>1, <1>2, <1>3, OwnerInvariant, PTL DEF Spec

\* Events with a severe anomaly.
Grave(e) == \E a \in anomalies : a.event = e /\ a.severity \in Severe

\* The alert of event e is in the topic, once and for all, or nothing has gone wrong
\* on the way there.
Told(e) ==
  \/ topic[e] = 1 /\ inflight[e] = 0
  \/ \E c \in Client : Detecting(c, "alert") /\ MyEvent(c) = e
  \/ /\ inflight[e] = 1 /\ topic[e] = 0
     /\ \E c \in Client : Detecting(c, "publish") /\ MyEvent(c) = e

Spoiled == {e \in Event : Grave(e) /\ ~Told(e)}

SpoiledInv == IsFiniteSet(Spoiled) /\ Cardinality(Spoiled) <= faults

\* Two clients do not report the same event.
LEMMA OtherEvents ==
  ASSUME OwnerInv, NEW c \in Client, NEW d \in Client, c # d,
         ~Detecting(c, "none"), ~Detecting(d, "none")
  PROVE  MyEvent(c) # MyEvent(d)
  BY AtWork DEF OwnerInv, SoleOwners, Owns

\* What a client does leaves the alerts of other events as they are.
LEMMA SpoilsOwn ==
  ASSUME OwnerInv, NEW c \in Client, CallStep(c) \/ DetectStep(c)
  PROVE  Spoiled' \subseteq Spoiled \cup {Subject(c)}
  <1> SUFFICES ASSUME NEW e \in Event, Grave(e)', ~Told(e)', e # Subject(c)
               PROVE  Grave(e) /\ ~Told(e)
    BY DEF Spoiled
  <1>1. /\ \A a \in anomalies' : a.event = e => a \in anomalies
        /\ inflight'[e] = inflight[e] /\ topic'[e] = topic[e]
    <2>1. CASE CallStep(c)
      BY <2>1, CallEffects DEF CallEffect, Calls
    <2>2. CASE DetectStep(c)
      <3>1. MyEvent(c) = Subject(c)
        BY <2>2, DetectEffect DEF Effect, Moves, Subject
      <3> QED
        BY <2>2, <3>1, DetectEffect DEF Effect, TouchesOwn
    <2> QED
      BY <2>1, <2>2
  <1>2. ASSUME NEW d \in Client, ~Detecting(d, "none"), MyEvent(d) = e
        PROVE  detect'[d] = detect[d]
    <2>1. d # c
      BY <1>2 DEF Subject
    <2> QED
      BY <2>1, OthersStay
  <1>3. Grave(e)
    BY <1>1 DEF Grave
  <1>4. ~Told(e)
    BY <1>1, <1>2 DEF Told, Detecting, MyEvent
  <1> QED
    BY <1>3, <1>4

\* A step of a detection that nothing fails spoils nothing.
LEMMA DetectTells ==
  ASSUME OwnerInv, NEW c \in Client, DetectStep(c), ~Fault,
         NEW e, e = MyEvent(c), Grave(e)', ~Told(e)'
  PROVE  Grave(e) /\ ~Told(e)
  <1>1. /\ detect \in [Client -> Detection] /\ ~Detecting(c, "none")
        /\ e \in Event /\ inflight[e] \in Nat /\ topic[e] \in Nat
        /\ DetectOK(c) /\ SentOK(c)
        /\ inflight \in [Event -> Nat] /\ topic \in [Event -> Nat]
    BY DetectEffect, AtWork DEF Effect, Moves, OwnerInv, PipelineTypes
  <1>2. \A d \in Client : d # c /\ ~Detecting(d, "none") => MyEvent(d) # e
    BY <1>1, OtherEvents
  <1>3. CASE ReadRow(c) \/ RunRules(c) \/ PersistConflict(c)
    <2>1. UNCHANGED anomalies /\ detect[c].stage \in {"row", "rules", "persist"}
      BY <1>3 DEF ReadRow, RunRules, Keep, PersistConflict, Detecting
    <2>2. \A a \in anomalies : a.event # e
      BY <1>1, <2>1 DEF DetectOK, Detecting, HasAnomaly, OwnerInv, ExaminedOK
    <2> QED
      BY <2>1, <2>2 DEF Grave
  <1>4. CASE PersistAnomaly(c)
    <2> DEFINE new == Head(detect[c].found)
    <2>1. ~HasAnomaly(e) /\ detect[c].stage = "persist"
      BY <1>1, <1>4 DEF PersistAnomaly, DetectOK, Detecting
    <2>2. /\ anomalies' = anomalies \cup {new}
          /\ new.severity \in Severe => detect' = [detect EXCEPT ![c].stage = "alert"]
      BY <1>4, <2>1 DEF PersistAnomaly
    <2> HIDE DEF new
    <2>3. new.severity \in Severe
      BY <2>1, <2>2 DEF Grave, HasAnomaly
    <2>4. detect'[c].stage = "alert" /\ detect'[c].event = e
      BY <1>1, <2>2, <2>3 DEF Detection, MyEvent
    <2> QED
      BY <2>4 DEF Told, Detecting, MyEvent
  <1>5. CASE CreateAlert(c)
    <2>1. /\ detect[c].stage = "alert" /\ inflight[e] = 0 /\ topic[e] = 0
          /\ detect' = [detect EXCEPT ![c].stage = "publish", ![c].attempt = 1]
          /\ inflight' = [inflight EXCEPT ![e] = inflight[e] + 1]
          /\ UNCHANGED topic
      BY <1>1, <1>5 DEF CreateAlert, SentOK, Detecting
    <2>2. detect'[c].stage = "publish" /\ detect'[c].event = e
      BY <1>1, <2>1 DEF Detection, MyEvent
    <2>3. inflight'[e] = 1 /\ topic'[e] = 0
      BY <1>1, <2>1
    <2> QED
      BY <2>2, <2>3 DEF Told, Detecting, MyEvent
  <1>6. CASE Published(c)
    <2>1. Detecting(c, "publish") /\ Deliver(e) /\ UNCHANGED anomalies
      BY <1>6 DEF Published
    <2>2. inflight[e] > 0 /\ inflight'[e] = inflight[e] - 1 /\ topic'[e] = topic[e] + 1
      BY <1>1, <2>1, DeliverFacts
    <2>3. ~(inflight[e] = 1 /\ topic[e] = 0)
      BY <2>2 DEF Told
    <2>4. ~(topic[e] = 1 /\ inflight[e] = 0)
      BY <2>2
    <2>5. \A d \in Client : Detecting(d, "alert") => MyEvent(d) # e
      BY <1>2, <2>1 DEF Detecting
    <2> QED
      BY <2>1, <2>3, <2>4, <2>5 DEF Told, Grave
  <1>7. ~RuleError(c) /\ ~DetectionError(c) /\ ~PublishTimeout(c)
    BY DEF RuleError, DetectionError, PublishTimeout
  <1> QED
    BY <1>3, <1>4, <1>5, <1>6, <1>7 DEF DetectStep

\* Nor does a step of a call.
LEMMA CallTells ==
  ASSUME OwnerInv, NEW c \in Client, CallStep(c), ~Fault
  PROVE  Spoiled' \subseteq Spoiled
  <1>1. UNCHANGED <<anomalies, inflight, topic>>
    BY CallEffects DEF CallEffect, Calls
  <1>2. ASSUME NEW d \in Client, ~Detecting(d, "none")
        PROVE  detect'[d] = detect[d]
    <2>1. CASE d # c
      BY <2>1, OthersStay
    <2>2. CASE d = c
      <3>1. ~TakeResult(c)
        <4> SUFFICES ASSUME TakeResult(c) PROVE FALSE
          OBVIOUS
        <4>1. ~At(c, "idle")
          BY DEF TakeResult, At
        <4> QED
          BY <1>2, <2>2, <4>1, InCall DEF Detecting, NoDetection
      <3>2. ~Crash(c)
        BY DEF Crash
      <3> QED
        BY <2>2, <3>1, <3>2
           DEF CallStep, CallService, Serve, ServeFault, TakeNothing, detectionVars
    <2> QED
      BY <2>1, <2>2
  <1> SUFFICES ASSUME NEW e \in Event, Told(e) PROVE Told(e)'
    BY <1>1 DEF Spoiled, Grave
  <1> QED
    BY <1>1, <1>2 DEF Told, Detecting, MyEvent

\* A copy that arrives late is of an alert that is spoiled already.
LEMMA LateTells ==
  ASSUME OwnerInv, NEW f \in Event, DeliveredLate(f)
  PROVE  Spoiled' \subseteq Spoiled
  <1>1. UNCHANGED <<anomalies, detect>> /\ Deliver(f)
        /\ \A c \in Client : MyEvent(c) = f /\ Detecting(c, "publish") => inflight[f] >= 2
    BY DEF DeliveredLate
  <1>2. /\ inflight[f] > 0 /\ inflight[f] \in Nat
        /\ \A e \in Event \ {f} : inflight'[e] = inflight[e] /\ topic'[e] = topic[e]
    BY <1>1, DeliverFacts DEF OwnerInv, PipelineTypes
  <1>3. ~Told(f)
    <2>1. ASSUME NEW c \in Client, Detecting(c, "alert"), MyEvent(c) = f PROVE FALSE
      BY <1>2, <2>1, AtWork DEF SentOK, Detecting
    <2> QED
      BY <1>1, <1>2, <2>1 DEF Told
  <1> SUFFICES ASSUME NEW e \in Event, Told(e) PROVE Told(e)'
    BY <1>1 DEF Spoiled, Grave
  <1>4. e # f
    BY <1>3
  <1> QED
    BY <1>1, <1>2, <1>4 DEF Told, Detecting, MyEvent

LEMMA SpoilsNone ==
  ASSUME OwnerInv, [Next]_vars, ~Fault
  PROVE  Spoiled' \subseteq Spoiled
  <1>1. CASE UNCHANGED vars
    BY <1>1 DEF vars, detectionVars, Spoiled, Grave, Told, Detecting, MyEvent
  <1>2. ASSUME NEW c \in Client, DetectStep(c)
        PROVE  Spoiled' \subseteq Spoiled
    <2>1. MyEvent(c) = Subject(c)
      BY <1>2, DetectEffect DEF Effect, Moves, Subject
    <2> SUFFICES ASSUME NEW e \in Spoiled', e \notin Spoiled PROVE FALSE
      OBVIOUS
    <2>2. e = MyEvent(c)
      BY <1>2, <2>1, SpoilsOwn
    <2>3. e \in Event /\ Grave(e)' /\ ~Told(e)'
      BY DEF Spoiled
    <2> QED
      BY <1>2, <2>2, <2>3, DetectTells DEF Spoiled
  <1> QED
    BY <1>1, <1>2, CallTells, LateTells, NextCases

\* Each failure spoils the telling of one severe anomaly, at most.
THEOREM FailuresMistellOne == Spec => []OneMistoldPerFailure
  <1>1. Init => SpoiledInv
    <2> SUFFICES ASSUME Init PROVE SpoiledInv
      OBVIOUS
    <2>1. Spoiled = {}
      BY DEF Init, Spoiled, Grave
    <2> QED
      BY <2>1, FS_EmptySet DEF Init, SpoiledInv
  <1>2. OwnerInv /\ SpoiledInv /\ [Next]_vars => SpoiledInv'
    <2> SUFFICES ASSUME OwnerInv, SpoiledInv, [Next]_vars PROVE SpoiledInv'
      OBVIOUS
    <2>1. \/ faults' = faults /\ Spoiled' \subseteq Spoiled
          \/ faults' = faults + 1 /\ \E x : Spoiled' \subseteq Spoiled \cup {x}
      BY FailsOrNot, SpoilsNone, SpoilsOwn
    <2> QED
      BY <2>1, FailsOrNot, CountStep DEF SpoiledInv
  <1>3. OwnerInv /\ SpoiledInv => OneMistoldPerFailure
    <2> SUFFICES ASSUME OwnerInv, SpoiledInv PROVE Cardinality(Mistold) <= faults
      BY DEF OneMistoldPerFailure
    <2>1. Mistold \subseteq Spoiled
      BY DEF Mistold, Spoiled, Grave, Told, OwnerInv, PipelineTypes, Finding
    <2> QED
      BY <2>1, CountWithin, FaultsAreCounted DEF SpoiledInv
  <1> QED
    BY <1>1, <1>2, <1>3, OwnerInvariant, PTL DEF Spec

-----------------------------------------------------------------------------
(* The order of changed_at. *)

\* The first place of x in a sequence.
FirstAt(s, x) ==
  LET I == {i \in 1 .. Len(s) : s[i] = x}
  IN  IF I # {} THEN Min(I) ELSE 0

LEMMA FirstAtIs ==
  ASSUME NEW S, NEW s \in Seq(S), NEW i \in DOMAIN s, IsInjective(s)
  PROVE  FirstAt(s, s[i]) = i
  <1> DEFINE I == {j \in 1 .. Len(s) : s[j] = s[i]}
  <1>1. DOMAIN s = 1 .. Len(s) /\ i \in Nat
    BY LenProperties
  <1>2. I = {i}
    BY <1>1 DEF IsInjective
  <1>3. Min({i}) = i
    BY <1>1 DEF Min
  <1> QED
    BY <1>2, <1>3 DEF FirstAt

\* Appending an element that is not there yet moves none of the others.
LEMMA AppendKeepsOrder ==
  ASSUME NEW S, NEW s \in Seq(S), IsInjective(s), NEW c \in S, c \notin ToSet(s)
  PROVE  /\ IsInjective(Append(s, c))
         /\ ToSet(Append(s, c)) = ToSet(s) \cup {c}
         /\ \A x \in ToSet(s) : FirstAt(Append(s, c), x) = FirstAt(s, x)
  <1> DEFINE n == Len(s)
             t == Append(s, c)
  <1>1. n \in Nat /\ DOMAIN s = 1 .. n
    BY LenProperties
  <1>2. /\ t \in Seq(S) /\ DOMAIN t = 1 .. n + 1 /\ t[n + 1] = c
        /\ \A i \in 1 .. n : t[i] = s[i]
    BY AppendFacts
  <1>3. \A i \in 1 .. n : s[i] \in ToSet(s) /\ s[i] # c
    BY <1>1 DEF ToSet
  <1> HIDE DEF n, t
  <1>4. \A i \in 1 .. n + 1 : i \in 1 .. n \/ i = n + 1
    BY <1>1
  <1>5. \A i \in 1 .. n : i \in 1 .. n + 1
    BY <1>1
  <1>6. n + 1 \in 1 .. n + 1
    BY <1>1
  <1>7. IsInjective(t)
    BY <1>1, <1>2, <1>3, <1>4 DEF IsInjective
  <1>8. ToSet(t) = ToSet(s) \cup {c}
    BY <1>1, <1>2, <1>4, <1>5, <1>6 DEF ToSet
  <1>9. ASSUME NEW x \in ToSet(s)
        PROVE  FirstAt(t, x) = FirstAt(s, x)
    <2>1. PICK i \in DOMAIN s : s[i] = x
      BY DEF ToSet
    <2>2. i \in DOMAIN t /\ t[i] = x
      BY <1>1, <1>2, <1>5, <2>1
    <2>3. FirstAt(s, x) = i
      BY <2>1, FirstAtIs
    <2>4. FirstAt(t, x) = i
      BY <1>2, <1>7, <2>2, FirstAtIs
    <2> QED
      BY <2>3, <2>4
  <1> QED
    BY <1>7, <1>8, <1>9 DEF t

\* One that takes the place of another moves none of the others.
LEMMA ReplaceKeepsOrder ==
  ASSUME NEW S, NEW s \in Seq(S), IsInjective(s), NEW c \in ToSet(s),
         NEW e \in S, e \notin ToSet(s), NEW t, t = ReplaceAll(s, c, e)
  PROVE  /\ IsInjective(t)
         /\ ToSet(t) = (ToSet(s) \ {c}) \cup {e}
         /\ \A x \in ToSet(s) \ {c} : FirstAt(t, x) = FirstAt(s, x)
  <1>1. Len(s) \in Nat /\ DOMAIN s = 1 .. Len(s) /\ \A i \in DOMAIN s : s[i] \in S
    BY LenProperties, ElementOfSeq
  <1>2. t = [i \in 1 .. Len(s) |-> IF s[i] = c THEN e ELSE s[i]]
    BY DEF ReplaceAll
  <1>3. t \in Seq(S)
    BY <1>1, <1>2, IsASeq
  <1>4. DOMAIN t = DOMAIN s /\ \A i \in DOMAIN s : t[i] = IF s[i] = c THEN e ELSE s[i]
    BY <1>1, <1>2
  <1>5. \A i \in DOMAIN s : s[i] # e
    BY DEF ToSet
  <1>6. IsInjective(t)
    BY <1>4, <1>5 DEF IsInjective
  <1>7. PICK p \in DOMAIN s : s[p] = c
    BY DEF ToSet
  <1>8. ToSet(t) = (ToSet(s) \ {c}) \cup {e}
    BY <1>4, <1>5, <1>7 DEF ToSet
  <1>9. ASSUME NEW x \in ToSet(s) \ {c}
        PROVE  FirstAt(t, x) = FirstAt(s, x)
    <2>1. PICK i \in DOMAIN s : s[i] = x
      BY DEF ToSet
    <2>2. i \in DOMAIN t /\ t[i] = x
      BY <1>4, <2>1
    <2>3. FirstAt(s, x) = i
      BY <2>1, FirstAtIs
    <2>4. FirstAt(t, x) = i
      BY <1>3, <1>6, <2>2, FirstAtIs
    <2> QED
      BY <2>3, <2>4
  <1> QED
    BY <1>6, <1>8, <1>9

\* One that is taken out leaves the others in their order.
LEMMA RemoveKeepsOrder ==
  ASSUME NEW S, NEW s \in Seq(S), IsInjective(s), NEW c, NEW t, t = RemoveFirst(s, c)
  PROVE  /\ IsInjective(t)
         /\ ToSet(t) = ToSet(s) \ {c}
         /\ \A x, y \in ToSet(s) \ {c} :
              FirstAt(s, x) >= FirstAt(s, y) => FirstAt(t, x) >= FirstAt(t, y)
  <1>1. CASE c \notin ToSet(s)
    <2>1. DOMAIN s = 1 .. Len(s)
      BY LenProperties
    <2>2. t = s
      BY <1>1, <2>1 DEF RemoveFirst, ToSet
    <2> QED
      BY <1>1, <2>2
  <1>2. CASE c \in ToSet(s)
    <2> DEFINE n == Len(s)
    <2>1. n \in Nat /\ DOMAIN s = 1 .. n /\ t \in Seq(S)
      BY LenProperties, RemoveFirstFacts
    <2> HIDE DEF n
    <2>2. PICK p \in 1 .. n :
            /\ s[p] = c
            /\ Len(t) = n - 1
            /\ \A i \in 1 .. n - 1 : t[i] = IF i < p THEN s[i] ELSE s[i + 1]
      <3>1. \E i \in 1 .. n : s[i] = c
        BY <1>2, <2>1 DEF ToSet
      <3>2. \/ RemoveFirst(s, c) = s /\ \A i \in 1 .. Len(s) : s[i] # c
            \/ \E p \in 1 .. Len(s) :
                 /\ s[p] = c
                 /\ Len(RemoveFirst(s, c)) = Len(s) - 1
                 /\ \A i \in 1 .. Len(s) - 1 :
                      RemoveFirst(s, c)[i] = IF i < p THEN s[i] ELSE s[i + 1]
        BY RemoveFirstFacts
      <3> QED
        BY <3>1, <3>2 DEF n
    <2> DEFINE new(i) == IF i < p THEN i ELSE i - 1
    <2>3. /\ Len(t) \in Nat /\ DOMAIN t = 1 .. n - 1
          /\ \A i \in 1 .. n : s[i] = c => i = p
      BY <2>1, <2>2, LenProperties DEF IsInjective
    <2>4. ASSUME NEW i \in 1 .. n, i # p
          PROVE  new(i) \in 1 .. n - 1 /\ t[new(i)] = s[i]
      <3>1. CASE i < p
        <4>1. i \in 1 .. n - 1
          BY <2>1, <2>4, <3>1
        <4> QED
          BY <2>2, <3>1, <4>1
      <3>2. CASE ~(i < p)
        <4>1. i - 1 \in 1 .. n - 1 /\ ~(i - 1 < p) /\ (i - 1) + 1 = i
          BY <2>1, <2>4, <3>2
        <4> QED
          BY <2>2, <3>2, <4>1
      <3> QED
        BY <3>1, <3>2
    <2>5. ASSUME NEW i \in 1 .. n - 1
          PROVE  \E j \in 1 .. n : j # p /\ t[i] = s[j] /\ (j = IF i < p THEN i ELSE i + 1)
      <3>1. CASE i < p
        <4>1. i \in 1 .. n /\ i # p
          BY <2>1, <2>5, <3>1
        <4> QED
          BY <2>2, <3>1, <4>1
      <3>2. CASE ~(i < p)
        <4>1. i + 1 \in 1 .. n /\ i + 1 # p
          BY <2>1, <2>5, <3>2
        <4> QED
          BY <2>2, <3>2, <4>1
      <3> QED
        BY <3>1, <3>2
    <2>6. IsInjective(t)
      <3> SUFFICES ASSUME NEW i \in 1 .. n - 1, NEW j \in 1 .. n - 1, t[i] = t[j]
                   PROVE  i = j
        BY <2>3 DEF IsInjective
      <3>1. PICK k \in 1 .. n : t[i] = s[k] /\ (k = IF i < p THEN i ELSE i + 1)
        BY <2>5
      <3>2. PICK l \in 1 .. n : t[j] = s[l] /\ (l = IF j < p THEN j ELSE j + 1)
        BY <2>5
      <3>3. k = l
        BY <2>1, <3>1, <3>2 DEF IsInjective
      <3> QED
        BY <2>1, <3>1, <3>2, <3>3
    <2>7. ToSet(t) = ToSet(s) \ {c}
      <3>1. ToSet(t) \subseteq ToSet(s) \ {c}
        BY <2>1, <2>3, <2>5 DEF ToSet
      <3>2. ToSet(s) \ {c} \subseteq ToSet(t)
        <4> SUFFICES ASSUME NEW i \in 1 .. n, s[i] # c PROVE s[i] \in ToSet(t)
          BY <2>1 DEF ToSet
        <4>1. new(i) \in DOMAIN t /\ t[new(i)] = s[i]
          BY <2>2, <2>3, <2>4
        <4> HIDE DEF new
        <4> QED
          BY <4>1 DEF ToSet
      <3> QED
        BY <3>1, <3>2
    <2>8. ASSUME NEW x \in ToSet(s) \ {c}
          PROVE  /\ FirstAt(s, x) \in 1 .. n /\ FirstAt(s, x) # p
                 /\ FirstAt(t, x) = new(FirstAt(s, x))
      <3>1. PICK i \in 1 .. n : s[i] = x
        BY <2>1 DEF ToSet
      <3>2. FirstAt(s, x) = i /\ i # p
        BY <2>1, <2>2, <3>1, FirstAtIs
      <3>3. new(i) \in DOMAIN t /\ t[new(i)] = x
        BY <2>3, <2>4, <3>1, <3>2
      <3> HIDE DEF new
      <3>4. FirstAt(t, x) = new(i)
        BY <2>1, <2>6, <3>3, FirstAtIs
      <3> QED
        BY <3>2, <3>4
    <2>9. ASSUME NEW x \in ToSet(s) \ {c}, NEW y \in ToSet(s) \ {c},
                 FirstAt(s, x) >= FirstAt(s, y)
          PROVE  FirstAt(t, x) >= FirstAt(t, y)
      <3>1. /\ FirstAt(s, x) \in 1 .. n /\ FirstAt(s, x) # p
            /\ FirstAt(t, x) = new(FirstAt(s, x))
        BY <2>8
      <3>2. /\ FirstAt(s, y) \in 1 .. n /\ FirstAt(s, y) # p
            /\ FirstAt(t, y) = new(FirstAt(s, y))
        BY <2>8
      <3> QED
        BY <2>1, <2>9, <3>1, <3>2
    <2> QED
      BY <2>6, <2>7, <2>9
  <1> QED
    BY <1>1, <1>2

\* A transaction that has asked whether its event is new has begun; it is on the
\* timeline until it ends, and its event after its COMMIT.
Begun(c) == call[c].stage \in {"lock", "insert", "apply"}

TimelineInv ==
  /\ IsInjective(timeline)
  /\ \A c \in Client : c \in ToSet(timeline) <=> Begun(c)
  /\ \A e \in Event : e \in ToSet(timeline) <=> e \in RecordedEvents

\* The committed changes keep their order.
OrderStays ==
  \A e, f \in RecordedEvents : Place(e) >= Place(f) => Place(e)' >= Place(f)'

LEMMA PlaceIsFirst ==
  ASSUME NEW e
  PROVE  Place(e) = FirstAt(timeline, e) /\ Place(e)' = FirstAt(timeline', e)
  BY DEF Place, SelectInSeq, FirstAt

\* A transaction begins with the answer that its event is new.
LEMMA TransactionBegins ==
  ASSUME ServiceTypeOK, NEW c \in Client, Proceed(c) \/ Fail(c)
  PROVE  /\ call'[c].stage # "lookup"
         /\ call'[c].stage \in InTransaction =>
              call[c].stage \in InTransaction /\ call'[c].stage \in {"lock", "insert", "apply"}
         /\ At(c, "lookup") => call'[c].stage \notin {"insert", "apply"}
         /\ history' # history => CommitStep(c) /\ call'[c].stage \in {"sync", "transient"}
  <1>1. call \in [Client -> Call]
    BY DEF ServiceTypeOK
  <1> USE <1>1 DEF MoveTo, Call, At, InTransaction
  <1>2. CASE FindDuplicate(c) \/ FindNoDuplicate(c) \/ FindNoRow(c)
    <2>1. /\ call[c].stage \in {"lookup", "lock"} /\ UNCHANGED history
          /\ call'[c].stage \in {"sync", "lock", "insert"}
          /\ call'[c].stage = "insert" => call[c].stage = "lock"
      <3>1. CASE FindDuplicate(c)
        BY <3>1 DEF FindDuplicate, storeVars
      <3>2. CASE FindNoDuplicate(c)
        BY <3>2 DEF FindNoDuplicate, storeVars
      <3>3. CASE FindNoRow(c)
        BY <3>3 DEF FindNoRow, storeVars
      <3> QED
        BY <1>2, <3>1, <3>2, <3>3
    <2> QED
      BY <2>1
  <1>3. CASE LockRow(c) \/ InsertRow(c)
    BY <1>3 DEF LockRow, InsertRow
  <1>4. CASE SyncCache(c) \/ CacheError(c) \/ InsertConflict(c)
    BY <1>4 DEF SyncCache, CacheError, InsertConflict, storeVars
  <1>5. CASE RejectNegative(c) \/ CommitConflict(c) \/ DatabaseError(c)
    BY <1>5 DEF RejectNegative, CommitConflict, DatabaseError
  <1>6. CASE CommitChange(c) \/ LoseCommitReply(c)
    <2>1. CommitStep(c)
      BY <1>6 DEF CommitChange, LoseCommitReply, CommitStep
    <2>2. call'[c].stage \in {"sync", "transient"} /\ call[c].stage = "apply"
      BY <1>6 DEF CommitChange, LoseCommitReply, Commit
    <2> QED
      BY <2>1, <2>2
  <1> QED
    BY <1>2, <1>3, <1>4, <1>5, <1>6 DEF Proceed, Fail

\* A step that leaves the timeline as it is.
LEMMA TimelineAside ==
  ASSUME TimelineInv, UNCHANGED <<timeline, history>>,
         \A c \in Client : Begun(c)' <=> Begun(c)
  PROVE  TimelineInv' /\ OrderStays
  <1>1. RecordedEvents' = RecordedEvents
    BY DEF RecordedEvents, Recorded
  <1>2. \A e : Place(e)' = Place(e)
    BY PlaceIsFirst
  <1> QED
    BY <1>1, <1>2 DEF TimelineInv, OrderStays

\* A client goes from the timeline, if it is there.
LEMMA TimelineLeave ==
  ASSUME OwnerInv, TimelineInv, NEW c \in Client, timeline' = RemoveFirst(timeline, c),
         UNCHANGED history, \A d \in Client : d # c => call'[d] = call[d], ~Begun(c)'
  PROVE  TimelineInv' /\ OrderStays
  <1> DEFINE S == Client \cup Event
  <1>1. timeline \in Seq(S) /\ IsInjective(timeline)
    BY DEF OwnerInv, PipelineTypes, TimelineInv
  <1>2. RecordedEvents' = RecordedEvents
    BY DEF RecordedEvents, Recorded
  <1> HIDE DEF S
  <1>3. /\ IsInjective(timeline')
        /\ ToSet(timeline') = ToSet(timeline) \ {c}
        /\ \A x, y \in ToSet(timeline) \ {c} :
             FirstAt(timeline, x) >= FirstAt(timeline, y)
               => FirstAt(timeline', x) >= FirstAt(timeline', y)
    BY <1>1, RemoveKeepsOrder
  <1>4. c \notin Event
    BY PipelineAssumption
  <1>5. TimelineInv'
    BY <1>2, <1>3, <1>4 DEF TimelineInv, Begun
  <1>6. \A e \in RecordedEvents : e \in ToSet(timeline) \ {c}
    BY <1>4 DEF TimelineInv, RecordedEvents
  <1>7. OrderStays
    BY <1>3, <1>6, PlaceIsFirst DEF OrderStays
  <1> QED
    BY <1>5, <1>7

LEMMA StampKeeps ==
  ASSUME OwnerInv, TimelineInv, NEW c \in Client, Serve(c) \/ ServeFault(c)
  PROVE  TimelineInv' /\ OrderStays
  <1> DEFINE S == Client \cup Event
             e == call[c].event
  <1>1. /\ Proceed(c) \/ Fail(c)
        /\ Stamp(c)
    BY DEF Serve, ServeFault
  <1>2. ServiceTypeOK /\ ServiceInv
    BY DEF OwnerInv, ServiceInv, LockInv
  <1>3. \A d \in Client : d # c => call'[d] = call[d]
    BY <1>1, <1>2, CallGoesOn DEF OthersWait
  <1>4. timeline \in Seq(S) /\ IsInjective(timeline) /\ c \in S /\ c \notin Event
    BY PipelineAssumption DEF OwnerInv, PipelineTypes, TimelineInv
  <1>5. /\ call'[c].stage # "lookup"
        /\ call'[c].stage \in InTransaction =>
             call[c].stage \in InTransaction /\ call'[c].stage \in {"lock", "insert", "apply"}
        /\ At(c, "lookup") => call'[c].stage \notin {"insert", "apply"}
        /\ history' # history => CommitStep(c) /\ call'[c].stage \in {"sync", "transient"}
    BY <1>1, <1>2, TransactionBegins
  <1> HIDE DEF S
  <1>6. CASE history' # history
    <2>1. CommitStep(c) /\ timeline' = ReplaceAll(timeline, c, e) /\ ~Begun(c)'
      BY <1>1, <1>5, <1>6 DEF Stamp, Begun
    <2>2. e \in Event /\ ~Recorded(e) /\ \A f \in Event : Recorded(f)' <=> Recorded(f) \/ f = e
      <3>1. e \in Event /\ ~Recorded(e)
        BY <1>2, <2>1, CommitEffect
      <3> QED
        BY <1>2, <2>1, <3>1, CommitRecords
    <2>3. call[c].stage = "apply"
      BY <2>1 DEF CommitStep, Commit, At
    <2>4. e \in S /\ c \in ToSet(timeline) /\ e \notin ToSet(timeline)
      BY <2>2, <2>3 DEF TimelineInv, Begun, RecordedEvents, S
    <2> HIDE DEF e
    <2>5. /\ IsInjective(timeline')
          /\ ToSet(timeline') = (ToSet(timeline) \ {c}) \cup {e}
          /\ \A x \in ToSet(timeline) \ {c} : FirstAt(timeline', x) = FirstAt(timeline, x)
      BY <1>4, <2>1, <2>4, ReplaceKeepsOrder
    <2>6. RecordedEvents' = RecordedEvents \cup {e}
      BY <2>2 DEF RecordedEvents
    <2>7. \A d \in Client : d # e
      BY <2>2, PipelineAssumption
    <2>8. TimelineInv'
      BY <1>3, <1>4, <2>1, <2>2, <2>5, <2>6, <2>7 DEF TimelineInv, Begun
    <2>9. \A f \in RecordedEvents : f \in ToSet(timeline) \ {c}
      BY <1>4 DEF TimelineInv, RecordedEvents
    <2>10. OrderStays
      BY <2>5, <2>9, PlaceIsFirst DEF OrderStays
    <2> QED
      BY <2>8, <2>10
  <1>7. CASE history' = history /\ call'[c].stage \notin InTransaction
    <2>1. timeline' = RemoveFirst(timeline, c) /\ ~Begun(c)'
      BY <1>1, <1>7 DEF Stamp, Begun, InTransaction
    <2> QED
      BY <1>3, <1>7, <2>1, TimelineLeave
  <1>8. CASE history' = history /\ call'[c].stage \in InTransaction /\ At(c, "lookup")
    <2>1. timeline' = Append(timeline, c) /\ Begun(c)'
      BY <1>1, <1>5, <1>8 DEF Stamp, Begun
    <2>2. c \notin ToSet(timeline)
      BY <1>8 DEF TimelineInv, Begun, At
    <2>3. /\ IsInjective(timeline')
          /\ ToSet(timeline') = ToSet(timeline) \cup {c}
          /\ \A x \in ToSet(timeline) : FirstAt(timeline', x) = FirstAt(timeline, x)
      <3> DEFINE t == Append(timeline, c)
      <3>1. timeline' = t
        BY <2>1
      <3>2. /\ IsInjective(t)
            /\ ToSet(t) = ToSet(timeline) \cup {c}
            /\ \A x \in ToSet(timeline) : FirstAt(t, x) = FirstAt(timeline, x)
        BY <1>4, <2>2, AppendKeepsOrder
      <3> HIDE DEF t
      <3> QED
        BY <3>1, <3>2
    <2>4. RecordedEvents' = RecordedEvents
      BY <1>8 DEF RecordedEvents, Recorded
    <2>5. TimelineInv'
      BY <1>3, <1>4, <2>1, <2>3, <2>4 DEF TimelineInv, Begun
    <2>6. \A f \in RecordedEvents : f \in ToSet(timeline)
      BY DEF TimelineInv, RecordedEvents
    <2>7. OrderStays
      BY <2>3, <2>6, PlaceIsFirst DEF OrderStays
    <2> QED
      BY <2>5, <2>7
  <1>9. CASE history' = history /\ call'[c].stage \in InTransaction /\ ~At(c, "lookup")
    <2>1. timeline' = timeline
      BY <1>1, <1>9 DEF Stamp
    <2>2. Begun(c) /\ Begun(c)'
      BY <1>5, <1>9 DEF Begun, InTransaction, At
    <2>3. \A d \in Client : Begun(d)' <=> Begun(d)
      BY <1>3, <2>2 DEF Begun
    <2> QED
      BY <1>9, <2>1, <2>3, TimelineAside
  <1> QED
    BY <1>6, <1>7, <1>8, <1>9

LEMMA TimelineStep ==
  ASSUME OwnerInv, TimelineInv, [Next]_vars
  PROVE  TimelineInv' /\ OrderStays
  <1>1. call \in [Client -> Call]
    BY DEF OwnerInv, ServiceInv, LockInv, ServiceTypeOK
  <1>2. CASE UNCHANGED <<serviceVars, timeline>>
    BY <1>2, TimelineAside DEF Begun, serviceVars, storeVars
  <1>3. ASSUME NEW c \in Client, CallStep(c)
        PROVE  TimelineInv' /\ OrderStays
    <2>1. CASE Serve(c) \/ ServeFault(c)
      BY <2>1, StampKeeps
    <2>2. CASE \/ \E e \in Event : CallService(c, e)
               \/ TakeResult(c) \/ TakeNothing(c)
      <3>1. /\ call[c].stage \in {"idle", "done", "transient", "rejected"}
            /\ call'[c].stage \in {"idle", "lookup"}
            /\ \A d \in Client : d # c => call'[d] = call[d]
            /\ UNCHANGED <<timeline, history>>
        BY <1>1, <2>2 DEF CallService, Start, TakeResult, TakeNothing, Return, Returned, At,
           NoCall, storeVars
      <3>2. \A d \in Client : Begun(d)' <=> Begun(d)
        BY <3>1 DEF Begun
      <3> QED
        BY <3>1, <3>2, TimelineAside
    <2>3. CASE Crash(c)
      <3>1. /\ timeline' = RemoveFirst(timeline, c) /\ UNCHANGED history
            /\ call' = [call EXCEPT ![c] = NoCall]
        BY <2>3 DEF Crash
      <3>2. ~Begun(c)' /\ \A d \in Client : d # c => call'[d] = call[d]
        BY <1>1, <3>1 DEF Begun, NoCall
      <3> QED
        BY <3>1, <3>2, TimelineLeave
    <2> QED
      BY <1>3, <2>1, <2>2, <2>3 DEF CallStep
  <1>4. ASSUME NEW c \in Client, DetectStep(c)
        PROVE  TimelineInv' /\ OrderStays
    BY <1>2, <1>4, DetectStepIsOutside
  <1> QED
    BY <1>2, <1>3, <1>4, NextCases DEF DeliveredLate, vars

LEMMA TimelineInit == Init => TimelineInv
  <1> SUFFICES ASSUME Init PROVE TimelineInv
    OBVIOUS
  <1>1. ToSet(timeline) = {} /\ IsInjective(timeline)
    BY EmptySeq DEF Init, ToSet, IsInjective
  <1>2. \A c \in Client : ~Begun(c)
    BY DEF Init, ServiceInit, Begun, NoCall
  <1>3. RecordedEvents = {}
    BY EmptySeq DEF Init, ServiceInit, StoreInit, RecordedEvents, Recorded
  <1> QED
    BY <1>1, <1>2, <1>3 DEF TimelineInv

-----------------------------------------------------------------------------
(* What an adjustment reports. *)

\* The report of a change: of one in the history of the event's own row, that began
\* no earlier than the event's, and of a quantity that the row has had; the numbers
\* of a severe one do not add up.
TrueReport(x) ==
  x.type = "adjustment" =>
    /\ x.severity \in Severe => x.amount # Magnitude(x.to - x.from)
    /\ \E i \in DOMAIN history[KeyOf[x.event]] :
         /\ history[KeyOf[x.event]][i].event = x.change
         /\ history[KeyOf[x.event]][i].before = x.from
    /\ Shown(KeyOf[x.event], x.to)
    /\ Place(x.change) >= Place(x.event)

Reporting(c) == detect[c].stage \in {"persist", "alert", "publish"}

\* So are the findings that a client has not stored yet, and the quantity that it
\* has read.
ReportOK(c) ==
  /\ Detecting(c, "rules") => Shown(KeyOf[MyEvent(c)], detect[c].seen)
  /\ Reporting(c) => \A i \in DOMAIN detect[c].found : TrueReport(detect[c].found[i])

ReportInv ==
  /\ HistoryInRange
  /\ \A c \in Client : ReportOK(c)
  /\ \A a \in anomalies : TrueReport(a)

\* What is found after the row has been read is true.
LEMMA FoundIsTrue ==
  ASSUME OwnerInv, HistoryInRange, NEW e \in RecordedEvents, NEW seen,
         Shown(KeyOf[e], seen), NEW x \in Findable(e, seen)
  PROVE  TrueReport(x)
  <1> USE ServiceAssumption
  <1> SUFFICES ASSUME x.type = "adjustment"
               PROVE  /\ x.severity \in Severe => x.amount # Magnitude(x.to - x.from)
                      /\ \E i \in DOMAIN history[KeyOf[x.event]] :
                           /\ history[KeyOf[x.event]][i].event = x.change
                           /\ history[KeyOf[x.event]][i].before = x.from
                      /\ Shown(KeyOf[x.event], x.to)
                      /\ Place(x.change) >= Place(x.event)
    BY DEF TrueReport
  <1>1. x.event = e /\ Reported(x, e, seen)
    BY DEF Findable
  <1>2. KeyOf[e] \in Key
    BY DEF RecordedEvents
  <1>3. PICK i \in DOMAIN history[KeyOf[e]] :
          LET h == history[KeyOf[e]][i]
          IN  /\ x.change = h.event /\ x.from = h.before /\ x.amount = Magnitude(h.delta)
              /\ x.severity = AdjustmentSeverity(h.delta, h.before, seen)
              /\ Place(h.event) >= Place(e)
    BY <1>1 DEF Reported
  <1> DEFINE h == history[KeyOf[e]][i]
  <1>4. /\ x.change = h.event /\ x.from = h.before /\ x.amount = Magnitude(h.delta)
        /\ x.severity = AdjustmentSeverity(h.delta, h.before, seen)
        /\ Place(h.event) >= Place(e)
    BY <1>3
  <1>5. h \in Entry
    <2>1. history[KeyOf[e]] \in Seq(Entry)
      BY <1>2 DEF OwnerInv, ServiceInv, LockInv, ServiceTypeOK, StoreTypeOK
    <2> QED
      BY <2>1, InSet
  <1>6. h.before \in Nat /\ h.delta \in Int
    BY <1>2, <1>5, BeforeInRange, StoreAssumption DEF OwnerInv, Entry
  <1>7. seen \in Nat
    BY <1>2, StoreAssumption DEF Shown, HistoryInRange
  <1> HIDE DEF h
  <1>8. x.severity \in Severe => x.amount # Magnitude(x.to - x.from)
    BY <1>1, <1>4, <1>6, <1>7, SevereIsTorn DEF Reported
  <1> QED
    BY <1>1, <1>4, <1>8 DEF Reported, h

\* A true report stays true: rows are only added, and keep their order.
LEMMA TrueReportStays ==
  ASSUME OwnerInv, OrderStays, [ServiceNext]_serviceVars, NEW x, x.event \in RecordedEvents,
         TrueReport(x)
  PROVE  TrueReport(x)'
  <1> USE ServiceAssumption
  <1> SUFFICES ASSUME x.type = "adjustment"
               PROVE  /\ x.severity \in Severe => x.amount # Magnitude(x.to - x.from)
                      /\ \E i \in DOMAIN history'[KeyOf[x.event]] :
                           /\ history'[KeyOf[x.event]][i].event = x.change
                           /\ history'[KeyOf[x.event]][i].before = x.from
                      /\ Shown(KeyOf[x.event], x.to)'
                      /\ Place(x.change)' >= Place(x.event)'
    BY DEF TrueReport
  <1> DEFINE k == KeyOf[x.event]
  <1>1. k \in Key
    BY DEF RecordedEvents
  <1>2. /\ x.severity \in Severe => x.amount # Magnitude(x.to - x.from)
        /\ Shown(k, x.to)
        /\ Place(x.change) >= Place(x.event)
    BY DEF TrueReport
  <1>3. PICK i \in DOMAIN history[k] :
          history[k][i].event = x.change /\ history[k][i].before = x.from
    BY DEF TrueReport
  <1>4. /\ history[k] \in Seq(Entry) /\ history'[k] \in Seq(Entry)
        /\ Extends(history'[k], history[k])
    BY <1>1, TypeStep, HistoryExtended
       DEF OwnerInv, ServiceInv, LockInv, ServiceTypeOK, StoreTypeOK
  <1>5. i \in DOMAIN history'[k] /\ history'[k][i] = history[k][i]
    BY <1>3, <1>4 DEF Extends
  <1>6. Shown(k, x.to)'
    BY <1>1, <1>2, ShownStays DEF OwnerInv
  <1>7. x.change \in RecordedEvents
    <2>1. history[k][i] \in Entry
      BY <1>4, InSet
    <2> QED
      BY <1>1, <1>3, <2>1 DEF RecordedEvents, Recorded, Entry
  <1>8. Place(x.change)' >= Place(x.event)'
    BY <1>2, <1>7 DEF OrderStays
  <1> QED
    BY <1>2, <1>3, <1>5, <1>6, <1>8

LEMMA OneIsSome ==
  ASSUME NEW S, NEW s \in Seq(S), Len(s) = 1
  PROVE  s # <<>>
  BY EmptySeq

\* Between its examination and its end, a detection keeps what it has found.
LEMMA FoundStays ==
  ASSUME detect \in [Client -> Detection], NEW c \in Client, DetectStep(c),
         ~ReadRow(c), ~RunRules(c), ~RuleError(c)
  PROVE  /\ detect'[c].stage # "rules"
         /\ Reporting(c)' => Reporting(c) /\ detect'[c].found = detect[c].found
         /\ \A a \in anomalies' \ anomalies :
              Reporting(c) /\ detect[c].found # <<>> /\ a = Head(detect[c].found)
  <1>0. detect[c].found \in Seq(Finding)
    BY DEF Detection
  <1> USE DEF Reporting, Detecting, Leave, NoDetection, Detection
  <1>1. CASE PersistAnomaly(c)
    <2> DEFINE new == Head(detect[c].found)
    <2>1. /\ detect[c].stage = "persist"
          /\ anomalies' = anomalies \/ anomalies' = anomalies \cup {new}
          /\ anomalies' = anomalies \/ Len(detect[c].found) = 1
          /\ detect' = [detect EXCEPT ![c].stage = "alert"] \/ Leave(c)
      BY <1>1 DEF PersistAnomaly
    <2>2. Len(detect[c].found) = 1 => detect[c].found # <<>>
      BY <1>0, OneIsSome
    <2> QED
      BY <2>1, <2>2
  <1>2. CASE PersistConflict(c) \/ Published(c)
    BY <1>2 DEF PersistConflict, Published
  <1>3. CASE CreateAlert(c)
    BY <1>3 DEF CreateAlert
  <1>4. CASE DetectionError(c)
    <2>1. Leave(c) /\ (anomalies' = anomalies \/
            /\ detect[c].stage = "persist" /\ Len(detect[c].found) = 1
            /\ anomalies' = anomalies \cup {Head(detect[c].found)})
      BY <1>4 DEF DetectionError
    <2>2. Len(detect[c].found) = 1 => detect[c].found # <<>>
      BY <1>0, OneIsSome
    <2> QED
      BY <2>1, <2>2
  <1>5. CASE PublishTimeout(c)
    <2>1. /\ detect[c].stage = "publish" /\ anomalies' = anomalies
          /\ detect' = [detect EXCEPT ![c].attempt = @ + 1] \/ Leave(c)
      BY <1>5 DEF PublishTimeout
    <2> QED
      BY <2>1
  <1> QED
    BY <1>1, <1>2, <1>3, <1>4, <1>5 DEF DetectStep

LEMMA ReportStep ==
  ASSUME OwnerInv, OrderStays, ReportInv, [Next]_vars
  PROVE  ReportInv'
  <1> USE ServiceAssumption
  <1>1. [ServiceNext]_serviceVars /\ ServiceInv
    BY StepIsServiceStep DEF OwnerInv
  <1>2. HistoryInRange'
    BY <1>1, RangeStep DEF ReportInv
  <1>3. detect \in [Client -> Detection]
    BY DEF OwnerInv, PipelineTypes
  \* A client that keeps its place.
  <1>4. ASSUME NEW d \in Client, detect'[d] = detect[d]
        PROVE  ReportOK(d)'
    <2>1. ASSUME Detecting(d, "rules"), NEW k, k = KeyOf[MyEvent(d)], NEW q, q = detect[d].seen
          PROVE  Shown(k, q)'
      <3>1. k \in Key /\ Shown(k, q)
        BY <2>1, AtWork DEF ReportInv, ReportOK, Detecting
      <3> QED
        BY <1>1, <3>1, ShownStays
    <2>2. ASSUME Reporting(d), NEW i \in DOMAIN detect[d].found, NEW x, x = detect[d].found[i]
          PROVE  TrueReport(x)'
      <3>1. TrueReport(x) /\ x.event \in RecordedEvents
        BY <2>2, AtWork DEF ReportInv, ReportOK, DetectOK, Reporting, Detecting
      <3> QED
        BY <1>1, <3>1, TrueReportStays
    <2>3. Detecting(d, "rules")' => Shown(KeyOf[MyEvent(d)], detect[d].seen)'
      <3> SUFFICES ASSUME Detecting(d, "rules")'
                   PROVE  Shown(KeyOf[MyEvent(d)], detect[d].seen)'
        OBVIOUS
      <3>1. /\ Detecting(d, "rules")
            /\ MyEvent(d)' = MyEvent(d) /\ detect'[d].seen = detect[d].seen
        BY <1>4 DEF Detecting, MyEvent
      <3> QED
        BY <2>1, <3>1 DEF Shown
    <2>4. Reporting(d)' => \A i \in DOMAIN detect'[d].found : TrueReport(detect[d].found[i])'
      <3> SUFFICES ASSUME Reporting(d)', NEW i \in DOMAIN detect'[d].found
                   PROVE  TrueReport(detect[d].found[i])'
        OBVIOUS
      <3>1. /\ Reporting(d) /\ i \in DOMAIN detect[d].found
            /\ detect'[d].found[i] = detect[d].found[i]
        BY <1>4 DEF Reporting
      <3> QED
        BY <2>2, <3>1 DEF TrueReport
    <2> QED
      BY <2>3, <2>4 DEF ReportOK
  <1>5. ASSUME NEW a \in anomalies
        PROVE  TrueReport(a)'
    <2>1. TrueReport(a) /\ a.event \in RecordedEvents
      BY DEF ReportInv, OwnerInv, ExaminedOK
    <2> QED
      BY <1>1, <2>1, TrueReportStays
  <1>6. CASE UNCHANGED vars
    BY <1>2, <1>4, <1>5, <1>6 DEF vars, detectionVars, ReportInv
  <1>7. ASSUME NEW c \in Client, CallStep(c)
        PROVE  ReportInv'
    <2>1. /\ UNCHANGED anomalies
          /\ \A d \in Client : d # c => detect'[d] = detect[d]
      BY <1>7, CallEffects DEF CallEffect, Calls
    <2>2. ReportOK(c)'
      <3>1. CASE detect'[c] = detect[c]
        BY <1>4, <3>1
      <3>2. CASE TakeResult(c)
        <4> DEFINE x == [NoDetection EXCEPT !.stage = "row", !.event = call[c].event]
        <4>1. detect' = [detect EXCEPT ![c] = x]
          BY <3>2 DEF TakeResult
        <4>2. x.stage = "row"
          BY DEF NoDetection
        <4> HIDE DEF x
        <4>3. detect'[c].stage = "row"
          BY <1>3, <4>1, <4>2
        <4> QED
          BY <4>3 DEF ReportOK, Detecting, Reporting
      <3>3. CASE Crash(c)
        <4>1. detect'[c].stage = "none"
          BY <1>3, <3>3 DEF Crash, Leave, NoDetection
        <4> QED
          BY <4>1 DEF ReportOK, Detecting, Reporting
      <3> QED
        BY <1>7, <3>1, <3>2, <3>3
           DEF CallStep, CallService, Serve, ServeFault, TakeNothing, detectionVars
    <2> QED
      BY <1>2, <1>4, <1>5, <2>1, <2>2 DEF ReportInv
  <1>8. ASSUME NEW c \in Client, DetectStep(c)
        PROVE  ReportInv'
    <2>1. PICK x \in Detection : Moves(c, x)
      BY <1>8, DetectEffect DEF Effect
    <2>2. /\ \A d \in Client : d # c => detect'[d] = detect[d]
          /\ ~Detecting(c, "none")
      BY <1>3, <2>1 DEF Moves
    <2>3. CASE ReadRow(c)
      <3> DEFINE k == KeyOf[MyEvent(c)]
                 q == quantity[k]
      <3>1. k \in Key /\ Shown(k, q)
        BY <1>1, <2>2, AtWork, DuplicateIsShown DEF RecordedEvents
      <3>2. /\ detect'[c].stage = "rules" /\ detect'[c].event = MyEvent(c)
            /\ detect'[c].seen = q /\ UNCHANGED anomalies
        BY <1>3, <2>3 DEF ReadRow, Detection, MyEvent
      <3> HIDE DEF k, q
      <3>3. ASSUME NEW l, l = k, NEW r, r = q
            PROVE  Shown(l, r)'
        BY <1>1, <3>1, <3>3, ShownStays
      <3>4. ReportOK(c)'
        BY <3>2, <3>3 DEF ReportOK, Detecting, Reporting, MyEvent, Shown, k
      <3> QED
        BY <1>2, <1>4, <1>5, <2>2, <3>2, <3>4 DEF ReportInv
    <2>4. CASE RunRules(c) \/ RuleError(c)
      <3> DEFINE e == MyEvent(c)
                 seen == detect[c].seen
                 S == Findable(e, seen)
      <3>1. PICK found \in Seq(S) : Keep(c, found)
        BY <2>4, ExamineStep
      <3>2. Shown(KeyOf[e], seen) /\ e \in RecordedEvents
        BY <2>4, ExamineStep DEF ReportInv, ReportOK
      <3>3. \A z \in S : z.event = e
        BY DEF Findable
      <3>4. \A z \in S : TrueReport(z)
        BY <3>2, FoundIsTrue DEF ReportInv
      <3> HIDE DEF S
      <3>5. \A i \in DOMAIN found : found[i] \in S
        BY InSet
      <3>6. ASSUME NEW i \in DOMAIN found, NEW z, z = found[i]
            PROVE  TrueReport(z)'
        <4>1. TrueReport(z) /\ z.event \in RecordedEvents
          BY <3>2, <3>3, <3>4, <3>5, <3>6
        <4> QED
          BY <1>1, <4>1, TrueReportStays
      <3> DEFINE y == [detect[c] EXCEPT !.stage = "persist", !.seen = 0, !.found = found]
      <3>7. y.stage = "persist" /\ y.found = found
        BY <1>3 DEF Detection
      <3>8. /\ detect' = [detect EXCEPT ![c] = IF found = <<>> THEN NoDetection ELSE y]
            /\ UNCHANGED anomalies
        BY <3>1 DEF Keep
      <3> HIDE DEF y
      <3>9. detect'[c].stage = "none" \/ detect'[c] = y
        BY <1>3, <3>8 DEF NoDetection
      <3>10. ReportOK(c)'
        BY <3>6, <3>7, <3>9 DEF ReportOK, Detecting, Reporting, TrueReport, Shown
      <3> QED
        BY <1>2, <1>4, <1>5, <2>2, <3>8, <3>10 DEF ReportInv
    <2>5. CASE ~ReadRow(c) /\ ~RunRules(c) /\ ~RuleError(c)
      <3>1. /\ detect'[c].stage # "rules"
            /\ Reporting(c)' => Reporting(c) /\ detect'[c].found = detect[c].found
            /\ \A a \in anomalies' \ anomalies :
                 Reporting(c) /\ detect[c].found # <<>> /\ a = Head(detect[c].found)
        BY <1>3, <1>8, <2>5, FoundStays
      <3>2. ASSUME Reporting(c), NEW i \in DOMAIN detect[c].found,
                   NEW z, z = detect[c].found[i]
            PROVE  TrueReport(z)'
        <4>1. TrueReport(z) /\ z.event \in RecordedEvents
          BY <2>2, <3>2, AtWork DEF ReportInv, ReportOK, DetectOK, Reporting
        <4> QED
          BY <1>1, <4>1, TrueReportStays
      <3>3. ReportOK(c)'
        BY <3>1, <3>2 DEF ReportOK, Detecting, Reporting, TrueReport, Shown
      <3>4. ASSUME NEW a \in anomalies', a \notin anomalies
            PROVE  TrueReport(a)'
        <4>1. Reporting(c) /\ detect[c].found # <<>> /\ a = Head(detect[c].found)
          BY <3>1, <3>4
        <4>2. detect[c].found \in Seq(Finding)
          BY <1>3 DEF Detection
        <4>3. 1 \in DOMAIN detect[c].found /\ a = detect[c].found[1]
          BY <4>1, <4>2, LenProperties, EmptySeq
        <4> QED
          BY <3>2, <4>1, <4>3
      <3> QED
        BY <1>2, <1>4, <1>5, <2>2, <3>3, <3>4 DEF ReportInv
    <2> QED
      BY <2>3, <2>4, <2>5
  <1>9. ASSUME NEW e \in Event, DeliveredLate(e)
        PROVE  ReportInv'
    BY <1>2, <1>4, <1>5, <1>9 DEF DeliveredLate, ReportInv
  <1> QED
    BY <1>6, <1>7, <1>8, <1>9, NextCases

\* The reports and the order of the transactions they speak of.
LEMMA ReportInvariant == Spec => [](TimelineInv /\ ReportInv)
  <1>1. Init => TimelineInv /\ ReportInv
    <2> SUFFICES ASSUME Init PROVE TimelineInv /\ ReportInv
      OBVIOUS
    <2>1. TimelineInv
      BY TimelineInit
    <2>2. HistoryInRange
      BY RangeInit DEF Init
    <2>3. \A c \in Client : ReportOK(c)
      BY DEF Init, ReportOK, Detecting, Reporting, NoDetection
    <2> QED
      BY <2>1, <2>2, <2>3 DEF Init, ReportInv
  <1>2. OwnerInv /\ TimelineInv /\ ReportInv /\ [Next]_vars => TimelineInv' /\ ReportInv'
    BY TimelineStep, ReportStep
  <1> QED
    BY <1>1, <1>2, OwnerInvariant, PTL DEF Spec

\* Every severe adjustment that is stored is torn: the row and the history that it
\* was found from do not belong together.
THEOREM SevereAdjustments == Spec => []SevereAdjustmentIsTorn
  <1>1. ReportInv => SevereAdjustmentIsTorn
    BY DEF ReportInv, TrueReport, SevereAdjustmentIsTorn
  <1> QED
    BY <1>1, ReportInvariant, PTL

\* An adjustment reports a change of its event's row, the event's own or one whose
\* transaction began later, and a quantity that the row has had.
THEOREM RecentChanges == Spec => []ReportsRecentChange
  <1>1. ReportInv => ReportsRecentChange
    BY DEF ReportInv, TrueReport, ReportsRecentChange, Shown
  <1> QED
    BY <1>1, ReportInvariant, PTL

=============================================================================
