------------------------- MODULE Reconciliation_proofs -------------------------
(***************************************************************************)
(* Proofs about Reconciliation, for any rows, clients and events, and for  *)
(* any number of readers unless a theorem says otherwise.                  *)
(***************************************************************************)
EXTENDS Reconciliation, InventoryService_proofs

-----------------------------------------------------------------------------
(* The sum of the history. *)

\* As each row of the history starts where the one before it ended, its changes add
\* up to the quantity of the row.
LEMMA SumIsQuantity ==
  ASSUME ServiceInv, NEW k \in Key
  PROVE  HistorySum(k) = quantity[k]
  <1> DEFINE h == history[k]
             n == Len(h)
             Sums(g) == g = [m \in 0 .. n |-> IF m = 0 THEN 0 ELSE g[m - 1] + h[m].delta]
             f == [m \in 0 .. n |-> IF m = 0 THEN 0 ELSE h[m].after]
             sum == CHOOSE g : Sums(g)
  <1>1. HistorySum(k) = sum[n]
    BY DEF HistorySum
  <1>2. h \in Seq(Entry) /\ n \in Nat /\ DOMAIN h = 1 .. n
    BY LenProperties DEF ServiceInv, LockInv, ServiceTypeOK, StoreTypeOK
  <1>3. \A m \in 1 .. n :
          /\ h[m].before \in Int /\ h[m].after \in Int /\ h[m].delta \in Int
          /\ h[m].after = h[m].before + h[m].delta
          /\ h[m].before = IF m = 1 THEN 0 ELSE h[m - 1].after
    <2>1. \A m \in 1 .. n : h[m] \in Entry
      BY <1>2, ElementOfSeq
    <2>2. \A m \in 1 .. n : /\ h[m].before \in Int /\ h[m].after \in Int
                            /\ h[m].delta \in Int
      BY <2>1 DEF Entry
    <2>3. \A m \in DOMAIN history[k] :
            /\ history[k][m].after = history[k][m].before + history[k][m].delta
            /\ history[k][m].before = IF m = 1 THEN 0 ELSE history[k][m - 1].after
      BY DEF ServiceInv, TableInv, HistoryChained
    <2> QED
      BY <1>2, <2>2, <2>3
  <1> HIDE DEF h, n
  \* The quantities after the changes satisfy the definition of the sums ...
  <1>4. Sums(f)
    <2>1. ASSUME NEW m \in 0 .. n
          PROVE  f[m] = IF m = 0 THEN 0 ELSE f[m - 1] + h[m].delta
      <3>1. CASE m = 0
        BY <3>1
      <3>2. CASE m # 0
        <4>1. m \in 1 .. n /\ m - 1 \in 0 .. n
          BY <1>2, <3>2
        <4>2. f[m] = h[m].after /\ f[m - 1] = h[m].before
          BY <1>3, <3>2, <4>1
        <4> QED
          BY <1>3, <3>2, <4>1, <4>2
      <3> QED
        BY <3>1, <3>2
    <2> QED
      BY <2>1
  <1>5. Sums(sum)
    BY <1>4
  <1> HIDE DEF sum
  \* ... and nothing else does: there is no first place where the two differ.
  <1>6. \A m \in 0 .. n : sum[m] = f[m]
    <2> DEFINE D == {m \in 0 .. n : sum[m] # f[m]}
    <2> SUFFICES ASSUME D # {} PROVE FALSE
      OBVIOUS
    <2>1. D \subseteq Nat
      BY <1>2
    <2> HIDE DEF D
    <2>2. PICK m \in D : \A l \in D : m <= l
      BY <2>1, LeastElement
    <2> USE DEF D
    <2>3. m \in 0 .. n /\ sum[m] # f[m]
      BY <2>2
    <2>4. sum[m] = IF m = 0 THEN 0 ELSE sum[m - 1] + h[m].delta
      BY <1>5, <2>3
    <2>5. f[m] = IF m = 0 THEN 0 ELSE f[m - 1] + h[m].delta
      BY <1>4, <2>3
    <2>6. m # 0 /\ m - 1 \in 0 .. n /\ m - 1 \notin D
      BY <1>2, <2>2, <2>3, <2>4, <2>5
    <2> QED
      BY <2>3, <2>4, <2>5, <2>6
  <1>7. sum[n] = IF n = 0 THEN 0 ELSE h[n].after
    BY <1>2, <1>6
  <1>8. n = 0 <=> h = <<>>
    BY <1>2, EmptySeq DEF n
  <1> QED
    BY <1>1, <1>7, <1>8 DEF h, n, ServiceInv, TableInv, SnapshotMatchesHistory

-----------------------------------------------------------------------------
(* The books balance. *)

\* In every committed state the quantity of a row is the sum of its history: what the
\* two queries of a reconciliation see differ only because they run at two times.
BooksBalance == \A k \in Key : HistorySum(k) = quantity[k]

-----------------------------------------------------------------------------
(* The reader is no client: the service runs as it does without it. *)

LEMMA ReaderStutters ==
  ASSUME [Next]_vars
  PROVE  [ServiceNext]_serviceVars
  <1>1. ASSUME NEW r \in Reader, NEW k \in Key, Begin(r, k)
        PROVE  UNCHANGED serviceVars
    BY <1>1 DEF Begin
  <1>2. ASSUME NEW r \in Reader, ReadMissing(r) \/ ReadRow(r) \/ SumHistory(r)
        PROVE  UNCHANGED serviceVars
    BY <1>2 DEF ReadMissing, ReadRow, SumHistory
  <1>3. ASSUME NEW r \in Reader,
               \/ FindNoChange(r) \/ FindChange(r) \/ InsertRecord(r) \/ ReconcileError(r)
        PROVE  UNCHANGED serviceVars
    BY <1>3 DEF FindNoChange, FindChange, InsertRecord, ReconcileError
  <1>4. UNCHANGED vars => UNCHANGED serviceVars
    BY DEF vars
  <1> QED
    BY <1>1, <1>2, <1>3, <1>4 DEF Next, Reconcile

\* Reconciliation only reads the tables of the inventory service.
THEOREM ReaderOnlyReads == Spec => ServiceSpec
  <1>1. Init => ServiceInit
    BY DEF Init
  <1> QED
    BY <1>1, ReaderStutters, PTL DEF Spec, ServiceSpec

\* With it everything that holds of the service holds here.
LEMMA ServiceHolds == Spec => []ServiceInv
  BY ReaderOnlyReads, ServiceInvariant, PTL

\* Whatever the clients do, every row equals the sum of its history.
THEOREM RowsAreTheirSums == Spec => []BooksBalance
  <1>1. ServiceInv => BooksBalance
    BY SumIsQuantity DEF BooksBalance
  <1> QED
    BY <1>1, ServiceHolds, PTL

-----------------------------------------------------------------------------
(* What a reconciliation has read. *)

ReconcileTypes ==
  /\ probe \in [Reader -> Probe]
  /\ records \in [Key -> SUBSET Row]

\* The row of k had quantity a, and then or later e.
ReadInOrder(k, a, e) ==
  \E i, j \in DOMAIN history[k] :
    i <= j /\ history[k][i].after = a /\ history[k][j].after = e

\* What a reader holds is from the history of its row.
ProbeOK(r) ==
  /\ In(r, "sum") => Shown(probe[r].key, probe[r].actual)
  /\ probe[r].stage \in {"latest", "insert"} /\ probe[r].status # "missing" =>
       ReadInOrder(probe[r].key, probe[r].actual, probe[r].expected)

RecordsOK ==
  \A k \in Key : \A x \in records[k] :
    x.status # "missing" => ReadInOrder(k, x.actual, x.expected)

\* No clock has been read after b.
ReadBefore(b) ==
  /\ \A k \in Key : \A x \in records[k] : x.at <= b
  /\ \A r \in Reader : probe[r].at <= b

\* There is a last reading of the clock, so that "later than any" means something.
ClockOK == \E b \in Nat : ReadBefore(b)

ReconcileInv ==
  /\ ServiceInv
  /\ ReconcileTypes
  /\ \A r \in Reader : ProbeOK(r)
  /\ RecordsOK
  /\ ClockOK

\* The next reading of the clock is a time, and later than every other.
LEMMA NowIsLater ==
  ASSUME ReconcileTypes, ClockOK
  PROVE  /\ Now \in Nat
         /\ \A k \in Key : \A x \in records[k] : x.at < Now
         /\ ReadBefore(Now)
  <1> DEFINE S == {0} \cup {x.at : x \in UNION {records[k] : k \in Key}}
                     \cup {probe[r].at : r \in Reader}
  <1>1. PICK b \in Nat : ReadBefore(b)
    BY DEF ClockOK
  <1>2. \A k \in Key : \A x \in records[k] : x \in Row /\ x.at \in Nat /\ x.at <= b
    BY <1>1 DEF ReconcileTypes, ReadBefore, Row
  <1>3. \A r \in Reader : probe[r].at \in Nat /\ probe[r].at <= b
    BY <1>1 DEF ReconcileTypes, ReadBefore, Probe
  <1>4. S \subseteq Nat /\ S # {} /\ \A n \in S : n <= b
    BY <1>2, <1>3
  <1>5. /\ \A k \in Key : \A x \in records[k] : x.at \in S
        /\ \A r \in Reader : probe[r].at \in S
    OBVIOUS
  <1>6. Now = 1 + Max(S)
    BY DEF Now
  <1> HIDE DEF S
  <1>7. PICK m \in S : \A n \in S : n <= m
    BY <1>4, GreatestElement
  <1>8. m \in S /\ \A n \in S : m >= n
    BY <1>4, <1>7
  <1>9. Max(S) \in S /\ \A n \in S : Max(S) >= n
    BY <1>8 DEF Max
  <1>10. Max(S) \in Nat
    BY <1>4, <1>9
  <1>11. Now \in Nat /\ \A n \in S : n < Now /\ n <= Now
    BY <1>4, <1>6, <1>9, <1>10
  <1> QED
    BY <1>5, <1>11 DEF ReadBefore

LEMMA ReconcileInit == Init => ReconcileInv
  <1> SUFFICES ASSUME Init PROVE ReconcileInv
    OBVIOUS
  <1>1. ServiceInv
    BY ServiceInvInit DEF Init
  <1>2. \A r \in Reader : /\ probe[r].stage = "idle" /\ probe[r].at = 0
                          /\ probe[r] \in Probe
    BY DEF Init, Probe, Status
  <1>3. ReconcileTypes
    BY <1>2 DEF Init, ReconcileTypes
  <1>4. (\A r \in Reader : ProbeOK(r)) /\ RecordsOK /\ ClockOK
    BY <1>2 DEF Init, ProbeOK, In, RecordsOK, ClockOK, ReadBefore
  <1> QED
    BY <1>1, <1>3, <1>4 DEF ReconcileInv

\* What was read in order stays so: no row of the history goes.
LEMMA OrderStays ==
  ASSUME ServiceInv, [ServiceNext]_serviceVars, NEW k \in Key, NEW a, NEW e,
         ReadInOrder(k, a, e)
  PROVE  ReadInOrder(k, a, e)'
  <1>1. PICK i, j \in DOMAIN history[k] :
          i <= j /\ history[k][i].after = a /\ history[k][j].after = e
    BY DEF ReadInOrder
  <1>2. history[k] \in Seq(Entry) /\ history'[k] \in Seq(Entry)
    BY TypeStep DEF ServiceInv, LockInv, ServiceTypeOK, StoreTypeOK
  <1>3. /\ Len(history[k]) <= Len(history'[k])
        /\ history'[k][i] = history[k][i] /\ history'[k][j] = history[k][j]
    BY HistoryExtended DEF Extends
  <1>4. i \in DOMAIN history'[k] /\ j \in DOMAIN history'[k]
    BY <1>1, <1>2, <1>3
  <1> QED
    BY <1>1, <1>3, <1>4 DEF ReadInOrder

LEMMA ServiceKeepsReads ==
  ASSUME ReconcileInv, [ServiceNext]_serviceVars, UNCHANGED reconcileVars
  PROVE  ReconcileInv'
  <1>1. ServiceInv'
    BY ServiceInvStep DEF ReconcileInv
  <1>2. probe' = probe /\ records' = records
    BY DEF reconcileVars
  <1>3. ReconcileTypes' /\ ClockOK'
    BY <1>2 DEF ReconcileInv, ReconcileTypes, ClockOK, ReadBefore
  <1>4. ASSUME NEW r \in Reader PROVE ProbeOK(r)'
    <2>1. \A k \in Key : \A q : Shown(k, q) => Shown(k, q)'
      BY ShownStays DEF ReconcileInv
    <2>2. \A k \in Key : \A a, e : ReadInOrder(k, a, e) => ReadInOrder(k, a, e)'
      BY OrderStays DEF ReconcileInv
    <2>3. probe[r].key \in Key
      BY DEF ReconcileInv, ReconcileTypes, Probe
    <2> QED
      BY <1>2, <2>1, <2>2, <2>3 DEF ReconcileInv, ProbeOK, In
  <1>5. RecordsOK'
    <2> SUFFICES ASSUME NEW k \in Key, NEW x \in records[k], x.status # "missing"
                 PROVE  ReadInOrder(k, x.actual, x.expected)'
      BY <1>2 DEF RecordsOK, ReadInOrder
    <2>1. ReadInOrder(k, x.actual, x.expected)
      BY DEF ReconcileInv, RecordsOK
    <2> QED
      BY <2>1, OrderStays DEF ReconcileInv
  <1> QED
    BY <1>1, <1>3, <1>4, <1>5 DEF ReconcileInv

\* A reader that steps changes no table of the service, nor what others have read.
LEMMA ReadersStep ==
  ASSUME ReconcileInv, UNCHANGED serviceVars, NEW r \in Reader,
         \A s \in Reader : s # r => probe'[s] = probe[s],
         ReconcileTypes', ProbeOK(r)', RecordsOK', ClockOK'
  PROVE  ReconcileInv'
  <1>1. ServiceInv'
    BY ServiceInvStutters DEF ReconcileInv
  <1>2. history' = history
    BY DEF serviceVars, storeVars
  <1>3. ASSUME NEW s \in Reader PROVE ProbeOK(s)'
    BY <1>2 DEF ReconcileInv, ProbeOK, In, Shown, ReadInOrder
  <1> QED
    BY <1>1, <1>3 DEF ReconcileInv

LEMMA ReadKeeps ==
  ASSUME ReconcileInv, NEW r \in Reader,
         \/ \E k \in Key : Begin(r, k)
         \/ ReadMissing(r) \/ ReadRow(r) \/ SumHistory(r)
  PROVE  ReconcileInv'
  <1> DEFINE p == probe[r]
  <1>1. UNCHANGED <<serviceVars, records>>
    BY DEF Begin, ReadMissing, ReadRow, SumHistory
  <1>2. /\ probe \in [Reader -> Probe] /\ p \in Probe /\ p.key \in Key
        /\ history \in [Key -> Seq(Entry)] /\ quantity \in [Key -> Int]
    BY DEF ReconcileInv, ReconcileTypes, Probe, ServiceInv, LockInv, ServiceTypeOK,
           StoreTypeOK
  <1>3. history' = history /\ records' = records
    BY <1>1 DEF serviceVars, storeVars
  <1>4. PICK new : /\ new \in Probe /\ probe' = [probe EXCEPT ![r] = new]
                   /\ new.at = p.at
                   /\ new.stage = "sum" => Shown(new.key, new.actual)
                   /\ new.stage \in {"latest", "insert"} /\ new.status # "missing" =>
                        ReadInOrder(new.key, new.actual, new.expected)
    <2>1. ASSUME NEW k \in Key, Begin(r, k)
          PROVE  \E new \in Probe :
                   /\ probe' = [probe EXCEPT ![r] = new] /\ new.at = p.at
                   /\ new.stage = "read"
      <3> DEFINE new == [p EXCEPT !.stage = "read", !.key = k]
      <3>1. new \in Probe /\ new.at = p.at /\ new.stage = "read"
        BY <1>2 DEF Probe
      <3>2. probe' = [probe EXCEPT ![r] = new]
        BY <2>1 DEF Begin
      <3> QED
        BY <3>1, <3>2
    <2>2. ASSUME ReadMissing(r)
          PROVE  \E new \in Probe :
                   /\ probe' = [probe EXCEPT ![r] = new] /\ new.at = p.at
                   /\ new.stage = "latest" /\ new.status = "missing"
      <3> DEFINE new == [p EXCEPT !.stage = "latest", !.actual = 0, !.expected = 0,
                                  !.status = "missing"]
      <3>1. /\ new \in Probe /\ new.at = p.at /\ new.stage = "latest"
            /\ new.status = "missing"
        <4>1. /\ DOMAIN p = {"stage", "key", "actual", "expected", "status", "at"}
              /\ p.key \in Key /\ p.at \in Nat
          BY <1>2 DEF Probe
        <4>2. /\ DOMAIN new = {"stage", "key", "actual", "expected", "status", "at"}
              /\ new.stage = "latest" /\ new.key = p.key /\ new.actual = 0
              /\ new.expected = 0 /\ new.status = "missing" /\ new.at = p.at
          BY <4>1
        <4>3. new = [f \in DOMAIN new |-> new[f]]
          OBVIOUS
        <4> HIDE DEF new
        <4> QED
          BY <4>1, <4>2, <4>3 DEF Probe, Status
      <3>2. probe' = [probe EXCEPT ![r] = new]
        BY <2>2 DEF ReadMissing
      <3> QED
        BY <3>1, <3>2
    <2>3. ASSUME ReadRow(r)
          PROVE  \E new \in Probe :
                   /\ probe' = [probe EXCEPT ![r] = new] /\ new.at = p.at
                   /\ new.stage = "sum" /\ Shown(new.key, new.actual)
      <3> DEFINE new == [p EXCEPT !.stage = "sum", !.actual = quantity[p.key]]
      <3>1. /\ new \in Probe /\ new.at = p.at /\ new.stage = "sum" /\ new.key = p.key
            /\ new.actual = quantity[p.key]
        BY <1>2 DEF Probe
      <3>2. probe' = [probe EXCEPT ![r] = new]
        BY <2>3 DEF ReadRow
      <3>3. history[p.key] # <<>> /\ quantity[p.key] = history[p.key][Len(history[p.key])].after
        BY <1>2, <2>3 DEF ReadRow, ReconcileInv, ServiceInv, TableInv,
                          SnapshotMatchesHistory
      <3>4. Len(history[p.key]) \in DOMAIN history[p.key]
        BY <1>2, <3>3, AppendFacts, LenProperties, EmptySeq
      <3>5. Shown(p.key, quantity[p.key])
        BY <3>3, <3>4 DEF Shown
      <3> QED
        BY <3>1, <3>2, <3>5
    <2>4. ASSUME SumHistory(r)
          PROVE  \E new \in Probe :
                   /\ probe' = [probe EXCEPT ![r] = new] /\ new.at = p.at
                   /\ new.stage = "latest"
                   /\ ReadInOrder(new.key, new.actual, new.expected)
      <3> DEFINE sum == HistorySum(p.key)
                 new == [p EXCEPT !.stage = "latest", !.expected = sum,
                                  !.status = IF p.actual = sum THEN "match"
                                             ELSE "mismatch"]
      <3>1. sum = quantity[p.key]
        BY <1>2, SumIsQuantity DEF ReconcileInv
      <3>2. probe' = [probe EXCEPT ![r] = new]
        BY <2>4 DEF SumHistory
      <3> HIDE DEF sum
      <3>3. /\ new \in Probe /\ new.at = p.at /\ new.stage = "latest" /\ new.key = p.key
            /\ new.actual = p.actual /\ new.expected = sum
        BY <1>2, <3>1 DEF Probe, Status
      <3>4. PICK i \in DOMAIN history[p.key] : history[p.key][i].after = p.actual
        BY <2>4 DEF SumHistory, ReconcileInv, ProbeOK, Shown, In
      <3> DEFINE n == Len(history[p.key])
      <3>5. history[p.key] # <<>> /\ n \in DOMAIN history[p.key] /\ i <= n
        BY <1>2, <3>4, LenProperties, EmptySeq
      <3>6. quantity[p.key] = history[p.key][n].after
        BY <1>2, <3>5 DEF ReconcileInv, ServiceInv, TableInv, SnapshotMatchesHistory
      <3>7. ReadInOrder(p.key, p.actual, sum)
        BY <3>1, <3>4, <3>5, <3>6 DEF ReadInOrder
      <3> QED
        BY <3>2, <3>3, <3>7
    <2>5. CASE \E k \in Key : Begin(r, k)
      BY <2>1, <2>5
    <2>6. CASE ReadMissing(r)
      BY <2>2, <2>6
    <2>7. CASE ReadRow(r)
      BY <2>3, <2>7
    <2>8. CASE SumHistory(r)
      BY <2>4, <2>8
    <2> QED
      BY <2>5, <2>6, <2>7, <2>8
  <1>5. probe'[r] = new /\ \A s \in Reader : s # r => probe'[s] = probe[s]
    BY <1>2, <1>4
  <1>6. ReconcileTypes'
    BY <1>2, <1>3, <1>4 DEF ReconcileInv, ReconcileTypes
  <1>7. ProbeOK(r)'
    BY <1>3, <1>4, <1>5 DEF ProbeOK, In, Shown, ReadInOrder
  <1>8. RecordsOK'
    BY <1>3 DEF ReconcileInv, RecordsOK, ReadInOrder
  <1>9. \A s \in Reader : probe'[s].at = probe[s].at
    BY <1>4, <1>5
  <1>10. ClockOK'
    BY <1>3, <1>9 DEF ReconcileInv, ClockOK, ReadBefore
  <1> QED
    BY <1>1, <1>5, <1>6, <1>7, <1>8, <1>10, ReadersStep

\* A reader that has finished holds nothing.
LEMMA Finished ==
  ASSUME ReconcileTypes, NEW r \in Reader, Finish(r)
  PROVE  /\ probe' \in [Reader -> Probe]
         /\ probe'[r].stage = "idle" /\ probe'[r].at = 0
         /\ \A s \in Reader : s # r => probe'[s] = probe[s]
  <1> DEFINE p == probe[r]
             new == [p EXCEPT !.stage = "idle", !.actual = 0, !.expected = 0,
                              !.status = "match", !.at = 0]
  <1>1. probe \in [Reader -> Probe] /\ p \in Probe
    BY DEF ReconcileTypes
  <1>2. probe' = [probe EXCEPT ![r] = new]
    BY DEF Finish
  <1>3. /\ DOMAIN p = {"stage", "key", "actual", "expected", "status", "at"}
        /\ p.key \in Key
    BY <1>1 DEF Probe
  <1>4. /\ DOMAIN new = {"stage", "key", "actual", "expected", "status", "at"}
        /\ new.stage = "idle" /\ new.key = p.key /\ new.actual = 0
        /\ new.expected = 0 /\ new.status = "match" /\ new.at = 0
    BY <1>3
  <1>5. new = [f \in DOMAIN new |-> new[f]]
    OBVIOUS
  <1> HIDE DEF new
  <1>6. new \in Probe
    BY <1>3, <1>4, <1>5 DEF Probe, Status
  <1> QED
    BY <1>1, <1>2, <1>4, <1>6

LEMMA LeaveKeeps ==
  ASSUME ReconcileInv, NEW r \in Reader, FindNoChange(r) \/ ReconcileError(r)
  PROVE  ReconcileInv'
  <1>1. Finish(r) /\ UNCHANGED <<serviceVars, records>>
    BY DEF FindNoChange, ReconcileError
  <1>2. /\ probe' \in [Reader -> Probe]
        /\ probe'[r].stage = "idle" /\ probe'[r].at = 0
        /\ \A s \in Reader : s # r => probe'[s] = probe[s]
    BY <1>1, Finished DEF ReconcileInv
  <1>3. history' = history /\ records' = records
    BY <1>1 DEF serviceVars, storeVars
  <1>4. ReconcileTypes' /\ ProbeOK(r)' /\ RecordsOK'
    BY <1>2, <1>3 DEF ReconcileInv, ReconcileTypes, ProbeOK, In, RecordsOK, ReadInOrder
  <1>5. PICK b \in Nat : ReadBefore(b)
    BY DEF ReconcileInv, ClockOK
  <1>6. ReadBefore(b)'
    BY <1>2, <1>3, <1>5 DEF ReadBefore
  <1> QED
    BY <1>1, <1>2, <1>4, <1>5, <1>6, ReadersStep DEF ClockOK

LEMMA FindChangeKeeps ==
  ASSUME ReconcileInv, NEW r \in Reader, FindChange(r)
  PROVE  ReconcileInv'
  <1> DEFINE p == probe[r]
  <1>3. PICK now \in Nat : now = Now /\ ReadBefore(now)
    BY NowIsLater DEF ReconcileInv
  <1> DEFINE new == [p EXCEPT !.stage = "insert", !.at = now]
  <1>1. /\ UNCHANGED <<serviceVars, records>>
        /\ probe' = [probe EXCEPT ![r] = new]
        /\ p.stage = "latest"
    BY <1>3 DEF FindChange, In
  <1>2. probe \in [Reader -> Probe] /\ p \in Probe
    BY DEF ReconcileInv, ReconcileTypes
  <1>4. /\ new \in Probe /\ new.stage = "insert" /\ new.at = now
        /\ new.key = p.key /\ new.actual = p.actual /\ new.expected = p.expected
        /\ new.status = p.status
    BY <1>2, <1>3 DEF Probe
  <1> HIDE DEF new
  <1>5. probe'[r] = new /\ \A s \in Reader : s # r => probe'[s] = probe[s]
    BY <1>1, <1>2
  <1>6. history' = history /\ records' = records
    BY <1>1 DEF serviceVars, storeVars
  <1>7. ReconcileTypes' /\ RecordsOK'
    BY <1>1, <1>2, <1>4, <1>6 DEF ReconcileInv, ReconcileTypes, RecordsOK, ReadInOrder
  <1>8. ProbeOK(r)'
    BY <1>1, <1>4, <1>5, <1>6 DEF ReconcileInv, ProbeOK, In, ReadInOrder
  <1>9. ReadBefore(now)'
    BY <1>3, <1>4, <1>5, <1>6 DEF ReadBefore
  <1>10. ClockOK'
    BY <1>3, <1>9 DEF ClockOK
  <1> QED
    BY <1>1, <1>5, <1>7, <1>8, <1>10, ReadersStep

LEMMA InsertKeeps ==
  ASSUME ReconcileInv, NEW r \in Reader, InsertRecord(r)
  PROVE  ReconcileInv'
  <1> DEFINE p == probe[r]
             x == [at |-> p.at, expected |-> p.expected, actual |-> p.actual,
                   status |-> p.status]
  <1>1. /\ Finish(r) /\ UNCHANGED serviceVars /\ p.stage = "insert"
        /\ records' = [records EXCEPT ![p.key] = records[p.key] \cup {x}]
    BY DEF InsertRecord, In
  <1>2. /\ probe' \in [Reader -> Probe]
        /\ probe'[r].stage = "idle" /\ probe'[r].at = 0
        /\ \A s \in Reader : s # r => probe'[s] = probe[s]
    BY <1>1, Finished DEF ReconcileInv
  <1>3. p \in Probe /\ p.key \in Key /\ x \in Row
    BY DEF ReconcileInv, ReconcileTypes, Probe, Row
  <1>4. x.at = p.at /\ x.status = p.status /\ x.actual = p.actual
        /\ x.expected = p.expected
    OBVIOUS
  <1> HIDE DEF x
  <1>5. records \in [Key -> SUBSET Row] /\ history' = history
    BY <1>1 DEF ReconcileInv, ReconcileTypes, serviceVars, storeVars
  <1>6. \A k \in Key : \A y \in records'[k] :
          y \in records[k] \/ (k = p.key /\ y = x)
    BY <1>1, <1>3, <1>5
  <1>7. ReconcileTypes'
    BY <1>1, <1>2, <1>3, <1>5 DEF ReconcileTypes
  <1>8. ProbeOK(r)'
    BY <1>2 DEF ProbeOK, In
  <1>9. p.status # "missing" => ReadInOrder(p.key, p.actual, p.expected)
    BY <1>1 DEF ReconcileInv, ProbeOK
  <1>10. RecordsOK'
    <2> SUFFICES ASSUME NEW k \in Key, NEW y \in records'[k], y.status # "missing"
                 PROVE  ReadInOrder(k, y.actual, y.expected)
      BY <1>5 DEF RecordsOK, ReadInOrder
    <2>1. CASE y \in records[k]
      BY <2>1 DEF ReconcileInv, RecordsOK
    <2>2. CASE k = p.key /\ y = x
      BY <1>4, <1>9, <2>2
    <2> QED
      BY <1>6, <2>1, <2>2
  <1>11. PICK b \in Nat : ReadBefore(b)
    BY DEF ReconcileInv, ClockOK
  <1>12. ReadBefore(b)'
    <2>1. ASSUME NEW k \in Key, NEW y \in records'[k] PROVE y.at <= b
      BY <1>4, <1>6, <1>11 DEF ReadBefore
    <2>2. ASSUME NEW s \in Reader PROVE probe'[s].at <= b
      BY <1>2, <1>11 DEF ReadBefore
    <2> QED
      BY <2>1, <2>2 DEF ReadBefore
  <1> QED
    BY <1>1, <1>2, <1>7, <1>8, <1>10, <1>11, <1>12, ReadersStep DEF ClockOK

LEMMA ReconcileStep ==
  ReconcileInv /\ [Next]_vars => ReconcileInv'
  <1> SUFFICES ASSUME ReconcileInv, [Next]_vars PROVE ReconcileInv'
    OBVIOUS
  <1>1. CASE UNCHANGED vars
    BY <1>1, ServiceKeepsReads DEF vars
  <1>2. CASE ServiceNext /\ UNCHANGED reconcileVars
    BY <1>2, ServiceKeepsReads
  <1>3. ASSUME NEW r \in Reader, Reconcile(r) PROVE ReconcileInv'
    BY <1>3, ReadKeeps, LeaveKeeps, FindChangeKeeps, InsertKeeps DEF Reconcile
  <1> QED
    BY <1>1, <1>2, <1>3 DEF Next

THEOREM ReconcileInvariant == Spec => []ReconcileInv
  BY ReconcileInit, ReconcileStep, PTL DEF Spec

\* Every column and every value that a reader holds keeps its type.
THEOREM ReconcileTypesHold == Spec => []TypeOK
  <1>1. ReconcileInv => TypeOK
    BY DEF ReconcileInv, ReconcileTypes, ServiceInv, LockInv, TypeOK
  <1> QED
    BY <1>1, ReconcileInvariant, PTL

\* With any number of readers and clients, both quantities of a record were in its row,
\* and the expected one no earlier than the actual one.
THEOREM RecordsAreFromHistory == Spec => []ReadsAreFromHistory
  <1>1. ReconcileInv => ReadsAreFromHistory
    BY DEF ReconcileInv, RecordsOK, ReadInOrder, ReadsAreFromHistory
  <1> QED
    BY <1>1, ReconcileInvariant, PTL

-----------------------------------------------------------------------------
(* One reader at a time writes a record only when the outcome has changed. *)

\* The reader found what it is about to insert to differ from the latest record, and no
\* record is later.
Fresh(r) ==
  LET k == probe[r].key
  IN  /\ \A x \in records[k] : x.at < probe[r].at
      /\ records[k] # {} => ~SameOutcome(Latest(k), probe[r])

\* The clock orders the records of a row.
OrderedByTime == \A k \in Key : \A x, y \in records[k] : x.at = y.at => x = y

ChangeInv ==
  /\ OrderedByTime
  /\ \A r \in Reader : In(r, "insert") => Fresh(r)
  /\ OnlyChangesRecorded

\* ORDER BY reconciled_at DESC LIMIT 1 finds a record that none is later than.
LEMMA LatestIsLast ==
  ASSUME ReconcileTypes, ClockOK, NEW k \in Key, records[k] # {}
  PROVE  Latest(k) \in records[k] /\ \A y \in records[k] : y.at <= Latest(k).at
  <1> DEFINE S == {x.at : x \in records[k]}
  <1>1. PICK b \in Nat : ReadBefore(b)
    BY DEF ClockOK
  <1>2. S \subseteq Nat /\ S # {} /\ \A n \in S : n <= b
    BY <1>1 DEF ReconcileTypes, ReadBefore, Row
  <1> HIDE DEF S
  <1>3. PICK m \in S : \A n \in S : n <= m
    BY <1>2, GreatestElement
  <1>4. PICK x \in records[k] : x.at = m
    BY <1>3 DEF S
  <1>5. \A y \in records[k] : y.at <= x.at
    BY <1>3, <1>4 DEF S
  <1> QED
    BY <1>4, <1>5 DEF Latest

\* A step that adds no record, and leaves alone whoever is about to add one.
LEMMA NothingInserted ==
  ASSUME ChangeInv, records' = records,
         \A r \in Reader : In(r, "insert")' => probe'[r] = probe[r]
  PROVE  ChangeInv'
  <1>1. OrderedByTime' /\ OnlyChangesRecorded'
    BY DEF ChangeInv, OrderedByTime, OnlyChangesRecorded, Recent, SameOutcome, Difference
  <1>2. ASSUME NEW r \in Reader, In(r, "insert")' PROVE Fresh(r)'
    BY <1>2 DEF ChangeInv, In, Fresh, Latest, SameOutcome, Difference
  <1> QED
    BY <1>1, <1>2 DEF ChangeInv

LEMMA FindChangeIsFresh ==
  ASSUME ReconcileInv, ChangeInv, NEW r \in Reader, FindChange(r)
  PROVE  ChangeInv'
  <1> DEFINE p == probe[r]
             k == p.key
  <1>1. PICK now \in Nat : now = Now /\ \A l \in Key : \A x \in records[l] : x.at < now
    BY NowIsLater DEF ReconcileInv
  <1> DEFINE new == [p EXCEPT !.stage = "insert", !.at = now]
  <1>2. /\ records' = records /\ probe' = [probe EXCEPT ![r] = new]
        /\ records[k] # {} => ~SameOutcome(Latest(k), p)
    BY <1>1 DEF FindChange
  <1>3. probe \in [Reader -> Probe] /\ p \in Probe /\ k \in Key
    BY DEF ReconcileInv, ReconcileTypes, Probe
  <1>4. /\ new.at = now /\ new.key = k /\ new.actual = p.actual
        /\ new.expected = p.expected /\ new.status = p.status
    BY <1>3 DEF Probe
  <1> HIDE DEF new
  <1>5. probe'[r] = new /\ \A s \in Reader : s # r => probe'[s] = probe[s]
    BY <1>2, <1>3
  <1>6. OrderedByTime' /\ OnlyChangesRecorded'
    BY <1>2 DEF ChangeInv, OrderedByTime, OnlyChangesRecorded, Recent, SameOutcome,
                Difference
  <1>7. Fresh(r)'
    BY <1>1, <1>2, <1>3, <1>4, <1>5 DEF Fresh, Latest, SameOutcome, Difference
  <1>8. ASSUME NEW s \in Reader, In(s, "insert")', s # r PROVE Fresh(s)'
    BY <1>2, <1>5, <1>8 DEF ChangeInv, In, Fresh, Latest, SameOutcome, Difference
  <1> QED
    BY <1>6, <1>7, <1>8 DEF ChangeInv

\* The record that is inserted comes right after the latest one, and differs from it.
LEMMA InsertIsChange ==
  ASSUME ReconcileInv, ChangeInv, NEW r \in Reader, InsertRecord(r),
         \A s \in Reader : s = r
  PROVE  ChangeInv'
  <1> DEFINE p == probe[r]
             x == [at |-> p.at, expected |-> p.expected, actual |-> p.actual,
                   status |-> p.status]
  <1>1. /\ Finish(r) /\ p.stage = "insert"
        /\ records' = [records EXCEPT ![p.key] = records[p.key] \cup {x}]
    BY DEF InsertRecord, In
  <1>2. \A s \in Reader : ~In(s, "insert")'
    BY <1>1, Finished DEF ReconcileInv, In
  <1>3. p.key \in Key /\ records \in [Key -> SUBSET Row] /\ x \in Row
    BY DEF ReconcileInv, ReconcileTypes, Probe, Row
  <1>4. /\ x.at = p.at /\ x.status = p.status /\ x.actual = p.actual
        /\ x.expected = p.expected
    OBVIOUS
  <1> HIDE DEF x
  <1>5. /\ \A y \in records[p.key] : y.at < x.at
        /\ records[p.key] # {} => ~SameOutcome(Latest(p.key), p)
    BY <1>1, <1>4 DEF ChangeInv, In, Fresh
  <1>6. ASSUME NEW k \in Key
        PROVE  /\ \A y, z \in records'[k] : y.at = z.at => y = z
               /\ \A y \in records'[k] : \A z \in Recent(k, y)' : ~SameOutcome(y, z)
    <2>1. CASE k # p.key
      <3>1. records'[k] = records[k]
        BY <1>1, <1>3, <2>1
      <3> QED
        BY <3>1 DEF ChangeInv, OrderedByTime, OnlyChangesRecorded, Recent
    <2>2. CASE k = p.key
      <3>1. records'[k] = records[k] \cup {x}
        BY <1>1, <1>3, <2>2
      <3>2. \A y \in records[k] : y.at < x.at /\ y.at \in Nat
        BY <1>3, <1>5, <2>2 DEF Row
      <3>3. x.at \in Nat
        BY <1>3 DEF Row
      <3>4. \A y, z \in records'[k] : y.at = z.at => y = z
        BY <3>1, <3>2, <3>3 DEF ChangeInv, OrderedByTime
      <3>5. ASSUME NEW y \in records'[k], NEW z \in Recent(k, y)'
            PROVE  ~SameOutcome(y, z)
        <4>1. /\ z \in records'[k] /\ z.at < y.at
              /\ \A v \in records'[k] : v.at < y.at => v.at <= z.at
          BY <3>5 DEF Recent
        <4>2. z \in records[k]
          BY <3>1, <3>2, <3>3, <4>1
        <4>3. CASE y = x
          <5>1. Latest(k) \in records[k] /\ z.at <= Latest(k).at
            BY <4>2, LatestIsLast DEF ReconcileInv
          <5>2. Latest(k).at <= z.at
            BY <3>1, <3>2, <4>1, <4>3, <5>1
          <5>3. Latest(k).at \in Nat /\ z.at \in Nat
            BY <3>2, <4>2, <5>1
          <5>4. Latest(k) = z
            BY <4>2, <5>1, <5>2, <5>3 DEF ChangeInv, OrderedByTime
          <5> QED
            BY <1>4, <1>5, <2>2, <4>2, <4>3, <5>4 DEF SameOutcome, Difference
        <4>4. CASE y # x
          <5>1. y \in records[k] /\ z \in Recent(k, y)
            BY <3>1, <4>1, <4>2, <4>4 DEF Recent
          <5> QED
            BY <5>1 DEF ChangeInv, OnlyChangesRecorded
        <4> QED
          BY <4>3, <4>4
      <3> QED
        BY <3>4, <3>5
    <2> QED
      BY <2>1, <2>2
  <1> QED
    BY <1>2, <1>6 DEF ChangeInv, OrderedByTime, OnlyChangesRecorded

LEMMA ChangeStep ==
  ASSUME ReconcileInv, ChangeInv, [Next]_vars, \A r, s \in Reader : r = s
  PROVE  ChangeInv'
  <1>1. CASE UNCHANGED reconcileVars
    BY <1>1, NothingInserted DEF reconcileVars
  <1>2. ASSUME NEW r \in Reader, NEW new, probe' = [probe EXCEPT ![r] = new],
               new.stage # "insert", records' = records
        PROVE  ChangeInv'
    <2>1. probe \in [Reader -> Probe]
      BY DEF ReconcileInv, ReconcileTypes
    <2>2. \A s \in Reader : In(s, "insert")' => probe'[s] = probe[s]
      BY <1>2, <2>1 DEF In
    <2> QED
      BY <1>2, <2>2, NothingInserted
  <1>3. ASSUME NEW r \in Reader, Reconcile(r) PROVE ChangeInv'
    <2>1. probe \in [Reader -> Probe] /\ probe[r] \in Probe
      BY DEF ReconcileInv, ReconcileTypes
    <2>2. ASSUME NEW k \in Key, Begin(r, k) PROVE ChangeInv'
      <3> DEFINE new == [probe[r] EXCEPT !.stage = "read", !.key = k]
      <3>1. probe' = [probe EXCEPT ![r] = new] /\ records' = records
        BY <2>2 DEF Begin
      <3>2. new.stage # "insert"
        BY <2>1 DEF Probe
      <3> QED
        BY <1>2, <3>1, <3>2
    <2>3. ASSUME ReadMissing(r) PROVE ChangeInv'
      <3> DEFINE new == [probe[r] EXCEPT !.stage = "latest", !.actual = 0, !.expected = 0,
                                         !.status = "missing"]
      <3>1. probe' = [probe EXCEPT ![r] = new] /\ records' = records
        BY <2>3 DEF ReadMissing
      <3>2. new.stage # "insert"
        BY <2>1 DEF Probe
      <3> QED
        BY <1>2, <3>1, <3>2
    <2>4. ASSUME ReadRow(r) PROVE ChangeInv'
      <3> DEFINE new == [probe[r] EXCEPT !.stage = "sum",
                                         !.actual = quantity[probe[r].key]]
      <3>1. probe' = [probe EXCEPT ![r] = new] /\ records' = records
        BY <2>4 DEF ReadRow
      <3>2. new.stage # "insert"
        BY <2>1 DEF Probe
      <3> QED
        BY <1>2, <3>1, <3>2
    <2>5. ASSUME SumHistory(r) PROVE ChangeInv'
      <3> DEFINE sum == HistorySum(probe[r].key)
                 new == [probe[r] EXCEPT !.stage = "latest", !.expected = sum,
                           !.status = IF probe[r].actual = sum THEN "match"
                                      ELSE "mismatch"]
      <3>1. probe' = [probe EXCEPT ![r] = new] /\ records' = records
        BY <2>5 DEF SumHistory
      <3> HIDE DEF sum
      <3>2. new.stage # "insert"
        BY <2>1 DEF Probe
      <3> HIDE DEF new
      <3> QED
        BY <1>2, <3>1, <3>2
    <2>6. ASSUME FindNoChange(r) \/ ReconcileError(r) PROVE ChangeInv'
      <3>1. Finish(r) /\ records' = records
        BY <2>6 DEF FindNoChange, ReconcileError
      <3>2. \A s \in Reader : In(s, "insert")' => probe'[s] = probe[s]
        BY <3>1, Finished DEF ReconcileInv, In
      <3> QED
        BY <3>1, <3>2, NothingInserted
    <2> QED
      BY <1>3, <2>2, <2>3, <2>4, <2>5, <2>6, FindChangeIsFresh, InsertIsChange
      DEF Reconcile
  <1> QED
    BY <1>1, <1>3 DEF Next, vars, reconcileVars

\* When no two reconciliations run at once, no record repeats the outcome of the one
\* before it, whatever the clients do meanwhile.
THEOREM OneReaderRecordsChanges ==
  ASSUME \A r, s \in Reader : r = s
  PROVE  Spec => []OnlyChangesRecorded
  <1>1. Init => ChangeInv
    <2> SUFFICES ASSUME Init PROVE ChangeInv
      OBVIOUS
    <2>1. \A r \in Reader : probe[r].stage = "idle"
      BY DEF Init
    <2> QED
      BY <2>1 DEF Init, ChangeInv, OrderedByTime, OnlyChangesRecorded, Recent, In
  <1>2. ReconcileInv /\ ChangeInv /\ [Next]_vars => ChangeInv'
    BY ChangeStep
  <1>3. ChangeInv => OnlyChangesRecorded
    BY DEF ChangeInv
  <1> QED
    BY <1>1, <1>2, <1>3, ReconcileInvariant, PTL DEF Spec

=============================================================================
