------------------------- MODULE InventoryTopic_proofs ------------------------
(***************************************************************************)
(* Lemmas about what the consumers have in common, for any number of       *)
(* partitions, records and workers: the operations of ConsumerGroup, the   *)
(* records of InventoryTopic, and the end of a worker in the middle of a   *)
(* call.                                                                   *)
(***************************************************************************)
EXTENDS InventoryTopic, InventoryService_proofs

-----------------------------------------------------------------------------
(* The consumer group. *)

\* A worker's positions are behind what it has fetched, and no member is behind
\* the committed offsets of its partitions.
MembersAhead ==
  /\ \A w \in Worker, p \in Partition : position[w][p] <= fetched[w][p]
  /\ \A w \in member : \A p \in assigned[w] : committed[p] <= position[w][p]

\* No two members own the same partition.
OneOwner ==
  \A v, w \in member : \A p \in assigned[v] \cap assigned[w] : v = w

GroupInv == GroupTypeOK /\ MembersAhead /\ OneOwner

\* The committed offsets do not move back.
NoneMovesBack == \A p \in Partition : committed[p] <= committed'[p]

\* What the group sees of a step of worker w.
GroupStep(w) ==
  \/ UNCHANGED groupVars
  \/ \E f \in Fetches(w) : Fetch(w, f) \/ FetchAll(w, f)
  \/ \E p \in Partition : HandOut(w, p)
  \/ CommitPositions(w)
  \/ Expire(w)
  \/ Leave(w)

\* Offsets are natural numbers up to the ends of the logs.
LEMMA OffsetFacts ==
  ASSUME NEW f \in Offsets, NEW p \in Partition
  PROVE  f[p] \in Nat /\ f[p] <= End(p)
  <1>1. f[p] <= End(p) /\ f[p] \in UNION {0 .. End(q) : q \in Partition}
    BY DEF Offsets
  <1>2. PICK q \in Partition : f[p] \in 0 .. End(q)
    BY <1>1
  <1> QED
    BY <1>1, <1>2, GroupAssumption

LEMMA OffsetsAreCounts ==
  ASSUME NEW f \in Offsets
  PROVE  f \in [Partition -> Nat]
  <1>1. f = [p \in Partition |-> f[p]]
    BY DEF Offsets
  <1>2. \A p \in Partition : f[p] \in Nat
    BY OffsetFacts
  <1> QED
    BY <1>1, <1>2

LEMMA CountsAreOffsets ==
  ASSUME NEW f \in [Partition -> Nat], \A p \in Partition : f[p] <= End(p)
  PROVE  f \in Offsets
  <1>1. ASSUME NEW p \in Partition
        PROVE  f[p] \in UNION {0 .. End(q) : q \in Partition}
    <2>1. End(p) \in Nat /\ f[p] \in Nat /\ f[p] <= End(p)
      BY GroupAssumption
    <2>2. f[p] \in 0 .. End(p)
      BY <2>1
    <2> QED
      BY <2>2
  <1> QED
    BY <1>1 DEF Offsets

LEMMA StartIsOffset == Start0 \in Offsets
  <1>1. Start0 \in [Partition -> Nat]
    BY DEF Start0
  <1>2. ASSUME NEW p \in Partition
        PROVE  Start0[p] <= End(p)
    BY GroupAssumption DEF Start0
  <1> QED
    BY <1>1, <1>2, CountsAreOffsets

\* At first no worker is a member, and nothing has been read.
LEMMA GroupInitInv == GroupInit => GroupInv
  <1> SUFFICES ASSUME GroupInit PROVE GroupInv
    OBVIOUS
  <1>2. GroupTypeOK
    BY StartIsOffset DEF GroupInit, GroupTypeOK
  <1>3. MembersAhead /\ OneOwner
    BY DEF GroupInit, MembersAhead, OneOwner, Start0
  <1> QED
    BY <1>2, <1>3 DEF GroupInv

LEMMA GroupStutters ==
  ASSUME GroupInv, UNCHANGED groupVars
  PROVE  GroupInv' /\ NoneMovesBack
  <1>1. GroupInv'
    BY DEF GroupInv, GroupTypeOK, MembersAhead, OneOwner, groupVars
  <1>2. NoneMovesBack
    BY OffsetFacts DEF GroupInv, GroupTypeOK, groupVars, NoneMovesBack
  <1> QED
    BY <1>1, <1>2

\* poll() takes offsets further and changes nothing else.
LEMMA FetchKeeps ==
  ASSUME GroupInv, NEW w \in Worker, NEW f \in Fetches(w), Fetch(w, f) \/ FetchAll(w, f)
  PROVE  GroupInv' /\ NoneMovesBack
  <1> USE DEF GroupInv, GroupTypeOK
  <1>1. /\ f \in Offsets
        /\ \A p \in Partition : position[w][p] <= f[p]
    BY DEF Fetches
  <1>2. /\ UNCHANGED <<member, assigned, committed>>
        /\ \/ position' = position
           \/ position' = [position EXCEPT ![w] = f]
        /\ fetched' = [fetched EXCEPT ![w] = f]
    BY DEF Fetch, FetchAll
  <1>3. GroupTypeOK'
    BY <1>1, <1>2
  <1>4. \A v \in Worker, p \in Partition :
          /\ position[v][p] \in Nat /\ position'[v][p] \in Nat
          /\ position[v][p] <= position'[v][p]
          /\ position'[v][p] <= fetched'[v][p]
    <2>1. \A v \in Worker, p \in Partition :
            /\ position[v][p] \in Nat /\ f[p] \in Nat /\ position[v][p] <= fetched[v][p]
      BY <1>1, OffsetFacts DEF MembersAhead
    <2> QED
      BY <1>1, <1>2, <2>1
  <1>5. MembersAhead'
    <2>1. \A p \in Partition : committed[p] \in Nat
      BY OffsetFacts
    <2>2. \A v \in member : v \in Worker /\ assigned[v] \subseteq Partition
      OBVIOUS
    <2> QED
      BY <1>2, <1>4, <2>1, <2>2 DEF MembersAhead
  <1>6. OneOwner' /\ NoneMovesBack
    BY <1>2, OffsetFacts DEF OneOwner, NoneMovesBack
  <1> QED
    BY <1>3, <1>5, <1>6

\* The iterator hands out one of the fetched records.
LEMMA HandOutKeeps ==
  ASSUME GroupInv, NEW w \in Worker, NEW p, HandOut(w, p)
  PROVE  GroupInv' /\ NoneMovesBack
  <1> USE DEF GroupInv, GroupTypeOK
  <1>1. p \in Partition /\ position[w][p] < fetched[w][p]
    BY DEF HandOut, Buffered
  <1> DEFINE f == [position[w] EXCEPT ![p] = position[w][p] + 1]
  <1>2. /\ UNCHANGED <<member, assigned, fetched, committed>>
        /\ position' = [position EXCEPT ![w] = f]
    BY DEF HandOut
  <1>3. \A v \in Worker, q \in Partition :
          /\ position[v][q] \in Nat /\ fetched[v][q] \in Nat
          /\ fetched[v][q] <= End(q)
          /\ position[v][q] <= fetched[v][q]
          /\ committed[q] \in Nat
    BY OffsetFacts DEF MembersAhead
  <1>4. f \in [Partition -> Nat]
    BY <1>1, <1>3, OffsetsAreCounts
  <1>5. ASSUME NEW q \in Partition
        PROVE  position[w][q] <= f[q] /\ f[q] <= fetched[w][q]
    <2>1. f[q] = IF q = p THEN position[w][p] + 1 ELSE position[w][q]
      BY OffsetsAreCounts
    <2> QED
      BY <1>1, <1>3, <2>1
  <1> HIDE DEF f
  <1>6. \A q \in Partition : /\ f[q] \in Nat
                             /\ position[w][q] <= f[q]
                             /\ f[q] <= fetched[w][q]
    BY <1>4, <1>5
  <1>7. f \in Offsets
    <2>1. ASSUME NEW q \in Partition
          PROVE  f[q] <= End(q)
      BY <1>3, <1>6, GroupAssumption
    <2> QED
      BY <2>1, <1>4, CountsAreOffsets
  <1>8. GroupTypeOK'
    BY <1>2, <1>7
  <1>9. \A v \in Worker, q \in Partition :
          position'[v][q] \in Nat /\ position[v][q] <= position'[v][q]
          /\ position'[v][q] <= fetched[v][q]
    BY <1>2, <1>3, <1>6
  <1>10. MembersAhead'
    <2>1. \A v \in member : v \in Worker /\ assigned[v] \subseteq Partition
      OBVIOUS
    <2> QED
      BY <1>2, <1>3, <1>9, <2>1 DEF MembersAhead
  <1>11. OneOwner' /\ NoneMovesBack
    BY <1>2, <1>3 DEF OneOwner, NoneMovesBack
  <1> QED
    BY <1>8, <1>10, <1>11

\* A member's commit is of its own partitions, and it is not behind in them.
LEMMA CommitKeeps ==
  ASSUME GroupInv, NEW w \in Worker, CommitPositions(w)
  PROVE  GroupInv' /\ NoneMovesBack
  <1> USE DEF GroupInv, GroupTypeOK
  <1>1. /\ w \in member
        /\ UNCHANGED <<member, assigned, position, fetched>>
        /\ \A p \in Partition :
             committed'[p] = IF p \in assigned[w] THEN position[w][p] ELSE committed[p]
        /\ committed' = [p \in Partition |-> committed'[p]]
    BY DEF CommitPositions
  <1>2. \A p \in Partition :
          /\ committed[p] \in Nat /\ committed[p] <= End(p)
          /\ position[w][p] \in Nat /\ position[w][p] <= End(p)
    BY OffsetFacts
  <1>3. committed' \in Offsets
    <2>1. committed' \in [Partition -> Nat]
      BY <1>1, <1>2
    <2>2. ASSUME NEW p \in Partition
          PROVE  committed'[p] <= End(p)
      BY <1>1, <1>2
    <2> QED
      BY <2>1, <2>2, CountsAreOffsets
  <1>4. MembersAhead'
    <2> SUFFICES ASSUME NEW v \in member, NEW p \in assigned[v]
                 PROVE  committed'[p] <= position[v][p]
      BY <1>1 DEF MembersAhead
    <2>1. p \in Partition /\ v \in Worker
      OBVIOUS
    <2>2. position[v][p] \in Nat
      BY <2>1, OffsetFacts
    <2>3. p \in assigned[w] => v = w
      BY <1>1 DEF OneOwner
    <2> QED
      BY <1>1, <2>1, <2>2, <2>3 DEF MembersAhead
  <1>5. NoneMovesBack
    BY <1>1, <1>2 DEF MembersAhead, NoneMovesBack
  <1>6. GroupTypeOK' /\ OneOwner'
    BY <1>1, <1>3 DEF OneOwner
  <1> QED
    BY <1>4, <1>5, <1>6

\* A consumer that is removed or gone takes nothing back.
LEMMA DepartureKeeps ==
  ASSUME GroupInv, NEW w \in Worker, Expire(w) \/ Leave(w)
  PROVE  GroupInv' /\ NoneMovesBack
  <1> USE DEF GroupInv, GroupTypeOK
  <1>1. member' = member \ {w} /\ committed' = committed
    BY DEF Expire, Leave
  <1>2. NoneMovesBack
    BY <1>1, OffsetFacts DEF NoneMovesBack
  <1>3. CASE Expire(w)
    BY <1>1, <1>2, <1>3 DEF Expire, MembersAhead, OneOwner
  <1>4. CASE Leave(w)
    <2>1. Start0 \in Offsets /\ \A p \in Partition : Start0[p] <= Start0[p]
      BY StartIsOffset DEF Start0
    <2>2. /\ assigned' = [assigned EXCEPT ![w] = {}]
          /\ position' = [position EXCEPT ![w] = Start0]
          /\ fetched' = [fetched EXCEPT ![w] = Start0]
      BY <1>4 DEF Leave
    <2>3. GroupTypeOK'
      BY <1>1, <2>1, <2>2
    <2>4. MembersAhead' /\ OneOwner'
      BY <1>1, <2>1, <2>2 DEF MembersAhead, OneOwner
    <2> QED
      BY <1>2, <2>3, <2>4
  <1> QED
    BY <1>3, <1>4

LEMMA GroupStepKeeps ==
  ASSUME GroupInv, NEW w \in Worker, GroupStep(w)
  PROVE  GroupInv' /\ NoneMovesBack
  BY GroupStutters, FetchKeeps, HandOutKeeps, CommitKeeps, DepartureKeeps DEF GroupStep

\* No step of a worker moves another one.
LEMMA OthersKeepPlace ==
  ASSUME GroupInv, NEW w \in Worker, GroupStep(w), NEW v \in Worker, v # w
  PROVE  assigned'[v] = assigned[v] /\ position'[v] = position[v]
  <1>1. /\ assigned = [u \in Worker |-> assigned[u]]
        /\ position = [u \in Worker |-> position[u]]
    BY DEF GroupInv, GroupTypeOK
  <1> QED
    BY <1>1 DEF GroupStep, groupVars, Fetch, FetchAll, HandOut, CommitPositions, Expire,
                Leave

\* A new generation divides the partitions among its members, who start from the
\* committed offsets.
LEMMA RebalanceKeeps ==
  ASSUME GroupInv, NEW polling \in SUBSET Worker, NEW owner, Rebalance(polling, owner)
  PROVE  GroupInv' /\ NoneMovesBack
  <1> USE DEF GroupInv, GroupTypeOK
  <1>1. /\ member' = polling
        /\ assigned' = [w \in Worker |->
             IF w \in polling THEN {p \in Partition : owner[p] = w} ELSE assigned[w]]
        /\ position' = [w \in Worker |->
             IF w \in polling THEN committed ELSE position[w]]
        /\ fetched' = [w \in Worker |->
             IF w \in polling THEN committed ELSE fetched[w]]
        /\ committed' = committed
    BY DEF Rebalance
  <1>2. GroupTypeOK'
    BY <1>1
  <1>3. \A p \in Partition : committed[p] \in Nat
    BY OffsetFacts
  <1>4. MembersAhead' /\ OneOwner'
    BY <1>1, <1>3 DEF MembersAhead, OneOwner
  <1>5. NoneMovesBack
    BY <1>1, <1>3 DEF NoneMovesBack
  <1> QED
    BY <1>2, <1>4, <1>5

-----------------------------------------------------------------------------
(* Records. *)

\* A record is a place in the log of a partition, and only records that may be
\* valid carry an event.
LEMMA RecordFacts ==
  ASSUME NEW r \in Record
  PROVE  /\ r[1] \in Partition
         /\ r[2] \in 1 .. End(r[1])
         /\ r = <<r[1], r[2]>>
         /\ MessageOf(r).event \in Event \cup {NoEvent}
         /\ MayBeValid(r) => MessageOf(r).event \in Event
  <1>1. PICK p \in Partition : r \in {p} \X DOMAIN Log[p]
    BY DEF Record
  <1>2. Log[p] \in Seq(Message)
    BY TopicAssumption
  <1>3. r[1] = p /\ r[2] \in DOMAIN Log[p] /\ r = <<r[1], r[2]>>
    BY <1>1
  <1>4. DOMAIN Log[p] = 1 .. End(p)
    BY <1>2, LenProperties DEF End
  <1>5. MessageOf(r) \in Message
    BY <1>2, <1>3, <1>4, ElementOfSeq DEF MessageOf, End
  <1>6. MessageOf(r).event \in Event \cup {NoEvent}
    BY <1>5 DEF Message
  <1>7. MayBeValid(r) => MessageOf(r).event \in Event
    BY <1>5 DEF Message, MayBeValid
  <1> QED
    BY <1>3, <1>4, <1>6, <1>7

\* A place below the end of a log is a record.
LEMMA PlaceIsRecord ==
  ASSUME NEW p \in Partition, NEW i \in 1 .. End(p)
  PROVE  <<p, i>> \in Record
  <1>1. Log[p] \in Seq(Message)
    BY TopicAssumption
  <1>2. DOMAIN Log[p] = 1 .. End(p)
    BY <1>1, LenProperties DEF End
  <1>3. <<p, i>> \in {p} \X DOMAIN Log[p]
    BY <1>2
  <1> QED
    BY <1>3 DEF Record

\* A record's event has changed the stock if it is among the recorded ones.
LEMMA AppliedFacts ==
  ASSUME NEW r \in Record
  PROVE  Applied(r) <=> MessageOf(r).event \in RecordedEvents
  BY RecordFacts, ServiceAssumption DEF Applied, RecordedEvents

\* The record that the iterator hands out.
LEMMA HandedOut ==
  ASSUME GroupInv, NEW w \in Worker, NEW p \in Partition, HandOut(w, p)
  PROVE  <<p, position[w][p] + 1>> \in Record
  <1>1. position[w] \in Offsets /\ fetched[w] \in Offsets
    BY DEF GroupInv, GroupTypeOK
  <1>2. /\ position[w][p] \in Nat /\ fetched[w][p] \in Nat
        /\ fetched[w][p] <= End(p)
    BY <1>1, OffsetFacts
  <1>3. position[w][p] < fetched[w][p]
    BY DEF HandOut, Buffered
  <1>4. position[w][p] + 1 \in 1 .. End(p)
    BY <1>2, <1>3, GroupAssumption
  <1> QED
    BY <1>4, PlaceIsRecord

-----------------------------------------------------------------------------
(* Failures. *)

\* The budget for failures is not exceeded.
LEMMA FaultTypes ==
  ASSUME faults \in 0 .. MaxFaults, UNCHANGED faults \/ Fault
  PROVE  faults' \in 0 .. MaxFaults
  BY TopicAssumption DEF Fault

=============================================================================
