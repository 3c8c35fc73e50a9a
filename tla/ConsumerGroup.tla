---------------------------- MODULE ConsumerGroup -----------------------------
(***************************************************************************)
(* A Kafka topic and the consumer group that reads it, as the consumers of *)
(* app/consumer see them through kafka-python.  This is code outside the   *)
(* repository: it is modelled from the calls that the repository makes.    *)
(*                                                                         *)
(*  - A partition is an immutable log with a committed offset.             *)
(*  - A member has a position per assigned partition, which moves as       *)
(*    records are handed to the application, and may hold records it has   *)
(*    fetched and not handed out yet.                                      *)
(*  - commit() without arguments, the only form the program uses, commits  *)
(*    the positions of all assigned partitions.  It fails for a consumer   *)
(*    that the group has removed.                                          *)
(*  - A consumer learns of a rebalance only when it polls.  One that is    *)
(*    busy may be removed meanwhile, and goes on with what it has fetched. *)
(*                                                                         *)
(* Offset n is the number of records before a position: the record at      *)
(* position n is Log[p][n + 1].                                            *)
(***************************************************************************)
EXTENDS Integers, Sequences

CONSTANTS
  Partition,    \* partitions of the topic
  Worker,       \* consumer processes of the group
  Log           \* the records of each partition

\* The offset after the last record of a partition.
End(p) == Len(Log[p])

ASSUME GroupAssumption == \A p \in Partition : End(p) \in Nat

VARIABLES
  member,       \* workers of the group's current generation
  assigned,     \* partitions that each worker believes to be its own
  position,     \* next offset each worker will be given, per partition
  fetched,      \* end of the records each worker has fetched, per partition
  committed     \* the group's committed offset of each partition

groupVars == <<member, assigned, position, fetched, committed>>

\* An offset for each partition, at most at the end of its log.
Offsets == {f \in [Partition -> UNION {0 .. End(p) : p \in Partition}] :
              \A p \in Partition : f[p] <= End(p)}

Start0 == [p \in Partition |-> 0]

GroupTypeOK ==
  /\ member \subseteq Worker
  /\ assigned \in [Worker -> SUBSET Partition]
  /\ position \in [Worker -> Offsets]
  /\ fetched \in [Worker -> Offsets]
  /\ committed \in Offsets

GroupInit ==
  /\ member = {}
  /\ assigned = [w \in Worker |-> {}]
  /\ position = [w \in Worker |-> Start0]
  /\ fetched = [w \in Worker |-> Start0]
  /\ committed = Start0

-----------------------------------------------------------------------------

\* Partitions of which w holds records that it has not been given yet.
Buffered(w) == {p \in assigned[w] : position[w][p] < fetched[w][p]}

\* What one fetch may bring: some more records of some assigned partitions.
Fetches(w) ==
  {f \in Offsets :
     /\ f # position[w]
     /\ \A p \in Partition :
          /\ position[w][p] <= f[p]
          /\ f[p] > position[w][p] => p \in assigned[w]}

\* poll() by a member that has used up what it had.
Fetch(w, f) ==
  /\ w \in member
  /\ Buffered(w) = {}
  /\ fetched' = [fetched EXCEPT ![w] = f]
  /\ UNCHANGED <<member, assigned, position, committed>>

\* poll() whose result is handed to the application as a whole.
FetchAll(w, f) ==
  /\ w \in member
  /\ position' = [position EXCEPT ![w] = f]
  /\ fetched' = [fetched EXCEPT ![w] = f]
  /\ UNCHANGED <<member, assigned, committed>>

\* The iterator hands out the next buffered record of partition p.
HandOut(w, p) ==
  /\ p \in Buffered(w)
  /\ position' = [position EXCEPT ![w][p] = @ + 1]
  /\ UNCHANGED <<member, assigned, fetched, committed>>

\* Mutant of CommitPositions: the group takes commits from removed members.
CommitFromAnyone(w) ==
  /\ committed' = [p \in Partition |->
                     IF p \in assigned[w] THEN position[w][p] ELSE committed[p]]
  /\ UNCHANGED <<member, assigned, position, fetched>>

\* commit() succeeds.
CommitPositions(w) ==
  /\ w \in member
  /\ committed' = [p \in Partition |->
                     IF p \in assigned[w] THEN position[w][p] ELSE committed[p]]
  /\ UNCHANGED <<member, assigned, position, fetched>>

\* The group removes a member it has not heard from; the member does not know.
Expire(w) ==
  /\ w \in member
  /\ member' = member \ {w}
  /\ UNCHANGED <<assigned, position, fetched, committed>>

\* The consumer object is closed or dies, and its memory of the group with it.
Leave(w) ==
  /\ member' = member \ {w}
  /\ assigned' = [assigned EXCEPT ![w] = {}]
  /\ position' = [position EXCEPT ![w] = Start0]
  /\ fetched' = [fetched EXCEPT ![w] = Start0]
  /\ UNCHANGED committed

\* The workers that are polling form a new generation, once every member is
\* among them: a worker joins, or a partition has lost its owner.  Each owner
\* starts from the committed offsets.
Rebalance(polling, owner) ==
  /\ polling # {}
  /\ member \subseteq polling
  /\ \/ polling # member
     \/ \E p \in Partition : \A w \in member : p \notin assigned[w]
  /\ owner \in [Partition -> polling]
  /\ member' = polling
  /\ assigned' = [w \in Worker |->
       IF w \in polling THEN {p \in Partition : owner[p] = w} ELSE assigned[w]]
  /\ position' = [w \in Worker |-> IF w \in polling THEN committed ELSE position[w]]
  /\ fetched' = [w \in Worker |-> IF w \in polling THEN committed ELSE fetched[w]]
  /\ UNCHANGED committed

=============================================================================
