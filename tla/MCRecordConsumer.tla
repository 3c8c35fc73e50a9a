--------------------------- MODULE MCRecordConsumer ---------------------------
(***************************************************************************)
(* Small instances of RecordConsumer.  The topic's records are fixed per   *)
(* run; each run's log brings its own mixture of good events, events that  *)
(* the stock cannot bear, and bad records.                                 *)
(***************************************************************************)
EXTENDS RecordConsumer, TLC

CONSTANTS k1, restock, sale, w1, w2, p1, p2

MCKeyOf == [e \in Event |-> k1]

MCDelta == [e \in Event |-> IF e = sale THEN -2 ELSE 2]

Good(e) == [kind |-> "event", event |-> e]

Bad(kind, e) == [kind |-> kind, event |-> e]

\* One partition, read by one worker: a record the schema rejects, a restock, and
\* a sale whose timestamp may be too late.
ReadableLog ==
  [p \in Partition |-> <<Bad("malformed", NoEvent), Good(restock), Bad("future", sale)>>]

\* Two partitions with events of the same key: the sale may overtake the restock.
\* The first one begins with a record that every worker refuses, the second one
\* ends with a record that stops every worker that fetches it.
SplitLog ==
  [p \in Partition |->
     IF p = p1 THEN <<Bad("malformed", NoEvent), Good(restock)>>
     ELSE <<Good(sale), Bad("poison", NoEvent)>>]

\* Nothing but two good events of the same key.
GoodLog ==
  [p \in Partition |-> IF p = p1 THEN <<Good(restock)>> ELSE <<Good(sale)>>]

\* The workers are alike.
Alike == Permutations(Worker)

=============================================================================
