--------------------------- MODULE MCBatchConsumer ----------------------------
(***************************************************************************)
(* A small instance of BatchConsumer: two workers and two partitions.      *)
(***************************************************************************)
EXTENDS BatchConsumer

CONSTANTS k1, restock, sale, w1, w2, p1, p2

MCKeyOf == [e \in Event |-> k1]

MCDelta == [e \in Event |-> IF e = sale THEN -2 ELSE 2]

Good(e) == [kind |-> "event", event |-> e]

Bad(kind, e) == [kind |-> kind, event |-> e]

\* A partition with an event, one that brings a sale or is refused, and, out of the
\* reach of the batch that takes the first, a record that stops every worker that
\* fetches it; beside it one with nothing but a record that the schema rejects.
MCLog ==
  [p \in Partition |->
     IF p = p1 THEN <<Good(restock), Bad("future", sale), Bad("poison", NoEvent)>>
     ELSE <<Bad("malformed", NoEvent)>>]

=============================================================================
