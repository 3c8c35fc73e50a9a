--------------------------- MODULE MCSalesConsumer ---------------------------
(***************************************************************************)
(* A small instance of SalesConsumer: one sale that arrives twice, under   *)
(* two event ids and with two quantities, two bad records, and a           *)
(* restocking client on the same row, which brings enough for both         *)
(* requests and not enough for two deliveries of the larger one.           *)
(***************************************************************************)
EXTENDS SalesConsumer, TLC

CONSTANTS k1, restock, s1a, s1b, sale1, w1, w2, shop, p1, p2

MCKeyOf == [e \in Event |-> k1]

MCDelta ==
  [e \in Event |-> CASE e = restock -> 3 [] e = s1a -> -2 [] e = s1b -> -1]

MCSaleOf == [e \in {s1a, s1b} |-> sale1]

Good(e) == [kind |-> "event", event |-> e]

\* The two requests of the sale are in different partitions, as a client
\* that repeats itself with another product id would put them.
MCLog ==
  [p \in Partition |->
     IF p = p1 THEN <<Good(s1a)>>
     ELSE <<[kind |-> "malformed", event |-> NoEvent], Good(s1b),
            [kind |-> "poison", event |-> NoEvent]>>]

\* The workers are alike.
Alike == Permutations(Worker)

=============================================================================
