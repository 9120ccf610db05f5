----------------------- MODULE MCSignallingReassembly -----------------------
(* Ten messages of every format, complete, fragmented in two and in three, *)
(* aggregated, and over the limit; neighbours whose parts have the same    *)
(* sizes; the sequence number wraps twice.                                 *)
EXTENDS SignallingReassembly

Part(frag, m, size) ==
  [aggregation |-> FALSE, fragmentation |-> frag,
   units |-> << [message |-> m, size |-> size] >>]

Aggregate(units) == [aggregation |-> TRUE, fragmentation |-> 0, units |-> units]

Unit(m, size) == [message |-> m, size |-> size]

MCStream ==
  << Part(0, 1, 2),
     Part(1, 2, 2), Part(3, 2, 2),
     Part(1, 3, 2), Part(3, 3, 2),
     Aggregate(<< Unit(4, 2), Unit(5, 2) >>),
     Part(1, 6, 1), Part(2, 6, 2), Part(3, 6, 1),
     Part(1, 7, 2), Part(3, 7, 2),
     Part(1, 8, 4), Part(2, 8, 2), Part(3, 8, 1),           \* over the limit
     Part(0, 9, 1),                                         \* no message id
     Part(1, 10, 2), Part(3, 10, 3) >>

MCFormat ==
  [m \in 1 .. 10 |-> CASE m \in {2, 3, 4, 10} -> "m2" [] m \in {5, 8} -> "raw"
                       [] OTHER -> "pa"]
=============================================================================
