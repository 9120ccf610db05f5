---- MODULE MCDataAsset ----
(* A stream for TLC in which every kind of packet occurs and the sequence  *)
(* number wraps four times.                                               *)
EXTENDS DataAsset

Mfu(frag, tag, size) ==
  [timed |-> FALSE, aggregation |-> FALSE, fragmentation |-> frag,
   short |-> FALSE, cut |-> FALSE, units |-> << [tag |-> tag, size |-> size] >>]

Aggregate(units) ==
  [timed |-> FALSE, aggregation |-> TRUE, fragmentation |-> 0,
   short |-> FALSE, cut |-> FALSE, units |-> units]

U(tag) == [tag |-> tag, size |-> 1]

MCStream ==
  << Mfu(0, 1, 1),
     Mfu(1, 1, 1), Mfu(2, 1, 1), Mfu(3, 1, 1),
     Aggregate(<< U(1), U(2) >>),
     Mfu(1, 2, 1), Mfu(3, 1, 1),                       \* tags disagree
     [Mfu(0, 1, 1) EXCEPT !.timed = TRUE],
     Mfu(1, 1, 2), Mfu(2, 1, 2), Mfu(3, 1, 2),         \* over the limit
     Mfu(0, 2, 4),
     Mfu(1, 2, 1), Mfu(3, 2, 2),
     [Mfu(2, 2, 0) EXCEPT !.short = TRUE],
     Mfu(3, 2, 1),                                     \* last without first
     Aggregate(<< >>),
     Mfu(1, 2, 1), Mfu(2, 2, 1), Mfu(2, 2, 0), Mfu(3, 2, 1),
     Mfu(1, 1, 1), Mfu(0, 2, 1),                       \* complete cuts in
     Mfu(1, 1, 4),                                     \* over the limit at once
     [Aggregate(<< U(1) >>) EXCEPT !.fragmentation = 1],
     Aggregate(<< U(2) >>),
     Mfu(2, 1, 1),                                     \* middle without first
     Mfu(0, 1, 1),
     Mfu(1, 2, 2), Mfu(3, 2, 2) >>                     \* over the limit at last

(* Not in a run: a cut body, with which LossMarked fails (see the README).  *)
CutStream ==
  << Mfu(0, 1, 1), [Aggregate(<< U(1) >>) EXCEPT !.cut = TRUE], Mfu(0, 1, 1) >>
====
