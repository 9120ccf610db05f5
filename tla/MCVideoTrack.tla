---------------------------- MODULE MCVideoTrack ----------------------------
(* Seven pictures in two MPUs that use the same sample numbers; the        *)
(* sequence number wraps.                                                  *)
EXTENDS VideoTrack

Nal(sample, nal, irap) ==
  [sample |-> sample, nal |-> nal, irap |-> irap, valid |-> TRUE, short |-> FALSE, size |-> 2]

Whole(m, rap, unit) ==
  [mpu |-> m, aggregation |-> FALSE, fragmentation |-> 0, rap |-> rap, cut |-> FALSE,
   units |-> << unit >>]

Fragment(m, frag, unit) == [Whole(m, FALSE, unit) EXCEPT !.fragmentation = frag]

Aggregated(m, rap, units) ==
  [mpu |-> m, aggregation |-> TRUE, fragmentation |-> 0, rap |-> rap, cut |-> FALSE,
   units |-> units]

MCStream ==
  << Aggregated(1, TRUE, << Nal(1, "delimiter", FALSE), Nal(1, "first", TRUE) >>),
     Whole(1, FALSE, Nal(1, "slice", TRUE)),
     Whole(1, FALSE, Nal(2, "first", FALSE)),
     Fragment(1, 1, Nal(2, "slice", FALSE)),
     Fragment(1, 3, Nal(2, "slice", FALSE)),
     Whole(1, FALSE, Nal(3, "first", TRUE)),
     Whole(1, FALSE, Nal(3, "slice", TRUE)),
     Aggregated(2, TRUE, << Nal(1, "delimiter", FALSE), Nal(1, "prefix", FALSE) >>),
     Whole(2, TRUE, Nal(1, "first", TRUE)),
     [Aggregated(2, FALSE, << >>) EXCEPT !.fragmentation = 1],
     Whole(2, FALSE, Nal(2, "first", FALSE)),
     Whole(2, FALSE, [Nal(2, "other", FALSE) EXCEPT !.valid = FALSE]),
     [Aggregated(2, FALSE, << Nal(3, "first", FALSE), Nal(4, "first", FALSE) >>)
        EXCEPT !.cut = TRUE] >>

MCAccessUnits == << 3, 4 >>

(* PicturesSurvive speaks of this stream too.                              *)
ASSUME StreamIsOrderly == OrderlySender

=============================================================================
