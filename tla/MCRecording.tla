------------------------------ MODULE MCRecording ------------------------------
(* A recording of one track with a picture out of order and one whose time *)
(* cannot be represented, and a second track; a point restored from it and *)
(* one whose signalling comes after it.                                    *)
EXTENDS Recording

Unit(track, time, offset, random) ==
  [track |-> track, hevc |-> TRUE, time |-> time, random |-> random,
   restart |-> 0, offset |-> offset]

MCUnits ==
  {Unit(1, -1, 2, TRUE), Unit(1, 2, 4, FALSE), Unit(1, 1, 6, TRUE), Unit(1, 3, 9, TRUE),
   Unit(1, None, 5, TRUE), Unit(2, 1, 3, TRUE)}

Point(time, signalling, offset, track) ==
  [time |-> time, signalling |-> signalling, offset |-> offset, track |-> track]

MCRestored == {Point(2, 0, 1, 1), Point(1, 2, 6, 1), Point(3, 9, 8, 1)}

MCTargets == -2 .. 7
===============================================================================
