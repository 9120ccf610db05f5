------------------------------ MODULE MCDemuxer ------------------------------
(* Two video tracks in the same MPU and a subtitle track: a unit that is   *)
(* refused, one that is no random access, and units of both video tracks   *)
(* on either side of the offset that seeks go to.                          *)
EXTENDS Demuxer

Unit(t, rap, verdict) == [track |-> t, rap |-> rap, mpu |-> 1, verdict |-> verdict]

MCStream ==
  << Unit(1, TRUE, "sound"), Unit(2, TRUE, "range"), Unit(1, FALSE, "sound"),
     Unit(3, TRUE, "sound"), Unit(2, TRUE, "sound") >>

MCMpts == {{1, 2, 3}}
=============================================================================
