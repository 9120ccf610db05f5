--------------------------- MODULE MCDurationProbe ---------------------------
(* Two simulcast layers and a video of its own; recordings whose ends the  *)
(* probe finds in the head alone, in sequence, or in widening tails.       *)
EXTENDS DurationProbe

Gap == [kind |-> "none", packet |-> 0, pts |-> 0]
Mpt == [Gap EXCEPT !.kind = "mpt"]
U(packet, pts) == [kind |-> "unit", packet |-> packet, pts |-> pts]

MCTracks ==
  << [packet |-> 1, groups |-> << [group |-> 1, level |-> 1] >>],
     [packet |-> 2, groups |-> << [group |-> 1, level |-> 0] >>],
     [packet |-> 3, groups |-> << [group |-> 2, level |-> 0] >>] >>

(* All in the first window.                                                *)
Short == << Mpt, U(1, 3), U(1, 5) >>

(* The layers begin and end apart.                                         *)
Layered ==
  << Mpt, U(1, 1), U(2, 2), U(1, 3), U(2, 4), Gap, Mpt, U(1, 5), U(2, 6), U(1, 7), U(2, 8) >>

Silence == << Gap, Gap, Gap, Mpt, Gap, U(3, 1), U(3, 2), Gap >>

(* The tables of the tail come late.                                       *)
LateTables == << Gap, Mpt, U(1, 1), U(1, 2), Gap, Mpt, U(1, 3), U(1, 4), U(1, 5), Mpt, Gap >>

(* No tables after the first.                                              *)
OneTable == << Mpt, U(1, 1), U(1, 2), Gap, Gap, U(1, 4), U(1, 3), U(1, 5), Gap >>

(* One layer shows a single picture in the last window.                    *)
Uneven ==
  << Mpt, U(1, 1), U(2, 1), U(1, 2), U(2, 2), Gap, Gap, Gap, Gap, Gap,
     Mpt, U(2, 5), U(1, 7), U(2, 6) >>

MCSources == { << >>, Short, Layered, Silence, LateTables, OneTable, Uneven }

MCOptionSets ==
  { [initial |-> 3, max |-> 8, packet |-> None],
    [initial |-> 2, max |-> 12, packet |-> None],
    [initial |-> 3, max |-> 7, packet |-> 2],
    [initial |-> 3, max |-> 2, packet |-> None] }

=============================================================================
