----------------------------- MODULE MarkedUnits -----------------------------
(***************************************************************************)
(* What a reassembled stream promises its consumer, whatever the channel   *)
(* loses, repeats or reorders: every unit handed over is a whole unit of   *)
(* the stream, and a unit handed over without a discontinuity mark starts  *)
(* exactly where the previous one ended.                                   *)
(***************************************************************************)
EXTENDS Naturals, Sequences

CONSTANTS
  Positions,      (* places of the stream a unit's pieces come from         *)
  WholeUnits,     (* the units of the stream: sequences of positions        *)
  NextPosition(_) (* the place after a position                             *)

VARIABLES
  due, (* where the next unmarked unit starts; {} before the consumer joins *)
  out  (* the units handed over by the latest packet                        *)

absvars == << due, out >>

Unit == [parts: WholeUnits, discontinuity: BOOLEAN]

(* due is a set with at most one position: empty means anywhere.           *)
StartsAt(places, unit) == places = {} \/ unit.parts[1] \in places

After(unit) == { NextPosition(unit.parts[Len(unit.parts)]) }

Marked(places, units) ==
  \A k \in DOMAIN units :
    \/ units[k].discontinuity
    \/ StartsAt(IF k = 1 THEN places ELSE After(units[k - 1]), units[k])

Init == due = {} /\ out = << >>

HandOver ==
  /\ out' \in Seq(Unit) \ { << >> }
  /\ Marked(due, out')
  /\ due' = After(out'[Len(out')])

(* A packet that completes no unit; the first one fixes where the consumer *)
(* joined.                                                                 *)
Silent ==
  /\ out' = << >>
  /\ \/ due' = due
     \/ due = {} /\ due' \in SUBSET Positions /\ \E x \in due' : due' = {x}

Restart == out' = << >> /\ due' = {}

Next == HandOver \/ Silent \/ Restart

Spec == Init /\ [][Next]_absvars

=============================================================================
