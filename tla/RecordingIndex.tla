---------------------------- MODULE RecordingIndex ----------------------------
(***************************************************************************)
(* RecordingIndex of recording.cpp: where the random access units of a     *)
(* recording are, how long it is, and whether that is final.  Pure         *)
(* operators on the index, a record of its members; a call that looks for  *)
(* a place among the seek points gives the set of its outcomes, which has  *)
(* one member as long as the points are sorted.                            *)
(*                                                                         *)
(* Times are microseconds; a timestamp that timestamp_microseconds cannot  *)
(* convert is None.  A unit: [track, hevc, time, random, restart, offset]. *)
(* A seek point: [time, signalling, offset, track].                        *)
(***************************************************************************)
EXTENDS Integers, Sequences, FiniteSets

CONSTANTS
  MaxTime,   (* the largest int64_t                                        *)
  None       (* an empty std::optional                                     *)

ASSUME MaxTimeAssumption == MaxTime \in Nat /\ None \notin Int

Fresh ==
  [state |-> "Absent", selected |-> None, points |-> << >>, minimum |-> None,
   maximum |-> None, previous |-> None, frame |-> 0, duration |-> None,
   status |-> "Unknown", growing |-> FALSE]

Emptied(index) ==
  [index EXCEPT !.points = << >>, !.minimum = None, !.maximum = None,
                !.previous = None, !.frame = 0, !.duration = None, !.status = "Unknown"]

(* begin                                                                   *)
Began(growing) == [Fresh EXCEPT !.growing = growing, !.state = "Building"]

(* selectVideoTrack                                                        *)
VideoSelected(index, track) ==
  IF index.selected = track THEN index ELSE [Emptied(index) EXCEPT !.selected = track]

(* switchVideoTrack: the points and the extent stay.                       *)
VideoSwitched(index, track) ==
  IF index.selected = track THEN index
  ELSE [index EXCEPT !.selected = track, !.previous = None, !.frame = 0]

-----------------------------------------------------------------------------
(* Duration.                                                               *)

Lower(known, time)  == IF known = None \/ time < known THEN time ELSE known
Higher(known, time) == IF known = None \/ time > known THEN time ELSE known

NotNegative(time) == IF time < 0 THEN 0 ELSE time

(* The end of the last frame, unless it cannot be represented.             *)
EndOfLastFrame(index) ==
  LET end == NotNegative(index.maximum)
  IN IF index.frame > 0 /\ end <= MaxTime - index.frame THEN end + index.frame ELSE end

StatusFor(state, duration) ==
  IF duration = None THEN "Unknown"
  ELSE IF state = "Complete" THEN "Complete" ELSE "Provisional"

(* update_duration_status                                                  *)
DurationSettled(index) ==
  LET duration == IF index.state = "Complete" /\ index.maximum # None
                  THEN Higher(index.duration, EndOfLastFrame(index)) ELSE index.duration
  IN [index EXCEPT !.duration = duration, !.status = StatusFor(index.state, duration)]

(* timestamp_distance: None for equal times and beyond int64_t.            *)
Distance(time, other) ==
  LET distance == IF time < other THEN other - time ELSE time - other
  IN IF distance = 0 \/ distance > MaxTime THEN None ELSE distance

FrameAfter(index, time) ==
  LET distance == IF index.previous = None THEN None ELSE Distance(time, index.previous)
  IN IF distance # None /\ (index.frame = 0 \/ distance < index.frame)
     THEN distance ELSE index.frame

(* The part of observe between its checks and its seek point.              *)
Counted(index, time) ==
  DurationSettled([index EXCEPT
    !.frame = FrameAfter(index, time), !.previous = time,
    !.minimum = Lower(@, time), !.maximum = Higher(@, time),
    !.duration = Higher(@, NotNegative(Higher(index.maximum, time)))])

Bug_DurationUpdated(index, status, time) ==
  IF \/ status = "Unknown" \/ time = None \/ time < 0
     \/ (status = "Complete") # (index.state = "Complete")
     \/ index.status = "Complete" /\ (index.duration = None \/ time # index.duration)
  THEN index ELSE [index EXCEPT !.duration = time, !.status = status]

(* updateDuration                                                          *)
DurationUpdated(index, status, time) ==
  IF \/ status = "Unknown" \/ time = None \/ time < 0
     \/ (status = "Complete") # (index.state = "Complete")
     \/ index.status = "Complete" /\ (index.duration = None \/ time # index.duration)
     \/ index.duration # None /\ time < index.duration
  THEN index ELSE [index EXCEPT !.duration = time, !.status = status]

-----------------------------------------------------------------------------
(* Seek points.                                                            *)

Precedes(left, right) ==
  \/ left.time < right.time
  \/ left.time = right.time /\ left.offset < right.offset

(* std::lower_bound                                                        *)
LowerBounds(points, point) ==
  {i \in 1 .. Len(points) + 1 :
     /\ \A j \in 1 .. i - 1 : Precedes(points[j], point)
     /\ i <= Len(points) => ~Precedes(points[i], point)}

SamePlace(point, other) ==
  point.time = other.time /\ point.offset = other.offset /\ point.track = other.track

Present(points, point, i) == i <= Len(points) /\ SamePlace(points[i], point)

Bug_Fits(points, point, i) == i > 1 => points[i - 1].offset <= point.offset

(* Later in time must be later in the file.                                *)
Fits(points, point, i) ==
  /\ i > 1 => points[i - 1].offset <= point.offset
  /\ i <= Len(points) => point.offset <= points[i].offset

Inserted(points, point, i) ==
  [j \in 1 .. Len(points) + 1 |->
     IF j < i THEN points[j] ELSE IF j = i THEN point ELSE points[j - 1]]

Accepts(index, point) ==
  /\ index.state = "Building"
  /\ point.track # 0
  /\ point.signalling <= point.offset
  /\ point.time # None
  /\ index.selected \in {None, point.track}

(* addSeekPoint                                                            *)
PointAdded(index, point) ==
  IF ~Accepts(index, point) THEN {index}
  ELSE {[index EXCEPT !.selected = point.track,
                      !.points = IF Present(@, point, i) \/ ~Fits(@, point, i) THEN @
                                 ELSE Inserted(@, point, i)] :
          i \in LowerBounds(index.points, point)}

PointOf(unit) ==
  [time |-> unit.time, signalling |-> unit.restart, offset |-> unit.offset,
   track |-> unit.track]

(* The unit counts: a rejected seek point does not undo that.              *)
Counts(index, unit) ==
  /\ index.state = "Building"
  /\ unit.hevc
  /\ index.selected \in {None, unit.track}
  /\ unit.time # None

(* observe                                                                 *)
Observed(index, unit) ==
  IF Counts(index, unit)
  THEN LET counted == Counted([index EXCEPT !.selected = unit.track], unit.time)
       IN IF unit.random THEN PointAdded(counted, PointOf(unit)) ELSE {counted}
  ELSE IF index.state = "Building" /\ unit.hevc /\ index.selected = None
       THEN {[index EXCEPT !.selected = unit.track]}
       ELSE {index}

-----------------------------------------------------------------------------
(* The life of an index.                                                   *)

(* pause                                                                   *)
Paused(index) ==
  IF index.state = "Building"
  THEN DurationSettled([index EXCEPT !.state = "Partial"]) ELSE index

(* resume: the status stays until the next unit.                           *)
Resumed(index) ==
  IF index.state \in {"Partial", "Following", "Stale", "Failed"}
  THEN [index EXCEPT !.state = "Building"] ELSE index

(* reachReadableEnd                                                        *)
ReadableEndReached(index, growing) ==
  IF index.state = "Building"
  THEN DurationSettled([index EXCEPT
         !.growing = growing, !.state = IF growing THEN "Following" ELSE "Complete"])
  ELSE index

Bug_Finalized(index) ==
  IF index.state \in {"Building", "Partial", "Following"}
  THEN [index EXCEPT !.state = "Complete", !.growing = FALSE] ELSE index

(* finalize                                                                *)
Finalized(index) ==
  IF index.state \in {"Building", "Partial", "Following"}
  THEN DurationSettled([index EXCEPT !.state = "Complete", !.growing = FALSE]) ELSE index

Bug_MarkedStale(index) ==
  [index EXCEPT !.state = "Stale", !.minimum = None, !.maximum = None,
                !.previous = None, !.frame = 0, !.duration = None, !.status = "Unknown"]

(* markStale                                                               *)
MarkedStale(index) == [Emptied(index) EXCEPT !.state = "Stale"]

(* fail                                                                    *)
FailedIndex(index) == DurationSettled([index EXCEPT !.state = "Failed"])

-----------------------------------------------------------------------------
(* Lookups.                                                                *)

(* std::upper_bound                                                        *)
UpperBound(points, time) ==
  1 + Cardinality({i \in DOMAIN points : points[i].time <= time})

(* previousSync                                                            *)
PreviousSync(index, target) ==
  LET upper == UpperBound(index.points, target)
  IN IF upper = 1 THEN None ELSE index.points[upper - 1]

(* seekPointsFor, as the sequence of the one or two points.                *)
SeekPointsFor(index, target) ==
  LET points == index.points
      upper  == UpperBound(points, target)
  IN IF points = << >> THEN None
     ELSE IF upper = 1 THEN << points[1] >>
     ELSE IF upper > Len(points) \/ points[upper - 1].time = target
     THEN << points[upper - 1] >>
     ELSE << points[upper - 1], points[upper] >>

(* interpolate_offset                                                      *)
Interpolated(from, to, begin, end, target) ==
  IF end <= begin \/ to <= from \/ target <= begin THEN from
  ELSE IF target >= end THEN to
  ELSE from + ((to - from) * (target - begin)) \div (end - begin)

Bug_EstimatedOffset(index, target, size) ==
  LET points == index.points
      upper  == UpperBound(points, target)
      last   == points[Len(points)]
  IN IF size = 0 THEN None
     ELSE IF target <= 0 THEN 0
     ELSE IF upper <= Len(points)
     THEN Interpolated(0, points[upper].offset, 0, points[upper].time, target)
     ELSE IF points # << >> /\ index.duration # None /\ target <= index.duration
     THEN Interpolated(last.offset, size, last.time, index.duration, target)
     ELSE IF points = << >> /\ index.duration # None /\ index.duration > 0
     THEN Interpolated(0, size, 0, index.duration,
                       IF target < index.duration THEN target ELSE index.duration)
     ELSE None

(* estimateOffset                                                          *)
EstimatedOffset(index, target, size) ==
  LET points == index.points
      upper  == UpperBound(points, target)
      last   == points[Len(points)]
  IN IF size = 0 THEN None
     ELSE IF target <= 0 THEN 0
     ELSE IF upper \in 2 .. Len(points)
     THEN Interpolated(points[upper - 1].offset, points[upper].offset,
                       points[upper - 1].time, points[upper].time, target)
     ELSE IF upper <= Len(points)
     THEN Interpolated(0, points[upper].offset, 0, points[upper].time, target)
     ELSE IF points # << >> /\ index.duration # None /\ target <= index.duration
     THEN Interpolated(last.offset, size, last.time, index.duration, target)
     ELSE IF points = << >> /\ index.duration # None /\ index.duration > 0
     THEN Interpolated(0, size, 0, index.duration,
                       IF target < index.duration THEN target ELSE index.duration)
     ELSE None
=============================================================================
