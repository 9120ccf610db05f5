------------------------------- MODULE Recording -------------------------------
(***************************************************************************)
(* A recording index in use: its owner is a caller who calls its methods   *)
(* in any order, or a RecordingScanner, which fills it from what its       *)
(* Demuxer reports and closes it once.                                     *)
(*                                                                         *)
(* The Demuxer is here only as the source of tracks and units; a scanner's *)
(* fatal error needs null data, which its push refuses.                    *)
(***************************************************************************)
EXTENDS RecordingIndex, Functions

CONSTANTS
  Units,         (* access units, every one at an offset of its own        *)
  Restored,      (* seek points a caller adds himself                      *)
  Durations,     (* times a caller reports                                 *)
  Targets,       (* times that are looked up                               *)
  SourceSize,    (* bytes of the recording                                 *)
  VideoTracks    (* HEVC tracks onTrack accepts under the scan options     *)

Times == -MaxTime .. MaxTime

Optional(times) == times \cup {None}

ASSUME UnitsAssumption ==
  /\ Units \subseteq [track: Nat \ {0}, hevc: BOOLEAN, time: Optional(Times),
                      random: BOOLEAN, restart: Nat, offset: Nat]
  /\ \A unit \in Units : unit.restart <= unit.offset

ASSUME RestoredAssumption ==
  Restored \subseteq [time: Optional(Times), signalling: Nat, offset: Nat, track: Nat]

(* What begins at an offset of the file belongs to one track.              *)
ASSUME OffsetsAssumption ==
  \A point, other \in {PointOf(unit) : unit \in Units} \cup Restored :
    point.offset = other.offset => point.track = other.track

ASSUME TracksAssumption == VideoTracks \subseteq Nat

ASSUME DurationsAssumption == Durations \subseteq Times

(* What is looked up; every point lies in the recording.                   *)
ASSUME LookupsAssumption ==
  /\ Targets \subseteq Int /\ SourceSize \in Nat
  /\ \A point \in {PointOf(unit) : unit \in Units} \cup Restored : point.offset <= SourceSize

VARIABLES
  owner,     (* "caller" or "scanner"                                      *)
  index,
  scanner,   (* [video, failed, result]                                    *)
  heard      (* [units, points]: counted and accepted since the index was    *)
             (* emptied                                                      *)

vars == << owner, index, scanner, heard >>

Nothing == [units |-> {}, points |-> {}]

Heard(unit) ==
  IF Counts(index, unit) THEN [heard EXCEPT !.units = @ \cup {unit}] ELSE heard

NewScanner == [video |-> None, failed |-> FALSE, result |-> None]

Init ==
  /\ owner \in {"caller", "scanner"}
  /\ index = IF owner = "caller" THEN Fresh ELSE Began(FALSE)
  /\ scanner = NewScanner
  /\ heard = Nothing

Becomes(next) == index' = next /\ UNCHANGED << owner, scanner >>

-----------------------------------------------------------------------------
(* The caller.                                                             *)

Reset == owner = "caller" /\ Becomes(Fresh) /\ heard' = Nothing

Begin(growing) == owner = "caller" /\ Becomes(Began(growing)) /\ heard' = Nothing

SelectVideoTrack(track) ==
  /\ owner = "caller"
  /\ Becomes(VideoSelected(index, track))
  /\ heard' = IF index.selected = track THEN heard ELSE Nothing

SwitchVideoTrack(track) ==
  owner = "caller" /\ Becomes(VideoSwitched(index, track)) /\ UNCHANGED heard

Observe(unit) ==
  /\ owner = "caller"
  /\ \E next \in Observed(index, unit) : Becomes(next)
  /\ heard' = Heard(unit)

AddSeekPoint(point) ==
  /\ owner = "caller"
  /\ \E next \in PointAdded(index, point) : Becomes(next)
  /\ heard' = IF Accepts(index, point) THEN [heard EXCEPT !.points = @ \cup {point}]
              ELSE heard

UpdateDuration(status, time) ==
  owner = "caller" /\ Becomes(DurationUpdated(index, status, time)) /\ UNCHANGED heard

Pause == owner = "caller" /\ Becomes(Paused(index)) /\ UNCHANGED heard

Resume == owner = "caller" /\ Becomes(Resumed(index)) /\ UNCHANGED heard

ReachReadableEnd(growing) ==
  owner = "caller" /\ Becomes(ReadableEndReached(index, growing)) /\ UNCHANGED heard

Finalize == owner = "caller" /\ Becomes(Finalized(index)) /\ UNCHANGED heard

MarkStale == owner = "caller" /\ Becomes(MarkedStale(index)) /\ heard' = Nothing

Fail == owner = "caller" /\ Becomes(FailedIndex(index)) /\ UNCHANGED heard

-----------------------------------------------------------------------------
(* The scanner.                                                            *)

Scanning == owner = "scanner" /\ scanner.result = None /\ ~scanner.failed

(* onTrack: the first video track is the one that is scanned.              *)
OnTrack(track) ==
  /\ Scanning /\ scanner.video = None
  /\ scanner' = [scanner EXCEPT !.video = track]
  /\ index' = VideoSelected(index, track)
  /\ heard' = IF index.selected = track THEN heard ELSE Nothing
  /\ UNCHANGED owner

OnAccessUnit(unit) ==
  /\ Scanning /\ scanner.video = unit.track
  /\ index' \in Observed(index, unit)
  /\ heard' = Heard(unit)
  /\ UNCHANGED << owner, scanner >>

FailSource ==
  /\ owner = "scanner" /\ scanner.result = None
  /\ scanner' = [scanner EXCEPT !.failed = TRUE]
  /\ UNCHANGED << owner, index, heard >>

NoResult(failure) ==
  [failure |-> failure, first |-> None, last |-> None, duration |-> None, points |-> << >>]

ResultOf(final) ==
  [failure  |-> IF final.minimum = None \/ final.maximum = None THEN "NoVideo"
                ELSE IF final.points = << >> THEN "NoRandomAccessPoint" ELSE "None",
   first    |-> final.minimum, last |-> final.maximum,
   duration |-> final.duration, points |-> final.points]

(* finish, after a read error.                                             *)
FinishFailed ==
  /\ owner = "scanner" /\ scanner.failed /\ scanner.result = None
  /\ index' = FailedIndex(index)
  /\ scanner' = [scanner EXCEPT !.result = NoResult("SourceError")]
  /\ UNCHANGED << owner, heard >>

(* finish, when no video track came.                                       *)
FinishEmpty ==
  /\ Scanning /\ scanner.video = None
  /\ index' = FailedIndex(index)
  /\ scanner' = [scanner EXCEPT !.result = NoResult("NoVideo")]
  /\ UNCHANGED << owner, heard >>

(* finish: flushing the Demuxer may bring out a last unit before the index *)
(* is finalized.                                                           *)
FinishScan ==
  /\ Scanning /\ scanner.video # None
  /\ \E flushed \in {None} \cup {unit \in Units : unit.track = scanner.video} :
       /\ index' \in {Finalized(next) :
            next \in IF flushed = None THEN {index} ELSE Observed(index, flushed)}
       /\ heard' = IF flushed # None THEN Heard(flushed) ELSE heard
  /\ scanner' = [scanner EXCEPT !.result = ResultOf(index')]
  /\ UNCHANGED owner

(* seekFromStart, on the scanner's result.                                 *)
SeekFromStart(offset) ==
  LET result == scanner.result
      target == result.first + offset
      point  == PreviousSync(index, target)
  IN IF target > result.last THEN None
     ELSE IF point = None THEN Head(result.points) ELSE point

-----------------------------------------------------------------------------
Next ==
  \/ Reset \/ Pause \/ Resume \/ Finalize \/ MarkStale \/ Fail
  \/ \E growing \in BOOLEAN : Begin(growing) \/ ReachReadableEnd(growing)
  \/ \E track \in VideoTracks : SelectVideoTrack(track) \/ SwitchVideoTrack(track)
  \/ SelectVideoTrack(None)
  \/ \E unit \in Units : Observe(unit) \/ OnAccessUnit(unit)
  \/ \E point \in Restored : AddSeekPoint(point)
  \/ \E status \in {"Unknown", "Provisional", "Complete"}, time \in Durations :
       UpdateDuration(status, time)
  \/ \E track \in VideoTracks : OnTrack(track)
  \/ FailSource \/ FinishFailed \/ FinishEmpty \/ FinishScan

Spec == Init /\ [][Next]_vars

-----------------------------------------------------------------------------
IndexStates ==
  {"Absent", "Building", "Partial", "Following", "Complete", "Stale", "Failed"}

SeekPoints ==
  {point \in {PointOf(unit) : unit \in Units} \cup Restored :
     point.time # None /\ point.track # 0 /\ point.signalling <= point.offset}

(* Type invariant: the points are points that were offered, and times are  *)
(* representable.                                                          *)
TypeOK ==
  /\ owner \in {"caller", "scanner"}
  /\ index.state \in IndexStates
  /\ index.selected \in {unit.track : unit \in Units} \cup {point.track : point \in Restored}
                        \cup VideoTracks \cup {None}
  /\ index.points \in Seq(SeekPoints)
  /\ {index.minimum, index.maximum, index.previous} \subseteq Optional(Times)
  /\ index.frame \in 0 .. MaxTime
  /\ index.duration \in Optional(0 .. MaxTime)
  /\ index.status \in {"Unknown", "Provisional", "Complete"}
  /\ index.growing \in BOOLEAN

(* What every lookup relies on: points that are later in time are later in *)
(* the file, whatever order the units came in and from how many tracks, and*)
(* no point is there twice.                                                *)
PointsOrdered ==
  \A i, j \in DOMAIN index.points : i < j =>
    /\ index.points[i].time <= index.points[j].time
    /\ index.points[i].offset <= index.points[j].offset
    /\ index.points[i] # index.points[j]

Contradicts(point, other) ==
  \/ point.time < other.time /\ other.offset < point.offset
  \/ other.time < point.time /\ point.offset < other.offset

(* A random access unit that counted since the index was emptied can be    *)
(* found, unless a point that can be found contradicts it; and nothing of  *)
(* what the index held before is found.                                    *)
RapsKept ==
  /\ Range(index.points) \subseteq {PointOf(unit) : unit \in heard.units} \cup heard.points
  /\ \A unit \in heard.units : unit.random =>
       \E point \in Range(index.points) :
         SamePlace(point, PointOf(unit)) \/ Contradicts(point, PointOf(unit))

(* The duration covers everything heard, up to the end of the last frame   *)
(* once it is final, and it is called complete exactly in a complete index.*)
DurationCovers ==
  /\ index.status = "Complete" <=> index.state = "Complete" /\ index.duration # None
  /\ index.status = "Unknown" <=> index.duration = None
  /\ index.minimum = None <=> index.maximum = None
  /\ index.maximum # None =>
       /\ index.minimum <= index.maximum
       /\ index.duration # None
       /\ index.duration >= NotNegative(index.maximum)
       /\ index.state = "Complete" => index.duration >= EndOfLastFrame(index)
  /\ \A unit \in heard.units : index.minimum <= unit.time /\ unit.time <= index.maximum

(* "complete duration was allowed to decrease" (recording_tests.cpp:87): a *)
(* known duration never shrinks, final or not, as long as the index is not *)
(* emptied.                                                                *)
DurationGrows ==
  [][heard.units # {} /\ heard.units \subseteq heard'.units
       => index'.duration # None /\ index.duration <= index'.duration]_vars

(* Both lookups and the estimate agree on every target: the estimate lies  *)
(* between the two points around it, and grows with the target.            *)
TargetsAgree ==
  /\ \A target \in Targets :
       LET previous == PreviousSync(index, target)
           around   == SeekPointsFor(index, target)
           estimate == EstimatedOffset(index, target, SourceSize)
       IN /\ previous # None => around[1] = previous /\ previous.time <= target
          /\ around # None /\ Len(around) = 2 => target < around[2].time
          /\ estimate # None /\ target > 0 =>
               /\ previous # None => previous.offset <= estimate
               /\ around # None /\ Len(around) = 2 => estimate <= around[2].offset
               /\ estimate <= SourceSize
  /\ \A early, late \in Targets :
       LET first  == EstimatedOffset(index, early, SourceSize)
           second == EstimatedOffset(index, late, SourceSize)
       IN early < late /\ first # None /\ second # None => first <= second

(* A scan without a failure covers every unit of its track, the flushed one*)
(* included, and every offset into it can be sought: to a point at or      *)
(* before it, or to the first point there is.                              *)
ScanSeeks ==
  scanner.result # None /\ scanner.result.failure = "None" =>
    LET result == scanner.result
    IN /\ \A unit \in heard.units : result.first <= unit.time /\ unit.time <= result.last
                                /\ unit.time <= result.duration
       /\ result.points = index.points
       /\ \A offset \in 0 .. result.last - result.first :
            LET point == SeekFromStart(offset)
            IN /\ point \in Range(result.points)
               /\ point.time <= result.first + offset \/ point = result.points[1]

(* What a seek relies on, in an index that is used as it grows and in the  *)
(* result of a finished scan.                                              *)
LookupsAgree == TargetsAgree /\ ScanSeeks
=============================================================================
