--------------------------- MODULE Recording_proofs ---------------------------
(***************************************************************************)
(* A recording, from its bytes to its seek points.                         *)
(*                                                                         *)
(* The index and the scanner of Recording, for every recording, every      *)
(* order of calls and every number of seek points.                         *)
(*                                                                         *)
(* Below them the framing of TlvParser, whose packet offsets are what seek *)
(* points point at, for every input, every way to cut it into pushes and   *)
(* every limit: process keeps what every turn of its loop keeps, the       *)
(* zero-copy paths of push change nothing, packets are true to the input,  *)
(* and after garbage no packet is lost but to something false that looks   *)
(* like one.                                                               *)
(***************************************************************************)
EXTENDS Recording, TlvParser, FiniteSetTheorems, SequenceTheorems, NaturalsInduction,
        WellFoundedInduction, TLAPS

Selections ==
  {unit.track : unit \in Units} \cup {point.track : point \in Restored}
    \cup VideoTracks \cup {None}

IndexType ==
  [state: IndexStates, selected: Selections, points: Seq(SeekPoints),
   minimum: Optional(Times), maximum: Optional(Times), previous: Optional(Times),
   frame: 0 .. MaxTime, duration: Optional(0 .. MaxTime),
   status: {"Unknown", "Provisional", "Complete"}, growing: BOOLEAN]

(* The points are strictly sorted, and their offsets never decrease.       *)
Sorted(points) ==
  \A i, j \in DOMAIN points : i < j =>
    Precedes(points[i], points[j]) /\ points[i].offset <= points[j].offset

Placed(points, point) ==
  \E other \in Range(points) : SamePlace(other, point) \/ Contradicts(other, point)

(* What a seek point is made of.                                           *)
LEMMA PointFacts ==
  ASSUME NEW point \in SeekPoints
  PROVE  /\ point.time \in Int /\ point.time \in Times /\ point.time # None
         /\ point.offset \in Nat /\ point.signalling \in Nat
         /\ point.track \in Nat \ {0} /\ point.signalling <= point.offset
<1>1. CASE point \in {PointOf(unit) : unit \in Units}
  <2>1. PICK unit \in Units : point = PointOf(unit)
    BY <1>1
  <2> QED
    BY <2>1, UnitsAssumption, MaxTimeAssumption DEF PointOf, SeekPoints, Optional, Times
<1>2. CASE point \in Restored
  BY <1>2, RestoredAssumption, MaxTimeAssumption DEF SeekPoints, Optional, Times
<1> QED
  BY <1>1, <1>2 DEF SeekPoints

(* Two points that begin at one offset are of one track.                   *)
LEMMA OneTrack ==
  ASSUME NEW point \in SeekPoints, NEW other \in SeekPoints, point.offset = other.offset
  PROVE  point.track = other.track
BY OffsetsAssumption DEF SeekPoints

(* Precedes is a strict total order up to the place of a point.            *)
LEMMA PrecedesFacts ==
  ASSUME NEW a \in SeekPoints, NEW b \in SeekPoints, NEW c \in SeekPoints
  PROVE  /\ Precedes(a, b) /\ Precedes(b, c) => Precedes(a, c)
         /\ ~Precedes(a, b) => SamePlace(a, b) \/ Precedes(b, a)
         /\ Precedes(a, b) => a.time <= b.time /\ a # b
<1>1. /\ a.time \in Int /\ a.offset \in Int /\ b.time \in Int /\ b.offset \in Int
      /\ c.time \in Int /\ c.offset \in Int
  BY PointFacts
<1>2. Precedes(a, b) /\ Precedes(b, c) => Precedes(a, c)
  BY <1>1 DEF Precedes
<1>3. ~Precedes(a, b) => SamePlace(a, b) \/ Precedes(b, a)
  <2> SUFFICES ASSUME ~Precedes(a, b), ~Precedes(b, a) PROVE SamePlace(a, b)
    OBVIOUS
  <2>1. a.time = b.time /\ a.offset = b.offset
    BY <1>1 DEF Precedes
  <2> QED
    BY <2>1, OneTrack DEF SamePlace
<1>4. Precedes(a, b) => a.time <= b.time /\ a # b
  BY <1>1 DEF Precedes
<1> QED
  BY <1>2, <1>3, <1>4

(* A new point that fits goes where the points stay sorted.                *)
LEMMA InsertedSorted ==
  ASSUME NEW points \in Seq(SeekPoints), Sorted(points), NEW point \in SeekPoints,
         NEW i \in LowerBounds(points, point),
         ~Present(points, point, i), Fits(points, point, i)
  PROVE  /\ Inserted(points, point, i) \in Seq(SeekPoints)
         /\ Sorted(Inserted(points, point, i))
         /\ Range(Inserted(points, point, i)) = Range(points) \cup {point}
<1> DEFINE n == Len(points)
           new == Inserted(points, point, i)
<1>1. /\ n \in Nat /\ i \in 1 .. n + 1 /\ DOMAIN points = 1 .. n
      /\ \A j \in 1 .. n : points[j] \in SeekPoints
  BY DEF LowerBounds
<1>2. new = [j \in 1 .. n + 1 |->
               IF j < i THEN points[j] ELSE IF j = i THEN point ELSE points[j - 1]]
  BY DEF Inserted
<1>3. /\ \A j \in 1 .. i - 1 : Precedes(points[j], point)
      /\ i <= n => ~Precedes(points[i], point)
  BY DEF LowerBounds
<1> HIDE DEF n
<1> HIDE DEF new
<1>4. new \in Seq(SeekPoints) /\ DOMAIN new = 1 .. n + 1
  <2>1. \A j \in 1 .. n + 1 : new[j] \in SeekPoints
    BY <1>1, <1>2
  <2> QED
    BY <1>1, <1>2, <2>1
<1>5. i <= n => Precedes(point, points[i])
  <2> SUFFICES ASSUME i <= n PROVE Precedes(point, points[i])
    OBVIOUS
  <2>1. points[i] \in SeekPoints /\ ~SamePlace(points[i], point)
    BY <1>1 DEF Present, n
  <2> QED
    BY <1>3, <2>1, PrecedesFacts
<1>6. \A j \in 1 .. n : i <= j => Precedes(point, points[j]) /\ point.offset <= points[j].offset
  <2> SUFFICES ASSUME NEW j \in 1 .. n, i <= j
               PROVE  Precedes(point, points[j]) /\ point.offset <= points[j].offset
    OBVIOUS
  <2>1. point.offset <= points[i].offset /\ Precedes(point, points[i])
    BY <1>1, <1>5 DEF Fits, n
  <2>2. CASE i = j
    BY <2>1, <2>2
  <2>3. CASE i < j
    <3>1. Precedes(points[i], points[j]) /\ points[i].offset <= points[j].offset
      BY <1>1, <2>3 DEF Sorted
    <3>2. points[i] \in SeekPoints /\ points[j] \in SeekPoints
      BY <1>1, <2>3
    <3>3. Precedes(point, points[j])
      BY <2>1, <3>1, <3>2, PrecedesFacts
    <3>4. point.offset \in Int /\ points[i].offset \in Int /\ points[j].offset \in Int
      BY <3>2, PointFacts
    <3> QED
      BY <2>1, <3>1, <3>3, <3>4
  <2> QED
    BY <1>1, <2>2, <2>3
<1>7. \A j \in 1 .. i - 1 : Precedes(points[j], point) /\ points[j].offset <= point.offset
  <2> SUFFICES ASSUME NEW j \in 1 .. i - 1 PROVE points[j].offset <= point.offset
    BY <1>3
  <2>1. points[i - 1].offset <= point.offset
    BY <1>1 DEF Fits
  <2>2. points[j].offset <= points[i - 1].offset
    <3>1. j = i - 1 \/ j < i - 1
      BY <1>1
    <3>2. CASE j < i - 1
      BY <1>1, <3>2 DEF Sorted
    <3>3. points[i - 1].offset \in Int
      BY <1>1, PointFacts
    <3> QED
      BY <3>1, <3>2, <3>3
  <2>3. points[j].offset \in Int /\ points[i - 1].offset \in Int /\ point.offset \in Int
    BY <1>1, PointFacts
  <2> QED
    BY <2>1, <2>2, <2>3
<1>8. Sorted(new)
  <2> SUFFICES ASSUME NEW j \in 1 .. n + 1, NEW k \in 1 .. n + 1, j < k
               PROVE  Precedes(new[j], new[k]) /\ new[j].offset <= new[k].offset
    BY <1>4 DEF Sorted
  <2>1. CASE k < i
    <3>1. new[j] = points[j] /\ new[k] = points[k] /\ j \in 1 .. n /\ k \in 1 .. n
      BY <1>1, <1>2, <2>1
    <3> QED
      BY <1>1, <3>1 DEF Sorted
  <2>2. CASE k = i
    <3>1. new[j] = points[j] /\ new[k] = point /\ j \in 1 .. i - 1
      BY <1>1, <1>2, <2>2
    <3> QED
      BY <1>7, <3>1
  <2>3. CASE i < k /\ j < i
    <3>1. /\ new[j] = points[j] /\ new[k] = points[k - 1]
          /\ j \in 1 .. n /\ k - 1 \in 1 .. n /\ j < k - 1
      BY <1>1, <1>2, <2>3
    <3> QED
      BY <1>1, <3>1 DEF Sorted
  <2>4. CASE i < k /\ j = i
    <3>1. new[j] = point /\ new[k] = points[k - 1] /\ k - 1 \in 1 .. n /\ i <= k - 1
      BY <1>1, <1>2, <2>4
    <3> QED
      BY <1>6, <3>1
  <2>5. CASE i < k /\ i < j
    <3>1. /\ new[j] = points[j - 1] /\ new[k] = points[k - 1]
          /\ j - 1 \in 1 .. n /\ k - 1 \in 1 .. n /\ j - 1 < k - 1
      BY <1>1, <1>2, <2>5
    <3> QED
      BY <1>1, <3>1 DEF Sorted
  <2> QED
    BY <1>1, <2>1, <2>2, <2>3, <2>4, <2>5
<1>9. Range(new) = Range(points) \cup {point}
  <2>1. ASSUME NEW j \in 1 .. n + 1 PROVE new[j] \in Range(points) \cup {point}
    <3>1. j < i => new[j] = points[j] /\ j \in 1 .. n
      BY <1>1, <1>2
    <3>2. j = i => new[j] = point
      BY <1>1, <1>2
    <3>3. j > i => new[j] = points[j - 1] /\ j - 1 \in 1 .. n
      BY <1>1, <1>2
    <3> QED
      BY <1>1, <3>1, <3>2, <3>3 DEF Range
  <2>2. ASSUME NEW j \in 1 .. n PROVE points[j] \in Range(new)
    <3>1. j < i => new[j] = points[j] /\ j \in 1 .. n + 1
      BY <1>1, <1>2
    <3>2. j >= i => new[j + 1] = points[j] /\ j + 1 \in 1 .. n + 1
      BY <1>1, <1>2
    <3> QED
      BY <1>1, <1>4, <3>1, <3>2 DEF Range
  <2>3. point \in Range(new)
    <3>1. new[i] = point
      BY <1>1, <1>2
    <3> QED
      BY <1>1, <1>4, <3>1 DEF Range
  <2>4. Range(new) \subseteq Range(points) \cup {point}
    BY <1>4, <2>1, Zenon DEF Range
  <2>5. Range(points) \subseteq Range(new)
    <3> SUFFICES ASSUME NEW j \in DOMAIN points PROVE points[j] \in Range(new)
      BY Zenon DEF Range
    <3> QED
      BY <1>1, <2>2
  <2> QED
    BY <2>3, <2>4, <2>5
<1> QED
  BY <1>4, <1>8, <1>9 DEF new

(* A new point is refused only for a point that contradicts it.            *)
LEMMA RefusedPlaced ==
  ASSUME NEW points \in Seq(SeekPoints), NEW point \in SeekPoints,
         NEW i \in LowerBounds(points, point),
         Present(points, point, i) \/ ~Fits(points, point, i)
  PROVE  Placed(points, point)
<1>1. /\ i \in 1 .. Len(points) + 1 /\ DOMAIN points = 1 .. Len(points) /\ Len(points) \in Nat
      /\ \A j \in 1 .. Len(points) : points[j] \in SeekPoints
  BY DEF LowerBounds
<1>2. ASSUME NEW j \in 1 .. Len(points),
             SamePlace(points[j], point) \/ Contradicts(points[j], point)
      PROVE  Placed(points, point)
  BY <1>1, <1>2 DEF Placed, Range
<1>3. CASE Present(points, point, i)
  BY <1>1, <1>2, <1>3 DEF Present
<1>4. CASE i > 1 /\ ~(points[i - 1].offset <= point.offset)
  <2>1. i - 1 \in 1 .. Len(points) /\ Precedes(points[i - 1], point)
    BY <1>1, <1>4 DEF LowerBounds
  <2>2. /\ points[i - 1].offset \in Int /\ point.offset \in Int
        /\ points[i - 1].time \in Int /\ point.time \in Int
    BY <1>1, <2>1, PointFacts
  <2>3. Contradicts(points[i - 1], point)
    BY <1>4, <2>1, <2>2 DEF Precedes, Contradicts
  <2> QED
    BY <1>2, <2>1, <2>3
<1>5. CASE i <= Len(points) /\ ~(point.offset <= points[i].offset)
  <2>1. i \in 1 .. Len(points) /\ ~Precedes(points[i], point)
    BY <1>1, <1>5 DEF LowerBounds
  <2>2. /\ points[i].offset \in Int /\ point.offset \in Int
        /\ points[i].time \in Int /\ point.time \in Int
    BY <1>1, <2>1, PointFacts
  <2>3. Contradicts(points[i], point)
    BY <1>5, <2>1, <2>2 DEF Precedes, Contradicts
  <2> QED
    BY <1>2, <2>1, <2>3
<1> QED
  BY <1>3, <1>4, <1>5 DEF Fits

-----------------------------------------------------------------------------
HeardType == [units: SUBSET {unit \in Units : unit.time # None}, points: SUBSET Restored]

Kept(known, h) ==
  /\ Range(known.points) \subseteq {PointOf(unit) : unit \in h.units} \cup h.points
  /\ \A unit \in h.units : unit.random => Placed(known.points, PointOf(unit))

(* The extent covers what was heard, and the duration covers the extent.   *)
Extent(known, h) ==
  /\ known.minimum = None <=> known.maximum = None
  /\ known.maximum # None =>
       /\ known.minimum <= known.maximum
       /\ known.duration # None
       /\ known.duration >= NotNegative(known.maximum)
  /\ \A unit \in h.units :
       known.maximum # None /\ known.minimum <= unit.time /\ unit.time <= known.maximum

Settled(known) ==
  /\ known.status = StatusFor(known.state, known.duration)
  /\ known.maximum # None /\ known.state = "Complete" =>
       known.duration >= EndOfLastFrame(known)

(* The inductive invariant, of an index and what it heard.                 *)
Good(known, h) ==
  /\ known \in IndexType /\ h \in HeardType
  /\ Sorted(known.points) /\ Kept(known, h)
  /\ Extent(known, h) /\ Settled(known)

Longer(known, next) ==
  known.duration # None => next.duration # None /\ known.duration <= next.duration

(* Everything but the duration and its status is the same.                 *)
SameButDuration(known, next) ==
  /\ next.state = known.state /\ next.selected = known.selected
  /\ next.points = known.points
  /\ next.minimum = known.minimum /\ next.maximum = known.maximum
  /\ next.frame = known.frame /\ next.growing = known.growing

(* Settling the duration makes it final or provisional, and never shorter. *)
LEMMA SettlingCovers ==
  ASSUME NEW known \in IndexType, NEW h \in HeardType, Extent(known, h)
  PROVE  LET next == DurationSettled(known)
         IN next \in IndexType /\ SameButDuration(known, next)
            /\ Extent(next, h) /\ Settled(next) /\ Longer(known, next)
<1> DEFINE complete == known.state = "Complete" /\ known.maximum # None
           d == IF complete THEN Higher(known.duration, EndOfLastFrame(known))
                ELSE known.duration
           next == DurationSettled(known)
<1>1. /\ known.maximum # None => known.maximum \in Int /\ known.maximum <= MaxTime
      /\ known.minimum # None => known.minimum \in Int
      /\ known.duration # None => known.duration \in 0 .. MaxTime
      /\ known.frame \in 0 .. MaxTime /\ MaxTime \in Nat /\ None \notin Int
  BY MaxTimeAssumption DEF IndexType, Optional, Times
<1>2. known.maximum # None =>
        /\ EndOfLastFrame(known) \in 0 .. MaxTime
        /\ EndOfLastFrame(known) >= NotNegative(known.maximum)
        /\ NotNegative(known.maximum) \in 0 .. MaxTime
  BY <1>1 DEF EndOfLastFrame, NotNegative
<1>3. next = [known EXCEPT !.duration = d, !.status = StatusFor(known.state, d)]
  BY DEF DurationSettled
<1>4. /\ d # None => d \in 0 .. MaxTime
      /\ known.duration # None => d # None /\ known.duration <= d
      /\ known.maximum # None => d # None /\ d >= NotNegative(known.maximum)
      /\ complete => d # None /\ d >= EndOfLastFrame(known)
  <2>1. CASE complete
    BY <1>1, <1>2, <2>1 DEF Higher
  <2>2. CASE ~complete
    <3>1. d = known.duration
      BY <2>2
    <3> QED
      BY <1>1, <1>2, <2>2, <3>1 DEF Extent
  <2> QED
    BY <2>1, <2>2
<1>5. StatusFor(known.state, d) \in {"Unknown", "Provisional", "Complete"}
  BY DEF StatusFor
<1> HIDE DEF d
<1>6. /\ next \in IndexType /\ SameButDuration(known, next)
      /\ next.duration = d /\ next.status = StatusFor(known.state, d)
  BY <1>3, <1>4, <1>5 DEF IndexType, SameButDuration, Optional
<1> HIDE DEF next
<1>7. Extent(next, h)
  BY <1>4, <1>6 DEF Extent, SameButDuration
<1>8. EndOfLastFrame(next) = EndOfLastFrame(known)
  BY <1>6 DEF EndOfLastFrame, SameButDuration
<1>9. Settled(next)
  BY <1>4, <1>6, <1>8 DEF Settled, SameButDuration
<1>10. Longer(known, next)
  BY <1>4, <1>6 DEF Longer
<1> QED
  BY <1>6, <1>7, <1>9, <1>10 DEF next

(* Everything but the points and the track is the same.                    *)
SameClock(known, next) ==
  /\ next.state = known.state /\ next.minimum = known.minimum
  /\ next.maximum = known.maximum /\ next.frame = known.frame
  /\ next.duration = known.duration /\ next.status = known.status

(* Adding a seek point keeps the index in order, adds nothing but the      *)
(* point, and has a place for it.                                          *)
LEMMA AddingPlaces ==
  ASSUME NEW known \in IndexType, Sorted(known.points),
         NEW point \in {PointOf(unit) : unit \in Units} \cup Restored,
         NEW next \in PointAdded(known, point)
  PROVE  /\ next \in IndexType /\ Sorted(next.points)
         /\ Range(known.points) \subseteq Range(next.points)
         /\ Range(next.points) \subseteq
              Range(known.points) \cup IF Accepts(known, point) THEN {point} ELSE {}
         /\ Accepts(known, point) => Placed(next.points, point)
         /\ SameClock(known, next)
<1>1. CASE ~Accepts(known, point)
  <2>1. next = known
    BY <1>1 DEF PointAdded
  <2> QED
    BY <1>1, <2>1 DEF SameClock
<1>2. CASE Accepts(known, point)
  <2>1. point \in SeekPoints
    BY <1>2 DEF Accepts, SeekPoints
  <2>2. point.track \in Selections
    BY DEF Selections, PointOf
  <2>3. PICK i \in LowerBounds(known.points, point) :
          next = [known EXCEPT !.selected = point.track,
                    !.points = IF Present(known.points, point, i) \/ ~Fits(known.points, point, i)
                               THEN known.points ELSE Inserted(known.points, point, i)]
    BY <1>2 DEF PointAdded
  <2>4. known.points \in Seq(SeekPoints)
    BY DEF IndexType
  <2>5. CASE Present(known.points, point, i) \/ ~Fits(known.points, point, i)
    <3>1. Placed(known.points, point)
      BY <2>1, <2>4, <2>5, RefusedPlaced
    <3>2. next = [known EXCEPT !.selected = point.track, !.points = known.points]
      BY <2>3, <2>5
    <3>3. next \in IndexType /\ next.points = known.points /\ SameClock(known, next)
      BY <2>2, <3>2 DEF IndexType, SameClock
    <3> QED
      BY <3>1, <3>2, <3>3
  <2>6. CASE ~Present(known.points, point, i) /\ Fits(known.points, point, i)
    <3> DEFINE new == Inserted(known.points, point, i)
    <3>1. /\ new \in Seq(SeekPoints) /\ Sorted(new)
          /\ Range(new) = Range(known.points) \cup {point}
      BY <2>1, <2>4, <2>6, InsertedSorted
    <3>2. next = [known EXCEPT !.selected = point.track, !.points = new]
      BY <2>3, <2>6
    <3> HIDE DEF new
    <3>3. next \in IndexType /\ next.points = new /\ SameClock(known, next)
      BY <2>2, <3>1, <3>2 DEF IndexType, SameClock
    <3>4. Placed(new, point)
      BY <3>1 DEF Placed, SamePlace
    <3> QED
      BY <1>2, <3>1, <3>3, <3>4
  <2> QED
    BY <2>5, <2>6
<1> QED
  BY <1>1, <1>2

(* A point stays placed when points are added.                             *)
LEMMA PlacedStays ==
  ASSUME NEW points, NEW more, Range(points) \subseteq Range(more),
         NEW point, Placed(points, point)
  PROVE  Placed(more, point)
BY DEF Placed

(* A restored point leaves the index good.                                 *)
LEMMA RestoringGood ==
  ASSUME NEW known, NEW h, Good(known, h), NEW point \in Restored,
         NEW next \in PointAdded(known, point)
  PROVE  /\ Good(next, IF Accepts(known, point)
                       THEN [h EXCEPT !.points = @ \cup {point}] ELSE h)
         /\ Longer(known, next)
<1> DEFINE new == IF Accepts(known, point) THEN [h EXCEPT !.points = @ \cup {point}] ELSE h
<1>1. /\ next \in IndexType /\ Sorted(next.points)
      /\ Range(known.points) \subseteq Range(next.points)
      /\ Range(next.points) \subseteq
           Range(known.points) \cup IF Accepts(known, point) THEN {point} ELSE {}
  BY AddingPlaces DEF Good
<1>4. SameClock(known, next)
  BY AddingPlaces DEF Good
<1>5. new \in HeardType /\ new.units = h.units
      /\ new.points = h.points \cup IF Accepts(known, point) THEN {point} ELSE {}
  BY DEF Good, HeardType
<1> HIDE DEF new
<1>6. Kept(next, new)
  <2>1. Range(next.points) \subseteq {PointOf(unit) : unit \in new.units} \cup new.points
    BY <1>1, <1>5 DEF Good, Kept
  <2>2. ASSUME NEW unit \in new.units, unit.random PROVE Placed(next.points, PointOf(unit))
    BY <1>1, <1>5, <2>2, PlacedStays DEF Good, Kept
  <2> QED
    BY <2>1, <2>2 DEF Kept
<1>7. Extent(next, new) /\ Settled(next)
  BY <1>4, <1>5 DEF Good, Extent, Settled, EndOfLastFrame, SameClock
<1>8. Longer(known, next)
  <2>1. known.duration # None => known.duration \in Int
    BY DEF Good, IndexType, Optional
  <2> QED
    BY <1>4, <2>1 DEF Longer, SameClock
<1> QED
  BY <1>1, <1>5, <1>6, <1>7, <1>8 DEF Good, new

(* A unit widens the extent, and the duration with it.                     *)
LEMMA CountingCovers ==
  ASSUME NEW known \in IndexType, NEW h \in HeardType, Extent(known, h),
         NEW unit \in Units, unit.time # None
  PROVE  LET next == Counted(known, unit.time)
         IN /\ next \in IndexType /\ Settled(next) /\ Longer(known, next)
            /\ Extent(next, [h EXCEPT !.units = @ \cup {unit}])
            /\ next.state = known.state /\ next.selected = known.selected
            /\ next.points = known.points
<1> DEFINE time == unit.time
           new  == [h EXCEPT !.units = @ \cup {unit}]
           min  == Lower(known.minimum, time)
           max  == Higher(known.maximum, time)
           dur  == Higher(known.duration, NotNegative(max))
           raw  == [known EXCEPT !.frame = FrameAfter(known, time), !.previous = time,
                      !.minimum = min, !.maximum = max, !.duration = dur]
<1>1. time \in Times /\ time \in Int
  BY UnitsAssumption, MaxTimeAssumption DEF Optional, Times
<1>2. /\ known.maximum # None => known.maximum \in Times /\ known.maximum \in Int
      /\ known.minimum # None => known.minimum \in Times /\ known.minimum \in Int
      /\ known.previous # None => known.previous \in Int
      /\ known.duration # None => known.duration \in 0 .. MaxTime
      /\ known.frame \in 0 .. MaxTime /\ MaxTime \in Nat /\ None \notin Int
  BY MaxTimeAssumption DEF IndexType, Optional, Times
<1>3. new \in HeardType /\ new.units = h.units \cup {unit}
  BY DEF HeardType
<1>4. /\ min \in Times /\ max \in Times /\ min <= time /\ time <= max
      /\ known.minimum # None => min <= known.minimum
      /\ known.maximum # None => known.maximum <= max
  BY <1>1, <1>2 DEF Lower, Higher
<1>5. FrameAfter(known, time) \in 0 .. MaxTime
  <2>1. known.previous # None =>
          Distance(time, known.previous) = None \/ Distance(time, known.previous) \in 0 .. MaxTime
    BY <1>1, <1>2 DEF Distance
  <2> QED
    BY <1>2, <2>1 DEF FrameAfter
<1> HIDE DEF time
<1> HIDE DEF min
<1> HIDE DEF max
<1>6. /\ NotNegative(max) \in 0 .. MaxTime
      /\ dur \in 0 .. MaxTime /\ dur >= NotNegative(max)
      /\ known.duration # None => known.duration <= dur
  <2>1. NotNegative(max) \in 0 .. MaxTime
    BY <1>2, <1>4 DEF NotNegative, Times
  <2> QED
    BY <1>2, <2>1 DEF Higher
<1> HIDE DEF dur
<1>7. /\ raw \in IndexType
      /\ raw.minimum = min /\ raw.maximum = max /\ raw.duration = dur
      /\ raw.state = known.state /\ raw.selected = known.selected
      /\ raw.points = known.points
  BY <1>1, <1>4, <1>5, <1>6 DEF IndexType, Optional
<1>8. Counted(known, unit.time) = DurationSettled(raw)
  BY DEF Counted, time, min, max, dur
<1> HIDE DEF raw
<1> HIDE DEF new
<1>9. Extent(raw, new)
  <2>1. min \in Int /\ max \in Int /\ min <= max /\ min # None /\ max # None /\ dur # None
    BY <1>1, <1>2, <1>4, <1>6 DEF Times
  <2>2. ASSUME NEW u \in new.units PROVE min <= u.time /\ u.time <= max
    <3>1. CASE u = unit
      BY <1>4, <3>1 DEF time
    <3>2. CASE u \in h.units
      <4>1. known.maximum # None /\ known.minimum # None
            /\ known.minimum <= u.time /\ u.time <= known.maximum
        BY <3>2 DEF Extent
      <4>2. u \in Units /\ u.time # None
        BY <3>2 DEF HeardType
      <4>3. u.time \in Int
        BY <4>2, UnitsAssumption DEF Optional, Times
      <4> QED
        BY <1>2, <1>4, <2>1, <4>1, <4>3
    <3> QED
      BY <1>3, <3>1, <3>2
  <2> QED
    BY <1>6, <1>7, <2>1, <2>2 DEF Extent
<1>10. LET next == DurationSettled(raw)
       IN next \in IndexType /\ SameButDuration(raw, next)
          /\ Extent(next, new) /\ Settled(next) /\ Longer(raw, next)
  BY <1>3, <1>7, <1>9, SettlingCovers
<1>11. Longer(known, DurationSettled(raw))
  <2>1. /\ DurationSettled(raw).duration # None /\ dur <= DurationSettled(raw).duration
        /\ dur # None /\ dur \in Int /\ DurationSettled(raw).duration \in Int
    BY <1>2, <1>6, <1>7, <1>10 DEF Longer, IndexType, Optional
  <2> QED
    BY <1>2, <1>6, <2>1 DEF Longer
<1> QED
  BY <1>7, <1>8, <1>10, <1>11 DEF SameButDuration, new

(* observe leaves the index good.                                          *)
LEMMA ObservingGood ==
  ASSUME NEW known, NEW h, Good(known, h), NEW unit \in Units,
         NEW next \in Observed(known, unit)
  PROVE  /\ Good(next, IF Counts(known, unit) THEN [h EXCEPT !.units = @ \cup {unit}] ELSE h)
         /\ Longer(known, next)
<1>1. /\ known \in IndexType /\ h \in HeardType /\ Sorted(known.points)
      /\ known.duration # None => known.duration \in Int
  BY DEF Good, IndexType, Optional
<1>2. unit.track \in Selections /\ unit.track \in Nat \ {0} /\ unit.restart <= unit.offset
  BY UnitsAssumption DEF Selections
<1> DEFINE started == [known EXCEPT !.selected = unit.track]
<1>3. /\ started \in IndexType /\ started.points = known.points
      /\ started.selected = unit.track /\ SameClock(known, started)
  BY <1>1, <1>2 DEF IndexType, SameClock
<1>4. Extent(started, h) /\ Settled(started)
  BY <1>3 DEF Good, Extent, Settled, EndOfLastFrame, SameClock
<1> HIDE DEF started
<1>5. CASE Counts(known, unit)
  <2> DEFINE counted == Counted(started, unit.time)
             new == [h EXCEPT !.units = @ \cup {unit}]
  <2>1. unit.time # None /\ known.state = "Building"
    BY <1>5 DEF Counts
  <2>2. /\ counted \in IndexType /\ Settled(counted) /\ Longer(started, counted)
        /\ Extent(counted, new) /\ counted.state = started.state
        /\ counted.selected = started.selected /\ counted.points = started.points
    BY <1>1, <1>3, <1>4, <2>1, CountingCovers
  <2>3. new \in HeardType /\ new.units = h.units \cup {unit} /\ new.points = h.points
    BY <1>1, <2>1 DEF HeardType
  <2>4. Longer(known, counted)
    BY <1>3, <2>2 DEF Longer, SameClock
  <2>5. next \in IF unit.random THEN PointAdded(counted, PointOf(unit)) ELSE {counted}
    BY <1>5 DEF Observed, started
  <2> HIDE DEF counted
  <2> HIDE DEF new
  <2>6. Range(known.points) \subseteq {PointOf(u) : u \in h.units} \cup h.points
    BY DEF Good, Kept
  <2>7. \A u \in h.units : u.random => Placed(known.points, PointOf(u))
    BY DEF Good, Kept
  <2>8. CASE ~unit.random
    <3>1. next = counted
      BY <2>5, <2>8
    <3>2. Kept(counted, new)
      BY <1>3, <2>2, <2>3, <2>6, <2>7, <2>8 DEF Kept
    <3> QED
      BY <1>1, <1>3, <1>5, <2>2, <2>3, <2>4, <3>1, <3>2 DEF Good, new
  <2>9. CASE unit.random
    <3>1. next \in PointAdded(counted, PointOf(unit))
      BY <2>5, <2>9
    <3>2. Accepts(counted, PointOf(unit))
      BY <1>2, <1>3, <2>1, <2>2 DEF Accepts, PointOf, SameClock
    <3>3. counted \in IndexType /\ Sorted(counted.points)
      BY <1>1, <1>3, <2>2
    <3>4. PointOf(unit) \in {PointOf(u) : u \in Units} \cup Restored
      OBVIOUS
    <3>5. /\ next \in IndexType /\ Sorted(next.points)
          /\ Range(counted.points) \subseteq Range(next.points)
          /\ Range(next.points) \subseteq Range(counted.points) \cup {PointOf(unit)}
          /\ Placed(next.points, PointOf(unit)) /\ SameClock(counted, next)
      BY <3>1, <3>2, <3>3, <3>4, AddingPlaces
    <3>6. Kept(next, new)
      <4>1. Range(next.points) \subseteq {PointOf(u) : u \in new.units} \cup new.points
        BY <1>3, <2>2, <2>3, <2>6, <3>5
      <4>2. ASSUME NEW u \in new.units, u.random PROVE Placed(next.points, PointOf(u))
        <5>1. CASE u = unit
          BY <3>5, <5>1
        <5>2. CASE u \in h.units
          <6>1. Placed(known.points, PointOf(u))
            BY <2>7, <4>2, <5>2
          <6>2. Range(known.points) \subseteq Range(next.points)
            BY <1>3, <2>2, <3>5
          <6> QED
            BY <6>1, <6>2, PlacedStays
        <5> QED
          BY <2>3, <5>1, <5>2
      <4> QED
        BY <4>1, <4>2 DEF Kept
    <3>7. Extent(next, new) /\ Settled(next)
      BY <2>2, <3>5 DEF Extent, Settled, EndOfLastFrame, SameClock
    <3>8. Longer(known, next)
      BY <2>4, <3>5 DEF Longer, SameClock
    <3> QED
      BY <1>5, <2>3, <3>5, <3>6, <3>7, <3>8 DEF Good, new
  <2> QED
    BY <2>8, <2>9
<1>6. CASE ~Counts(known, unit)
  <2>1. next = started \/ next = known
    BY <1>6 DEF Observed, started
  <2>2. Good(started, h) /\ Longer(known, started)
    BY <1>1, <1>3, <1>4 DEF Good, Kept, Longer, SameClock
  <2>3. Longer(known, known)
    BY <1>1 DEF Longer
  <2> QED
    BY <1>6, <2>1, <2>2, <2>3
<1> QED
  BY <1>5, <1>6

(* A duration that is reported is taken only where it is good.             *)
LEMMA ReportingGood ==
  ASSUME NEW known, NEW h, Good(known, h), NEW time \in Durations,
         NEW status \in {"Unknown", "Provisional", "Complete"}
  PROVE  LET next == DurationUpdated(known, status, time)
         IN Good(next, h) /\ Longer(known, next)
<1> DEFINE next == DurationUpdated(known, status, time)
<1>1. /\ known \in IndexType /\ time \in Times /\ time \in Int /\ MaxTime \in Nat
      /\ known.duration # None => known.duration \in Int
      /\ None \notin Int
  BY DurationsAssumption, MaxTimeAssumption DEF Good, IndexType, Optional, Times
<1>2. CASE next = known
  BY <1>1, <1>2 DEF Longer
<1>3. CASE next # known
  <2>1. /\ next = [known EXCEPT !.duration = time, !.status = status]
        /\ status # "Unknown" /\ 0 <= time
        /\ (status = "Complete") = (known.state = "Complete")
        /\ known.duration # None => known.duration <= time
    BY <1>1, <1>3 DEF DurationUpdated
  <2> HIDE DEF next
  <2>t. time \in Optional(0 .. MaxTime)
    BY <1>1, <2>1 DEF Optional, Times
  <2>2. /\ next \in IndexType /\ next.duration = time /\ next.status = status
        /\ SameButDuration(known, next)
    BY <1>1, <2>1, <2>t DEF IndexType, SameButDuration
  <2>3. Longer(known, next)
    BY <1>1, <2>1, <2>2 DEF Longer
  <2>4. known.maximum # None => NotNegative(known.maximum) \in Int /\ EndOfLastFrame(known) \in Int
    BY <1>1 DEF IndexType, Optional, Times, NotNegative, EndOfLastFrame
  <2>5. Extent(next, h)
    BY <1>1, <2>1, <2>2, <2>4 DEF Good, Extent, SameButDuration
  <2>6. known.maximum # None => known.duration # None
    BY DEF Good, Extent
  <2>7. EndOfLastFrame(next) = EndOfLastFrame(known)
    BY <2>2 DEF EndOfLastFrame, SameButDuration
  <2>8. next.status = StatusFor(next.state, next.duration)
    BY <1>1, <2>1, <2>2 DEF StatusFor, SameButDuration
  <2>9. known.maximum # None /\ known.state = "Complete" => known.duration >= EndOfLastFrame(known)
    BY DEF Good, Settled
  <2>10. Settled(next)
    BY <1>1, <2>1, <2>2, <2>4, <2>6, <2>7, <2>8, <2>9 DEF Settled, SameButDuration
  <2> QED
    BY <2>2, <2>3, <2>5, <2>10 DEF Good, Kept, SameButDuration, next
<1> QED
  BY <1>2, <1>3

(* Closing, pausing and failing leave the index good.                      *)
LEMMA ChangingStateGood ==
  ASSUME NEW known, NEW h, Good(known, h), NEW state \in IndexStates, NEW growing \in BOOLEAN
  PROVE  LET next == DurationSettled([known EXCEPT !.state = state, !.growing = growing])
         IN Good(next, h) /\ Longer(known, next)
<1> DEFINE moved == [known EXCEPT !.state = state, !.growing = growing]
<1>1. known \in IndexType /\ h \in HeardType /\ Sorted(known.points)
  BY DEF Good
<1>2. /\ moved \in IndexType /\ moved.points = known.points
      /\ moved.minimum = known.minimum /\ moved.maximum = known.maximum
      /\ moved.duration = known.duration
  BY <1>1 DEF IndexType
<1> HIDE DEF moved
<1>3. Extent(moved, h)
  BY <1>2 DEF Good, Extent
<1>4. LET next == DurationSettled(moved)
      IN next \in IndexType /\ SameButDuration(moved, next)
         /\ Extent(next, h) /\ Settled(next) /\ Longer(moved, next)
  BY <1>1, <1>2, <1>3, SettlingCovers
<1>5. Good(DurationSettled(moved), h) /\ Longer(known, DurationSettled(moved))
  BY <1>1, <1>2, <1>4 DEF Good, Kept, Longer, SameButDuration
<1> QED
  BY <1>5 DEF moved

(* The calls that change the state of an index.                            *)
LEMMA LifeGood ==
  ASSUME NEW known, NEW h, Good(known, h), NEW growing \in BOOLEAN,
         NEW next \in {Paused(known), Resumed(known), ReadableEndReached(known, growing),
                       Finalized(known), FailedIndex(known)}
  PROVE  Good(next, h) /\ Longer(known, next)
<1>1. /\ known \in IndexType /\ known.growing \in BOOLEAN
      /\ known.duration # None => known.duration \in Int
  BY DEF Good, IndexType, Optional
<1>2. Longer(known, known)
  BY <1>1 DEF Longer
<1>3. [known EXCEPT !.state = "Partial"]
        = [known EXCEPT !.state = "Partial", !.growing = known.growing]
      /\ [known EXCEPT !.state = "Failed"]
        = [known EXCEPT !.state = "Failed", !.growing = known.growing]
  BY <1>1 DEF IndexType
<1>4. CASE next = Paused(known)
  <2>1. "Partial" \in IndexStates
    BY DEF IndexStates
  <2>2. LET moved == DurationSettled([known EXCEPT !.state = "Partial", !.growing = known.growing])
        IN Good(moved, h) /\ Longer(known, moved)
    BY <1>1, <2>1, ChangingStateGood
  <2> QED
    BY <1>2, <1>3, <1>4, <2>2 DEF Paused
<1>5. CASE next = Resumed(known)
  <2>1. CASE known.state \in {"Partial", "Following", "Stale", "Failed"}
    <3> DEFINE moved == [known EXCEPT !.state = "Building"]
    <3>1. /\ next = moved /\ moved \in IndexType
          /\ moved.points = known.points
          /\ moved.minimum = known.minimum /\ moved.maximum = known.maximum
          /\ moved.duration = known.duration /\ moved.status = known.status
          /\ moved.state = "Building"
      BY <1>1, <1>5, <2>1 DEF Resumed, IndexType, IndexStates
    <3> HIDE DEF moved
    <3>2. Settled(moved)
      BY <2>1, <3>1 DEF Good, Settled, StatusFor
    <3> QED
      BY <1>1, <3>1, <3>2 DEF Good, Kept, Extent, Longer
  <2> QED
    BY <1>2, <1>5, <2>1 DEF Resumed
<1>6. CASE next = ReadableEndReached(known, growing)
  <2>1. (IF growing THEN "Following" ELSE "Complete") \in IndexStates
    BY DEF IndexStates
  <2>2. [known EXCEPT !.growing = growing, !.state = IF growing THEN "Following" ELSE "Complete"]
        = [known EXCEPT !.state = IF growing THEN "Following" ELSE "Complete", !.growing = growing]
    BY <1>1 DEF IndexType
  <2>3. LET moved == DurationSettled([known EXCEPT !.growing = growing,
                       !.state = IF growing THEN "Following" ELSE "Complete"])
        IN Good(moved, h) /\ Longer(known, moved)
    BY <2>1, <2>2, ChangingStateGood
  <2> QED
    BY <1>2, <1>6, <2>3 DEF ReadableEndReached
<1>7. CASE next = Finalized(known)
  <2>1. "Complete" \in IndexStates /\ FALSE \in BOOLEAN
    BY DEF IndexStates
  <2>2. LET moved == DurationSettled([known EXCEPT !.state = "Complete", !.growing = FALSE])
        IN Good(moved, h) /\ Longer(known, moved)
    BY <2>1, ChangingStateGood
  <2> QED
    BY <1>2, <1>7, <2>2 DEF Finalized
<1>8. CASE next = FailedIndex(known)
  <2>1. "Failed" \in IndexStates
    BY DEF IndexStates
  <2>2. LET moved == DurationSettled([known EXCEPT !.state = "Failed", !.growing = known.growing])
        IN Good(moved, h) /\ Longer(known, moved)
    BY <1>1, <2>1, ChangingStateGood
  <2> QED
    BY <1>3, <1>8, <2>2 DEF FailedIndex
<1> QED
  BY <1>4, <1>5, <1>6, <1>7, <1>8

(* An index without points and times that has heard nothing is good.       *)
LEMMA EmptyGood ==
  ASSUME NEW known \in IndexType, known.points = << >>, known.minimum = None,
         known.maximum = None, known.duration = None, known.status = "Unknown"
  PROVE  Good(known, Nothing)
<1>1. Nothing \in HeardType /\ Nothing.units = {} /\ Nothing.points = {}
  BY DEF Nothing, HeardType
<1>2. DOMAIN known.points = {} /\ Range(known.points) = {}
  BY DEF Range
<1>3. Sorted(known.points) /\ Kept(known, Nothing)
  BY <1>1, <1>2 DEF Sorted, Kept
<1>4. Extent(known, Nothing) /\ Settled(known)
  BY <1>1 DEF Extent, Settled, StatusFor
<1> QED
  BY <1>1, <1>3, <1>4 DEF Good

(* The calls that empty an index.                                          *)
LEMMA EmptiedGood ==
  /\ Good(Fresh, Nothing)
  /\ \A growing \in BOOLEAN : Good(Began(growing), Nothing)
  /\ \A known \in IndexType : Good(MarkedStale(known), Nothing)
  /\ \A known \in IndexType, track \in Selections :
       known.selected # track => Good(VideoSelected(known, track), Nothing)
<1>1. /\ None \in Selections /\ None \in Optional(Times) /\ None \in Optional(0 .. MaxTime)
      /\ 0 \in 0 .. MaxTime /\ << >> \in Seq(SeekPoints)
  BY MaxTimeAssumption DEF Selections, Optional
<1>2. Fresh \in IndexType
  BY <1>1 DEF Fresh, IndexType, IndexStates
<1>3. Good(Fresh, Nothing)
  BY <1>2, EmptyGood DEF Fresh
<1>4. ASSUME NEW growing \in BOOLEAN PROVE Good(Began(growing), Nothing)
  <2>1. Began(growing) \in IndexType
    BY <1>2 DEF Began, IndexType, IndexStates
  <2>2. Began(growing).points = << >> /\ Began(growing).minimum = None
        /\ Began(growing).maximum = None /\ Began(growing).duration = None
        /\ Began(growing).status = "Unknown"
    BY DEF Began, Fresh
  <2> QED
    BY <2>1, <2>2, EmptyGood
<1>5. ASSUME NEW known \in IndexType PROVE Good(MarkedStale(known), Nothing)
  <2> DEFINE stale == [known EXCEPT !.points = << >>, !.minimum = None, !.maximum = None,
               !.previous = None, !.frame = 0, !.duration = None, !.status = "Unknown",
               !.state = "Stale"]
  <2>1. MarkedStale(known) = stale
    BY DEF MarkedStale, Emptied, IndexType
  <2>2. stale \in IndexType
    BY <1>1 DEF IndexType, IndexStates
  <2>3. stale.points = << >> /\ stale.minimum = None /\ stale.maximum = None
        /\ stale.duration = None /\ stale.status = "Unknown"
    BY DEF IndexType
  <2> QED
    BY <2>1, <2>2, <2>3, EmptyGood
<1>6. ASSUME NEW known \in IndexType, NEW track \in Selections, known.selected # track
      PROVE  Good(VideoSelected(known, track), Nothing)
  <2> DEFINE emptied == [known EXCEPT !.points = << >>, !.minimum = None, !.maximum = None,
               !.previous = None, !.frame = 0, !.duration = None, !.status = "Unknown",
               !.selected = track]
  <2>1. VideoSelected(known, track) = emptied
    BY <1>6 DEF VideoSelected, Emptied, IndexType
  <2>2. emptied \in IndexType
    BY <1>1 DEF IndexType
  <2>3. emptied.points = << >> /\ emptied.minimum = None /\ emptied.maximum = None
        /\ emptied.duration = None /\ emptied.status = "Unknown"
    BY DEF IndexType
  <2> QED
    BY <2>1, <2>2, <2>3, EmptyGood
<1> QED
  BY <1>3, <1>4, <1>5, <1>6

(* Switching the track keeps the points and the extent.                    *)
LEMMA SwitchingGood ==
  ASSUME NEW known, NEW h, Good(known, h), NEW track \in VideoTracks
  PROVE  Good(VideoSwitched(known, track), h) /\ Longer(known, VideoSwitched(known, track))
<1>1. /\ known \in IndexType /\ track \in Selections /\ MaxTime \in Nat
      /\ known.duration # None => known.duration \in Int
  BY MaxTimeAssumption DEF Good, Selections, IndexType, Optional
<1>2. CASE known.selected = track
  BY <1>1, <1>2 DEF VideoSwitched, Longer
<1>3. CASE known.selected # track
  <2> DEFINE next == [known EXCEPT !.selected = track, !.previous = None, !.frame = 0]
  <2>1. VideoSwitched(known, track) = next
    BY <1>3 DEF VideoSwitched
  <2>2. /\ next \in IndexType /\ next.frame = 0 /\ next.points = known.points
        /\ next.state = known.state /\ next.status = known.status
        /\ next.minimum = known.minimum /\ next.maximum = known.maximum
        /\ next.duration = known.duration
    <3>1. None \in Optional(Times) /\ 0 \in 0 .. MaxTime
      BY <1>1 DEF Optional
    <3> QED
      BY <1>1, <3>1 DEF IndexType
  <2> HIDE DEF next
  <2>3. Settled(next)
    BY <1>1, <2>2 DEF Good, Settled, Extent, EndOfLastFrame
  <2> QED
    BY <1>1, <2>1, <2>2, <2>3 DEF Good, Kept, Extent, Longer
<1> QED
  BY <1>2, <1>3

-----------------------------------------------------------------------------
Inv == owner \in {"caller", "scanner"} /\ Good(index, heard)

(* What a step does to what was known.                                     *)
Grows ==
  heard.units # {} /\ heard.units \subseteq heard'.units
    => index'.duration # None /\ index.duration <= index'.duration

LEMMA LongerGrows ==
  ASSUME Inv, Longer(index, index')
  PROVE  Grows
<1>1. SUFFICES ASSUME heard.units # {}
               PROVE  index'.duration # None /\ index.duration <= index'.duration
  BY DEF Grows
<1>2. index.duration # None
  BY <1>1 DEF Inv, Good, Extent
<1> QED
  BY <1>2 DEF Longer

(* Every call of a caller and every step of a scanner keeps the invariant, *)
(* and shortens no duration.                                               *)
LEMMA StepGood ==
  ASSUME Inv, Next
  PROVE  Good(index', heard') /\ Grows
<1>1. Good(index, heard) /\ index \in IndexType
  BY DEF Inv, Good
<1>2. ASSUME Good(index', heard'), Longer(index, index') PROVE Good(index', heard') /\ Grows
  BY <1>2, LongerGrows
<1>3. ASSUME Good(index', heard'), heard' = Nothing PROVE Good(index', heard') /\ Grows
  BY <1>3 DEF Grows, Nothing
<1>4. CASE Reset
  BY <1>3, <1>4, EmptiedGood DEF Reset, Becomes
<1>5. ASSUME NEW growing \in BOOLEAN, Begin(growing) PROVE Good(index', heard') /\ Grows
  BY <1>3, <1>5, EmptiedGood DEF Begin, Becomes
<1>6. CASE MarkStale
  BY <1>1, <1>3, <1>6, EmptiedGood DEF MarkStale, Becomes
<1>7. ASSUME NEW track \in VideoTracks \cup {None},
             index' = VideoSelected(index, track),
             heard' = IF index.selected = track THEN heard ELSE Nothing
      PROVE  Good(index', heard') /\ Grows
  <2>1. track \in Selections
    BY DEF Selections
  <2>2. CASE index.selected = track
    <3>1. index' = index /\ heard' = heard
      BY <1>7, <2>2 DEF VideoSelected
    <3>2. index.duration # None => index.duration \in Int
      BY <1>1 DEF IndexType, Optional
    <3>3. Longer(index, index')
      BY <3>1, <3>2 DEF Longer
    <3> QED
      BY <1>1, <1>2, <3>1, <3>3
  <2>3. CASE index.selected # track
    <3>1. Good(VideoSelected(index, track), Nothing)
      BY <1>1, <2>1, <2>3, EmptiedGood
    <3> QED
      BY <1>3, <1>7, <2>3, <3>1
  <2> QED
    BY <2>2, <2>3
<1>8. ASSUME NEW track \in VideoTracks, SelectVideoTrack(track) \/ OnTrack(track)
      PROVE  Good(index', heard') /\ Grows
  BY <1>7, <1>8 DEF SelectVideoTrack, OnTrack, Becomes
<1>9. CASE SelectVideoTrack(None)
  BY <1>7, <1>9 DEF SelectVideoTrack, Becomes
<1>10. ASSUME NEW track \in VideoTracks, SwitchVideoTrack(track)
       PROVE  Good(index', heard') /\ Grows
  BY <1>1, <1>2, <1>10, SwitchingGood DEF SwitchVideoTrack, Becomes
<1>11. ASSUME NEW unit \in Units, index' \in Observed(index, unit), heard' = Heard(unit)
       PROVE  Good(index', heard') /\ Longer(index, index')
  BY <1>1, <1>11, ObservingGood DEF Heard
<1>12. ASSUME NEW unit \in Units, Observe(unit) \/ OnAccessUnit(unit)
       PROVE  Good(index', heard') /\ Grows
  <2>1. index' \in Observed(index, unit) /\ heard' = Heard(unit)
    BY <1>12 DEF Observe, OnAccessUnit, Becomes
  <2> QED
    BY <1>2, <1>11, <2>1
<1>13. ASSUME NEW point \in Restored, AddSeekPoint(point)
       PROVE  Good(index', heard') /\ Grows
  <2>1. index' \in PointAdded(index, point)
    BY <1>13 DEF AddSeekPoint, Becomes
  <2>2. heard' = IF Accepts(index, point) THEN [heard EXCEPT !.points = @ \cup {point}] ELSE heard
    BY <1>13 DEF AddSeekPoint
  <2> QED
    BY <1>1, <1>2, <2>1, <2>2, RestoringGood
<1>14. ASSUME NEW status \in {"Unknown", "Provisional", "Complete"}, NEW time \in Durations,
              UpdateDuration(status, time)
       PROVE  Good(index', heard') /\ Grows
  BY <1>1, <1>2, <1>14, ReportingGood DEF UpdateDuration, Becomes
<1>15. ASSUME NEW growing \in BOOLEAN,
              index' \in {Paused(index), Resumed(index), ReadableEndReached(index, growing),
                          Finalized(index), FailedIndex(index)},
              heard' = heard
       PROVE  Good(index', heard') /\ Grows
  BY <1>1, <1>2, <1>15, LifeGood
<1>16. CASE Pause \/ Resume \/ Finalize \/ Fail
  BY <1>15, <1>16 DEF Pause, Resume, Finalize, Fail, Becomes
<1>17. ASSUME NEW growing \in BOOLEAN, ReachReadableEnd(growing)
       PROVE  Good(index', heard') /\ Grows
  BY <1>15, <1>17 DEF ReachReadableEnd, Becomes
<1>18. CASE FailSource
  <2>1. index' = index /\ heard' = heard
    BY <1>18 DEF FailSource
  <2>2. index.duration # None => index.duration \in Int
    BY <1>1 DEF IndexType, Optional
  <2>3. Longer(index, index')
    BY <2>1, <2>2 DEF Longer
  <2> QED
    BY <1>1, <1>2, <2>1, <2>3
<1>19. CASE FinishFailed \/ FinishEmpty
  BY <1>15, <1>19 DEF FinishFailed, FinishEmpty
<1>20. CASE FinishScan
  <2>1. PICK flushed \in {None} \cup {unit \in Units : unit.track = scanner.video} :
          /\ index' \in {Finalized(next) :
               next \in IF flushed = None THEN {index} ELSE Observed(index, flushed)}
          /\ heard' = IF flushed # None THEN Heard(flushed) ELSE heard
    BY <1>20 DEF FinishScan
  <2>2. PICK next \in IF flushed = None THEN {index} ELSE Observed(index, flushed) :
          index' = Finalized(next)
    BY <2>1
  <2>3. Good(next, heard') /\ Longer(index, next)
    <3>1. CASE flushed = None
      <4>1. next = index /\ heard' = heard
        BY <2>1, <2>2, <3>1
      <4>2. index.duration # None => index.duration \in Int
        BY <1>1 DEF IndexType, Optional
      <4>3. Longer(index, index)
        BY <4>2 DEF Longer
      <4> QED
        BY <1>1, <4>1, <4>3
    <3>2. CASE flushed # None
      <4>1. flushed \in Units /\ next \in Observed(index, flushed) /\ heard' = Heard(flushed)
        BY <2>1, <2>2, <3>2
      <4> QED
        BY <1>1, <4>1, ObservingGood DEF Heard
    <3> QED
      BY <3>1, <3>2
  <2>4. Good(Finalized(next), heard') /\ Longer(next, Finalized(next))
    BY <2>3, LifeGood
  <2>5. Longer(index, index')
    <3>1. /\ index.duration # None => index.duration \in Int
          /\ next.duration # None => next.duration \in Int
          /\ index'.duration # None => index'.duration \in Int
      BY <1>1, <2>2, <2>3, <2>4 DEF Good, IndexType, Optional
    <3> QED
      BY <2>2, <2>3, <2>4, <3>1 DEF Longer
  <2> QED
    BY <1>2, <2>2, <2>4, <2>5
<1> QED
  BY <1>4, <1>5, <1>6, <1>8, <1>9, <1>10, <1>12, <1>13, <1>14, <1>16, <1>17, <1>18,
     <1>19, <1>20 DEF Next

LEMMA InvHolds == Spec => []Inv
<1>1. Init => Inv
  <2> SUFFICES ASSUME Init PROVE Inv
    OBVIOUS
  <2>1. Good(Fresh, Nothing) /\ Good(Began(FALSE), Nothing)
    BY EmptiedGood
  <2> QED
    BY <2>1 DEF Init, Inv
<1>2. Inv /\ [Next]_vars => Inv'
  <2> SUFFICES ASSUME Inv, [Next]_vars PROVE Inv'
    OBVIOUS
  <2>1. CASE Next
    <3>1. Good(index', heard')
      BY <2>1, StepGood
    <3>2. owner' = owner
      BY <2>1 DEF Next, Reset, Begin, SelectVideoTrack, SwitchVideoTrack, Observe, AddSeekPoint,
         UpdateDuration, Pause, Resume, ReachReadableEnd, Finalize, MarkStale, Fail, Becomes,
         OnTrack, OnAccessUnit, FailSource, FinishFailed, FinishEmpty, FinishScan
    <3> QED
      BY <3>1, <3>2 DEF Inv
  <2>2. CASE UNCHANGED vars
    BY <2>2 DEF Inv, vars
  <2> QED
    BY <2>1, <2>2
<1> QED
  BY <1>1, <1>2, PTL DEF Spec

(* The index is always well typed; in particular the end of the last frame *)
(* never leaves the range of a time, and every seek point is one that was  *)
(* offered and can be used.                                                *)
THEOREM TypeCorrect == Spec => []TypeOK
<1>1. Inv => TypeOK
  BY DEF Inv, Good, IndexType, Selections, TypeOK
<1> QED
  BY <1>1, InvHolds, PTL

(* Whatever order units and restored points come in, the seek points of    *)
(* addSeekPoint stay sorted by time and by offset, without a repetition.   *)
THEOREM PointsStayOrdered == Spec => []PointsOrdered
<1>1. Inv => PointsOrdered
  <2> SUFFICES ASSUME Inv, NEW i \in DOMAIN index.points, NEW j \in DOMAIN index.points, i < j
               PROVE  /\ index.points[i].time <= index.points[j].time
                      /\ index.points[i].offset <= index.points[j].offset
                      /\ index.points[i] # index.points[j]
    BY DEF PointsOrdered
  <2>1. index.points[i] \in SeekPoints /\ index.points[j] \in SeekPoints
    BY DEF Inv, Good, IndexType
  <2>2. /\ Precedes(index.points[i], index.points[j])
        /\ index.points[i].offset <= index.points[j].offset
    BY DEF Inv, Good, Sorted
  <2> QED
    BY <2>1, <2>2, PrecedesFacts
<1> QED
  BY <1>1, InvHolds, PTL

(* No random access unit is lost but to a point that contradicts it, and   *)
(* none outlives reset, selectVideoTrack or markStale.                     *)
THEOREM RapsAreKept == Spec => []RapsKept
<1>1. Inv => RapsKept
  BY DEF Inv, Good, Kept, Placed, RapsKept
<1> QED
  BY <1>1, InvHolds, PTL

(* The duration covers every unit that counted, and is called complete     *)
(* exactly in a complete index.                                            *)
THEOREM DurationAlwaysCovers == Spec => []DurationCovers
<1>1. Inv => DurationCovers
  <2> SUFFICES ASSUME Inv PROVE DurationCovers
    OBVIOUS
  <2>1. Extent(index, heard) /\ Settled(index)
    BY DEF Inv, Good
  <2>2. index.status = "Complete" <=> index.state = "Complete" /\ index.duration # None
    BY <2>1 DEF Settled, StatusFor
  <2>3. index.status = "Unknown" <=> index.duration = None
    BY <2>1 DEF Settled, StatusFor
  <2> QED
    BY <2>1, <2>2, <2>3 DEF Extent, Settled, DurationCovers
<1> QED
  BY <1>1, InvHolds, PTL

(* As long as what was heard counts, no call shortens the duration.        *)
THEOREM DurationNeverShrinks == Spec => DurationGrows
<1>1. Inv /\ [Next]_vars => [Grows]_vars
  BY StepGood
<1>2. [Grows]_vars
        => [heard.units # {} /\ heard.units \subseteq heard'.units
              => index'.duration # None /\ index.duration <= index'.duration]_vars
  BY DEF Grows
<1> QED
  BY <1>1, <1>2, InvHolds, PTL DEF Spec, DurationGrows

-----------------------------------------------------------------------------
(* Lookups.  Products and quotients first.                                 *)
LEMMA Products ==
  ASSUME NEW a \in Nat, NEW x \in Nat, NEW y \in Nat, x <= y
  PROVE  a * x \in Nat /\ a * y \in Nat /\ a * x <= a * y
OBVIOUS

LEMMA Quotients ==
  ASSUME NEW n \in Nat, NEW m \in Nat, NEW d \in Nat \ {0}, n <= m
  PROVE  /\ n \div d \in Nat /\ m \div d \in Nat
         /\ n \div d <= m \div d
OBVIOUS

LEMMA QuotientOfProduct ==
  ASSUME NEW a \in Nat, NEW d \in Nat \ {0}
  PROVE  (a * d) \div d = a
OBVIOUS


(* The proportional part of a range of offsets.                            *)
LEMMA Proportions ==
  ASSUME NEW span \in Nat, NEW length \in Nat \ {0}, NEW s \in 0 .. length, NEW t \in 0 .. length,
         s <= t
  PROVE  /\ (span * s) \div length \in 0 .. span /\ (span * t) \div length \in 0 .. span
         /\ (span * s) \div length <= (span * t) \div length
<1> DEFINE ps == span * s
           pt == span * t
           pl == span * length
<1>1. s \in Nat /\ t \in Nat /\ length \in Nat /\ s <= length /\ t <= length
  OBVIOUS
<1>2. ps \in Nat /\ pt \in Nat /\ ps <= pt
  BY <1>1, Products
<1>3. pl \in Nat /\ ps <= pl /\ pt <= pl
  BY <1>1, Products
<1>4. pl \div length = span
  BY QuotientOfProduct
<1> HIDE DEF ps, pt, pl
<1>5. ps \div length \in Nat /\ pt \div length \in Nat /\ ps \div length <= pt \div length
  BY <1>2, Quotients
<1>6. ps \div length <= pl \div length /\ pt \div length <= pl \div length
  BY <1>2, <1>3, Quotients
<1> QED
  BY <1>4, <1>5, <1>6 DEF ps, pt, pl

(* An interpolated offset lies in its range and grows with the time.       *)
LEMMA InterpolatedFacts ==
  ASSUME NEW from \in Nat, NEW to \in Nat, from <= to, NEW begin \in Int, NEW end \in Int,
         NEW early \in Int, NEW late \in Int, early <= late
  PROVE  /\ Interpolated(from, to, begin, end, early) \in from .. to
         /\ Interpolated(from, to, begin, end, late) \in from .. to
         /\ Interpolated(from, to, begin, end, early) <= Interpolated(from, to, begin, end, late)
<1>1. ASSUME NEW time \in Int, Interpolated(from, to, begin, end, time) \notin {from, to}
      PROVE  /\ begin < end /\ from < to /\ begin < time /\ time < end
             /\ Interpolated(from, to, begin, end, time)
                  = from + ((to - from) * (time - begin)) \div (end - begin)
  BY <1>1 DEF Interpolated
<1>2. ASSUME NEW time \in Int, Interpolated(from, to, begin, end, time) \notin {from, to}
      PROVE  Interpolated(from, to, begin, end, time) \in from .. to
  <2>1. /\ begin < end /\ from < to /\ begin < time /\ time < end
        /\ Interpolated(from, to, begin, end, time)
             = from + ((to - from) * (time - begin)) \div (end - begin)
    BY <1>1, <1>2
  <2>2. to - from \in Nat /\ end - begin \in Nat \ {0} /\ time - begin \in 0 .. (end - begin)
    BY <2>1
  <2> DEFINE q == ((to - from) * (time - begin)) \div (end - begin)
  <2>3. q \in 0 .. (to - from)
    BY <2>2, Proportions
  <2> HIDE DEF q
  <2>4. from + q \in from .. to
    BY <2>1, <2>3
  <2> QED
    BY <2>1, <2>4 DEF q
<1>3. /\ Interpolated(from, to, begin, end, early) \in from .. to
      /\ Interpolated(from, to, begin, end, late) \in from .. to
  <2>1. from \in from .. to /\ to \in from .. to
    OBVIOUS
  <2> QED
    BY <1>2, <2>1
<1>4. CASE end <= begin \/ to <= from \/ early <= begin
  <2>1. Interpolated(from, to, begin, end, early) = from
    BY <1>4 DEF Interpolated
  <2> QED
    BY <1>3, <2>1
<1>5. CASE ~(end <= begin \/ to <= from \/ early <= begin) /\ late >= end
  <2>1. Interpolated(from, to, begin, end, late) = to
    BY <1>5 DEF Interpolated
  <2> QED
    BY <1>3, <2>1
<1>6. CASE ~(end <= begin \/ to <= from \/ early <= begin) /\ ~(late >= end)
  <2> DEFINE qe == ((to - from) * (early - begin)) \div (end - begin)
             ql == ((to - from) * (late - begin)) \div (end - begin)
  <2>1. /\ Interpolated(from, to, begin, end, early) = from + qe
        /\ Interpolated(from, to, begin, end, late) = from + ql
    BY <1>6 DEF Interpolated
  <2>2. /\ to - from \in Nat /\ end - begin \in Nat \ {0}
        /\ early - begin \in 0 .. (end - begin) /\ late - begin \in 0 .. (end - begin)
        /\ early - begin <= late - begin
    BY <1>6
  <2>3. qe \in 0 .. (to - from) /\ ql \in 0 .. (to - from) /\ qe <= ql
    BY <2>2, Proportions
  <2> HIDE DEF qe, ql
  <2>4. from + qe <= from + ql
    BY <2>3
  <2> QED
    BY <1>3, <2>1, <2>4
<1> QED
  BY <1>4, <1>5, <1>6

-----------------------------------------------------------------------------
(* In a non-empty set of numbers there is a smallest one.                  *)
LEMMA Smallest ==
  ASSUME NEW S \in SUBSET Nat, S # {}
  PROVE  \E k \in S : \A j \in S : k <= j
<1>1. PICK k \in S : \A j \in S : ~ (<< j, k >> \in OpToRel(<, Nat))
  <2>1. IsWellFoundedOn(OpToRel(<, Nat), Nat)
    BY NatLessThanWellFounded
  <2> QED
    BY <2>1, WFMin
<1>2. ASSUME NEW j \in S PROVE k <= j
  <2>1. ~ (j < k)
    BY <1>1 DEF OpToRel
  <2> QED
    BY <2>1
<1> QED
  BY <1>2

(* UpperBound is the place of the first later point.                       *)
LEMMA UpperFacts ==
  ASSUME NEW points \in Seq(SeekPoints), Sorted(points), NEW time \in Int
  PROVE  /\ UpperBound(points, time) \in 1 .. Len(points) + 1
         /\ \A i \in 1 .. Len(points) :
              i < UpperBound(points, time) <=> points[i].time <= time
<1> DEFINE n == Len(points)
           S == {i \in DOMAIN points : points[i].time <= time}
           Later == {k \in 1 .. n + 1 : k \notin S}
<1>1. n \in Nat /\ DOMAIN points = 1 .. n /\ \A i \in 1 .. n : points[i] \in SeekPoints
  OBVIOUS
<1>2. Later \in SUBSET Nat /\ n + 1 \in Later
  BY <1>1
<1> HIDE DEF Later
<1>3. PICK k \in Later : \A j \in Later : k <= j
  <2>1. Later # {}
    BY <1>2
  <2> QED
    BY <1>2, <2>1, Smallest
<1>4. k \in 1 .. n + 1 /\ k \notin S
  BY <1>3 DEF Later
<1>5. ASSUME NEW i \in 1 .. n PROVE i < k <=> points[i].time <= time
  <2>1. CASE i < k
    <3>1. i \notin Later
      BY <1>1, <1>3, <1>4, <2>1
    <3> QED
      BY <1>1, <2>1, <3>1 DEF Later
  <2>2. CASE i = k
    BY <1>1, <1>4, <2>2
  <2>3. CASE k < i
    <3>1. k \in 1 .. n /\ ~(points[k].time <= time)
      BY <1>1, <1>4, <2>3
    <3>2. Precedes(points[k], points[i])
      BY <1>1, <2>3, <3>1 DEF Sorted
    <3>3. points[k].time \in Int /\ points[i].time \in Int /\ points[k].time <= points[i].time
      BY <1>1, <3>1, <3>2, PointFacts, PrecedesFacts
    <3> QED
      BY <2>3, <1>1, <1>4, <3>1, <3>3
  <2> QED
    BY <1>1, <1>4, <2>1, <2>2, <2>3
<1>6. S = 1 .. k - 1
  BY <1>1, <1>4, <1>5
<1>7. Cardinality(1 .. k - 1) = k - 1
  <2>1. k - 1 \in Int /\ k - 1 >= 0
    BY <1>1, <1>4
  <2> DEFINE m == k - 1
  <2> HIDE DEF m
  <2>2. Cardinality(1 .. m) = m - 1 + 1
    BY <2>1, FS_Interval DEF m
  <2> QED
    BY <2>1, <2>2 DEF m
<1>8. UpperBound(points, time) = k
  <2>1. UpperBound(points, time) = 1 + (k - 1)
    BY <1>6, <1>7 DEF UpperBound
  <2> QED
    BY <1>1, <1>4, <2>1
<1> QED
  BY <1>4, <1>5, <1>8


-----------------------------------------------------------------------------
(* An index as the lookups find it.                                        *)
Searchable(known) ==
  /\ known.points \in Seq(SeekPoints) /\ Sorted(known.points)
  /\ known.duration \in Optional(0 .. MaxTime)

(* Every point lies in the recording.                                      *)
LEMMA Inside ==
  ASSUME NEW point \in SeekPoints
  PROVE  point.offset \in 0 .. SourceSize /\ point.time \in Int
<1>1. point.offset <= SourceSize
  BY LookupsAssumption DEF SeekPoints
<1> QED
  BY <1>1, PointFacts, LookupsAssumption

(* What an estimate is interpolated from, for the targets with one upper   *)
(* bound.                                                                  *)
Section(known, upper) ==
  LET points == known.points
      n      == Len(points)
  IN IF upper \in 2 .. n
     THEN [from |-> points[upper - 1].offset, to |-> points[upper].offset,
           begin |-> points[upper - 1].time, end |-> points[upper].time]
     ELSE IF upper <= n
     THEN [from |-> 0, to |-> points[upper].offset, begin |-> 0, end |-> points[upper].time]
     ELSE IF points # << >>
     THEN [from |-> points[n].offset, to |-> SourceSize,
           begin |-> points[n].time, end |-> known.duration]
     ELSE [from |-> 0, to |-> SourceSize, begin |-> 0, end |-> known.duration]

(* A target behind the duration of an index without points counts as the   *)
(* duration.                                                               *)
Sought(known, target) ==
  IF known.points = << >> /\ known.duration # None /\ ~(target < known.duration)
  THEN known.duration ELSE target

(* A section joins the two points around the target, or the beginning or   *)
(* the end of the recording.                                               *)
SectionFits(known, upper, s) ==
  /\ s.from \in Nat /\ s.to \in Nat /\ s.from <= s.to /\ s.to <= SourceSize
  /\ s.begin \in Int /\ s.end \in Int
  /\ upper > 1 => known.points[upper - 1].offset <= s.from
  /\ upper <= Len(known.points) => s.to <= known.points[upper].offset

LEMMA EstimateForm ==
  ASSUME NEW known, Searchable(known), NEW target \in Int, target > 0,
         EstimatedOffset(known, target, SourceSize) # None
  PROVE  LET u == UpperBound(known.points, target)
             s == Section(known, u)
         IN /\ SectionFits(known, u, s)
            /\ Sought(known, target) \in Int
            /\ EstimatedOffset(known, target, SourceSize)
                 = Interpolated(s.from, s.to, s.begin, s.end, Sought(known, target))
<1> DEFINE points == known.points
           n == Len(points)
           u == UpperBound(points, target)
           s == Section(known, u)
           e == EstimatedOffset(known, target, SourceSize)
<1>1. /\ points \in Seq(SeekPoints) /\ Sorted(points) /\ n \in Nat /\ DOMAIN points = 1 .. n
      /\ \A i \in 1 .. n : points[i] \in SeekPoints
      /\ known.duration # None => known.duration \in Int
      /\ points = << >> <=> n = 0
  BY DEF Searchable, Optional
<1>2. u \in 1 .. n + 1
  BY <1>1, UpperFacts
<1>3. SourceSize \in Nat
  BY LookupsAssumption
<1>4. e = IF SourceSize = 0 THEN None
          ELSE IF target <= 0 THEN 0
          ELSE IF u \in 2 .. n
          THEN Interpolated(points[u - 1].offset, points[u].offset,
                            points[u - 1].time, points[u].time, target)
          ELSE IF u <= n
          THEN Interpolated(0, points[u].offset, 0, points[u].time, target)
          ELSE IF points # << >> /\ known.duration # None /\ target <= known.duration
          THEN Interpolated(points[n].offset, SourceSize, points[n].time, known.duration, target)
          ELSE IF points = << >> /\ known.duration # None /\ known.duration > 0
          THEN Interpolated(0, SourceSize, 0, known.duration,
                            IF target < known.duration THEN target ELSE known.duration)
          ELSE None
  BY Zenon DEF EstimatedOffset
<1>5. e # None /\ ~(target <= 0)
  OBVIOUS
<1> HIDE DEF u, e
<1> HIDE DEF n
<1>6. CASE u \in 2 .. n
  <2>1. /\ u - 1 \in 1 .. n /\ u \in 1 .. n /\ u - 1 < u /\ u <= n
    BY <1>1, <1>6
  <2>2. points[u - 1].offset <= points[u].offset
    BY <1>1, <2>1 DEF Sorted
  <2>3. /\ points[u - 1].offset \in 0 .. SourceSize /\ points[u - 1].time \in Int
        /\ points[u].offset \in 0 .. SourceSize /\ points[u].time \in Int
    BY <1>1, <2>1, Inside
  <2>4. s = [from |-> points[u - 1].offset, to |-> points[u].offset,
             begin |-> points[u - 1].time, end |-> points[u].time]
    BY <1>6 DEF Section, n
  <2>5. Sought(known, target) = target
    BY <1>1, <2>1 DEF Sought
  <2>6. e = Interpolated(points[u - 1].offset, points[u].offset,
                         points[u - 1].time, points[u].time, target)
    BY <1>4, <1>5, <1>6
  <2>7. SectionFits(known, u, s)
    BY <1>3, <2>2, <2>3, <2>4 DEF SectionFits
  <2> QED
    BY <2>4, <2>5, <2>6, <2>7 DEF u, e
<1>7. CASE u = 1 /\ n >= 1
  <2>1. u \in 1 .. n /\ u \notin 2 .. n /\ u <= n /\ ~(u > 1)
    BY <1>1, <1>7
  <2>2. points[u].offset \in 0 .. SourceSize /\ points[u].time \in Int
    BY <1>1, <2>1, Inside
  <2>3. s = [from |-> 0, to |-> points[u].offset, begin |-> 0, end |-> points[u].time]
    BY <2>1 DEF Section, n
  <2>4. Sought(known, target) = target
    BY <1>1, <1>7 DEF Sought
  <2>5. e = Interpolated(0, points[u].offset, 0, points[u].time, target)
    BY <1>4, <1>5, <2>1
  <2>6. SectionFits(known, u, s)
    BY <1>3, <2>1, <2>2, <2>3 DEF SectionFits
  <2> QED
    BY <2>3, <2>4, <2>5, <2>6 DEF u, e
<1>8. CASE u = n + 1 /\ n >= 1
  <2>1. /\ u \notin 2 .. n /\ ~(u <= n) /\ n \in 1 .. n /\ u - 1 = n /\ points # << >>
    BY <1>1, <1>8
  <2>2. points[n].offset \in 0 .. SourceSize /\ points[n].time \in Int
    BY <1>1, <2>1, Inside
  <2>3. known.duration # None /\ known.duration \in Int
    BY <1>1, <1>4, <1>5, <2>1
  <2>4. s = [from |-> points[n].offset, to |-> SourceSize,
             begin |-> points[n].time, end |-> known.duration]
    BY <2>1 DEF Section, n
  <2>5. Sought(known, target) = target
    BY <2>1 DEF Sought
  <2>6. e = Interpolated(points[n].offset, SourceSize, points[n].time, known.duration, target)
    BY <1>4, <1>5, <2>1
  <2>7. SectionFits(known, u, s)
    <3>1. s.from = points[n].offset /\ s.to = SourceSize /\ s.begin = points[n].time
          /\ s.end = known.duration
      BY <2>4
    <3>2. known.points[u - 1].offset = points[n].offset /\ ~(u <= Len(known.points))
      BY <2>1 DEF n
    <3> QED
      BY <1>3, <2>2, <2>3, <3>1, <3>2 DEF SectionFits
  <2> QED
    BY <2>4, <2>5, <2>6, <2>7 DEF u, e
<1>9. CASE n = 0
  <2>1. /\ u \notin 2 .. n /\ ~(u <= n) /\ ~(u > 1) /\ points = << >>
    BY <1>1, <1>2, <1>9
  <2>2. known.duration # None /\ known.duration \in Int /\ known.duration > 0
    BY <1>1, <1>4, <1>5, <2>1
  <2>3. s = [from |-> 0, to |-> SourceSize, begin |-> 0, end |-> known.duration]
    BY <2>1 DEF Section, n
  <2>4. Sought(known, target) = (IF target < known.duration THEN target ELSE known.duration)
    BY <2>1, <2>2 DEF Sought
  <2>5. e = Interpolated(0, SourceSize, 0, known.duration, Sought(known, target))
    BY <1>4, <1>5, <2>1, <2>2, <2>4
  <2>6. Sought(known, target) \in Int
    BY <2>2, <2>4
  <2>7. SectionFits(known, u, s)
    BY <1>3, <2>1, <2>2, <2>3 DEF SectionFits, n
  <2> QED
    BY <2>3, <2>5, <2>6, <2>7 DEF u, e
<1> QED
  BY <1>1, <1>2, <1>6, <1>7, <1>8, <1>9


(* The estimate lies between the points around its target.                 *)
LEMMA EstimateAround ==
  ASSUME NEW known, Searchable(known), NEW target \in Int, target > 0,
         EstimatedOffset(known, target, SourceSize) # None
  PROVE  LET u == UpperBound(known.points, target)
             e == EstimatedOffset(known, target, SourceSize)
         IN /\ e \in Nat /\ e <= SourceSize
            /\ u > 1 => known.points[u - 1].offset <= e
            /\ u <= Len(known.points) => e <= known.points[u].offset
<1> DEFINE u == UpperBound(known.points, target)
           s == Section(known, u)
           e == EstimatedOffset(known, target, SourceSize)
           sought == Sought(known, target)
<1>1. /\ SectionFits(known, u, s) /\ sought \in Int
      /\ e = Interpolated(s.from, s.to, s.begin, s.end, sought)
  BY EstimateForm
<1>2. /\ known.points \in Seq(SeekPoints)
      /\ \A i \in 1 .. Len(known.points) : known.points[i] \in SeekPoints
      /\ Len(known.points) \in Nat
  BY DEF Searchable
<1>3. u \in 1 .. Len(known.points) + 1
  BY UpperFacts DEF Searchable
<1>4. /\ u > 1 => known.points[u - 1].offset \in Int
      /\ u <= Len(known.points) => known.points[u].offset \in Int
  <2>1. ASSUME NEW i \in 1 .. Len(known.points) PROVE known.points[i].offset \in Int
    BY <1>2, PointFacts
  <2> QED
    BY <1>2, <1>3, <2>1
<1> HIDE DEF u, e, sought
<1> HIDE DEF s
<1>5. e \in s.from .. s.to
  <2>1. /\ s.from \in Nat /\ s.to \in Nat /\ s.from <= s.to
        /\ s.begin \in Int /\ s.end \in Int /\ sought <= sought
    BY <1>1 DEF SectionFits
  <2>2. Interpolated(s.from, s.to, s.begin, s.end, sought) \in s.from .. s.to
    BY <1>1, <2>1, InterpolatedFacts
  <2> QED
    BY <1>1, <2>2
<1>6. SourceSize \in Nat
  BY LookupsAssumption
<1> QED
  BY <1>1, <1>4, <1>5, <1>6 DEF SectionFits, u, e

(* The estimate grows with the target.                                     *)
LEMMA EstimateGrows ==
  ASSUME NEW known, Searchable(known), NEW early \in Int, NEW late \in Int, early < late,
         EstimatedOffset(known, early, SourceSize) # None,
         EstimatedOffset(known, late, SourceSize) # None
  PROVE  EstimatedOffset(known, early, SourceSize) <= EstimatedOffset(known, late, SourceSize)
<1> DEFINE points == known.points
           n == Len(points)
           first == EstimatedOffset(known, early, SourceSize)
           second == EstimatedOffset(known, late, SourceSize)
           a == UpperBound(points, early)
           b == UpperBound(points, late)
<1>1. /\ points \in Seq(SeekPoints) /\ Sorted(points) /\ n \in Nat /\ DOMAIN points = 1 .. n
      /\ \A i \in 1 .. n : points[i] \in SeekPoints
      /\ known.duration # None => known.duration \in Int
  BY DEF Searchable, Optional
<1>2. CASE early <= 0
  <2>1. first = 0
    BY <1>2 DEF EstimatedOffset
  <2>2. CASE late <= 0
    <3>1. second = 0
      BY <2>2 DEF EstimatedOffset
    <3> QED
      BY <2>1, <3>1
  <2>3. CASE late > 0
    <3>1. second \in Nat
      BY <2>3, EstimateAround
    <3>2. first <= second
      <4> HIDE DEF first, second
      <4> QED
        BY <2>1, <3>1
    <3> QED
      BY <3>2
  <2> QED
    BY <2>2, <2>3
<1>3. CASE early > 0
  <2>1. early > 0 /\ late > 0
    BY <1>3
  <2>2. /\ a \in 1 .. n + 1 /\ \A i \in 1 .. n : i < a <=> points[i].time <= early
        /\ b \in 1 .. n + 1 /\ \A i \in 1 .. n : i < b <=> points[i].time <= late
    BY <1>1, UpperFacts
  <2>3. CASE a = b
    <3> DEFINE s == Section(known, a)
    <3>1. /\ SectionFits(known, a, s) /\ Sought(known, early) \in Int
          /\ first = Interpolated(s.from, s.to, s.begin, s.end, Sought(known, early))
      BY <2>1, EstimateForm
    <3>2. /\ Sought(known, late) \in Int
          /\ second = Interpolated(s.from, s.to, s.begin, s.end, Sought(known, late))
      <4>1. /\ Sought(known, late) \in Int
            /\ second = Interpolated(Section(known, b).from, Section(known, b).to,
                                     Section(known, b).begin, Section(known, b).end,
                                     Sought(known, late))
        BY <2>1, EstimateForm
      <4> QED
        BY <2>3, <4>1
    <3>3. Sought(known, early) <= Sought(known, late)
      BY <1>1 DEF Sought
    <3>4. /\ s.from \in Nat /\ s.to \in Nat /\ s.from <= s.to
          /\ s.begin \in Int /\ s.end \in Int
      BY <3>1 DEF SectionFits
    <3> DEFINE soughtEarly == Sought(known, early)
               soughtLate == Sought(known, late)
    <3>5. soughtEarly \in Int /\ soughtLate \in Int /\ soughtEarly <= soughtLate
      BY <3>1, <3>2, <3>3
    <3> HIDE DEF soughtEarly, soughtLate
    <3> HIDE DEF s
    <3>6. Interpolated(s.from, s.to, s.begin, s.end, soughtEarly)
            <= Interpolated(s.from, s.to, s.begin, s.end, soughtLate)
      BY <3>4, <3>5, InterpolatedFacts
    <3> QED
      BY <3>1, <3>2, <3>6 DEF soughtEarly, soughtLate
  <2>4. CASE a < b
    <3>1. /\ first \in Nat
          /\ a <= n => first <= points[a].offset
      BY <2>1, EstimateAround
    <3>2. /\ second \in Nat
          /\ b > 1 => points[b - 1].offset <= second
      BY <2>1, EstimateAround
    <3>3. first <= second
      <4> HIDE DEF first, second, a, b
      <4>1. a \in 1 .. n /\ b - 1 \in 1 .. n /\ a <= b - 1 /\ b > 1
        BY <1>1, <2>2, <2>4
      <4>2. points[a].offset \in Int /\ points[b - 1].offset \in Int
        BY <1>1, <4>1, PointFacts
      <4>3. points[a].offset <= points[b - 1].offset
        BY <1>1, <4>1, <4>2 DEF Sorted
      <4>4. first <= points[a].offset /\ points[b - 1].offset <= second
        BY <1>1, <3>1, <3>2, <4>1
      <4> QED
        BY <3>1, <3>2, <4>2, <4>3, <4>4
    <3> QED
      BY <3>3
  <2>5. CASE b < a
    <3>1. b \in 1 .. n /\ ~(b < b) /\ b < a
      BY <1>1, <2>2, <2>5
    <3>2. points[b].time <= early /\ ~(points[b].time <= late) /\ points[b].time \in Int
      BY <1>1, <2>2, <3>1, PointFacts
    <3> QED
      BY <3>2
  <2> HIDE DEF a, b
  <2> QED
    BY <1>1, <2>2, <2>3, <2>4, <2>5
<1> QED
  BY <1>2, <1>3

(* What a lookup finds of a target.                                        *)
LEMMA TargetFound ==
  ASSUME NEW known, Searchable(known), NEW target \in Int
  PROVE  LET previous == PreviousSync(known, target)
             around   == SeekPointsFor(known, target)
             estimate == EstimatedOffset(known, target, SourceSize)
         IN /\ previous # None => around[1] = previous /\ previous.time <= target
            /\ around # None /\ Len(around) = 2 => target < around[2].time
            /\ estimate # None /\ target > 0 =>
                 /\ previous # None => previous.offset <= estimate
                 /\ around # None /\ Len(around) = 2 => estimate <= around[2].offset
                 /\ estimate <= SourceSize
<1> DEFINE points == known.points
           n == Len(points)
           u == UpperBound(points, target)
           previous == PreviousSync(known, target)
           around == SeekPointsFor(known, target)
           estimate == EstimatedOffset(known, target, SourceSize)
<1>1. /\ points \in Seq(SeekPoints) /\ Sorted(points) /\ n \in Nat /\ DOMAIN points = 1 .. n
      /\ \A i \in 1 .. n : points[i] \in SeekPoints
      /\ points = << >> <=> n = 0
  BY DEF Searchable
<1>2. u \in 1 .. n + 1 /\ \A i \in 1 .. n : i < u <=> points[i].time <= target
  BY <1>1, UpperFacts
<1>3. estimate # None /\ target > 0 =>
        /\ estimate <= SourceSize
        /\ u > 1 => points[u - 1].offset <= estimate
        /\ u <= n => estimate <= points[u].offset
  BY EstimateAround
<1>4. /\ previous = IF u = 1 THEN None ELSE points[u - 1]
      /\ around = IF points = << >> THEN None
                  ELSE IF u = 1 THEN << points[1] >>
                  ELSE IF u > n \/ points[u - 1].time = target THEN << points[u - 1] >>
                  ELSE << points[u - 1], points[u] >>
  BY DEF PreviousSync, SeekPointsFor
<1> HIDE DEF estimate, u, previous, around
<1>5. CASE u = 1
  <2>1. previous = None /\ (around = None \/ around = << points[1] >>)
    BY <1>4, <1>5
  <2>2. around # None => Len(around) = 1
    BY <2>1
  <2> QED
    BY <1>3, <2>1, <2>2 DEF estimate, previous, around
<1>6. CASE u > 1
  <2>1. u - 1 \in 1 .. n /\ points # << >> /\ u # 1 /\ previous = points[u - 1]
        /\ points[u - 1].time <= target
    BY <1>1, <1>2, <1>4, <1>6
  <2>2. CASE u > n \/ points[u - 1].time = target
    <3>1. around = << points[u - 1] >>
      BY <1>4, <2>1, <2>2
    <3>2. Len(around) = 1 /\ around[1] = previous
      BY <2>1, <3>1
    <3> QED
      BY <1>3, <1>6, <2>1, <3>2 DEF estimate, previous, around
  <2>3. CASE ~(u > n \/ points[u - 1].time = target)
    <3>1. around = << points[u - 1], points[u] >>
      BY <1>4, <2>1, <2>3
    <3>2. around[1] = previous /\ around[2] = points[u]
      BY <2>1, <3>1
    <3>3. u \in 1 .. n /\ u <= n /\ ~(points[u].time <= target) /\ points[u].time \in Int
      BY <1>1, <1>2, <2>3, PointFacts
    <3>4. target < points[u].time
      BY <3>3
    <3> QED
      BY <1>3, <1>6, <2>1, <3>2, <3>3, <3>4 DEF estimate, previous, around
  <2> QED
    BY <2>2, <2>3
<1> QED
  BY <1>1, <1>2, <1>5, <1>6


-----------------------------------------------------------------------------
(* The result of a finished scan is that of the index it finalized, for    *)
(* nothing touches the index of a scanner afterwards.                      *)
Reported ==
  /\ scanner = [video |-> scanner.video, failed |-> scanner.failed, result |-> scanner.result]
  /\ scanner.result # None =>
       /\ owner = "scanner"
       /\ scanner.result.failure = "None" => scanner.result = ResultOf(index)

LEMMA StepReports ==
  ASSUME Reported, [Next]_vars
  PROVE  Reported'
<1>1. CASE UNCHANGED vars
  BY <1>1 DEF Reported, vars
<1>2. CASE owner = "caller" /\ UNCHANGED << owner, scanner >>
  BY <1>2 DEF Reported
<1>3. ASSUME scanner.result = None, UNCHANGED owner,
             NEW video, NEW failed, NEW result,
             scanner' = [video |-> video, failed |-> failed, result |-> result],
             owner = "scanner",
             \/ result = None
             \/ result.failure # "None"
             \/ result = ResultOf(index')
      PROVE  Reported'
  BY <1>3 DEF Reported
<1>4. ASSUME NEW track, OnTrack(track) PROVE Reported'
  <2>1. /\ scanner.result = None /\ owner = "scanner" /\ UNCHANGED owner
        /\ scanner' = [video |-> track, failed |-> scanner.failed, result |-> None]
    BY <1>4 DEF OnTrack, Scanning, Reported
  <2> QED
    BY <1>3, <2>1
<1>5. ASSUME NEW unit, OnAccessUnit(unit) PROVE Reported'
  BY <1>5 DEF OnAccessUnit, Scanning, Reported
<1>6. CASE FailSource
  <2>1. /\ scanner.result = None /\ owner = "scanner" /\ UNCHANGED owner
        /\ scanner' = [video |-> scanner.video, failed |-> TRUE, result |-> None]
    BY <1>6 DEF FailSource, Reported
  <2> QED
    BY <1>3, <2>1
<1>7. CASE FinishFailed
  <2>1. /\ scanner.result = None /\ owner = "scanner" /\ UNCHANGED owner
        /\ scanner' = [video |-> scanner.video, failed |-> scanner.failed,
                       result |-> NoResult("SourceError")]
    BY <1>7 DEF FinishFailed, Reported
  <2>2. NoResult("SourceError").failure # "None"
    BY DEF NoResult
  <2> QED
    BY <1>3, <2>1, <2>2
<1>8. CASE FinishEmpty
  <2>1. /\ scanner.result = None /\ owner = "scanner" /\ UNCHANGED owner
        /\ scanner' = [video |-> scanner.video, failed |-> scanner.failed,
                       result |-> NoResult("NoVideo")]
    BY <1>8 DEF FinishEmpty, Scanning, Reported
  <2>2. NoResult("NoVideo").failure # "None"
    BY DEF NoResult
  <2> QED
    BY <1>3, <2>1, <2>2
<1>9. CASE FinishScan
  <2> DEFINE result == ResultOf(index')
  <2>1. /\ scanner.result = None /\ owner = "scanner" /\ UNCHANGED owner
        /\ scanner' = [scanner EXCEPT !.result = result]
    BY <1>9, Zenon DEF FinishScan, Scanning
  <2> HIDE DEF result
  <2>2. scanner' = [video |-> scanner.video, failed |-> scanner.failed, result |-> result]
    BY <2>1 DEF Reported
  <2> QED
    BY <1>3, <2>1, <2>2 DEF result
<1>10. CASE \/ Reset \/ Pause \/ Resume \/ Finalize \/ MarkStale \/ Fail
            \/ \E growing \in BOOLEAN : Begin(growing) \/ ReachReadableEnd(growing)
            \/ \E track \in VideoTracks : SelectVideoTrack(track) \/ SwitchVideoTrack(track)
            \/ SelectVideoTrack(None)
            \/ \E unit \in Units : Observe(unit)
            \/ \E point \in Restored : AddSeekPoint(point)
            \/ \E status \in {"Unknown", "Provisional", "Complete"}, time \in Durations :
                 UpdateDuration(status, time)
  <2>1. owner = "caller" /\ UNCHANGED << owner, scanner >>
    BY <1>10 DEF Reset, Begin, SelectVideoTrack, SwitchVideoTrack, Observe, AddSeekPoint,
       UpdateDuration, Pause, Resume, ReachReadableEnd, Finalize, MarkStale, Fail, Becomes
  <2> QED
    BY <1>2, <2>1
<1> QED
  BY <1>1, <1>4, <1>5, <1>6, <1>7, <1>8, <1>9, <1>10 DEF Next

LEMMA ScanCovers ==
  ASSUME Inv, Reported
  PROVE  ScanSeeks
<1> SUFFICES ASSUME scanner.result # None, scanner.result.failure = "None" PROVE ScanSeeks
  BY DEF ScanSeeks
<1> DEFINE result == scanner.result
<1>1. result = ResultOf(index)
  BY DEF Reported
<1>2. /\ result.first = index.minimum /\ result.last = index.maximum
      /\ result.duration = index.duration /\ result.points = index.points
      /\ index.minimum # None /\ index.maximum # None /\ index.points # << >>
  BY <1>1 DEF ResultOf
<1>3. /\ index \in IndexType /\ heard \in HeardType /\ Sorted(index.points)
      /\ Extent(index, heard)
  BY DEF Inv, Good
<1>4. /\ index.minimum \in Int /\ index.maximum \in Int
      /\ index.duration # None /\ index.duration \in Int
      /\ index.maximum <= index.duration
  BY <1>2, <1>3 DEF IndexType, Optional, Times, Extent, NotNegative
<1>5. \A unit \in heard.units : result.first <= unit.time /\ unit.time <= result.last
                                /\ unit.time <= result.duration
  <2> SUFFICES ASSUME NEW unit \in heard.units
               PROVE  result.first <= unit.time /\ unit.time <= result.last
                      /\ unit.time <= result.duration
    OBVIOUS
  <2>1. unit.time \in Int
    BY <1>3, UnitsAssumption DEF HeardType, Optional, Times
  <2>2. index.minimum <= unit.time /\ unit.time <= index.maximum
    BY <1>3 DEF Extent
  <2> QED
    BY <1>2, <1>4, <2>1, <2>2
<1>6. ASSUME NEW offset \in 0 .. result.last - result.first
      PROVE  /\ SeekFromStart(offset) \in Range(result.points)
             /\ \/ SeekFromStart(offset).time <= result.first + offset
                \/ SeekFromStart(offset) = result.points[1]
  <2> DEFINE target == result.first + offset
             u == UpperBound(index.points, target)
             n == Len(index.points)
  <2>1. target \in Int /\ ~(target > result.last)
    BY <1>2, <1>4
  <2>2. /\ index.points \in Seq(SeekPoints) /\ n \in Nat /\ n >= 1
        /\ DOMAIN index.points = 1 .. n
        /\ \A i \in 1 .. n : index.points[i] \in SeekPoints
    BY <1>2, <1>3 DEF IndexType
  <2> HIDE DEF target
  <2>3. u \in 1 .. n + 1 /\ \A i \in 1 .. n : i < u <=> index.points[i].time <= target
    BY <1>3, <2>1, <2>2, UpperFacts
  <2>4. SeekFromStart(offset) = IF PreviousSync(index, target) = None THEN Head(index.points)
                                ELSE PreviousSync(index, target)
    BY <1>2, <2>1 DEF SeekFromStart, target
  <2>5. PreviousSync(index, target) = IF u = 1 THEN None ELSE index.points[u - 1]
    BY DEF PreviousSync
  <2> HIDE DEF u
  <2>6. CASE SeekFromStart(offset) = index.points[1]
    BY <1>2, <2>2, <2>6 DEF Range
  <2>7. CASE u # 1 /\ SeekFromStart(offset) = index.points[u - 1]
    <3>1. u - 1 \in 1 .. n /\ u - 1 < u
      BY <2>2, <2>3, <2>7
    <3> QED
      BY <1>2, <2>2, <2>3, <2>7, <3>1 DEF Range, target
  <2>8. Head(index.points) = index.points[1]
    BY <2>2
  <2> QED
    BY <2>4, <2>5, <2>6, <2>7, <2>8
<1> QED
  BY <1>2, <1>5, <1>6, Zenon DEF ScanSeeks

(* previousSync, seekPointsFor and estimateOffset agree on every target in *)
(* every index, and every place of a scanned recording can be sought.      *)
THEOREM LookupsHold == Spec => []LookupsAgree
<1>1. Init => Reported
  BY DEF Init, Reported, NewScanner
<1>2. Reported /\ [Next]_vars => Reported'
  BY StepReports
<1>3. Inv => TargetsAgree
  <2> SUFFICES ASSUME Inv PROVE TargetsAgree
    OBVIOUS
  <2>1. Searchable(index)
    BY DEF Inv, Good, IndexType, Searchable
  <2>2. Targets \subseteq Int
    BY LookupsAssumption
  <2> QED
    BY <2>1, <2>2, TargetFound, EstimateGrows DEF TargetsAgree
<1>4. Inv /\ Reported => LookupsAgree
  BY <1>3, ScanCovers DEF LookupsAgree
<1> QED
  BY <1>1, <1>2, <1>4, InvHolds, PTL DEF Spec

-----------------------------------------------------------------------------
(* Induction, for a set: the least number outside it.                      *)
LEMMA SetInduction ==
  ASSUME NEW T, 0 \in T, \A n \in Nat : n \in T => n + 1 \in T
  PROVE  Nat \subseteq T
<1> SUFFICES ASSUME Nat \ T # {} PROVE FALSE
  OBVIOUS
<1>1. PICK x \in Nat \ T : \A y \in Nat \ T : x <= y
  BY Smallest
<1>2. x # 0 /\ x - 1 \in Nat /\ (x - 1) + 1 = x /\ ~ (x <= x - 1)
  BY <1>1
<1>3. x - 1 \in T
  BY <1>1, <1>2
<1> QED
  BY <1>1, <1>2, <1>3

(* A loop of N turns over states in S.                                     *)
IsLoop(f, N, b, step) ==
  /\ f = [n \in 0 .. N |-> IF n = 0 THEN b ELSE step[f[n - 1]]]
  /\ \A n \in 0 .. N : f[n] \in DOMAIN step

(* It has a value.                                                         *)
LEMMA LoopExists ==
  ASSUME NEW S, NEW b \in S, NEW N \in Nat, NEW step \in [S -> S]
  PROVE  \E f : IsLoop(f, N, b, step)
<1> DEFINE Loop(f, m) ==
             /\ f \in [0 .. m -> S]
             /\ f[0] = b
             /\ \A n \in 1 .. m : f[n] = step[f[n - 1]]
           T == {m \in Nat : \E f : Loop(f, m)}
<1>1. 0 \in T
  <2>1. Loop([n \in 0 .. 0 |-> b], 0)
    OBVIOUS
  <2> QED
    BY <2>1
<1>2. ASSUME NEW m \in Nat, m \in T PROVE m + 1 \in T
  <2>1. PICK f : Loop(f, m)
    BY <1>2
  <2> DEFINE g == [n \in 0 .. (m + 1) |-> IF n = m + 1 THEN step[f[m]] ELSE f[n]]
  <2>2. f[m] \in S /\ step[f[m]] \in S
    BY <2>1
  <2>3. g \in [0 .. (m + 1) -> S] /\ g[0] = b
    BY <2>1, <2>2
  <2>4. ASSUME NEW n \in 1 .. (m + 1) PROVE g[n] = step[g[n - 1]]
    <3>1. n - 1 \in 0 .. (m + 1) /\ n - 1 # m + 1 /\ g[n - 1] = f[n - 1]
      OBVIOUS
    <3>2. CASE n = m + 1
      BY <3>1, <3>2
    <3>3. CASE n # m + 1
      BY <2>1, <3>1, <3>3
    <3> QED
      BY <3>2, <3>3
  <2> HIDE DEF g
  <2>5. Loop(g, m + 1)
    BY <2>3, <2>4
  <2> QED
    BY <2>5
<1> HIDE DEF T
<1>3. Nat \subseteq T
  BY <1>1, <1>2, SetInduction
<1>4. PICK f : Loop(f, N)
  <2> HIDE DEF Loop
  <2> QED
    BY <1>3 DEF T
<1>5. f = [n \in 0 .. N |-> f[n]]
  BY <1>4
<1>6. \A n \in 0 .. N : f[n] = IF n = 0 THEN b ELSE step[f[n - 1]]
  BY <1>4
<1>7. f = [n \in 0 .. N |-> IF n = 0 THEN b ELSE step[f[n - 1]]]
  BY <1>5, <1>6
<1>8. \A n \in 0 .. N : f[n] \in DOMAIN step
  BY <1>4
<1> QED
  BY <1>7, <1>8 DEF IsLoop

(* What each turn keeps holds after all of them.                           *)
LEMMA LoopInvariant ==
  ASSUME NEW N \in Nat, NEW f, NEW I, f[0] \in I,
         \A n \in 1 .. N : f[n - 1] \in I => f[n] \in I
  PROVE  \A n \in 0 .. N : f[n] \in I
<1> DEFINE T == {m \in Nat : m <= N => f[m] \in I}
<1>1. 0 \in T
  OBVIOUS
<1>2. ASSUME NEW m \in Nat, m \in T PROVE m + 1 \in T
  <2>1. m + 1 - 1 = m
    OBVIOUS
  <2> QED
    BY <1>2, <2>1
<1> HIDE DEF T
<1>3. Nat \subseteq T
  BY <1>1, <1>2, SetInduction
<1> QED
  BY <1>3 DEF T

-----------------------------------------------------------------------------
(* What a parser is made of.                                               *)
Events == [kind: {"packet", "resync"}, type: Byte, size: Nat, offset: Nat]

Parsers == [buffer: Seq(Byte), offset: Nat, sync: BOOLEAN, out: Seq(Events)]

(* q is p without the first bytes of its buffer.                           *)
Suffix(p, q) ==
  /\ p.offset <= q.offset
  /\ q.offset + Len(q.buffer) = p.offset + Len(p.buffer)
  /\ \A i \in 1 .. Len(q.buffer) : q.buffer[i] = p.buffer[i + (q.offset - p.offset)]

LEMMA SixteenBits ==
  ASSUME NEW x \in Byte, NEW y \in Byte
  PROVE  x * 256 + y \in Nat
<1>1. x \in Nat /\ y \in Nat
  BY DEF Byte
<1> QED
  BY <1>1

LEMMA HeaderFacts ==
  ASSUME NEW b \in Seq(Byte), NEW i \in 1 .. Len(b), i + 3 <= Len(b)
  PROVE  PayloadSize(b, i) \in Nat /\ b[i] \in Byte /\ b[i + 1] \in Byte
<1>1. b[i] \in Byte /\ b[i + 1] \in Byte /\ b[i + 2] \in Byte /\ b[i + 3] \in Byte
  OBVIOUS
<1>2. b[i + 2] * 256 + b[i + 3] \in Nat
  BY <1>1, SixteenBits
<1> QED
  BY <1>1, <1>2 DEF PayloadSize

LEMMA ConsumeFacts ==
  ASSUME NEW p \in Parsers, NEW n \in 0 .. Len(p.buffer)
  PROVE  LET q == Consume(p, n)
         IN  /\ q \in Parsers /\ Suffix(p, q)
             /\ q.offset = p.offset + n /\ q.sync = p.sync /\ q.out = p.out
<1> DEFINE rest == SubSeq(p.buffer, n + 1, Len(p.buffer))
           q == Consume(p, n)
<1>1. p.buffer \in Seq(Byte) /\ p.offset \in Nat /\ n \in Nat /\ Len(p.buffer) \in Nat
  BY DEF Parsers
<1>2. /\ rest \in Seq(Byte) /\ Len(rest) = Len(p.buffer) - n
      /\ \A i \in 1 .. Len(rest) : rest[i] = p.buffer[i + n]
  <2>1. \A i \in n + 1 .. Len(p.buffer) : p.buffer[i] \in Byte
    BY <1>1
  <2>2. /\ rest \in Seq(Byte)
        /\ Len(rest) = IF n + 1 <= Len(p.buffer) THEN Len(p.buffer) - (n + 1) + 1 ELSE 0
        /\ \A i \in 1 .. Len(p.buffer) - (n + 1) + 1 : rest[i] = p.buffer[(n + 1) + i - 1]
    BY <1>1, <2>1, SubSeqProperties
  <2> HIDE DEF rest
  <2> QED
    BY <1>1, <2>2
<1>3. q = [buffer |-> rest, offset |-> p.offset + n, sync |-> p.sync, out |-> p.out]
  <2>1. q = [p EXCEPT !.buffer = rest, !.offset = p.offset + n]
    BY DEF Consume, Parsers
  <2> HIDE DEF rest, q
  <2> QED
    BY <2>1 DEF Parsers
<1> HIDE DEF rest, q
<1>4. /\ q \in Parsers /\ q.buffer = rest /\ q.offset = p.offset + n /\ q.sync = p.sync
      /\ q.out = p.out
  BY <1>1, <1>2, <1>3 DEF Parsers
<1>5. Suffix(p, q)
  <2>1. q.offset - p.offset = n
    BY <1>1, <1>4
  <2>2. \A i \in 1 .. Len(q.buffer) : q.buffer[i] = p.buffer[i + (q.offset - p.offset)]
    BY <1>2, <1>4, <2>1
  <2> QED
    BY <1>1, <1>2, <1>4, <2>2 DEF Suffix
<1> QED
  BY <1>4, <1>5 DEF q

LEMMA Shifted ==
  ASSUME NEW a \in Nat, NEW b \in Nat, NEW l \in Nat, NEW m \in Nat,
         a <= b, b + m = a + l, NEW i \in 1 .. m
  PROVE  i + (b - a) \in 1 .. l /\ a + (i + (b - a)) = b + i
OBVIOUS

LEMMA SuffixFacts ==
  ASSUME NEW p \in Parsers
  PROVE  /\ Suffix(p, p)
         /\ \A q, r \in Parsers : Suffix(p, q) /\ Suffix(q, r) => Suffix(p, r)
<1>1. p.offset \in Nat /\ Len(p.buffer) \in Nat
  BY DEF Parsers
<1>2. Suffix(p, p)
  BY <1>1 DEF Suffix
<1>3. ASSUME NEW q \in Parsers, NEW r \in Parsers, Suffix(p, q), Suffix(q, r)
      PROVE  Suffix(p, r)
  <2>1. q.offset \in Nat /\ Len(q.buffer) \in Nat /\ r.offset \in Nat /\ Len(r.buffer) \in Nat
    BY DEF Parsers
  <2>2. ASSUME NEW i \in 1 .. Len(r.buffer)
        PROVE  r.buffer[i] = p.buffer[i + (r.offset - p.offset)]
    <3>1. r.buffer[i] = q.buffer[i + (r.offset - q.offset)]
      BY <1>3 DEF Suffix
    <3>2. i + (r.offset - q.offset) \in 1 .. Len(q.buffer)
      <4>1. q.offset <= r.offset /\ r.offset + Len(r.buffer) = q.offset + Len(q.buffer)
        BY <1>3 DEF Suffix
      <4> QED
        BY <2>1, <4>1, Shifted
    <3>3. i + (r.offset - q.offset) + (q.offset - p.offset) = i + (r.offset - p.offset)
      BY <1>1, <2>1
    <3> QED
      BY <1>3, <3>1, <3>2, <3>3 DEF Suffix
  <2> QED
    BY <1>1, <1>3, <2>1, <2>2 DEF Suffix
<1> QED
  BY <1>2, <1>3

LEMMA Limits ==
  MaxTlvPayload \in Nat /\ MaxResyncBuffer \in Nat /\ MaxResyncBuffer >= 2 * MaxTlvPayload + 10
<1>1. MaxTlvPayload \in Nat /\ MaxResyncBuffer \in Nat
  BY LimitsAssumption
<1>2. MaxResyncBuffer >= 2 * (4 + MaxTlvPayload) + 2
  BY ResyncAssumption DEF HeaderSize
<1> QED
  BY <1>1, <1>2

LEMMA MinFacts ==
  ASSUME NEW S \in SUBSET Nat, S # {}
  PROVE  Min(S) \in S /\ \A x \in S : Min(S) <= x
<1>1. \E k \in S : \A j \in S : k <= j
  BY Smallest
<1>2. Min(S) \in S /\ \A x \in S : Min(S) =< x
  BY <1>1, Zenon DEF Min
<1> QED
  BY <1>2

(* find_boundary goes to the first boundary, or gives up.                  *)
GivesUp(p, q, end) ==
  /\ ~q.sync
  /\ Boundaries(p.buffer, end) = {}
  /\ IF end THEN Len(q.buffer) = 0
     ELSE IF Len(p.buffer) > MaxResyncBuffer THEN Len(q.buffer) = 3
     ELSE q = p

Settles(p, q, end) ==
  /\ q.sync
  /\ \E i \in Boundaries(p.buffer, end) :
       /\ q.offset = p.offset + i - 1
       /\ \A j \in Boundaries(p.buffer, end) : i <= j

LEMMA FoundFacts ==
  ASSUME NEW p \in Parsers, NEW end \in BOOLEAN
  PROVE  LET q == Found(p, end)
         IN  /\ q \in Parsers /\ Suffix(p, q) /\ q.out = p.out
             /\ p.sync => q = p
             /\ ~p.sync => GivesUp(p, q, end) \/ Settles(p, q, end)
<1> DEFINE q == Found(p, end)
           found == Boundaries(p.buffer, end)
           N == Len(p.buffer)
<1>1. p.buffer \in Seq(Byte) /\ p.offset \in Nat /\ N \in Nat /\ DOMAIN p.buffer = 1 .. N
  BY DEF Parsers
<1>2. CASE p.sync
  <2>1. q = p
    BY <1>2 DEF Found
  <2> QED
    BY <1>2, <2>1, SuffixFacts
<1>3. CASE ~p.sync /\ found # {}
  <2> DEFINE i == Min(found)
             c == Consume(p, i - 1)
  <2>1. i \in found /\ \A j \in found : i <= j
    <3>1. found \in SUBSET Nat
      BY <1>1 DEF Boundaries
    <3> QED
      BY <1>3, <3>1, MinFacts
  <2>2. i \in 1 .. N
    BY <1>1, <2>1 DEF Boundaries
  <2>3. q = [c EXCEPT !.sync = TRUE]
    BY <1>3 DEF Found, Searched
  <2> HIDE DEF i
  <2>4. c \in Parsers /\ Suffix(p, c) /\ c.offset = p.offset + (i - 1) /\ c.out = p.out
    <3>1. i - 1 \in 0 .. Len(p.buffer)
      BY <1>1, <2>2
    <3> QED
      BY <3>1, ConsumeFacts
  <2> HIDE DEF c, q
  <2>5. /\ q \in Parsers /\ q.buffer = c.buffer /\ q.offset = c.offset
        /\ q.out = c.out /\ q.sync = TRUE
    BY <2>3, <2>4 DEF Parsers
  <2>6. Suffix(p, q)
    BY <2>4, <2>5 DEF Suffix
  <2>7. q.offset = p.offset + i - 1
    BY <1>1, <2>2, <2>4, <2>5
  <2>8. Settles(p, q, end)
    BY <2>1, <2>5, <2>7 DEF Settles
  <2> QED
    BY <1>3, <2>4, <2>5, <2>6, <2>8 DEF q
<1>4. CASE ~p.sync /\ found = {} /\ end
  <2>1. q = Consume(p, N)
    BY <1>4 DEF Found, Searched, Drained
  <2>2. q \in Parsers /\ Suffix(p, q) /\ q.offset = p.offset + N /\ q.sync = p.sync /\ q.out = p.out
    <3>1. N \in 0 .. Len(p.buffer)
      BY <1>1
    <3> QED
      BY <2>1, <3>1, ConsumeFacts
  <2> HIDE DEF q
  <2>3. Len(q.buffer) = 0
    BY <1>1, <2>2 DEF Suffix, Parsers
  <2>4. GivesUp(p, q, end)
    BY <1>4, <2>2, <2>3 DEF GivesUp
  <2> QED
    BY <1>4, <2>2, <2>4 DEF q
<1>5. CASE ~p.sync /\ found = {} /\ ~end /\ N > MaxResyncBuffer
  <2>1. N > 3 /\ Min({PartialHeader, N}) = 3
    <3>1. N > 3
      BY <1>1, <1>5, Limits
    <3>2. {PartialHeader, N} = {3, N}
      BY DEF PartialHeader, HeaderSize
    <3> DEFINE S == {3, N}
               m == Min(S)
    <3>3. S \in SUBSET Nat /\ S # {}
      BY <1>1
    <3>4. m \in S /\ \A x \in S : m <= x
      <4> HIDE DEF S
      <4> QED
        BY <3>3, MinFacts
    <3>5. (m = 3 \/ m = N) /\ m <= 3
      BY <3>4
    <3> HIDE DEF m
    <3>6. m = 3
      BY <1>1, <3>1, <3>5
    <3> QED
      BY <3>1, <3>2, <3>6 DEF m
  <2>2. q = Consume(p, N - 3)
    BY <1>5, <2>1 DEF Found, Searched
  <2>3. /\ q \in Parsers /\ Suffix(p, q) /\ q.offset = p.offset + (N - 3)
        /\ q.sync = p.sync /\ q.out = p.out
    <3>1. N - 3 \in 0 .. Len(p.buffer)
      BY <1>1, <2>1
    <3> QED
      BY <2>2, <3>1, ConsumeFacts
  <2> HIDE DEF q
  <2>4. Len(q.buffer) = 3
    <3>1. q.offset + Len(q.buffer) = p.offset + N
      BY <2>3 DEF Suffix
    <3>2. Len(q.buffer) \in Nat
      BY <2>3 DEF Parsers
    <3>3. q.offset = p.offset + (N - 3) /\ p.offset \in Nat /\ N \in Nat
      BY <1>1, <2>3
    <3>4. \A a, b, c, n \in Nat : a + c = b + n /\ a = b + (n - 3) => c = 3
      OBVIOUS
    <3>5. q.offset \in Nat
      BY <2>3 DEF Parsers
    <3> HIDE DEF N
    <3> QED
      BY <3>1, <3>2, <3>3, <3>4, <3>5
  <2>5. GivesUp(p, q, end)
    BY <1>5, <2>3, <2>4 DEF GivesUp
  <2> QED
    BY <1>5, <2>3, <2>5 DEF q
<1>6. CASE ~p.sync /\ found = {} /\ ~end /\ ~(N > MaxResyncBuffer)
  <2>1. q = p
    BY <1>6 DEF Found, Searched
  <2>2. GivesUp(p, q, end)
    BY <1>6, <2>1 DEF GivesUp
  <2> QED
    BY <1>6, <2>1, <2>2, SuffixFacts
<1> QED
  BY <1>2, <1>3, <1>4, <1>5, <1>6

(* A turn of process: the resync, or the packet in front.                  *)
LEMMA TurnFacts ==
  ASSUME NEW p \in Parsers, ~Waits(p)
  PROVE  LET q == Turn(p)
             bad == FirstHeaderBad(p)
             size == PayloadSize(p.buffer, 1)
             event == IF bad THEN ResyncEvent(p.offset)
                      ELSE PacketEvent(p.buffer[2], size, p.offset)
             n == IF bad THEN 1 ELSE 4 + size
         IN  /\ p.sync /\ Len(p.buffer) >= 4 /\ size \in Nat
             /\ p.buffer[1] \in Byte /\ p.buffer[2] \in Byte
             /\ ~bad => p.buffer[1] = SyncByte /\ size <= MaxTlvPayload
             /\ event \in Events
             /\ n \in 1 .. Len(p.buffer)
             /\ q \in Parsers /\ Suffix(p, q) /\ q.offset = p.offset + n
             /\ q.sync = ~bad
             /\ q.out = Append(p.out, event)
<1> DEFINE q == Turn(p)
           bad == FirstHeaderBad(p)
           size == PayloadSize(p.buffer, 1)
           event == IF bad THEN ResyncEvent(p.offset) ELSE PacketEvent(p.buffer[2], size, p.offset)
           n == IF bad THEN 1 ELSE 4 + size
           N == Len(p.buffer)
<1>1. p.buffer \in Seq(Byte) /\ p.offset \in Nat /\ N \in Nat /\ p.out \in Seq(Events)
  BY DEF Parsers
<1>2. p.sync /\ ~(N < 4) /\ (~bad => ~(N < 4 + size))
  BY DEF Waits, HeaderSize, FirstPacketSize
<1>3. size \in Nat /\ p.buffer[1] \in Byte /\ p.buffer[2] \in Byte
  <2>1. 1 \in 1 .. N /\ 1 + 3 <= N
    BY <1>1, <1>2
  <2>2. 1 + 1 = 2
    OBVIOUS
  <2> QED
    BY <1>1, <2>1, <2>2, HeaderFacts
<1>4. ~bad => p.buffer[1] = SyncByte /\ size <= MaxTlvPayload
  <2>1. size > MaxTlvPayload \/ size <= MaxTlvPayload
    BY <1>3, Limits
  <2> QED
    BY <2>1 DEF FirstHeaderBad
<1>5. event \in Events
  <2>1. 0 \in Byte
    BY DEF Byte
  <2>2. ResyncEvent(p.offset) \in Events
    BY <1>1, <2>1 DEF ResyncEvent, Events
  <2>3. PacketEvent(p.buffer[2], size, p.offset) \in Events
    BY <1>1, <1>3 DEF PacketEvent, Events
  <2> QED
    BY <2>2, <2>3
<1>6. n \in 1 .. N /\ n \in 0 .. N
  BY <1>1, <1>2, <1>3
<1> DEFINE p1 == [p EXCEPT !.out = Append(p.out, event)]
<1>7. Append(p.out, event) \in Seq(Events)
  BY <1>1, <1>5, AppendProperties
<1>8. bad \in BOOLEAN
  BY DEF FirstHeaderBad
<1> HIDE DEF event, size, bad
<1>9. p1 \in Parsers /\ p1.buffer = p.buffer /\ p1.offset = p.offset /\ p1.sync = p.sync
      /\ p1.out = Append(p.out, event)
  BY <1>1, <1>7 DEF Parsers
<1>10. q = [Consume(p1, n) EXCEPT !.sync = ~bad]
  <2>1. CASE bad
    <3> DEFINE c == Consume(p, 1)
    <3>1. q = [c EXCEPT !.sync = FALSE, !.out = Append(c.out, ResyncEvent(p.offset))]
      BY <2>1 DEF Turn, bad, LostSync
    <3>2. c \in Parsers /\ c.out = p.out /\ c.offset = p.offset + 1
      BY <1>6, <2>1, ConsumeFacts
    <3>3. Consume(p1, n) = [c EXCEPT !.out = Append(p.out, event)]
      <4>1. n = 1
        BY <2>1
      <4> QED
        BY <1>9, <4>1 DEF Consume, Parsers
    <3>4. event = ResyncEvent(p.offset)
      BY <2>1 DEF event
    <3> HIDE DEF c, p1, q
    <3> QED
      BY <2>1, <3>1, <3>2, <3>3, <3>4 DEF Parsers
  <2>2. CASE ~bad
    <3>1. q = Consume(p1, n)
      BY <2>2 DEF Turn, bad, Emitted, FirstPacketSize, event, size, HeaderSize
    <3>2. Consume(p1, n).sync = TRUE
      <4>1. n \in 0 .. Len(p1.buffer)
        BY <1>6, <1>9
      <4> QED
        BY <1>2, <1>9, <4>1, ConsumeFacts
    <3>3. Consume(p1, n) \in Parsers
      BY <1>6, <1>9, ConsumeFacts
    <3> HIDE DEF p1, q, n
    <3> QED
      BY <2>2, <3>1, <3>2, <3>3 DEF Parsers
  <2> QED
    BY <2>1, <2>2
<1> DEFINE c == Consume(p1, n)
<1> HIDE DEF p1, n
<1>11. c \in Parsers /\ Suffix(p1, c) /\ c.offset = p.offset + n /\ c.out = Append(p.out, event)
  <2>1. n \in 0 .. Len(p1.buffer)
    BY <1>6, <1>9
  <2> QED
    BY <1>9, <2>1, ConsumeFacts
<1> HIDE DEF c, q
<1>12. /\ q \in Parsers /\ q.buffer = c.buffer /\ q.offset = c.offset /\ q.out = c.out
       /\ q.sync = ~bad
  BY <1>8, <1>10, <1>11 DEF Parsers, c
<1>13. Suffix(p, q)
  BY <1>9, <1>11, <1>12 DEF Suffix
<1> QED
  BY <1>1, <1>2, <1>3, <1>4, <1>5, <1>6, <1>11, <1>12, <1>13 DEF q, n, event, size, bad

-----------------------------------------------------------------------------
(* process, one turn after another, until it waits.                        *)
NextTurn(q, end) == IF Waits(q) THEN q ELSE Found(Turn(q), end)

LoopOf(f, p, end) ==
  LET N == Len(p.buffer)
  IN  /\ f[0] = Found(p, end)
      /\ \A n \in 1 .. N : f[n] = NextTurn(f[n - 1], end)
      /\ \A n \in 0 .. N : f[n] \in Parsers
      /\ Process(p, end) = IF end THEN Drained(f[N]) ELSE f[N]

LEMMA TurnConsumes ==
  ASSUME NEW p \in Parsers, ~Waits(p)
  PROVE  LET q == Turn(p)
         IN  q \in Parsers /\ Suffix(p, q) /\ q.offset > p.offset /\ Len(q.buffer) < Len(p.buffer)
<1> DEFINE q == Turn(p)
<1>1. q \in Parsers /\ Suffix(p, q) /\ \E n \in Nat : n >= 1 /\ q.offset = p.offset + n
  BY TurnFacts
<1> HIDE DEF q
<1>2. p.offset \in Nat /\ Len(p.buffer) \in Nat /\ q.offset \in Nat /\ Len(q.buffer) \in Nat
  BY <1>1 DEF Parsers
<1>3. q.offset > p.offset
  BY <1>1, <1>2
<1>4. Len(q.buffer) < Len(p.buffer)
  BY <1>1, <1>2, <1>3 DEF Suffix
<1> QED
  BY <1>1, <1>3, <1>4 DEF q

LEMMA NextTurnFacts ==
  ASSUME NEW p \in Parsers, NEW end \in BOOLEAN
  PROVE  LET q == NextTurn(p, end)
         IN  /\ q \in Parsers /\ Suffix(p, q)
             /\ Waits(p) => q = p
             /\ ~Waits(p) => q = Found(Turn(p), end) /\ Len(q.buffer) < Len(p.buffer)
<1>1. CASE Waits(p)
  BY <1>1, SuffixFacts DEF NextTurn
<1>2. CASE ~Waits(p)
  <2> DEFINE t == Turn(p)
             q == Found(t, end)
  <2>1. t \in Parsers /\ Suffix(p, t) /\ t.offset > p.offset
    BY <1>2, TurnConsumes
  <2>2. NextTurn(p, end) = q
    BY <1>2 DEF NextTurn
  <2> HIDE DEF t
  <2>3. q \in Parsers /\ Suffix(t, q)
    BY <2>1, FoundFacts
  <2> HIDE DEF q
  <2>4. Len(q.buffer) < Len(p.buffer)
    BY <2>1, <2>3 DEF Suffix, Parsers
  <2> QED
    BY <1>2, <2>1, <2>2, <2>3, <2>4, SuffixFacts DEF q, t
<1> QED
  BY <1>1, <1>2

LEMMA ProcessLoop ==
  ASSUME NEW p \in Parsers, NEW end \in BOOLEAN
  PROVE  \E f : LoopOf(f, p, end)
<1> DEFINE N == Len(p.buffer)
           b == Found(p, end)
           step == [q \in Parsers |-> NextTurn(q, end)]
           Loop(f) == f = [n \in 0 .. N |->
                             IF n = 0 THEN b
                             ELSE LET q == f[n - 1]
                                  IN  IF Waits(q) THEN q ELSE Found(Turn(q), end)]
           turns == CHOOSE f : Loop(f)
<1>1. N \in Nat
  BY DEF Parsers
<1>2. Process(p, end) = IF end THEN Drained(turns[N]) ELSE turns[N]
  BY DEF Process
<1>3. b \in Parsers /\ step \in [Parsers -> Parsers]
  BY FoundFacts, NextTurnFacts
<1>4. \A q \in Parsers : step[q] = NextTurn(q, end)
  OBVIOUS
<1> HIDE DEF b, N, step
<1>5. PICK f : IsLoop(f, N, b, step)
  BY <1>1, <1>3, LoopExists
<1>6. \A n \in 0 .. N : f[n] \in Parsers
  BY <1>3, <1>5 DEF IsLoop
<1>7. Loop(f)
  <2>1. ASSUME NEW n \in 0 .. N, n # 0
        PROVE  step[f[n - 1]] = LET q == f[n - 1]
                                IN  IF Waits(q) THEN q ELSE Found(Turn(q), end)
    <3>1. f[n - 1] \in Parsers
      <4>1. n - 1 \in 0 .. N
        BY <1>1, <2>1
      <4> QED
        BY <1>6, <4>1
    <3> QED
      BY <1>4, <3>1 DEF NextTurn
  <2>2. [n \in 0 .. N |-> IF n = 0 THEN b ELSE step[f[n - 1]]]
          = [n \in 0 .. N |-> IF n = 0 THEN b
                              ELSE LET q == f[n - 1]
                                   IN  IF Waits(q) THEN q ELSE Found(Turn(q), end)]
    BY <2>1
  <2> QED
    BY <1>5, <2>2 DEF IsLoop
<1>8. Loop(turns)
  <2> HIDE DEF Loop
  <2> QED
    BY <1>7, Zenon
<1> HIDE DEF turns
<1>9. turns[0] = b /\ \A n \in 1 .. N : turns[n] = NextTurn(turns[n - 1], end)
  <2>1. 0 \in 0 .. N /\ \A n \in 1 .. N : n \in 0 .. N /\ n # 0
    BY <1>1
  <2>2. \A n \in 0 .. N : turns[n] = IF n = 0 THEN b
                                     ELSE LET q == turns[n - 1]
                                          IN  IF Waits(q) THEN q ELSE Found(Turn(q), end)
    BY <1>8
  <2> QED
    BY <2>1, <2>2 DEF NextTurn
<1> HIDE DEF Loop
<1>10. \A n \in 0 .. N : turns[n] \in Parsers
  <2>1. \A n \in 1 .. N : turns[n - 1] \in Parsers => turns[n] \in Parsers
    BY <1>9, NextTurnFacts
  <2> QED
    BY <1>1, <1>3, <1>9, <2>1, LoopInvariant
<1> QED
  BY <1>2, <1>9, <1>10 DEF LoopOf, b, N

(* Every turn consumes a byte.                                             *)
LEMMA LoopWaits ==
  ASSUME NEW p \in Parsers, NEW end \in BOOLEAN, NEW f, LoopOf(f, p, end)
  PROVE  Waits(f[Len(p.buffer)])
<1> DEFINE N == Len(p.buffer)
           Shrunk(m) == Waits(f[m]) \/ Len(f[m].buffer) + m <= N
           T == {m \in Nat : m <= N => Shrunk(m)}
<1>1. N \in Nat
  BY DEF Parsers
<1>2. Shrunk(0)
  <2>1. f[0] \in Parsers /\ Suffix(p, f[0])
    BY FoundFacts DEF LoopOf
  <2>2. Len(f[0].buffer) + 0 <= N
    BY <2>1 DEF Suffix, Parsers
  <2> QED
    BY <2>2
<1>3. ASSUME NEW m \in Nat, m + 1 <= N, Shrunk(m) PROVE Shrunk(m + 1)
  <2>1. m \in 0 .. N /\ m + 1 \in 1 .. N /\ (m + 1) - 1 = m
    BY <1>1, <1>3
  <2>2. f[m] \in Parsers /\ f[m + 1] = NextTurn(f[m], end)
    BY <2>1 DEF LoopOf
  <2>3. CASE Waits(f[m])
    BY <2>2, <2>3, NextTurnFacts
  <2>4. CASE ~Waits(f[m])
    <3>1. Len(f[m].buffer) + m <= N
      BY <1>3, <2>4
    <3>2. f[m + 1] \in Parsers /\ Len(f[m + 1].buffer) < Len(f[m].buffer)
      BY <2>2, <2>4, NextTurnFacts
    <3>3. Len(f[m + 1].buffer) \in Nat /\ Len(f[m].buffer) \in Nat
      BY <2>2, <3>2 DEF Parsers
    <3>4. \A a, b, n \in Nat : a + m <= n /\ b < a => b + (m + 1) <= n
      OBVIOUS
    <3>5. Len(f[m + 1].buffer) + (m + 1) <= N
      BY <1>1, <3>1, <3>2, <3>3, <3>4
    <3> QED
      BY <3>5
  <2> QED
    BY <2>3, <2>4
<1> HIDE DEF Shrunk
<1>4. N \in T
  <2>1. 0 \in T
    BY <1>2
  <2>2. ASSUME NEW m \in Nat, m \in T PROVE m + 1 \in T
    <3>1. m + 1 <= N => m <= N
      BY <1>1
    <3> QED
      BY <1>3, <2>2, <3>1
  <2> HIDE DEF T
  <2> QED
    BY <1>1, <2>1, <2>2, SetInduction
<1>5. Shrunk(N)
  <2>1. N <= N
    BY <1>1
  <2> QED
    BY <1>4, <2>1
<1>6. Len(f[N].buffer) \in Nat
  <2>1. f[N] \in Parsers
    BY <1>1 DEF LoopOf
  <2> QED
    BY <2>1 DEF Parsers
<1>7. Len(f[N].buffer) + N <= N => Len(f[N].buffer) < 4
  <2>1. \A a, n \in Nat : a + n <= n => a < 4
    OBVIOUS
  <2> QED
    BY <1>1, <1>6, <2>1
<1> QED
  BY <1>5, <1>7 DEF Shrunk, Waits, HeaderSize

(* What every turn of process keeps holds of its result.                   *)
LEMMA ProcessInvariant ==
  ASSUME NEW p \in Parsers, NEW end \in BOOLEAN, NEW I, Found(p, end) \in I,
         \A q \in Parsers : q \in I /\ ~Waits(q) => Found(Turn(q), end) \in I
  PROVE  \E q \in Parsers :
           /\ q \in I /\ Waits(q)
           /\ Process(p, end) = IF end THEN Drained(q) ELSE q
<1> DEFINE N == Len(p.buffer)
<1>1. N \in Nat
  BY DEF Parsers
<1>2. PICK f : LoopOf(f, p, end)
  BY ProcessLoop
<1>3. f[0] \in I
  BY <1>2 DEF LoopOf
<1>4. ASSUME NEW n \in 1 .. N, f[n - 1] \in I PROVE f[n] \in I
  <2>1. n - 1 \in 0 .. N
    BY <1>1
  <2>2. f[n - 1] \in Parsers /\ f[n] = NextTurn(f[n - 1], end)
    BY <1>2, <2>1 DEF LoopOf
  <2> QED
    BY <1>4, <2>2, NextTurnFacts
<1>5. f[N] \in I
  <2>1. \A n \in 0 .. N : f[n] \in I
    <3> HIDE DEF N
    <3> QED
      BY <1>1, <1>3, <1>4, LoopInvariant
  <2> QED
    BY <1>1, <2>1
<1>6. Waits(f[N])
  BY <1>2, LoopWaits
<1>7. f[N] \in Parsers /\ Process(p, end) = IF end THEN Drained(f[N]) ELSE f[N]
  BY <1>1, <1>2 DEF LoopOf
<1> QED
  BY <1>5, <1>6, <1>7

(* The recursion that process is: a turn, and then the same again.         *)
LEMMA ProcessUnfolds ==
  ASSUME NEW p \in Parsers
  PROVE  LET q == Found(p, FALSE)
         IN  Process(p, FALSE) = IF Waits(q) THEN q ELSE Process(Turn(q), FALSE)
<1> DEFINE q == Found(p, FALSE)
           r == Turn(q)
           N == Len(p.buffer)
           M == Len(r.buffer)
<1>1. q \in Parsers /\ Suffix(p, q)
  BY FoundFacts
<1>2. CASE Waits(q)
  <2>1. \E s \in Parsers : s \in {q} /\ Waits(s) /\ Process(p, FALSE) = IF FALSE THEN Drained(s) ELSE s
    <3>1. FALSE \in BOOLEAN /\ Found(p, FALSE) \in {q}
      OBVIOUS
    <3>2. \A s \in Parsers : s \in {q} /\ ~Waits(s) => Found(Turn(s), FALSE) \in {q}
      BY <1>2
    <3> HIDE DEF q
    <3> QED
      BY <3>1, <3>2, ProcessInvariant
  <2> QED
    BY <1>2, <2>1
<1>3. CASE ~Waits(q)
  <2>1. r \in Parsers /\ Len(r.buffer) < Len(q.buffer)
    <3> HIDE DEF q
    <3> QED
      BY <1>1, <1>3, TurnConsumes
  <2> HIDE DEF r
  <2>2. N \in Nat /\ M \in Nat /\ M + 1 <= N
    <3> HIDE DEF q
    <3>1. Len(q.buffer) <= N
      BY <1>1 DEF Parsers, Suffix
    <3>2. Len(q.buffer) \in Nat /\ Len(r.buffer) \in Nat /\ N \in Nat
      BY <1>1, <2>1 DEF Parsers
    <3> HIDE DEF N
    <3> QED
      BY <2>1, <3>1, <3>2
  <2>3. PICK f : LoopOf(f, p, FALSE)
    BY ProcessLoop
  <2>4. PICK g : LoopOf(g, r, FALSE)
    BY <2>1, ProcessLoop
  <2>5. Process(p, FALSE) = f[N] /\ Process(r, FALSE) = g[M]
    BY <2>3, <2>4 DEF LoopOf
  <2>6. f[0] = q /\ \A n \in 1 .. N : f[n] = NextTurn(f[n - 1], FALSE)
    BY <2>3 DEF LoopOf
  <2>7. g[0] = Found(r, FALSE) /\ \A n \in 1 .. M : g[n] = NextTurn(g[n - 1], FALSE)
    BY <2>4 DEF LoopOf
  <2>8. Waits(g[M])
    BY <2>1, <2>4, LoopWaits
  <2> HIDE DEF N, M, q
  <2>9. f[M + 1] = g[M]
    <3> DEFINE T == {m \in Nat : m <= M => f[m + 1] = g[m]}
    <3>1. 0 \in T
      <4>1. 1 \in 1 .. N /\ 1 - 1 = 0 /\ 0 + 1 = 1
        BY <2>2
      <4>2. f[1] = NextTurn(q, FALSE)
        BY <2>6, <4>1
      <4>3. NextTurn(q, FALSE) = Found(r, FALSE)
        BY <1>3 DEF NextTurn, r
      <4> QED
        BY <2>7, <4>1, <4>2, <4>3
    <3>2. ASSUME NEW m \in Nat, m \in T PROVE m + 1 \in T
      <4> SUFFICES ASSUME m + 1 <= M PROVE f[(m + 1) + 1] = g[m + 1]
        OBVIOUS
      <4>1. (m + 1) + 1 \in 1 .. N /\ m + 1 \in 1 .. M /\ ((m + 1) + 1) - 1 = m + 1
            /\ (m + 1) - 1 = m /\ m <= M
        BY <2>2
      <4>2. f[m + 1] = g[m]
        BY <3>2, <4>1
      <4>3. f[(m + 1) + 1] = NextTurn(f[m + 1], FALSE)
        BY <2>6, <4>1
      <4>4. g[m + 1] = NextTurn(g[m], FALSE)
        BY <2>7, <4>1
      <4> QED
        BY <4>2, <4>3, <4>4
    <3> HIDE DEF T
    <3>3. M \in T
      BY <2>2, <3>1, <3>2, SetInduction
    <3> QED
      BY <2>2, <3>3 DEF T
  <2>10. f[N] = g[M]
    <3> DEFINE T == {m \in Nat : M + 1 + m <= N => f[M + 1 + m] = g[M]}
    <3>1. 0 \in T
      <4>1. M + 1 + 0 = M + 1
        BY <2>2
      <4> QED
        BY <2>9, <4>1
    <3>2. ASSUME NEW m \in Nat, m \in T PROVE m + 1 \in T
      <4> SUFFICES ASSUME M + 1 + (m + 1) <= N PROVE f[M + 1 + (m + 1)] = g[M]
        OBVIOUS
      <4>1. M + 1 + (m + 1) \in 1 .. N /\ (M + 1 + (m + 1)) - 1 = M + 1 + m /\ M + 1 + m <= N
        BY <2>2
      <4>2. f[M + 1 + m] = g[M]
        BY <3>2, <4>1
      <4>3. f[M + 1 + (m + 1)] = NextTurn(f[M + 1 + m], FALSE)
        BY <2>6, <4>1
      <4> QED
        BY <2>8, <4>2, <4>3 DEF NextTurn
    <3> HIDE DEF T
    <3>3. N - (M + 1) \in Nat /\ M + 1 + (N - (M + 1)) = N
      BY <2>2
    <3>4. N - (M + 1) \in T
      BY <3>1, <3>2, <3>3, SetInduction
    <3>5. M + 1 + (N - (M + 1)) <= N
      BY <2>2
    <3>6. f[M + 1 + (N - (M + 1))] = g[M]
      BY <3>4, <3>5 DEF T
    <3> QED
      BY <3>3, <3>6
  <2> QED
    BY <1>3, <2>5, <2>10 DEF r, q
<1> QED
  BY <1>2, <1>3

-----------------------------------------------------------------------------
(* Bytes that are appended.                                                *)
LEMMA SameBytes ==
  ASSUME NEW s \in Seq(Byte), NEW t \in Seq(Byte), Len(s) = Len(t),
         \A i \in 1 .. Len(s) : s[i] = t[i]
  PROVE  s = t
BY SeqEqual

LEMMA PartFacts ==
  ASSUME NEW data \in Seq(Byte), NEW m \in Nat, NEW n \in m .. Len(data)
  PROVE  LET part == SubSeq(data, m + 1, n)
         IN  /\ part \in Seq(Byte) /\ Len(part) = n - m
             /\ \A i \in 1 .. Len(part) : part[i] = data[m + i]
<1> DEFINE part == SubSeq(data, m + 1, n)
<1>1. Len(data) \in Nat /\ n \in Nat
  OBVIOUS
<1>2. \A i \in m + 1 .. n : data[i] \in Byte
  BY <1>1
<1>3. /\ part \in Seq(Byte)
      /\ Len(part) = IF m + 1 <= n THEN n - (m + 1) + 1 ELSE 0
      /\ \A i \in 1 .. n - (m + 1) + 1 : part[i] = data[(m + 1) + i - 1]
  BY <1>1, <1>2, SubSeqProperties
<1> HIDE DEF part
<1> QED
  BY <1>1, <1>3 DEF part

LEMMA RestFacts ==
  ASSUME NEW data \in Seq(Byte), NEW n \in 0 .. Len(data)
  PROVE  LET rest == Rest(data, n)
         IN  /\ rest \in Seq(Byte) /\ Len(rest) = Len(data) - n
             /\ \A i \in 1 .. Len(rest) : rest[i] = data[n + i]
             /\ rest = << >> <=> n = Len(data)
<1>1. n \in Nat /\ Len(data) \in n .. Len(data) /\ Len(data) \in Nat
  OBVIOUS
<1> DEFINE rest == Rest(data, n)
<1>2. /\ rest \in Seq(Byte) /\ Len(rest) = Len(data) - n
      /\ \A i \in 1 .. Len(rest) : rest[i] = data[n + i]
  BY <1>1, PartFacts DEF Rest
<1> HIDE DEF rest
<1>3. rest = << >> <=> Len(rest) = 0
  BY <1>2, EmptySeq
<1>4. rest = << >> <=> n = Len(data)
  BY <1>1, <1>2, <1>3
<1> QED
  BY <1>2, <1>4 DEF rest

LEMMA RestSplits ==
  ASSUME NEW data \in Seq(Byte), NEW m \in Nat, NEW n \in m .. Len(data)
  PROVE  /\ SubSeq(data, m + 1, n) \o Rest(data, n) = Rest(data, m)
         /\ Rest(data, 0) = data
<1> DEFINE part == SubSeq(data, m + 1, n)
           rest == Rest(data, n)
           all == Rest(data, m)
<1>1. Len(data) \in Nat /\ n \in 0 .. Len(data) /\ m \in 0 .. Len(data) /\ 0 \in 0 .. Len(data)
  OBVIOUS
<1>2. part \in Seq(Byte) /\ Len(part) = n - m /\ \A i \in 1 .. Len(part) : part[i] = data[m + i]
  BY PartFacts
<1>3. /\ rest \in Seq(Byte) /\ Len(rest) = Len(data) - n
      /\ \A i \in 1 .. Len(rest) : rest[i] = data[n + i]
  BY <1>1, RestFacts
<1>4. /\ all \in Seq(Byte) /\ Len(all) = Len(data) - m
      /\ \A i \in 1 .. Len(all) : all[i] = data[m + i]
  BY <1>1, RestFacts
<1> DEFINE whole == Rest(data, 0)
<1>5. /\ whole \in Seq(Byte) /\ Len(whole) = Len(data) - 0
      /\ \A i \in 1 .. Len(whole) : whole[i] = data[0 + i]
  BY <1>1, RestFacts
<1> HIDE DEF part, rest, all, whole
<1>6. /\ part \o rest \in Seq(Byte) /\ Len(part \o rest) = Len(part) + Len(rest)
      /\ \A i \in 1 .. Len(part) + Len(rest) :
           (part \o rest)[i] = IF i <= Len(part) THEN part[i] ELSE rest[i - Len(part)]
  BY <1>2, <1>3, ConcatProperties
<1>7. ASSUME NEW i \in 1 .. Len(all)
      PROVE  (part \o rest)[i] = all[i]
  <2>1. i \in Nat /\ i \in 1 .. Len(part) + Len(rest)
    BY <1>1, <1>2, <1>3, <1>4
  <2>2. CASE i <= Len(part)
    <3>1. i \in 1 .. Len(part)
      BY <1>2, <2>1, <2>2
    <3> QED
      BY <1>2, <1>4, <1>6, <2>1, <2>2, <3>1
  <2>3. CASE ~ (i <= Len(part))
    <3>1. i - Len(part) \in 1 .. Len(rest) /\ n + (i - Len(part)) = m + i
      BY <1>1, <1>2, <1>3, <2>1, <2>3
    <3>2. rest[i - Len(part)] = data[m + i]
      BY <1>3, <3>1
    <3> QED
      BY <1>4, <1>6, <2>1, <2>3, <3>2
  <2> QED
    BY <2>2, <2>3
<1>8. part \o rest = all
  <2>1. Len(part \o rest) = Len(all)
    BY <1>1, <1>2, <1>3, <1>4, <1>6
  <2>2. \A i \in 1 .. Len(part \o rest) : (part \o rest)[i] = all[i]
    BY <1>7, <2>1
  <2> QED
    BY <1>4, <1>6, <2>1, <2>2, SameBytes
<1>9. whole = data
  <2>1. Len(whole) = Len(data) /\ \A i \in 1 .. Len(whole) : whole[i] = data[i]
    BY <1>1, <1>5
  <2> QED
    BY <1>5, <2>1, SameBytes
<1> QED
  BY <1>8, <1>9 DEF part, rest, all, whole

LEMMA JoinedFacts ==
  ASSUME NEW p \in Parsers, NEW data \in Seq(Byte)
  PROVE  LET q == Joined(p, data)
         IN  /\ q \in Parsers
             /\ q.offset = p.offset /\ q.sync = p.sync /\ q.out = p.out
             /\ q.buffer = p.buffer \o data
             /\ Len(q.buffer) = Len(p.buffer) + Len(data)
             /\ \A i \in 1 .. Len(p.buffer) : q.buffer[i] = p.buffer[i]
             /\ \A i \in 1 .. Len(data) : q.buffer[Len(p.buffer) + i] = data[i]
             /\ data = << >> => q = p
<1> DEFINE q == Joined(p, data)
           b == p.buffer \o data
<1>1. p.buffer \in Seq(Byte) /\ Len(p.buffer) \in Nat /\ Len(data) \in Nat
  BY DEF Parsers
<1>2. /\ b \in Seq(Byte) /\ Len(b) = Len(p.buffer) + Len(data)
      /\ \A i \in 1 .. Len(p.buffer) + Len(data) :
           b[i] = IF i <= Len(p.buffer) THEN p.buffer[i] ELSE data[i - Len(p.buffer)]
  BY <1>1, ConcatProperties
<1>3. q = [buffer |-> b, offset |-> p.offset, sync |-> p.sync, out |-> p.out]
  <2>1. q = [p EXCEPT !.buffer = b]
    BY DEF Joined, Parsers
  <2> HIDE DEF q, b
  <2> QED
    BY <2>1 DEF Parsers
<1>4. data = << >> => b = p.buffer
  BY <1>1, ConcatEmptySeq
<1>5. p = [buffer |-> p.buffer, offset |-> p.offset, sync |-> p.sync, out |-> p.out]
  BY DEF Parsers
<1> HIDE DEF b, q
<1>6. /\ q \in Parsers /\ q.buffer = b /\ q.offset = p.offset /\ q.sync = p.sync /\ q.out = p.out
  BY <1>2, <1>3 DEF Parsers
<1>7. ASSUME NEW i \in 1 .. Len(p.buffer) PROVE b[i] = p.buffer[i]
  <2>1. i \in 1 .. Len(p.buffer) + Len(data) /\ i <= Len(p.buffer)
    BY <1>1
  <2> QED
    BY <1>2, <2>1
<1>8. ASSUME NEW i \in 1 .. Len(data) PROVE b[Len(p.buffer) + i] = data[i]
  <2>1. /\ Len(p.buffer) + i \in 1 .. Len(p.buffer) + Len(data)
        /\ ~ (Len(p.buffer) + i <= Len(p.buffer))
        /\ (Len(p.buffer) + i) - Len(p.buffer) = i
    BY <1>1
  <2> QED
    BY <1>2, <2>1
<1>9. data = << >> => q = p
  BY <1>3, <1>4, <1>5
<1> QED
  BY <1>2, <1>6, <1>7, <1>8, <1>9 DEF b, q

LEMMA BytesAssociate ==
  ASSUME NEW s \in Seq(Byte), NEW t \in Seq(Byte), NEW u \in Seq(Byte)
  PROVE  (s \o t) \o u = s \o (t \o u)
BY ConcatAssociative

LEMMA JoinedTwice ==
  ASSUME NEW p \in Parsers, NEW a \in Seq(Byte), NEW b \in Seq(Byte)
  PROVE  Joined(Joined(p, a), b) = Joined(p, a \o b)
<1>1. p.buffer \in Seq(Byte)
  BY DEF Parsers
<1>2. (p.buffer \o a) \o b = p.buffer \o (a \o b)
  BY <1>1, BytesAssociate
<1>3. Joined(Joined(p, a), b) = [p EXCEPT !.buffer = (p.buffer \o a) \o b]
  BY DEF Joined, Parsers
<1>4. Joined(p, a \o b) = [p EXCEPT !.buffer = p.buffer \o (a \o b)]
  BY DEF Joined
<1> QED
  BY <1>2, <1>3, <1>4

(* Two parsers with the same fields are the same.                          *)
LEMMA SameParser ==
  ASSUME NEW p \in Parsers, NEW q \in Parsers, p.buffer = q.buffer, p.offset = q.offset,
         p.sync = q.sync, p.out = q.out
  PROVE  p = q
BY DEF Parsers

(* What follows the packet in front waits until it is its turn.            *)
LEMMA TurnJoined ==
  ASSUME NEW p \in Parsers, ~Waits(p), NEW data \in Seq(Byte)
  PROVE  LET q == Joined(p, data)
         IN  /\ ~Waits(q)
             /\ Turn(q) = Joined(Turn(p), data)
<1> DEFINE q == Joined(p, data)
           n == Len(p.buffer)
           size == PayloadSize(p.buffer, 1)
<1>1. /\ q \in Parsers /\ q.offset = p.offset /\ q.sync = p.sync /\ q.out = p.out
      /\ Len(q.buffer) = n + Len(data)
      /\ \A i \in 1 .. n : q.buffer[i] = p.buffer[i]
      /\ \A i \in 1 .. Len(data) : q.buffer[n + i] = data[i]
  BY JoinedFacts
<1>2. n \in Nat /\ Len(data) \in Nat
  BY DEF Parsers
<1>3. p.sync /\ n >= 4 /\ size \in Nat
  BY TurnFacts
<1> HIDE DEF q
<1>4. /\ q.buffer[1] = p.buffer[1] /\ q.buffer[2] = p.buffer[2]
      /\ PayloadSize(q.buffer, 1) = size
  <2>1. 1 \in 1 .. n /\ 2 \in 1 .. n /\ 1 + 2 \in 1 .. n /\ 1 + 3 \in 1 .. n
    BY <1>2, <1>3
  <2> QED
    BY <1>1, <2>1 DEF PayloadSize
<1>5. FirstHeaderBad(q) = FirstHeaderBad(p)
  BY <1>4 DEF FirstHeaderBad
<1>6. ~Waits(q)
  <2>1. ~ (n < 4) /\ (~FirstHeaderBad(p) => ~ (n < 4 + size))
    BY DEF Waits, HeaderSize, FirstPacketSize
  <2>2. ~ (n + Len(data) < 4) /\ (~ (n < 4 + size) => ~ (n + Len(data) < 4 + size))
    BY <1>2, <1>3
  <2> QED
    BY <1>1, <1>3, <1>4, <1>5, <2>1, <2>2 DEF Waits, HeaderSize, FirstPacketSize
<1> DEFINE u == Turn(p)
           v == Turn(q)
           w == Joined(u, data)
           bad == FirstHeaderBad(p)
           k == IF bad THEN 1 ELSE 4 + size
<1>7. /\ u \in Parsers /\ Suffix(p, u) /\ u.offset = p.offset + k /\ u.sync = ~bad
      /\ k \in 1 .. n
      /\ u.out = Append(p.out, IF bad THEN ResyncEvent(p.offset)
                               ELSE PacketEvent(p.buffer[2], size, p.offset))
  BY TurnFacts
<1>8. /\ v \in Parsers /\ Suffix(q, v) /\ v.offset = q.offset + k /\ v.sync = ~bad
      /\ v.out = Append(q.out, IF bad THEN ResyncEvent(q.offset)
                               ELSE PacketEvent(q.buffer[2], size, q.offset))
  <2>1. /\ v \in Parsers /\ Suffix(q, v)
        /\ v.offset = q.offset + (IF FirstHeaderBad(q) THEN 1 ELSE 4 + PayloadSize(q.buffer, 1))
        /\ v.sync = ~FirstHeaderBad(q)
        /\ v.out = Append(q.out, IF FirstHeaderBad(q) THEN ResyncEvent(q.offset)
                                 ELSE PacketEvent(q.buffer[2], PayloadSize(q.buffer, 1), q.offset))
    BY <1>1, <1>6, TurnFacts
  <2> QED
    BY <1>4, <1>5, <2>1
<1> HIDE DEF u, v, bad, k
<1>9. /\ w \in Parsers /\ w.offset = u.offset /\ w.sync = u.sync /\ w.out = u.out
      /\ Len(w.buffer) = Len(u.buffer) + Len(data)
      /\ \A i \in 1 .. Len(u.buffer) : w.buffer[i] = u.buffer[i]
      /\ \A i \in 1 .. Len(data) : w.buffer[Len(u.buffer) + i] = data[i]
  BY <1>7, JoinedFacts
<1> HIDE DEF w, n, size
<1>10. p.offset \in Nat /\ Len(u.buffer) \in Nat /\ Len(v.buffer) \in Nat /\ k \in Nat
  <2> HIDE DEF q
  <2>1. p.offset \in Nat
    BY DEF Parsers
  <2>2. Len(u.buffer) \in Nat
    BY <1>7 DEF Parsers
  <2>3. Len(v.buffer) \in Nat
    BY <1>8 DEF Parsers
  <2>4. k \in 1 .. n
    BY <1>7
  <2> HIDE DEF n
  <2>5. k \in Nat
    BY <2>4, <1>2
  <2> QED
    BY <2>1, <2>2, <2>3, <2>5
<1> DEFINE Less(a, b, x, m, j) == a + x = b + m /\ a = b + j => x = m - j /\ a - b = j
<1> HIDE DEF Less
<1>a. \A a, b, x, m, j \in Nat : Less(a, b, x, m, j)
  BY DEF Less
<1>11. Len(u.buffer) = n - k /\ \A i \in 1 .. Len(u.buffer) : u.buffer[i] = p.buffer[i + k]
  <2>1. u.offset \in Nat
    BY <1>7 DEF Parsers
  <2>2. u.offset + Len(u.buffer) = p.offset + n
    BY <1>7 DEF Suffix, n
  <2>4. Less(u.offset, p.offset, Len(u.buffer), n, k)
    BY <1>2, <1>10, <1>a, <2>1
  <2>5. Len(u.buffer) = n - k /\ u.offset - p.offset = k
    BY <1>7, <2>2, <2>4 DEF Less
  <2>3. \A i \in 1 .. Len(u.buffer) : u.buffer[i] = p.buffer[i + (u.offset - p.offset)]
    BY <1>7 DEF Suffix
  <2> QED
    BY <2>3, <2>5
<1>12. /\ Len(v.buffer) = (n + Len(data)) - k
       /\ \A i \in 1 .. Len(v.buffer) : v.buffer[i] = q.buffer[i + k]
  <2> DEFINE N == n + Len(data)
  <2>1. v.offset \in Nat /\ N \in Nat
    BY <1>2, <1>8 DEF Parsers
  <2>2. v.offset + Len(v.buffer) = q.offset + N
    BY <1>1, <1>8 DEF Suffix
  <2> HIDE DEF N
  <2>4. Less(v.offset, p.offset, Len(v.buffer), N, k)
    BY <1>10, <1>a, <2>1
  <2>6. v.offset + Len(v.buffer) = p.offset + N /\ v.offset = p.offset + k
    BY <1>1, <1>8, <2>2
  <2>7. Len(v.buffer) = N - k /\ v.offset - p.offset = k
    BY <2>4, <2>6 DEF Less
  <2>5. Len(v.buffer) = (n + Len(data)) - k /\ v.offset - q.offset = k
    BY <1>1, <2>7 DEF N
  <2>3. \A i \in 1 .. Len(v.buffer) : v.buffer[i] = q.buffer[i + (v.offset - q.offset)]
    BY <1>8 DEF Suffix
  <2> QED
    BY <2>3, <2>5
<1>13. v.buffer = w.buffer
  <2>1. Len(v.buffer) = Len(w.buffer)
    BY <1>2, <1>9, <1>10, <1>11, <1>12
  <2>2. ASSUME NEW i \in 1 .. Len(v.buffer) PROVE v.buffer[i] = w.buffer[i]
    <3>1. i \in Nat /\ v.buffer[i] = q.buffer[i + k]
      BY <1>12
    <3>2. CASE i <= n - k
      <4>1. i \in 1 .. Len(u.buffer) /\ i + k \in 1 .. n
        BY <1>2, <1>10, <1>11, <3>1, <3>2
      <4> QED
        BY <1>1, <1>9, <1>11, <3>1, <4>1
    <3>3. CASE ~ (i <= n - k)
      <4> DEFINE j == i - (n - k)
      <4>1. j \in 1 .. Len(data) /\ n + j = i + k /\ Len(u.buffer) + j = i
        BY <1>2, <1>7, <1>10, <1>11, <1>12, <3>1, <3>3
      <4> HIDE DEF j
      <4> QED
        BY <1>1, <1>9, <3>1, <4>1
    <3> QED
      BY <3>2, <3>3
  <2>3. v.buffer \in Seq(Byte) /\ w.buffer \in Seq(Byte)
    BY <1>8, <1>9 DEF Parsers
  <2> QED
    BY <2>1, <2>2, <2>3, SameBytes
<1>14. v = w
  <2>1. v.offset = w.offset /\ v.sync = w.sync /\ v.out = w.out
    BY <1>1, <1>4, <1>7, <1>8, <1>9
  <2> QED
    BY <1>8, <1>9, <1>13, <2>1, SameParser
<1> QED
  BY <1>6, <1>14 DEF q, u, v, w

-----------------------------------------------------------------------------
(* When process is done.                                                   *)
LEMMA ResultWaits ==
  ASSUME NEW p \in Parsers
  PROVE  Process(p, FALSE) \in Parsers /\ Waits(Process(p, FALSE))
<1>1. \E q \in Parsers :
        q \in Parsers /\ Waits(q) /\ Process(p, FALSE) = IF FALSE THEN Drained(q) ELSE q
  <2>1. FALSE \in BOOLEAN /\ Found(p, FALSE) \in Parsers
    BY FoundFacts
  <2>2. \A q \in Parsers : q \in Parsers /\ ~Waits(q) => Found(Turn(q), FALSE) \in Parsers
    BY TurnFacts, FoundFacts
  <2> QED
    BY <2>1, <2>2, ProcessInvariant
<1> QED
  BY <1>1

LEMMA WaitingStays ==
  ASSUME NEW p \in Parsers, p.sync, Waits(p)
  PROVE  Process(p, FALSE) = p
<1>1. Found(p, FALSE) = p
  BY DEF Found
<1> QED
  BY <1>1, ProcessUnfolds

LEMMA RunningTurns ==
  ASSUME NEW p \in Parsers, ~Waits(p)
  PROVE  Process(p, FALSE) = Process(Turn(p), FALSE)
<1>1. p.sync
  BY DEF Waits
<1>2. Found(p, FALSE) = p
  BY <1>1 DEF Found
<1> QED
  BY <1>2, ProcessUnfolds

AtRest(p) == Process(p, FALSE) = p

LEMMA Shortened ==
  ASSUME NEW p, NEW q, NEW n \in Nat, q.offset + Len(q.buffer) = p.offset + Len(p.buffer),
         q.offset = p.offset + n, p.offset \in Nat, Len(p.buffer) \in Nat, Len(q.buffer) \in Nat
  PROVE  Len(q.buffer) = Len(p.buffer) - n
<1> DEFINE a == p.offset
           l == Len(p.buffer)
           m == Len(q.buffer)
<1>1. a \in Nat /\ l \in Nat /\ m \in Nat /\ (a + n) + m = a + l
  OBVIOUS
<1> HIDE DEF a, l, m
<1>2. m = l - n
  BY <1>1
<1> QED
  BY <1>2 DEF l, m

LEMMA SuffixLength ==
  ASSUME NEW p \in Parsers, NEW q \in Parsers, Suffix(p, q), NEW n \in Nat,
         q.offset = p.offset + n
  PROVE  Len(q.buffer) = Len(p.buffer) - n
<1>1. q.offset + Len(q.buffer) = p.offset + Len(p.buffer)
  BY DEF Suffix
<1>2. p.offset \in Nat /\ Len(p.buffer) \in Nat /\ Len(q.buffer) \in Nat
  BY DEF Parsers
<1> QED
  BY <1>1, <1>2, Shortened

(* With one header or one packet in the buffer, one turn is all there is.  *)
LEMMA TurnSettles ==
  ASSUME NEW p \in Parsers, ~Waits(p),
         Len(p.buffer) = IF FirstHeaderBad(p) THEN 4 ELSE FirstPacketSize(p)
  PROVE  Turn(p) \in Parsers /\ AtRest(Turn(p))
<1> DEFINE q == Turn(p)
           bad == FirstHeaderBad(p)
           k == IF bad THEN 1 ELSE 4 + PayloadSize(p.buffer, 1)
<1>1. /\ q \in Parsers /\ Suffix(p, q) /\ q.offset = p.offset + k /\ q.sync = ~bad /\ k \in Nat
  BY TurnFacts
<1>2. Len(p.buffer) = IF bad THEN 4 ELSE k
  BY DEF FirstPacketSize, HeaderSize
<1> HIDE DEF q, k, bad
<1>3. Len(q.buffer) = Len(p.buffer) - k
  BY <1>1, SuffixLength
<1>4. CASE bad
  <2>0. k = 1 /\ Len(p.buffer) = 4 /\ ~q.sync
    BY <1>1, <1>2, <1>4 DEF k
  <2> DEFINE n == Len(q.buffer)
  <2>1. n = 3 /\ ~q.sync
    <3>1. n = 4 - 1
      BY <1>3, <2>0
    <3> QED
      BY <2>0, <3>1
  <2> DEFINE r == Found(q, FALSE)
  <2>2. ~Settles(q, r, FALSE)
    <3>1. Boundaries(q.buffer, FALSE) = {}
      <4>1. DOMAIN q.buffer = 1 .. 3
        BY <1>1, <2>1 DEF Parsers
      <4>2. \A i \in 1 .. 3 : ~ (i + 3 <= 3)
        OBVIOUS
      <4> QED
        BY <2>1, <4>1, <4>2 DEF Boundaries, Plausible
    <3> QED
      BY <3>1 DEF Settles
  <2>3. r = q
    <3>1. GivesUp(q, r, FALSE)
      BY <1>1, <2>1, <2>2, FoundFacts
    <3>2. ~ (Len(q.buffer) > MaxResyncBuffer)
      BY <2>1, Limits
    <3> QED
      BY <3>1, <3>2 DEF GivesUp
  <2>4. Waits(q)
    BY <2>1 DEF Waits
  <2> QED
    BY <1>1, <2>3, <2>4, ProcessUnfolds DEF AtRest, q
<1>5. CASE ~bad
  <2>0. Len(p.buffer) = k /\ k \in Nat /\ q.sync
    BY <1>1, <1>2, <1>5
  <2>1. Len(q.buffer) = 0 /\ q.sync
    BY <1>3, <2>0
  <2>2. Waits(q)
    BY <2>1 DEF Waits, HeaderSize
  <2> QED
    BY <1>1, <2>1, <2>2, WaitingStays DEF AtRest, q
<1> QED
  BY <1>4, <1>5

(* Processing twice is then the same as processing everything at once.     *)
LEMMA OneTurn ==
  ASSUME NEW p \in Parsers, p.sync, NEW data \in Seq(Byte),
         ~Waits(p) => Len(p.buffer) = IF FirstHeaderBad(p) THEN 4 ELSE FirstPacketSize(p)
  PROVE  LET q == Process(p, FALSE)
         IN  q \in Parsers /\ AtRest(q)
             /\ Process(Joined(q, data), FALSE) = Process(Joined(p, data), FALSE)
<1>1. CASE Waits(p)
  <2>1. Process(p, FALSE) = p
    BY <1>1, WaitingStays
  <2> QED
    BY <2>1 DEF AtRest
<1>2. CASE ~Waits(p)
  <2> DEFINE t == Turn(p)
  <2>1. t \in Parsers /\ AtRest(t)
    BY <1>2, TurnSettles
  <2>2. Process(p, FALSE) = t
    BY <1>2, <2>1, RunningTurns DEF AtRest
  <2>3. ~Waits(Joined(p, data)) /\ Turn(Joined(p, data)) = Joined(t, data)
    BY <1>2, TurnJoined
  <2>4. Process(Joined(p, data), FALSE) = Process(Joined(t, data), FALSE)
    <3>1. Joined(p, data) \in Parsers
      BY JoinedFacts
    <3> HIDE DEF t
    <3> QED
      BY <2>3, <3>1, RunningTurns
  <2> HIDE DEF t
  <2> QED
    BY <2>1, <2>2, <2>4
<1> QED
  BY <1>1, <1>2

-----------------------------------------------------------------------------
(* The states of the loops of push.                                        *)
Turneds(data) == [parser: Parsers, done: 0 .. Len(data)]

(* What is left of the input, joined to a parser.                          *)
Ahead(p, t, data) == Process(Joined(p, Rest(data, t.done)), FALSE)

LEMMA RequiredFacts ==
  ASSUME NEW b \in Seq(Byte)
  PROVE  /\ Required(b) \in Nat
         /\ Len(b) < 4 => Required(b) = 4 - Len(b)
         /\ Len(b) >= 4 => PayloadSize(b, 1) \in Nat
         /\ Len(b) >= 4 /\ Len(b) < 4 + PayloadSize(b, 1)
              => Required(b) = (4 + PayloadSize(b, 1)) - Len(b)
<1>1. Len(b) \in Nat
  OBVIOUS
<1>2. Len(b) >= 4 => PayloadSize(b, 1) \in Nat
  <2> SUFFICES ASSUME Len(b) >= 4 PROVE PayloadSize(b, 1) \in Nat
    OBVIOUS
  <2>1. 1 \in 1 .. Len(b) /\ 1 + 3 <= Len(b)
    BY <1>1
  <2> QED
    BY <2>1, HeaderFacts
<1>3. CASE Len(b) < 4
  BY <1>1, <1>3 DEF Required, HeaderSize
<1>4. CASE ~ (Len(b) < 4)
  BY <1>1, <1>2, <1>4 DEF Required, HeaderSize
<1> QED
  BY <1>2, <1>3, <1>4

LEMMA CopiedTyped ==
  ASSUME NEW data \in Seq(Byte), NEW t \in Turneds(data), Completes(t, data)
  PROVE  Copied(t, data) \in Turneds(data)
<1> DEFINE p == t.parser
           need == Required(p.buffer)
           part == SubSeq(data, t.done + 1, t.done + need)
<1>1. p \in Parsers /\ t.done \in 0 .. Len(data) /\ Len(data) \in Nat
  BY DEF Turneds
<1>2. need \in Nat
  <2>1. p.buffer \in Seq(Byte)
    BY <1>1 DEF Parsers
  <2> QED
    BY <2>1, RequiredFacts
<1> HIDE DEF p, need
<1>3. CASE Len(data) - t.done < need
  <2> DEFINE q == Joined(p, Rest(data, t.done))
  <2>1. Copied(t, data) = [parser |-> q, done |-> Len(data)]
    BY <1>3 DEF Copied, Turned, p, need
  <2>2. q \in Parsers
    BY <1>1, RestFacts, JoinedFacts
  <2> HIDE DEF q
  <2> QED
    BY <1>1, <2>1, <2>2 DEF Turneds
<1>4. CASE ~ (Len(data) - t.done < need)
  <2> DEFINE q == Buffered(p, part)
             m == t.done + need
  <2>1. Copied(t, data) = [parser |-> q, done |-> m]
    BY <1>4 DEF Copied, Turned, p, need
  <2>2. t.done \in Nat /\ m \in t.done .. Len(data) /\ m \in 0 .. Len(data)
    BY <1>1, <1>2, <1>4
  <2>3. part \in Seq(Byte)
    <3> HIDE DEF m
    <3> QED
      BY <2>2, PartFacts DEF m
  <2> HIDE DEF part, m
  <2>4. q \in Parsers
    BY <1>1, <2>3, JoinedFacts, ResultWaits DEF Buffered
  <2> HIDE DEF q
  <2> QED
    BY <2>1, <2>2, <2>4 DEF Turneds
<1> QED
  BY <1>3, <1>4

(* Joining what the packet lacks gives exactly a header or a packet.       *)
LEMMA Lacking ==
  ASSUME NEW p \in Parsers, p.sync, Waits(p), p.buffer # << >>, ~BadHeader(p.buffer),
         NEW data \in Seq(Byte), Len(data) <= Required(p.buffer)
  PROVE  LET q == Joined(p, data)
         IN  /\ Len(data) < Required(p.buffer) => Waits(q)
             /\ ~Waits(q) => Len(q.buffer) = IF FirstHeaderBad(q) THEN 4 ELSE FirstPacketSize(q)
<1> DEFINE q == Joined(p, data)
           n == Len(p.buffer)
           need == Required(p.buffer)
<1>1. /\ q \in Parsers /\ q.sync /\ Len(q.buffer) = n + Len(data)
      /\ \A i \in 1 .. n : q.buffer[i] = p.buffer[i]
  BY JoinedFacts
<1>2. p.buffer \in Seq(Byte) /\ n \in Nat /\ Len(data) \in Nat
  BY DEF Parsers
<1>3. /\ need \in Nat
      /\ n < 4 => need = 4 - n
      /\ n >= 4 => PayloadSize(p.buffer, 1) \in Nat
      /\ n >= 4 /\ n < 4 + PayloadSize(p.buffer, 1) => need = (4 + PayloadSize(p.buffer, 1)) - n
  BY <1>2, RequiredFacts
<1>a. Len(data) <= need
  OBVIOUS
<1> HIDE DEF q, n, need
<1>4. CASE n < 4
  <2>1. Len(data) < need => Waits(q)
    <3>1. Len(data) < need => Len(q.buffer) < 4
      BY <1>1, <1>2, <1>3, <1>4
    <3> QED
      BY <3>1 DEF Waits, HeaderSize
  <2>2. ASSUME ~Waits(q)
        PROVE  Len(q.buffer) = IF FirstHeaderBad(q) THEN 4 ELSE FirstPacketSize(q)
    <3>1. Len(q.buffer) <= 4
      BY <1>1, <1>2, <1>3, <1>4, <1>a
    <3> DEFINE size == PayloadSize(q.buffer, 1)
    <3>2. Len(q.buffer) >= 4 /\ size \in Nat
      BY <1>1, <2>2, TurnFacts
    <3>3. ~FirstHeaderBad(q) => ~ (Len(q.buffer) < 4 + size)
      BY <2>2 DEF Waits, FirstPacketSize, HeaderSize
    <3>4. Len(q.buffer) \in Nat
      BY <1>1 DEF Parsers
    <3> HIDE DEF size
    <3> DEFINE l == Len(q.buffer)
    <3>5. l \in Nat /\ l <= 4 /\ l >= 4 /\ size \in Nat
      BY <3>1, <3>2, <3>4
    <3> HIDE DEF l
    <3>6. l = 4 /\ (~ (l < 4 + size) => l = 4 + size)
      BY <3>5
    <3> QED
      BY <3>3, <3>6 DEF FirstPacketSize, HeaderSize, size, l
  <2> QED
    BY <2>1, <2>2 DEF q, need
<1>5. CASE ~ (n < 4)
  <2> DEFINE size == PayloadSize(p.buffer, 1)
  <2>1. n >= 4 /\ size \in Nat
    BY <1>2, <1>3, <1>5
  <2>2. Plausible(p.buffer, 1) /\ ~ (size > MaxTlvPayload)
    BY <2>1 DEF BadHeader, HeaderSize, n
  <2>3. ~FirstHeaderBad(p)
    BY <2>2 DEF FirstHeaderBad, Plausible
  <2>4. n < 4 + size
    BY <1>5, <2>3 DEF Waits, HeaderSize, FirstPacketSize, n
  <2>5. need = (4 + size) - n
    BY <1>3, <2>1, <2>4
  <2>6. q.buffer[1] = p.buffer[1] /\ PayloadSize(q.buffer, 1) = size
    <3>1. 1 \in 1 .. n /\ 1 + 2 \in 1 .. n /\ 1 + 3 \in 1 .. n
      BY <1>2, <2>1
    <3> QED
      BY <1>1, <3>1 DEF PayloadSize
  <2>7. ~FirstHeaderBad(q) /\ FirstPacketSize(q) = 4 + size
    BY <2>3, <2>6 DEF FirstHeaderBad, FirstPacketSize, HeaderSize
  <2> HIDE DEF size
  <2>8. /\ Len(q.buffer) <= 4 + size
        /\ Len(data) < need => Len(q.buffer) < 4 + size
    BY <1>1, <1>2, <1>a, <2>1, <2>5
  <2>9. Len(data) < need => Waits(q)
    BY <2>7, <2>8 DEF Waits
  <2>10. ~Waits(q) => Len(q.buffer) = FirstPacketSize(q)
    <3>1. ~Waits(q) => ~ (Len(q.buffer) < 4 + size)
      BY <2>7 DEF Waits
    <3>2. Len(q.buffer) \in Nat
      BY <1>1 DEF Parsers
    <3> QED
      BY <2>1, <2>7, <2>8, <3>1, <3>2
  <2> QED
    BY <2>7, <2>9, <2>10 DEF q, need
<1> QED
  BY <1>4, <1>5

LEMMA CopiedKeeps ==
  ASSUME NEW data \in Seq(Byte), NEW t \in Turneds(data), Completes(t, data), AtRest(t.parser)
  PROVE  LET u == Copied(t, data)
         IN  AtRest(u.parser) /\ Ahead(u.parser, u, data) = Ahead(t.parser, t, data)
<1> DEFINE p == t.parser
           need == Required(p.buffer)
           rest == Rest(data, t.done)
<1>1. p \in Parsers /\ t.done \in 0 .. Len(data) /\ Len(data) \in Nat /\ t.done \in Nat
  BY DEF Turneds
<1>2. p.sync /\ Waits(p) /\ p.buffer # << >> /\ ~BadHeader(p.buffer)
  BY <1>1, ResultWaits DEF Completes, AtRest
<1>3. need \in Nat
  <2>1. p.buffer \in Seq(Byte)
    BY <1>1 DEF Parsers
  <2> QED
    BY <2>1, RequiredFacts
<1>4. rest \in Seq(Byte) /\ Len(rest) = Len(data) - t.done
  BY <1>1, RestFacts
<1>5. CASE Len(data) - t.done < need
  <2> DEFINE q == Joined(p, rest)
             u == Copied(t, data)
  <2>1. u = [parser |-> q, done |-> Len(data)]
    BY <1>5 DEF Copied, Turned
  <2>2. q \in Parsers /\ q.sync = p.sync
    BY <1>1, <1>4, JoinedFacts
  <2>3. Waits(q)
    <3>1. Len(rest) < need /\ Len(rest) <= need
      BY <1>1, <1>3, <1>4, <1>5
    <3> HIDE DEF rest
    <3> QED
      BY <1>1, <1>2, <1>4, <3>1, Lacking
  <2> HIDE DEF q, u
  <2>4. AtRest(q)
    BY <1>2, <2>2, <2>3, WaitingStays DEF AtRest
  <2>5. Joined(q, Rest(data, Len(data))) = q
    <3>1. Rest(data, Len(data)) = << >> /\ Rest(data, Len(data)) \in Seq(Byte)
      BY <1>1, RestFacts
    <3> QED
      BY <2>2, <3>1, JoinedFacts
  <2>6. Ahead(u.parser, u, data) = q
    BY <2>1, <2>4, <2>5 DEF Ahead, AtRest
  <2>7. Ahead(t.parser, t, data) = q
    BY <2>4 DEF Ahead, AtRest, q
  <2> QED
    BY <2>1, <2>4, <2>6, <2>7 DEF u
<1>6. CASE ~ (Len(data) - t.done < need)
  <2> DEFINE m == t.done + need
             part == SubSeq(data, t.done + 1, m)
             x == Joined(p, part)
             u == Copied(t, data)
             after == Rest(data, m)
  <2>1. u = [parser |-> Process(x, FALSE), done |-> m]
    BY <1>6 DEF Copied, Turned, Buffered
  <2>2. m \in t.done .. Len(data) /\ m \in 0 .. Len(data) /\ m - t.done = need
    <3> HIDE DEF need, p
    <3> QED
      BY <1>1, <1>3, <1>6
  <2> HIDE DEF m
  <2>3. part \in Seq(Byte) /\ Len(part) = need
    BY <1>1, <2>2, PartFacts
  <2>4. after \in Seq(Byte) /\ part \o after = rest
    BY <1>1, <2>2, RestFacts, RestSplits
  <2> HIDE DEF part, after
  <2>5. x \in Parsers /\ x.sync = p.sync /\ Joined(x, after) = Joined(p, rest)
    <3>1. x \in Parsers /\ x.sync = p.sync
      BY <1>1, <2>3, JoinedFacts
    <3>2. Joined(x, after) = Joined(p, part \o after)
      BY <1>1, <2>3, <2>4, JoinedTwice
    <3> HIDE DEF x
    <3> QED
      BY <2>4, <3>1, <3>2
  <2>6. ~Waits(x) => Len(x.buffer) = IF FirstHeaderBad(x) THEN 4 ELSE FirstPacketSize(x)
    <3>1. Len(part) <= need
      BY <1>3, <2>3
    <3> QED
      BY <1>1, <1>2, <2>3, <3>1, Lacking
  <2> HIDE DEF x
  <2>7. /\ AtRest(Process(x, FALSE))
        /\ Process(Joined(Process(x, FALSE), after), FALSE) = Process(Joined(x, after), FALSE)
    BY <1>2, <2>4, <2>5, <2>6, OneTurn
  <2> HIDE DEF u
  <2> DEFINE y == Process(x, FALSE)
  <2> HIDE DEF y
  <2>a. u.parser = y /\ u.done = m
    BY <2>1 DEF y
  <2>8. Ahead(u.parser, u, data) = Process(Joined(y, after), FALSE)
    BY <2>a DEF Ahead, after
  <2>9. Ahead(t.parser, t, data) = Process(Joined(x, after), FALSE)
    BY <2>5 DEF Ahead
  <2> QED
    BY <2>7, <2>8, <2>9, <2>a DEF u, y
<1> QED
  BY <1>5, <1>6

(* The loop that completes the packet in the buffer.                       *)
LEMMA CompletedFacts ==
  ASSUME NEW p \in Parsers, AtRest(p), NEW data \in Seq(Byte)
  PROVE  LET t == Completed(p, data)
         IN  /\ t \in Turneds(data) /\ AtRest(t.parser)
             /\ Ahead(t.parser, t, data) = Process(Joined(p, data), FALSE)
<1> DEFINE N == Len(data)
           S == Turneds(data)
           b == Turned(p, 0)
           Then(t) == IF Completes(t, data) THEN Copied(t, data) ELSE t
           step == [t \in S |-> Then(t)]
           Loop(f) == f = [n \in 0 .. N |-> IF n = 0 THEN b
                                            ELSE LET t == f[n - 1]
                                                 IN  IF Completes(t, data) THEN Copied(t, data) ELSE t]
           turns == CHOOSE f : Loop(f)
           goal == Process(Joined(p, data), FALSE)
           I == {t \in S : AtRest(t.parser) /\ Ahead(t.parser, t, data) = goal}
<1>1. N \in Nat
  OBVIOUS
<1>2. Completed(p, data) = turns[N]
  BY DEF Completed
<1>3. b \in I
  <2>1. b.parser = p /\ b.done = 0
    BY DEF Turned
  <2>2. b \in S
    BY <1>1 DEF Turned, Turneds
  <2>3. Rest(data, 0) = data
    <3>1. 0 \in Nat /\ 0 \in 0 .. Len(data)
      BY <1>1
    <3> QED
      BY <3>1, RestSplits
  <2>4. Ahead(b.parser, b, data) = goal
    BY <2>1, <2>3 DEF Ahead
  <2> HIDE DEF b
  <2> QED
    BY <2>1, <2>2, <2>4
<1>4. step \in [S -> S]
  <2>1. \A t \in S : Then(t) \in S
    BY CopiedTyped
  <2> QED
    BY <2>1
<1>5. \A t \in S : step[t] = Then(t)
  OBVIOUS
<1>6. \A t \in I : Then(t) \in I
  BY CopiedTyped, CopiedKeeps
<1> HIDE DEF b, N, step
<1>7. PICK f : IsLoop(f, N, b, step)
  <2>1. b \in S
    BY <1>3
  <2> HIDE DEF S
  <2> QED
    BY <1>1, <1>4, <2>1, LoopExists
<1>8. Loop(f)
  <2>1. ASSUME NEW n \in 0 .. N, n # 0 PROVE step[f[n - 1]] = Then(f[n - 1])
    <3>1. n - 1 \in 0 .. N
      BY <1>1, <2>1
    <3>2. f[n - 1] \in S
      BY <1>4, <1>7, <3>1 DEF IsLoop
    <3> QED
      BY <1>5, <3>2
  <2>2. [n \in 0 .. N |-> IF n = 0 THEN b ELSE step[f[n - 1]]]
          = [n \in 0 .. N |-> IF n = 0 THEN b
                              ELSE LET t == f[n - 1]
                                   IN  IF Completes(t, data) THEN Copied(t, data) ELSE t]
    BY <2>1
  <2> QED
    BY <1>7, <2>2 DEF IsLoop
<1>9. Loop(turns)
  <2> HIDE DEF Loop
  <2> QED
    BY <1>8, Zenon
<1> HIDE DEF turns
<1>10. turns[0] = b /\ \A n \in 1 .. N : turns[n] = Then(turns[n - 1])
  <2>1. 0 \in 0 .. N /\ \A n \in 1 .. N : n \in 0 .. N /\ n # 0
    BY <1>1
  <2>2. \A n \in 0 .. N : turns[n] = IF n = 0 THEN b
                                     ELSE LET t == turns[n - 1]
                                          IN  IF Completes(t, data) THEN Copied(t, data) ELSE t
    BY <1>9
  <2> QED
    BY <2>1, <2>2
<1> HIDE DEF Loop, Then, I, S
<1>11. \A n \in 0 .. N : turns[n] \in I
  <2>1. \A n \in 1 .. N : turns[n - 1] \in I => turns[n] \in I
    BY <1>6, <1>10
  <2> QED
    BY <1>1, <1>3, <1>10, <2>1, LoopInvariant
<1>12. turns[N] \in I
  BY <1>1, <1>11
<1> QED
  BY <1>2, <1>12 DEF I, S

-----------------------------------------------------------------------------
(* The loop that borrows.                                                  *)
LEMMA AdvanceFacts ==
  ASSUME NEW data, NEW t \in Turneds(data)
  PROVE  /\ Advance(t) \in Parsers
         /\ Advance(t).buffer = t.parser.buffer /\ Advance(t).sync = t.parser.sync
         /\ Advance(t).offset = t.parser.offset + t.done /\ Advance(t).out = t.parser.out
<1>1. t.parser \in Parsers /\ t.done \in Nat
  BY DEF Turneds
<1> DEFINE p == t.parser
           n == p.offset + t.done
<1>2. n \in Nat
  BY <1>1 DEF Parsers
<1>3. Advance(t) = [p EXCEPT !.offset = n]
  BY DEF Advance
<1> HIDE DEF p, n
<1> QED
  BY <1>1, <1>2, <1>3 DEF Parsers, p, n

LEMMA BorrowableFacts ==
  ASSUME NEW data \in Seq(Byte), NEW n \in 0 .. Len(data), Borrowable(data, n)
  PROVE  /\ PayloadSize(data, n + 1) \in Nat /\ n + 4 + PayloadSize(data, n + 1) <= Len(data)
         /\ data[n + 1] = SyncByte /\ data[n + 2] \in Byte
         /\ PayloadSize(data, n + 1) <= MaxTlvPayload
<1>1. Len(data) \in Nat /\ (n + 1) + 3 <= Len(data) /\ n + 1 \in 1 .. Len(data)
  BY DEF Borrowable, Plausible
<1>2. PayloadSize(data, n + 1) \in Nat /\ data[(n + 1) + 1] \in Byte
  BY <1>1, HeaderFacts
<1>3. (n + 1) + 1 = n + 2
  OBVIOUS
<1> QED
  BY <1>2, <1>3 DEF Borrowable, Plausible, HeaderSize

LEMMA DirectFacts ==
  ASSUME NEW data \in Seq(Byte), NEW t \in Turneds(data), Borrowable(data, t.done)
  PROVE  LET u == Direct(t, data)
             size == PayloadSize(data, t.done + 1)
         IN  /\ u \in Turneds(data)
             /\ u.done = t.done + 4 + size
             /\ u.parser.buffer = t.parser.buffer /\ u.parser.sync = t.parser.sync
             /\ u.parser.offset = t.parser.offset
             /\ u.parser.out = Append(t.parser.out,
                                 PacketEvent(data[t.done + 2], size, t.parser.offset + t.done))
<1> DEFINE u == Direct(t, data)
           size == PayloadSize(data, t.done + 1)
           p == t.parser
           event == PacketEvent(data[t.done + 2], size, p.offset + t.done)
           out == Append(p.out, event)
           q == [p EXCEPT !.out = out]
           m == t.done + 4 + size
<1>1. p \in Parsers /\ t.done \in 0 .. Len(data) /\ t.done \in Nat /\ Len(data) \in Nat
  BY DEF Turneds
<1>2. size \in Nat /\ m <= Len(data) /\ data[t.done + 2] \in Byte
  BY <1>1, BorrowableFacts
<1>3. m \in 0 .. Len(data)
  <2> HIDE DEF size
  <2>1. m \in Nat
    BY <1>1, <1>2
  <2> HIDE DEF m, u, p, q, out, event
  <2>2. m <= Len(data)
    BY <1>2
  <2>3. Len(data) \in Nat
    BY <1>1
  <2> QED
    BY <2>1, <2>2, <2>3
<1>4. u = [parser |-> q, done |-> m]
  BY DEF Direct, Turned, HeaderSize
<1>5. out \in Seq(Events)
  <2>1. event \in Events
    BY <1>1, <1>2 DEF PacketEvent, Events, Parsers
  <2>2. p.out \in Seq(Events)
    BY <1>1 DEF Parsers
  <2> QED
    BY <2>1, <2>2, AppendProperties
<1> HIDE DEF out, p, m, size, u
<1>6. /\ q \in Parsers /\ q.buffer = p.buffer /\ q.offset = p.offset /\ q.sync = p.sync
      /\ q.out = out
  BY <1>1, <1>5 DEF Parsers
<1> HIDE DEF q
<1>7. u \in Turneds(data) /\ u.parser = q /\ u.done = m
  BY <1>3, <1>4, <1>6 DEF Turneds
<1> QED
  BY <1>6, <1>7 DEF u, m, p, size, out

LEMMA Moved ==
  ASSUME NEW N \in Nat, NEW o \in Nat, NEW d \in Nat, NEW s \in Nat, NEW e \in 0 .. N, e = d + 4 + s
  PROVE  /\ (N - d) - (4 + s) = N - e
         /\ (o + d) + (4 + s) = o + e
         /\ \A i \in 1 .. (N - e) : i + (4 + s) \in 1 .. (N - d) /\ d + (i + (4 + s)) = e + i
OBVIOUS

LEMMA AheadFacts ==
  ASSUME NEW data \in Seq(Byte), NEW t \in Turneds(data), t.parser.sync,
         t.parser.buffer = << >>, NEW rest \in Seq(Byte)
  PROVE  LET x == Joined(Advance(t), rest)
         IN  /\ x \in Parsers /\ x.buffer = rest /\ x.offset = t.parser.offset + t.done /\ x.sync
             /\ x.out = t.parser.out
<1> DEFINE v == Advance(t)
<1>1. /\ v \in Parsers /\ v.buffer = << >> /\ v.sync /\ v.offset = t.parser.offset + t.done
      /\ v.out = t.parser.out
  BY AdvanceFacts
<1> HIDE DEF v
<1> DEFINE x == Joined(v, rest)
<1>2. /\ x \in Parsers /\ x.offset = v.offset /\ x.sync = v.sync /\ x.out = v.out
      /\ x.buffer = v.buffer \o rest
  BY <1>1, JoinedFacts
<1>3. << >> \o rest = rest
  BY ConcatEmptySeq
<1> HIDE DEF x
<1> QED
  BY <1>1, <1>2, <1>3 DEF x, v

LEMMA DirectKeeps ==
  ASSUME NEW data \in Seq(Byte), NEW t \in Turneds(data), Borrowable(data, t.done),
         t.parser.sync, t.parser.buffer = << >>
  PROVE  LET u == Direct(t, data)
         IN  u.parser.sync /\ u.parser.buffer = << >> /\ Ahead(Advance(u), u, data) = Ahead(Advance(t), t, data)
<1> DEFINE u == Direct(t, data)
           size == PayloadSize(data, t.done + 1)
           rest == Rest(data, t.done)
           after == Rest(data, u.done)
           x == Joined(Advance(t), rest)
           y == Joined(Advance(u), after)
<1>1. t.parser \in Parsers /\ t.done \in 0 .. Len(data) /\ t.done \in Nat /\ Len(data) \in Nat
  BY DEF Turneds
<1>2. /\ size \in Nat /\ t.done + 4 + size <= Len(data)
      /\ data[t.done + 1] = SyncByte /\ size <= MaxTlvPayload
  BY <1>1, BorrowableFacts
<1>3. /\ u \in Turneds(data) /\ u.done = t.done + 4 + size
      /\ u.parser.buffer = << >> /\ u.parser.sync
      /\ u.parser.offset = t.parser.offset
      /\ u.parser.out = Append(t.parser.out,
                          PacketEvent(data[t.done + 2], size, t.parser.offset + t.done))
  BY DirectFacts
<1> HIDE DEF u
<1>4. u.done \in 0 .. Len(data) /\ u.done \in Nat
  BY <1>3 DEF Turneds
<1>5. /\ rest \in Seq(Byte) /\ Len(rest) = Len(data) - t.done
      /\ \A i \in 1 .. Len(rest) : rest[i] = data[t.done + i]
  BY <1>1, RestFacts
<1>6. /\ after \in Seq(Byte) /\ Len(after) = Len(data) - u.done
      /\ \A i \in 1 .. Len(after) : after[i] = data[u.done + i]
  BY <1>4, RestFacts
<1>7. /\ x \in Parsers /\ x.buffer = rest /\ x.offset = t.parser.offset + t.done /\ x.sync
      /\ x.out = t.parser.out
  BY <1>5, AheadFacts
<1>8. /\ y \in Parsers /\ y.buffer = after /\ y.offset = u.parser.offset + u.done /\ y.sync
      /\ y.out = u.parser.out
  BY <1>3, <1>6, AheadFacts
<1> HIDE DEF x, y, rest, after, size
<1>9. /\ x.buffer[1] = SyncByte /\ x.buffer[2] = data[t.done + 2]
      /\ PayloadSize(x.buffer, 1) = size
  <2>1. 1 \in 1 .. Len(rest) /\ 2 \in 1 .. Len(rest) /\ 3 \in 1 .. Len(rest) /\ 4 \in 1 .. Len(rest)
    BY <1>1, <1>2, <1>5
  <2>2. /\ (t.done + 1) + 2 = t.done + 3 /\ (t.done + 1) + 3 = t.done + 4
        /\ 1 + 2 = 3 /\ 1 + 3 = 4
    BY <1>1
  <2>3. /\ x.buffer[1] = data[t.done + 1] /\ x.buffer[2] = data[t.done + 2]
        /\ x.buffer[3] = data[t.done + 3] /\ x.buffer[4] = data[t.done + 4]
    BY <1>5, <1>7, <2>1
  <2>4. PayloadSize(x.buffer, 1) = size
    BY <2>2, <2>3 DEF PayloadSize, size
  <2> QED
    BY <1>2, <2>3, <2>4
<1>10. ~FirstHeaderBad(x) /\ ~Waits(x)
  <2>1. ~ (size > MaxTlvPayload) /\ ~ (Len(rest) < 4) /\ ~ (Len(rest) < 4 + size)
    BY <1>1, <1>2, <1>5, Limits
  <2>2. ~FirstHeaderBad(x)
    BY <1>9, <2>1 DEF FirstHeaderBad
  <2> QED
    BY <1>7, <1>9, <2>1, <2>2 DEF Waits, FirstPacketSize, HeaderSize
<1> DEFINE z == Turn(x)
<1>11. /\ z \in Parsers /\ Suffix(x, z) /\ z.offset = x.offset + (4 + size) /\ z.sync
       /\ z.out = Append(x.out, PacketEvent(x.buffer[2], size, x.offset))
  BY <1>7, <1>9, <1>10, TurnFacts
<1> HIDE DEF z
<1>a. t.parser.offset \in Nat
  BY <1>1 DEF Parsers
<1> DEFINE N == Len(data)
           d == t.done
           e == u.done
           o == t.parser.offset
<1>b. N \in Nat /\ o \in Nat /\ d \in Nat /\ e \in 0 .. N /\ e = d + 4 + size
  BY <1>1, <1>3, <1>4, <1>a
<1>c. /\ Len(rest) = N - d /\ Len(after) = N - e
      /\ x.offset = o + d /\ y.offset = o + e
  BY <1>3, <1>5, <1>6, <1>7, <1>8
<1> HIDE DEF N, d, e, o
<1>d. /\ (N - d) - (4 + size) = N - e
      /\ (o + d) + (4 + size) = o + e
      /\ \A i \in 1 .. (N - e) : i + (4 + size) \in 1 .. (N - d) /\ d + (i + (4 + size)) = e + i
  BY <1>2, <1>b, Moved
<1>12. z.buffer = y.buffer
  <2>1. 4 + size \in Nat /\ x.offset \in Nat
    BY <1>2, <1>7 DEF Parsers
  <2>2. Len(z.buffer) = Len(x.buffer) - (4 + size)
    BY <1>7, <1>11, <2>1, SuffixLength
  <2>3. Len(z.buffer) = Len(after)
    BY <1>7, <1>c, <1>d, <2>2
  <2>4. ASSUME NEW i \in 1 .. Len(z.buffer) PROVE z.buffer[i] = after[i]
    <3>1. z.offset - x.offset = 4 + size
      BY <1>11, <2>1
    <3>2. z.buffer[i] = x.buffer[i + (4 + size)]
      BY <1>11, <3>1 DEF Suffix
    <3>3. i + (4 + size) \in 1 .. Len(rest) /\ t.done + (i + (4 + size)) = u.done + i
      BY <1>c, <1>d, <2>3 DEF d, e
    <3>4. x.buffer[i + (4 + size)] = data[u.done + i]
      BY <1>5, <1>7, <3>3
    <3>5. after[i] = data[u.done + i]
      BY <1>6, <2>3
    <3> QED
      BY <3>2, <3>4, <3>5
  <2>5. z.buffer \in Seq(Byte)
    BY <1>11 DEF Parsers
  <2> QED
    BY <1>6, <1>8, <2>3, <2>4, <2>5, SameBytes
<1>13. z = y
  <2>2. z.offset = y.offset
    BY <1>11, <1>c, <1>d
  <2>3. z.out = y.out
    BY <1>3, <1>7, <1>8, <1>9, <1>11
  <2> QED
    BY <1>8, <1>11, <1>12, <2>2, <2>3, SameParser
<1>14. Process(x, FALSE) = Process(y, FALSE)
  BY <1>7, <1>10, <1>13, RunningTurns DEF z
<1>15. /\ Ahead(Advance(t), t, data) = Process(x, FALSE)
       /\ Ahead(Advance(u), u, data) = Process(y, FALSE)
  BY DEF Ahead, x, y, rest, after
<1> QED
  BY <1>3, <1>14, <1>15 DEF u

LEMMA BorrowedFacts ==
  ASSUME NEW p \in Parsers, p.sync, p.buffer = << >>, NEW data \in Seq(Byte)
  PROVE  LET t == Borrowed(p, data)
         IN  /\ t \in Turneds(data) /\ t.parser.sync /\ t.parser.buffer = << >>
             /\ Ahead(Advance(t), t, data) = Process(Joined(p, data), FALSE)
<1> DEFINE N == Len(data)
           S == Turneds(data)
           b == Turned(p, 0)
           Then(t) == IF Borrowable(data, t.done) THEN Direct(t, data) ELSE t
           step == [t \in S |-> Then(t)]
           Loop(f) == f = [n \in 0 .. N |-> IF n = 0 THEN b
                                            ELSE LET t == f[n - 1]
                                                 IN  IF Borrowable(data, t.done) THEN Direct(t, data) ELSE t]
           turns == CHOOSE f : Loop(f)
           goal == Process(Joined(p, data), FALSE)
           I == {t \in S : /\ t.parser.sync /\ t.parser.buffer = << >>
                           /\ Ahead(Advance(t), t, data) = goal}
<1>1. N \in Nat
  OBVIOUS
<1>2. Borrowed(p, data) = turns[N]
  BY DEF Borrowed
<1>3. b \in I
  <2>1. b.parser = p /\ b.done = 0
    BY DEF Turned
  <2>2. b \in S
    BY <1>1 DEF Turned, Turneds
  <2>3. Rest(data, 0) = data
    <3>1. 0 \in Nat /\ 0 \in 0 .. Len(data)
      BY <1>1
    <3> QED
      BY <3>1, RestSplits
  <2>4. Advance(b) = p
    <3>1. p.offset + 0 = p.offset
      BY DEF Parsers
    <3> HIDE DEF b
    <3> QED
      BY <2>1, <2>2, <3>1, AdvanceFacts, SameParser
  <2>5. Ahead(Advance(b), b, data) = goal
    BY <2>1, <2>3, <2>4 DEF Ahead
  <2> HIDE DEF b
  <2> QED
    BY <2>1, <2>2, <2>5
<1>4. step \in [S -> S]
  <2>1. \A t \in S : Then(t) \in S
    BY DirectFacts
  <2> QED
    BY <2>1
<1>5. \A t \in S : step[t] = Then(t)
  OBVIOUS
<1>6. \A t \in I : Then(t) \in I
  <2> SUFFICES ASSUME NEW t \in I PROVE Then(t) \in I
    OBVIOUS
  <2>1. CASE Borrowable(data, t.done)
    <3> DEFINE u == Direct(t, data)
    <3>1. u \in S
      BY <2>1, DirectFacts
    <3>2. u.parser.sync /\ u.parser.buffer = << >> /\ Ahead(Advance(u), u, data) = goal
      BY <2>1, DirectKeeps
    <3> HIDE DEF u
    <3>3. u \in I
      BY <3>1, <3>2
    <3> QED
      BY <2>1, <3>3 DEF u
  <2>2. CASE ~Borrowable(data, t.done)
    BY <2>2
  <2> QED
    BY <2>1, <2>2
<1> HIDE DEF b, N, step
<1>7. PICK f : IsLoop(f, N, b, step)
  <2>1. b \in S
    BY <1>3
  <2> HIDE DEF S
  <2> QED
    BY <1>1, <1>4, <2>1, LoopExists
<1>8. Loop(f)
  <2>1. ASSUME NEW n \in 0 .. N, n # 0 PROVE step[f[n - 1]] = Then(f[n - 1])
    <3>1. n - 1 \in 0 .. N
      BY <1>1, <2>1
    <3>2. f[n - 1] \in S
      BY <1>4, <1>7, <3>1 DEF IsLoop
    <3> QED
      BY <1>5, <3>2
  <2>2. [n \in 0 .. N |-> IF n = 0 THEN b ELSE step[f[n - 1]]]
          = [n \in 0 .. N |-> IF n = 0 THEN b
                              ELSE LET t == f[n - 1]
                                   IN  IF Borrowable(data, t.done) THEN Direct(t, data) ELSE t]
    BY <2>1
  <2> QED
    BY <1>7, <2>2 DEF IsLoop
<1>9. Loop(turns)
  <2> HIDE DEF Loop
  <2> QED
    BY <1>8, Zenon
<1> HIDE DEF turns
<1>10. turns[0] = b /\ \A n \in 1 .. N : turns[n] = Then(turns[n - 1])
  <2>1. 0 \in 0 .. N /\ \A n \in 1 .. N : n \in 0 .. N /\ n # 0
    BY <1>1
  <2>2. \A n \in 0 .. N : turns[n] = IF n = 0 THEN b
                                     ELSE LET t == turns[n - 1]
                                          IN  IF Borrowable(data, t.done) THEN Direct(t, data) ELSE t
    BY <1>9
  <2> QED
    BY <2>1, <2>2
<1> HIDE DEF Loop, Then, I, S
<1>11. \A n \in 0 .. N : turns[n] \in I
  <2>1. \A n \in 1 .. N : turns[n - 1] \in I => turns[n] \in I
    BY <1>6, <1>10
  <2> QED
    BY <1>1, <1>3, <1>10, <2>1, LoopInvariant
<1>12. turns[N] \in I
  BY <1>1, <1>11
<1> QED
  BY <1>2, <1>12 DEF I, S

(* What is left is processed, also when it is nothing.                     *)
LEMMA FinishedFacts ==
  ASSUME NEW p \in Parsers, NEW rest \in Seq(Byte), AtRest(p)
  PROVE  Finished(p, rest) = Process(Joined(p, rest), FALSE)
BY JoinedFacts DEF Finished, Buffered, AtRest

(***************************************************************************)
(* Pushing what a parser that waits is given is appending it to the buffer *)
(* and processing it there: the two loops take nothing else out of it.     *)
(***************************************************************************)
LEMMA PushedIsProcessed ==
  ASSUME NEW p \in Parsers, p.sync => Waits(p), NEW data \in Seq(Byte)
  PROVE  Pushed(p, data) = Process(Joined(p, data), FALSE)
<1> DEFINE t == Completed(p, data)
           rest == Rest(data, t.done)
           goal == Process(Joined(p, data), FALSE)
<1>1. CASE ~p.sync
  BY <1>1 DEF Pushed, Buffered
<1>2. CASE p.sync
  <2>1. AtRest(p)
    BY <1>2, WaitingStays DEF AtRest
  <2>2. /\ t \in Turneds(data) /\ AtRest(t.parser) /\ Ahead(t.parser, t, data) = goal
    BY <2>1, CompletedFacts
  <2>3. Pushed(p, data) =
          IF rest # << >> /\ t.parser.sync /\ t.parser.buffer = << >>
          THEN Lent(t.parser, rest) ELSE Finished(t.parser, rest)
    BY <1>2 DEF Pushed
  <2> HIDE DEF t
  <2>4. t.parser \in Parsers /\ t.done \in 0 .. Len(data)
    BY <2>2 DEF Turneds
  <2>5. rest \in Seq(Byte)
    BY <2>4, RestFacts
  <2>6. Process(Joined(t.parser, rest), FALSE) = goal
    BY <2>2 DEF Ahead
  <2> HIDE DEF rest, goal
  <2>7. Finished(t.parser, rest) = goal
    BY <2>2, <2>4, <2>5, <2>6, FinishedFacts
  <2>8. ASSUME t.parser.sync, t.parser.buffer = << >>
        PROVE  Lent(t.parser, rest) = goal
    <3> DEFINE u == Borrowed(t.parser, rest)
               v == Advance(u)
               last == Rest(rest, u.done)
    <3>1. /\ u \in Turneds(rest) /\ u.parser.sync /\ u.parser.buffer = << >>
          /\ Ahead(v, u, rest) = goal
      BY <2>4, <2>5, <2>6, <2>8, BorrowedFacts
    <3>2. Lent(t.parser, rest) = Finished(v, last)
      BY DEF Lent
    <3> HIDE DEF u
    <3>3. v \in Parsers /\ v.sync /\ v.buffer = << >>
      BY <3>1, AdvanceFacts
    <3>4. last \in Seq(Byte)
      <4>1. u.done \in 0 .. Len(rest)
        BY <3>1 DEF Turneds
      <4> QED
        BY <2>5, <4>1, RestFacts
    <3>5. AtRest(v)
      <4>1. Waits(v)
        BY <3>3 DEF Waits, HeaderSize
      <4> QED
        BY <3>3, <4>1, WaitingStays DEF AtRest
    <3>6. Process(Joined(v, last), FALSE) = goal
      BY <3>1 DEF Ahead
    <3> HIDE DEF v, last
    <3> QED
      BY <3>2, <3>3, <3>4, <3>5, <3>6, FinishedFacts
  <2> QED
    BY <2>3, <2>7, <2>8 DEF goal
<1> QED
  BY <1>1, <1>2

-----------------------------------------------------------------------------
(* The bytes of the input that a parser holds: those before offset e.      *)
Buffers(p, bytes, e) ==
  /\ p.offset + Len(p.buffer) = e
  /\ \A i \in 1 .. Len(p.buffer) : p.buffer[i] = bytes[p.offset + i]

LEMMA SuffixFits ==
  ASSUME NEW p \in Parsers, NEW q \in Parsers, Suffix(p, q), NEW bytes, NEW e, Buffers(p, bytes, e)
  PROVE  Buffers(q, bytes, e)
<1>1. p.offset \in Nat /\ q.offset \in Nat /\ Len(p.buffer) \in Nat /\ Len(q.buffer) \in Nat
  BY DEF Parsers
<1>2. q.offset + Len(q.buffer) = e
  BY DEF Buffers, Suffix
<1>3. ASSUME NEW i \in 1 .. Len(q.buffer) PROVE q.buffer[i] = bytes[q.offset + i]
  <2> DEFINE j == i + (q.offset - p.offset)
  <2>1. q.buffer[i] = p.buffer[j]
    BY DEF Suffix
  <2>2. j \in 1 .. Len(p.buffer) /\ p.offset + j = q.offset + i
    <3>1. p.offset <= q.offset /\ q.offset + Len(q.buffer) = p.offset + Len(p.buffer)
      BY DEF Suffix
    <3> QED
      BY <1>1, <3>1, Shifted
  <2> HIDE DEF j
  <2>3. p.buffer[j] = bytes[p.offset + j]
    BY <2>2 DEF Buffers
  <2> QED
    BY <2>1, <2>2, <2>3
<1> QED
  BY <1>2, <1>3 DEF Buffers

(* A header in the buffer is one of the input.                             *)
LEMMA HeaderRead ==
  ASSUME NEW p \in Parsers, NEW bytes \in Seq(Byte), NEW e \in 0 .. Len(bytes), Buffers(p, bytes, e),
         NEW i \in 1 .. Len(p.buffer), i + 3 <= Len(p.buffer)
  PROVE  /\ p.offset + i \in 1 .. Len(bytes) /\ p.offset + i + 3 <= e
         /\ p.buffer[i] = bytes[p.offset + i] /\ p.buffer[i + 1] = bytes[p.offset + i + 1]
         /\ PayloadSize(p.buffer, i) = PayloadSize(bytes, p.offset + i)
         /\ Plausible(p.buffer, i) <=> Plausible(bytes, p.offset + i)
<1> DEFINE u == p.offset
           b == p.buffer
           n == Len(b)
           L == Len(bytes)
<1>1. u \in Nat /\ n \in Nat /\ L \in Nat /\ e \in 0 .. L /\ i \in 1 .. n /\ i + 3 <= n
  BY DEF Parsers
<1>2. u + n = e /\ \A j \in 1 .. n : b[j] = bytes[u + j]
  BY DEF Buffers
<1> HIDE DEF u, b, n, L
<1>3. /\ u + i \in 1 .. L /\ u + i + 3 <= e /\ u + i + 3 <= L
      /\ i + 1 \in 1 .. n /\ i + 2 \in 1 .. n /\ i + 3 \in 1 .. n
      /\ u + (i + 1) = u + i + 1 /\ u + (i + 2) = (u + i) + 2 /\ u + (i + 3) = (u + i) + 3
  BY <1>1, <1>2
<1>4. /\ b[i] = bytes[u + i] /\ b[i + 1] = bytes[u + i + 1]
      /\ b[i + 2] = bytes[(u + i) + 2] /\ b[i + 3] = bytes[(u + i) + 3]
  BY <1>1, <1>2, <1>3
<1>5. PayloadSize(b, i) = PayloadSize(bytes, u + i)
  BY <1>4 DEF PayloadSize
<1>6. Plausible(b, i) <=> Plausible(bytes, u + i)
  BY <1>1, <1>3, <1>4 DEF Plausible, n, L
<1> QED
  BY <1>3, <1>4, <1>5, <1>6 DEF u, b, L

-----------------------------------------------------------------------------
(* The packets of a stream.                                                *)
LEMMA StartFacts ==
  ASSUME NEW s \in Streams, NEW o \in Starts(s)
  PROVE  /\ s.bytes \in Seq(Byte) /\ s.clean \in Nat /\ Len(s.bytes) \in Nat
         /\ o \in Nat /\ s.clean <= o /\ o + 4 <= Len(s.bytes)
         /\ s.bytes[o + 1] = SyncByte /\ Plausible(s.bytes, o + 1)
         /\ PayloadSize(s.bytes, o + 1) \in Nat
         /\ PayloadSize(s.bytes, o + 1) <= MaxTlvPayload
         /\ PacketEnd(s.bytes, o) = o + 4 + PayloadSize(s.bytes, o + 1)
         /\ PacketEnd(s.bytes, o) \in Starts(s) \cup {Len(s.bytes)}
         /\ \A later \in Starts(s) : o < later => PacketEnd(s.bytes, o) <= later
         /\ o # s.clean => \E earlier \in Starts(s) : PacketEnd(s.bytes, earlier) = o
<1>1. s.bytes \in Seq(Byte) /\ s.clean \in Nat /\ Len(s.bytes) \in Nat
  BY StreamsAssumption
<1>2. /\ Plausible(s.bytes, o + 1)
      /\ PayloadSize(s.bytes, o + 1) <= MaxTlvPayload
      /\ PacketEnd(s.bytes, o) \in Starts(s) \cup {Len(s.bytes)}
      /\ \A later \in Starts(s) : o < later => PacketEnd(s.bytes, o) <= later
      /\ o # s.clean => \E earlier \in Starts(s) : PacketEnd(s.bytes, earlier) = o
  BY StreamsAssumption
<1>3. o \in s.clean .. (Len(s.bytes) - 1) /\ s.bytes[o + 1] = SyncByte
  BY <1>2, StreamsAssumption DEF Plausible
<1>4. o \in Nat /\ s.clean <= o
  BY <1>1, <1>3
<1>5. (o + 1) + 3 <= Len(s.bytes)
  BY <1>2 DEF Plausible
<1>6. o + 1 \in 1 .. Len(s.bytes)
  BY <1>1, <1>4, <1>5
<1>7. PayloadSize(s.bytes, o + 1) \in Nat
  BY <1>1, <1>5, <1>6, HeaderFacts
<1>8. o + 4 <= Len(s.bytes)
  BY <1>1, <1>4, <1>5
<1> QED
  BY <1>1, <1>2, <1>3, <1>4, <1>7, <1>8 DEF PacketEnd, HeaderSize

LEMMA HeaderPlaces ==
  ASSUME NEW u \in Nat, NEW n \in Nat, NEW o \in Nat, NEW next \in Nat, NEW size \in Nat,
         next = o + 4 + size, u <= o, next + 4 <= u + n
  PROVE  LET i == (o - u) + 1
             j == (next - u) + 1
         IN  /\ i \in 1 .. n /\ i + 3 <= n /\ u + i = o + 1
             /\ j \in 1 .. n /\ j + 3 <= n /\ u + j = next + 1
             /\ j = (i + 4) + size
OBVIOUS

(* A packet with the header after it is a boundary.                        *)
LEMMA StartIsBoundary ==
  ASSUME NEW p \in Parsers, NEW s \in Streams, NEW e \in 0 .. Len(s.bytes),
         Buffers(p, s.bytes, e), NEW o \in Starts(s), p.offset <= o,
         PacketEnd(s.bytes, o) + 4 <= e
  PROVE  (o - p.offset) + 1 \in Boundaries(p.buffer, FALSE)
<1> DEFINE u == p.offset
           n == Len(p.buffer)
           size == PayloadSize(s.bytes, o + 1)
           next == PacketEnd(s.bytes, o)
           L == Len(s.bytes)
           i == (o - u) + 1
           j == (next - u) + 1
<1>1. /\ s.bytes \in Seq(Byte) /\ L \in Nat /\ o \in Nat /\ size \in Nat /\ size <= MaxTlvPayload
      /\ next = o + 4 + size /\ next \in Starts(s) \cup {L}
      /\ Plausible(s.bytes, o + 1)
  BY StartFacts
<1>2. u \in Nat /\ n \in Nat /\ u + n = e /\ u <= o /\ next + 4 <= e /\ e \in 0 .. L
  BY DEF Buffers, Parsers
<1> HIDE DEF u, n, size, next, L
<1>3. next \in Starts(s) /\ next \in Nat
  <2>1. next # L
    BY <1>1, <1>2
  <2>2. next \in Starts(s)
    BY <1>1, <2>1
  <2>3. next \in Nat
    BY <1>1
  <2> QED
    BY <2>2, <2>3
<1>4. Plausible(s.bytes, next + 1)
  BY <1>3, StartFacts
<1>5. /\ i \in 1 .. n /\ i + 3 <= n /\ u + i = o + 1
      /\ j \in 1 .. n /\ j + 3 <= n /\ u + j = next + 1
      /\ j = (i + 4) + size
  <2>1. o \in Nat /\ next \in Nat /\ size \in Nat /\ u \in Nat /\ n \in Nat
    BY <1>1, <1>2, <1>3
  <2>2. next = o + 4 + size /\ u <= o /\ next + 4 <= u + n
    BY <1>1, <1>2
  <2> HIDE DEF u, n, size, next
  <2> QED
    BY <2>1, <2>2, HeaderPlaces
<1> HIDE DEF i, j
<1>6. Plausible(p.buffer, i) /\ PayloadSize(p.buffer, i) = size
  <2>1. i \in 1 .. n /\ i + 3 <= n /\ u + i = o + 1
    BY <1>5
  <2> QED
    BY <1>1, <2>1, HeaderRead DEF L, n, u, size
<1>7. Plausible(p.buffer, j)
  BY <1>1, <1>4, <1>5, HeaderRead DEF L, n, u
<1>8. i \in DOMAIN p.buffer
  BY <1>5 DEF n, Parsers
<1>9. i \in Boundaries(p.buffer, FALSE)
  BY <1>1, <1>5, <1>6, <1>7, <1>8 DEF Boundaries, HeaderSize
<1> QED
  BY <1>9 DEF i, u

-----------------------------------------------------------------------------
(* What a call may report: was is the latest callback before it.           *)
Callbacks == Events \cup {NoEvent}

LastOf(out, was) == IF out = << >> THEN was ELSE out[Len(out)]

(* A packet of the input, in front of offset e.                            *)
Genuine(x, bytes, e) ==
  /\ bytes[x.offset + 1] = SyncByte
  /\ bytes[x.offset + 2] = x.type
  /\ x.size = PayloadSize(bytes, x.offset + 1)
  /\ x.size <= MaxTlvPayload
  /\ EndOf(x) <= e

(* A packet that starts where the one before it ended, or after a resync.  *)
Follows(x, was) ==
  /\ x.offset >= EndOf(was)
  /\ was.kind = "packet" => x.offset = EndOf(was)

(* Where the parser is, after its latest callback.                         *)
Upto(q, x) ==
  /\ EndOf(x) <= q.offset
  /\ x.kind = "packet" => q.sync /\ q.offset = EndOf(x)

Ordered(out, bytes, e, was) ==
  \A k \in 1 .. Len(out) :
    out[k].kind = "packet" =>
      Genuine(out[k], bytes, e) /\ Follows(out[k], IF k = 1 THEN was ELSE out[k - 1])

Told(q, bytes, e, was) == Ordered(q.out, bytes, e, was) /\ Upto(q, LastOf(q.out, was))

LEMMA EndFacts ==
  /\ \A x \in Callbacks :
       /\ EndOf(x) \in Nat
       /\ x.kind = "packet" => EndOf(x) = x.offset + 4 + x.size
       /\ x.kind = "resync" => EndOf(x) = x.offset + 1
  /\ EndOf(NoEvent) = 0 /\ NoEvent.kind # "packet" /\ NoEvent \in Callbacks
<1>1. ASSUME NEW x \in Events
      PROVE  /\ EndOf(x) \in Nat
             /\ x.kind = "packet" => EndOf(x) = x.offset + 4 + x.size
             /\ x.kind = "resync" => EndOf(x) = x.offset + 1
  <2>1. x.kind \in {"packet", "resync"} /\ x.offset \in Nat /\ x.size \in Nat
    BY DEF Events
  <2>2. CASE x.kind = "packet"
    BY <2>1, <2>2 DEF EndOf, HeaderSize
  <2>3. CASE x.kind = "resync"
    BY <2>1, <2>3 DEF EndOf
  <2> QED
    BY <2>1, <2>2, <2>3
<1>2. EndOf(NoEvent) = 0 /\ NoEvent.kind = "none"
  BY DEF EndOf, NoEvent
<1> QED
  BY <1>1, <1>2 DEF Callbacks

LEMMA LastFacts ==
  ASSUME NEW out \in Seq(Events), NEW was \in Callbacks
  PROVE  /\ LastOf(out, was) \in Callbacks /\ LastOf(<< >>, was) = was
         /\ \A x \in Events :
              /\ LastOf(Append(out, x), was) = x
              /\ Append(out, x) \in Seq(Events) /\ Len(Append(out, x)) = Len(out) + 1
              /\ Append(out, x)[Len(out) + 1] = x
              /\ \A k \in 1 .. Len(out) : Append(out, x)[k] = out[k]
<1>1. LastOf(out, was) \in Callbacks
  <2>1. CASE out = << >>
    BY <2>1 DEF LastOf
  <2>2. CASE out # << >>
    <3>1. Len(out) \in 1 .. Len(out)
      BY <2>2
    <3>2. out[Len(out)] \in Events
      BY <3>1
    <3> QED
      BY <2>2, <3>2 DEF LastOf, Callbacks
  <2> QED
    BY <2>1, <2>2
<1>2. ASSUME NEW x \in Events
      PROVE  /\ LastOf(Append(out, x), was) = x
             /\ Append(out, x) \in Seq(Events) /\ Len(Append(out, x)) = Len(out) + 1
             /\ Append(out, x)[Len(out) + 1] = x
             /\ \A k \in 1 .. Len(out) : Append(out, x)[k] = out[k]
  <2>1. /\ Append(out, x) \in Seq(Events) /\ Len(Append(out, x)) = Len(out) + 1
        /\ Append(out, x)[Len(out) + 1] = x
        /\ \A k \in 1 .. Len(out) : Append(out, x)[k] = out[k]
    BY AppendProperties
  <2>2. Append(out, x) # << >>
    <3>1. Len(Append(out, x)) # 0
      BY <2>1
    <3> QED
      BY <2>1, <3>1, EmptySeq
  <2> QED
    BY <2>1, <2>2 DEF LastOf
<1>3. LastOf(<< >>, was) = was
  BY DEF LastOf
<1> QED
  BY <1>1, <1>2, <1>3

(* A search reports nothing, and forgets nothing.                          *)
LEMMA FoundTold ==
  ASSUME NEW p \in Parsers, NEW end \in BOOLEAN, NEW bytes, NEW e, NEW was \in Callbacks,
         Told(p, bytes, e, was)
  PROVE  Told(Found(p, end), bytes, e, was)
<1> DEFINE q == Found(p, end)
           x == LastOf(p.out, was)
<1>1. /\ q \in Parsers /\ Suffix(p, q) /\ q.out = p.out /\ (p.sync => q = p)
  BY FoundFacts
<1>2. p.offset \in Nat /\ q.offset \in Nat /\ p.offset <= q.offset
  BY <1>1 DEF Parsers, Suffix
<1>3. x \in Callbacks
  BY LastFacts DEF Parsers
<1>4. EndOf(x) \in Nat
  BY <1>3, EndFacts
<1>5. Upto(p, x) /\ Ordered(p.out, bytes, e, was)
  BY DEF Told
<1> HIDE DEF q, x
<1>6. Upto(q, x)
  BY <1>1, <1>2, <1>4, <1>5 DEF Upto
<1> QED
  BY <1>1, <1>5, <1>6 DEF Told, q, x

(* A turn reports what is in front of it.                                  *)
LEMMA TurnTold ==
  ASSUME NEW p \in Parsers, ~Waits(p), NEW bytes \in Seq(Byte), NEW e \in 0 .. Len(bytes),
         Buffers(p, bytes, e), NEW was \in Callbacks, Told(p, bytes, e, was)
  PROVE  Told(Turn(p), bytes, e, was)
<1> DEFINE q == Turn(p)
           bad == FirstHeaderBad(p)
           size == PayloadSize(p.buffer, 1)
           event == IF bad THEN ResyncEvent(p.offset) ELSE PacketEvent(p.buffer[2], size, p.offset)
           n == IF bad THEN 1 ELSE 4 + size
           x == LastOf(p.out, was)
           N == Len(p.out)
           M == Len(p.buffer)
           u == p.offset
<1>1. /\ p.sync /\ M >= 4 /\ size \in Nat
      /\ ~bad => p.buffer[1] = SyncByte /\ size <= MaxTlvPayload
      /\ event \in Events /\ n \in 1 .. M
      /\ q \in Parsers /\ q.offset = u + n
      /\ q.sync = ~bad
      /\ q.out = Append(p.out, event)
  BY TurnFacts
<1>2. Ordered(p.out, bytes, e, was) /\ Upto(p, x)
  BY DEF Told
<1>3. u \in Nat /\ N \in Nat /\ M \in Nat /\ u + M = e /\ p.out \in Seq(Events)
  BY DEF Parsers, Buffers
<1>4. x \in Callbacks /\ EndOf(x) \in Nat
  BY <1>3, LastFacts, EndFacts
<1>5. /\ q.out \in Seq(Events) /\ Len(q.out) = N + 1 /\ q.out[N + 1] = event
      /\ \A k \in 1 .. N : q.out[k] = p.out[k]
      /\ LastOf(q.out, was) = event
  <2> HIDE DEF event, q
  <2>1. /\ LastOf(Append(p.out, event), was) = event
        /\ Append(p.out, event) \in Seq(Events) /\ Len(Append(p.out, event)) = N + 1
        /\ Append(p.out, event)[N + 1] = event
        /\ \A k \in 1 .. N : Append(p.out, event)[k] = p.out[k]
    <3>1. p.out \in Seq(Events) /\ event \in Events
      BY <1>1, <1>3
    <3> HIDE DEF bad, size, n, x, M, u
    <3>2. \A y \in Events :
            /\ LastOf(Append(p.out, y), was) = y
            /\ Append(p.out, y) \in Seq(Events) /\ Len(Append(p.out, y)) = Len(p.out) + 1
            /\ Append(p.out, y)[Len(p.out) + 1] = y
            /\ \A k \in 1 .. Len(p.out) : Append(p.out, y)[k] = p.out[k]
      BY <3>1, LastFacts, Zenon
    <3> QED
      BY <3>1, <3>2, Zenon
  <2> HIDE DEF N
  <2> QED
    BY <1>1, <2>1
<1>6. event \in Callbacks /\ EndOf(event) \in Nat
  BY <1>1, EndFacts DEF Callbacks
<1>7. event.kind = "packet" <=> ~bad
  BY DEF ResyncEvent, PacketEvent
<1>8. event.offset = u
  BY DEF ResyncEvent, PacketEvent
<1>9. EndOf(event) = u + n
  <2>1. CASE bad
    <3>1. event.kind = "resync"
      BY <2>1 DEF ResyncEvent
    <3> QED
      BY <1>6, <1>8, <2>1, <3>1, EndFacts
  <2>2. CASE ~bad
    <3>1. event.kind = "packet" /\ event.size = size
      BY <2>2 DEF PacketEvent
    <3>2. EndOf(event) = u + 4 + size
      BY <1>6, <1>8, <3>1, EndFacts
    <3> HIDE DEF u, size, event
    <3> QED
      BY <1>1, <1>3, <2>2, <3>2
  <2> QED
    BY <2>1, <2>2
<1>10. ~bad => event.type = p.buffer[2] /\ event.size = size
  BY DEF PacketEvent
<1>11. ~bad => Genuine(event, bytes, e)
  <2> SUFFICES ASSUME ~bad PROVE Genuine(event, bytes, e)
    OBVIOUS
  <2>1. /\ p.buffer[1] = bytes[u + 1] /\ p.buffer[1 + 1] = bytes[u + 1 + 1]
        /\ PayloadSize(p.buffer, 1) = PayloadSize(bytes, u + 1)
    <3>1. 1 \in 1 .. Len(p.buffer) /\ 1 + 3 <= Len(p.buffer)
      BY <1>1, <1>3
    <3> QED
      BY <3>1, HeaderRead
  <2>2. p.buffer[2] = bytes[u + 2]
    <3>1. 1 + 1 = 2 /\ u + 1 + 1 = u + 2
      BY <1>3
    <3> QED
      BY <2>1, <3>1
  <2>3. EndOf(event) <= e
    <3> HIDE DEF u, M, n, event
    <3> QED
      BY <1>1, <1>3, <1>9
  <2> HIDE DEF event, u
  <2> QED
    BY <1>1, <1>8, <1>10, <2>1, <2>2, <2>3 DEF Genuine
<1>12. Follows(event, x)
  <2> HIDE DEF event, u, x
  <2> QED
    BY <1>2, <1>3, <1>4, <1>8 DEF Follows, Upto, u
<1>13. Upto(q, event)
  <2> HIDE DEF event, u, n, q, bad
  <2>1. q.offset = EndOf(event)
    BY <1>1, <1>9
  <2>2. EndOf(event) <= q.offset
    BY <1>6, <2>1
  <2>3. event.kind = "packet" => q.sync
    BY <1>1, <1>7
  <2> QED
    BY <2>1, <2>2, <2>3 DEF Upto
<1>14. x = IF N + 1 = 1 THEN was ELSE p.out[N]
  <2>1. p.out = << >> <=> N = 0
    BY <1>3, EmptySeq
  <2>2. N + 1 = 1 <=> N = 0
    BY <1>3
  <2> HIDE DEF N
  <2> QED
    BY <2>1, <2>2 DEF LastOf, x, N
<1> HIDE DEF event, u, n, q, bad, x, size, N, M
<1>15. Ordered(q.out, bytes, e, was)
  <2> SUFFICES ASSUME NEW k \in 1 .. Len(q.out), q.out[k].kind = "packet"
               PROVE  Genuine(q.out[k], bytes, e)
                      /\ Follows(q.out[k], IF k = 1 THEN was ELSE q.out[k - 1])
    BY DEF Ordered
  <2>1. CASE k = N + 1
    <3>1. q.out[k] = event /\ ~bad
      BY <1>5, <1>7, <2>1
    <3>2. x = IF k = 1 THEN was ELSE q.out[k - 1]
      <4>1. CASE N = 0
        BY <1>14, <2>1, <4>1
      <4>2. CASE N # 0
        <5>1. k # 1 /\ k - 1 = N /\ N \in 1 .. N
          BY <1>3, <2>1, <4>2
        <5>2. q.out[k - 1] = p.out[N]
          BY <1>5, <5>1
        <5> QED
          BY <1>14, <2>1, <5>1, <5>2
      <4> QED
        BY <4>1, <4>2
    <3> QED
      BY <1>11, <1>12, <3>1, <3>2
  <2>2. CASE k # N + 1
    <3>1. k \in 1 .. N
      BY <1>3, <1>5, <2>2
    <3>2. q.out[k] = p.out[k]
      BY <1>5, <3>1
    <3>3. (IF k = 1 THEN was ELSE q.out[k - 1]) = IF k = 1 THEN was ELSE p.out[k - 1]
      <4>1. k # 1 => k - 1 \in 1 .. N
        BY <1>3, <3>1
      <4> QED
        BY <1>5, <4>1
    <3>4. Genuine(p.out[k], bytes, e) /\ Follows(p.out[k], IF k = 1 THEN was ELSE p.out[k - 1])
      BY <1>2, <3>1, <3>2 DEF Ordered, N
    <3> QED
      BY <3>2, <3>3, <3>4
  <2> QED
    BY <2>1, <2>2
<1> QED
  BY <1>5, <1>13, <1>15 DEF Told, q

-----------------------------------------------------------------------------
(* The packets of the input that a parser must find, what it has had, and  *)
(* what it stands at the front of.                                         *)
Late(s, since) == {o \in Starts(s) : o > s.clean /\ o >= since}

Had(q, done) ==
  done \cup {q.out[k].offset : k \in {j \in 1 .. Len(q.out) : q.out[j].kind = "packet"}}

Front(q) == IF q.sync THEN {q.offset} ELSE {}

Hidden(s, o, taken) == \E f \in taken \cap FalsePackets(s) : Overlap(s.bytes, f, o)

(* Of the packets it must find a parser has had each, or has it in front,  *)
(* or something false hides it; from the first true one it has had on, it  *)
(* goes from packet to packet.                                             *)
Passed(s, since, had, q) ==
  \A o \in Late(s, since) : o \in had \/ q.offset <= o \/ Hidden(s, o, had \cup Front(q))

InStep(s, had, q) ==
  /\ had \cap Starts(s) # {} => q.sync /\ q.offset \in Starts(s) \cup {Len(s.bytes)}
  /\ \A w \in had \cap Starts(s) : \A o \in Starts(s) : w < o => o \in had \/ q.offset <= o

Reaches(q, s, since, done) ==
  Passed(s, since, Had(q, done), q) /\ InStep(s, Had(q, done), q)

(* The packet before one of the clean part starts less than a packet ago.  *)
LEMMA Predecessor ==
  ASSUME NEW s \in Streams, NEW o \in Starts(s), o > s.clean
  PROVE  \E w \in Starts(s) : PacketEnd(s.bytes, w) = o /\ o <= w + 4 + MaxTlvPayload
<1>1. o \in Nat /\ s.clean \in Nat /\ MaxTlvPayload \in Nat
  BY StartFacts, Limits
<1>2. o # s.clean
  BY <1>1
<1>3. PICK w \in Starts(s) : PacketEnd(s.bytes, w) = o
  BY <1>2, StartFacts
<1> DEFINE size == PayloadSize(s.bytes, w + 1)
<1>4. w \in Nat /\ size \in Nat /\ size <= MaxTlvPayload /\ PacketEnd(s.bytes, w) = w + 4 + size
  BY StartFacts
<1> HIDE DEF size
<1>5. o <= w + 4 + MaxTlvPayload
  BY <1>1, <1>3, <1>4
<1> QED
  BY <1>3, <1>5

(* What looks like a packet is one or a false one.                         *)
LEMMA TrueOrFalse ==
  ASSUME NEW s \in Streams, NEW x \in Nat, x + 4 <= Len(s.bytes),
         s.bytes[x + 1] = SyncByte, PayloadSize(s.bytes, x + 1) <= MaxTlvPayload
  PROVE  /\ PayloadSize(s.bytes, x + 1) \in Nat
         /\ PacketEnd(s.bytes, x) = x + 4 + PayloadSize(s.bytes, x + 1)
         /\ x \in Starts(s) \/ x \in FalsePackets(s)
<1>1. s.bytes \in Seq(Byte) /\ Len(s.bytes) \in Nat
  BY StreamsAssumption
<1>2. x + 1 \in 1 .. Len(s.bytes) /\ (x + 1) + 3 <= Len(s.bytes) /\ x \in 0 .. (Len(s.bytes) - 4)
  BY <1>1
<1>3. PayloadSize(s.bytes, x + 1) \in Nat
  BY <1>1, <1>2, HeaderFacts
<1> QED
  BY <1>2, <1>3 DEF PacketEnd, FalsePackets, HeaderSize

LEMMA FalseFacts ==
  ASSUME NEW s \in Streams, NEW x \in FalsePackets(s)
  PROVE  /\ x \in Nat /\ x + 4 <= Len(s.bytes) /\ x \notin Starts(s)
         /\ s.bytes[x + 1] = SyncByte
         /\ PayloadSize(s.bytes, x + 1) \in Nat /\ PayloadSize(s.bytes, x + 1) <= MaxTlvPayload
         /\ PacketEnd(s.bytes, x) = x + 4 + PayloadSize(s.bytes, x + 1)
<1>1. Len(s.bytes) \in Nat
  BY StreamsAssumption
<1>2. /\ x \in 0 .. (Len(s.bytes) - 4) /\ x \notin Starts(s)
      /\ s.bytes[x + 1] = SyncByte /\ PayloadSize(s.bytes, x + 1) <= MaxTlvPayload
  BY DEF FalsePackets, HeaderSize
<1>3. x \in Nat /\ x + 4 <= Len(s.bytes)
  BY <1>1, <1>2
<1> QED
  BY <1>2, <1>3, TrueOrFalse

(* What a search drops holds no whole packet.                              *)
LEMMA NothingLost ==
  ASSUME NEW p \in Parsers, NEW s \in Streams, NEW e \in 0 .. Len(s.bytes), Buffers(p, s.bytes, e),
         Boundaries(p.buffer, FALSE) = {}, Len(p.buffer) > MaxResyncBuffer,
         NEW o \in Starts(s), o > s.clean, p.offset <= o
  PROVE  o + 4 > e
<1> DEFINE u == p.offset
           n == Len(p.buffer)
           size == PayloadSize(s.bytes, o + 1)
           next == PacketEnd(s.bytes, o)
           M == MaxTlvPayload
<1> SUFFICES ASSUME ~ (o + 4 > e) PROVE FALSE
  OBVIOUS
<1>1. M \in Nat /\ MaxResyncBuffer \in Nat /\ MaxResyncBuffer >= 2 * M + 10
  BY Limits
<1>2. u \in Nat /\ n \in Nat /\ u + n = e /\ u <= o /\ n > MaxResyncBuffer /\ e \in Nat
  BY DEF Buffers, Parsers
<1>3. o \in Nat /\ size \in Nat /\ size <= M /\ next = o + 4 + size
  BY StartFacts
<1>4. PICK w \in Starts(s) : PacketEnd(s.bytes, w) = o /\ o <= w + 4 + M
  BY Predecessor
<1>5. w \in Nat
  BY StartFacts
<1>6. o + 4 <= e
  BY <1>2, <1>3
<1>7. ~ (u <= w)
  BY <1>4, <1>6, StartIsBoundary
<1> HIDE DEF u, n, size, next, M
<1>8. next + 4 <= e
  BY <1>1, <1>2, <1>3, <1>4, <1>5, <1>7
<1> QED
  BY <1>2, <1>8, StartIsBoundary DEF u, next

(* A search that passes a packet stops at something false inside it.       *)
LEMMA StopsInside ==
  ASSUME NEW p \in Parsers, NEW q \in Parsers, NEW s \in Streams, NEW e \in 0 .. Len(s.bytes),
         Buffers(p, s.bytes, e), Settles(p, q, FALSE),
         NEW o \in Starts(s), p.offset <= o, o < q.offset
  PROVE  q.offset \in FalsePackets(s) /\ Overlap(s.bytes, q.offset, o)
<1> DEFINE u == p.offset
           n == Len(p.buffer)
           x == q.offset
           M == MaxTlvPayload
           end == PacketEnd(s.bytes, o)
           size == PayloadSize(s.bytes, x + 1)
<1>1. PICK i \in Boundaries(p.buffer, FALSE) :
        x = u + i - 1 /\ \A j \in Boundaries(p.buffer, FALSE) : i <= j
  BY DEF Settles
<1>2. /\ u \in Nat /\ n \in Nat /\ u + n = e /\ x \in Nat /\ e \in Nat
      /\ Len(s.bytes) \in Nat /\ s.bytes \in Seq(Byte)
  BY StreamsAssumption DEF Buffers, Parsers
<1>3. /\ i \in 1 .. n /\ Plausible(p.buffer, i)
      /\ PayloadSize(p.buffer, i) <= M
  BY DEF Boundaries, Parsers
<1>4. i + 3 <= n /\ p.buffer[i] = SyncByte
  BY <1>3 DEF Plausible
<1>5. u + i = x + 1 /\ x + 4 <= e /\ x + 4 <= Len(s.bytes)
  <2> HIDE DEF u, n, x
  <2> QED
    BY <1>1, <1>2, <1>3, <1>4
<1>6. s.bytes[x + 1] = SyncByte /\ size <= M
  <2>1. p.buffer[i] = s.bytes[u + i] /\ PayloadSize(p.buffer, i) = PayloadSize(s.bytes, u + i)
    BY <1>2, <1>3, <1>4, HeaderRead
  <2> QED
    BY <1>3, <1>4, <1>5, <2>1
<1>7. /\ size \in Nat /\ PacketEnd(s.bytes, x) = x + 4 + size
      /\ x \in Starts(s) \/ x \in FalsePackets(s)
  BY <1>2, <1>5, <1>6, TrueOrFalse
<1>8. o \in Nat /\ end \in Nat
  BY StartFacts
<1>9. ~ (end + 4 <= e)
  <2> SUFFICES ASSUME end + 4 <= e PROVE FALSE
    OBVIOUS
  <2>1. (o - u) + 1 \in Boundaries(p.buffer, FALSE)
    BY StartIsBoundary
  <2>2. i <= (o - u) + 1
    BY <1>1, <2>1
  <2> HIDE DEF u, n, x, end, size
  <2> QED
    BY <1>1, <1>2, <1>3, <1>5, <1>8, <2>2 DEF x
<1>10. x \notin Starts(s)
  <2> SUFFICES ASSUME x \in Starts(s) PROVE FALSE
    OBVIOUS
  <2>1. end <= x
    BY StartFacts
  <2> HIDE DEF u, n, x, end, size
  <2> QED
    BY <1>2, <1>5, <1>8, <1>9, <2>1
<1>11. x < end
  <2> HIDE DEF u, n, x, end, size
  <2> QED
    BY <1>2, <1>5, <1>8, <1>9
<1>12. o < PacketEnd(s.bytes, x)
  <2>1. o < x
    OBVIOUS
  <2> HIDE DEF x, size
  <2> QED
    BY <1>2, <1>7, <1>8, <2>1
<1> QED
  BY <1>7, <1>10, <1>11, <1>12 DEF Overlap

LEMMA FoundReaches ==
  ASSUME NEW p \in Parsers, NEW s \in Streams, NEW e \in 0 .. Len(s.bytes), Buffers(p, s.bytes, e),
         NEW since, NEW done, Reaches(p, s, since, done)
  PROVE  Reaches(Found(p, FALSE), s, since, done)
<1> DEFINE q == Found(p, FALSE)
           u == p.offset
           n == Len(p.buffer)
           had == Had(p, done)
<1>1. /\ q \in Parsers /\ Suffix(p, q) /\ q.out = p.out
      /\ p.sync => q = p
      /\ ~p.sync => GivesUp(p, q, FALSE) \/ Settles(p, q, FALSE)
  BY FoundFacts
<1> HIDE DEF q
<1>2. Had(q, done) = had
  BY <1>1 DEF Had
<1>3. /\ u \in Nat /\ n \in Nat /\ u + n = e /\ e \in Nat
      /\ q.offset \in Nat /\ Len(q.buffer) \in Nat /\ q.offset + Len(q.buffer) = e
  <2>1. u \in Nat /\ n \in Nat /\ u + n = e
    BY DEF Buffers, Parsers
  <2>2. q.offset \in Nat /\ Len(q.buffer) \in Nat
    BY <1>1 DEF Parsers
  <2>3. q.offset + Len(q.buffer) = u + n
    BY <1>1 DEF Suffix
  <2> HIDE DEF u, n
  <2> QED
    BY <2>1, <2>2, <2>3
<1>4. Passed(s, since, had, p) /\ InStep(s, had, p)
  BY DEF Reaches
<1> HIDE DEF had
<1>5. CASE p.sync
  BY <1>1, <1>2, <1>4, <1>5 DEF Reaches, q
<1>6. CASE ~p.sync
  <2>1. Front(p) = {} /\ had \cap Starts(s) = {}
    BY <1>4, <1>6 DEF Front, InStep
  <2>2. ASSUME NEW o \in Late(s, since)
        PROVE  o \in had \/ q.offset <= o \/ Hidden(s, o, had \cup Front(q))
    <3>1. o \in Starts(s) /\ o > s.clean
      BY DEF Late
    <3>2. o \in Nat
      BY <3>1, StartFacts
    <3>3. CASE ~ (u <= o)
      BY <1>4, <2>1, <3>3 DEF Passed, Hidden
    <3>4. CASE u <= o /\ GivesUp(p, q, FALSE) /\ n > MaxResyncBuffer
      <4>1. Boundaries(p.buffer, FALSE) = {} /\ Len(q.buffer) = 3
        BY <3>4 DEF GivesUp
      <4>2. o + 4 > e
        BY <3>1, <3>4, <4>1, NothingLost
      <4> QED
        BY <1>3, <3>2, <4>1, <4>2
    <3>5. CASE u <= o /\ GivesUp(p, q, FALSE) /\ ~ (n > MaxResyncBuffer)
      <4>1. q = p
        BY <3>5 DEF GivesUp
      <4> QED
        BY <3>5, <4>1
    <3>6. CASE u <= o /\ Settles(p, q, FALSE) /\ ~ (q.offset <= o)
      <4>1. o < q.offset
        BY <1>3, <3>2, <3>6
      <4>2. q.offset \in FalsePackets(s) /\ Overlap(s.bytes, q.offset, o)
        BY <1>1, <3>1, <3>6, <4>1, StopsInside
      <4>3. q.offset \in Front(q)
        BY <3>6 DEF Settles, Front
      <4> QED
        BY <4>2, <4>3 DEF Hidden
    <3> QED
      BY <1>1, <1>6, <3>3, <3>4, <3>5, <3>6
  <2>3. Passed(s, since, had, q)
    BY <2>2 DEF Passed
  <2>4. InStep(s, had, q)
    BY <2>1 DEF InStep
  <2> QED
    BY <1>2, <2>3, <2>4 DEF Reaches, q
<1> QED
  BY <1>5, <1>6

(* A turn passes no packet but the one it emits, and what that one hides.  *)
LEMMA TurnReaches ==
  ASSUME NEW p \in Parsers, ~Waits(p), NEW s \in Streams, NEW e \in 0 .. Len(s.bytes),
         Buffers(p, s.bytes, e), NEW since, NEW done, Reaches(p, s, since, done)
  PROVE  Reaches(Turn(p), s, since, done)
<1> DEFINE q == Turn(p)
           bad == FirstHeaderBad(p)
           size == PayloadSize(p.buffer, 1)
           event == IF bad THEN ResyncEvent(p.offset) ELSE PacketEvent(p.buffer[2], size, p.offset)
           n == IF bad THEN 1 ELSE 4 + size
           N == Len(p.out)
           u == p.offset
           M == MaxTlvPayload
           had == Had(p, done)
           now == Had(q, done)
<1>1. /\ p.sync /\ Len(p.buffer) >= 4 /\ size \in Nat
      /\ ~bad => p.buffer[1] = SyncByte /\ size <= M
      /\ event \in Events
      /\ q.offset = u + n /\ q.sync = ~bad
      /\ q.out = Append(p.out, event)
  BY TurnFacts
<1>2. u \in Nat /\ Len(p.buffer) \in Nat /\ u + Len(p.buffer) = e /\ p.out \in Seq(Events) /\ N \in Nat
  BY DEF Parsers, Buffers
<1>3. /\ Len(q.out) = N + 1 /\ q.out[N + 1] = event
      /\ \A k \in 1 .. N : q.out[k] = p.out[k]
  BY <1>1, <1>2, AppendProperties
<1>4. /\ p.buffer[1] = s.bytes[u + 1]
      /\ size = PayloadSize(s.bytes, u + 1)
  <2>1. 1 \in 1 .. Len(p.buffer) /\ 1 + 3 <= Len(p.buffer)
    BY <1>1, <1>2
  <2>2. s.bytes \in Seq(Byte)
    BY StreamsAssumption
  <2> QED
    BY <2>1, <2>2, HeaderRead
<1>5. u + 4 <= e /\ e <= Len(s.bytes) /\ Len(s.bytes) \in Nat /\ e \in Nat
  <2>1. Len(s.bytes) \in Nat
    BY StreamsAssumption
  <2> HIDE DEF u
  <2> QED
    BY <1>1, <1>2, <2>1
<1>6. (~bad => event.kind = "packet" /\ event.offset = u) /\ (bad => event.kind # "packet")
  BY DEF PacketEvent, ResyncEvent
<1>7. bad <=> p.buffer[1] # SyncByte \/ size > M
  BY DEF FirstHeaderBad
<1>8. Passed(s, since, had, p) /\ InStep(s, had, p)
  BY DEF Reaches
<1> HIDE DEF event, u, n, q, bad, size, N
<1>9. now = IF bad THEN had ELSE had \cup {u}
  <2>1. 1 .. (N + 1) = (1 .. N) \cup {N + 1}
    BY <1>2
  <2>2. {j \in 1 .. (N + 1) : q.out[j].kind = "packet"}
          = {j \in 1 .. N : p.out[j].kind = "packet"} \cup IF bad THEN {} ELSE {N + 1}
    BY <1>3, <1>6, <2>1
  <2>3. {q.out[k].offset : k \in {j \in 1 .. (N + 1) : q.out[j].kind = "packet"}}
          = {p.out[k].offset : k \in {j \in 1 .. N : p.out[j].kind = "packet"}}
              \cup IF bad THEN {} ELSE {u}
    BY <1>3, <1>6, <2>2
  <2> QED
    BY <1>3, <2>3 DEF Had, N
<1>10. n = IF bad THEN 1 ELSE 4 + size
  BY DEF n, bad, size
<1> HIDE DEF had, now, M
(* A true packet in front is emitted.                                      *)
<1>11. ASSUME u \in Starts(s) PROVE ~bad /\ u + n = PacketEnd(s.bytes, u)
  <2>1. /\ s.bytes[u + 1] = SyncByte /\ PayloadSize(s.bytes, u + 1) <= M
        /\ PayloadSize(s.bytes, u + 1) \in Nat
        /\ PacketEnd(s.bytes, u) = u + 4 + PayloadSize(s.bytes, u + 1)
    BY <1>11, StartFacts DEF M
  <2>2. M \in Nat
    BY Limits DEF M
  <2>3. ~bad
    BY <1>4, <1>7, <2>1, <2>2
  <2> QED
    BY <1>2, <1>4, <1>10, <2>1, <2>3
<1>12. ASSUME ~bad, u \notin Starts(s)
       PROVE  u \in FalsePackets(s) /\ PacketEnd(s.bytes, u) = u + n
  <2>1. s.bytes[u + 1] = SyncByte /\ PayloadSize(s.bytes, u + 1) <= MaxTlvPayload
    BY <1>1, <1>4, <1>12 DEF M
  <2>2. u + 4 <= Len(s.bytes)
    BY <1>2, <1>5
  <2>3. /\ PacketEnd(s.bytes, u) = u + 4 + PayloadSize(s.bytes, u + 1)
        /\ u \in Starts(s) \/ u \in FalsePackets(s)
    BY <1>2, <2>1, <2>2, TrueOrFalse
  <2> QED
    BY <1>1, <1>2, <1>4, <1>10, <1>12, <2>3
<1>13. ASSUME NEW o \in Starts(s), u <= o
       PROVE  \/ u + n <= o
              \/ u = o /\ ~bad
              \/ u \in FalsePackets(s) /\ ~bad /\ Overlap(s.bytes, u, o)
  <2>1. o \in Nat /\ PayloadSize(s.bytes, o + 1) \in Nat
        /\ PacketEnd(s.bytes, o) = o + 4 + PayloadSize(s.bytes, o + 1)
    BY StartFacts
  <2>2. CASE u = o
    BY <1>11, <2>2
  <2>3. CASE u # o /\ bad
    BY <1>2, <1>10, <1>13, <2>1, <2>3
  <2>4. CASE u # o /\ u \in Starts(s)
    <3>1. u < o
      BY <1>2, <1>13, <2>1, <2>4
    <3>2. PacketEnd(s.bytes, u) <= o
      BY <2>4, <3>1, StartFacts
    <3> QED
      BY <1>11, <2>4, <3>2
  <2>5. CASE u # o /\ ~bad /\ u \notin Starts(s)
    <3>1. u \in FalsePackets(s) /\ PacketEnd(s.bytes, u) = u + n /\ u + n \in Nat
      BY <1>1, <1>2, <1>10, <1>12, <2>5
    <3>2. u < PacketEnd(s.bytes, o)
      BY <1>2, <1>13, <2>1
    <3>3. u + n <= o \/ o < PacketEnd(s.bytes, u)
      BY <2>1, <3>1
    <3> QED
      BY <2>5, <3>1, <3>2, <3>3 DEF Overlap
  <2> QED
    BY <2>2, <2>3, <2>4, <2>5
<1>14. ASSUME NEW o \in Late(s, since)
       PROVE  o \in now \/ q.offset <= o \/ Hidden(s, o, now \cup Front(q))
  <2>1. o \in Starts(s)
    BY DEF Late
  <2>2. CASE o \in had
    BY <1>9, <2>2
  <2>3. CASE u <= o
    <3>1. CASE u \in FalsePackets(s) /\ ~bad /\ Overlap(s.bytes, u, o)
      BY <1>9, <3>1 DEF Hidden
    <3> QED
      BY <1>1, <1>9, <1>13, <2>1, <2>3, <3>1
  <2>4. CASE Hidden(s, o, had \cup Front(p))
    <3>1. PICK f \in (had \cup Front(p)) \cap FalsePackets(s) : Overlap(s.bytes, f, o)
      BY <2>4 DEF Hidden
    <3>2. f = u => ~bad
      <4> SUFFICES ASSUME f = u PROVE ~bad
        OBVIOUS
      <4>1. /\ s.bytes[u + 1] = SyncByte /\ PayloadSize(s.bytes, u + 1) <= M
            /\ PayloadSize(s.bytes, u + 1) \in Nat
        BY <3>1, FalseFacts DEF M
      <4>2. M \in Nat
        BY Limits DEF M
      <4> QED
        BY <1>4, <1>7, <4>1, <4>2
    <3>3. f \in had \/ f = u
      BY <3>1 DEF Front, u
    <3>4. f \in now
      BY <1>9, <3>2, <3>3
    <3> QED
      BY <3>1, <3>4 DEF Hidden
  <2> QED
    BY <1>8, <2>2, <2>3, <2>4 DEF Passed, u
<1>15. ASSUME had \cap Starts(s) # {} PROVE u \in Starts(s)
  <2>1. u \in Starts(s) \cup {Len(s.bytes)}
    BY <1>8, <1>15 DEF InStep, u
  <2>2. u # Len(s.bytes)
    BY <1>2, <1>5
  <2> QED
    BY <2>1, <2>2
<1>16. ASSUME now \cap Starts(s) # {} PROVE u \in Starts(s)
  BY <1>9, <1>15, <1>16
<1>17. now \cap Starts(s) # {} => q.sync /\ q.offset \in Starts(s) \cup {Len(s.bytes)}
  <2> SUFFICES ASSUME now \cap Starts(s) # {}
               PROVE  q.sync /\ q.offset \in Starts(s) \cup {Len(s.bytes)}
    OBVIOUS
  <2>1. u \in Starts(s)
    BY <1>16
  <2>2. PacketEnd(s.bytes, u) \in Starts(s) \cup {Len(s.bytes)}
    BY <2>1, StartFacts
  <2> QED
    BY <1>1, <1>11, <2>1, <2>2
<1>18. ASSUME NEW w \in now \cap Starts(s), NEW o \in Starts(s), w < o
       PROVE  o \in now \/ q.offset <= o
  <2>1. u \in Starts(s)
    BY <1>16
  <2>2. ~bad /\ u \notin FalsePackets(s)
    BY <1>11, <2>1 DEF FalsePackets
  <2>3. o \in had \/ u <= o
    <3>1. CASE w \in had
      BY <1>8, <1>18, <3>1 DEF InStep, u
    <3>2. CASE w = u
      <4>1. w \in Nat /\ o \in Nat
        BY StartFacts
      <4> QED
        BY <1>18, <3>2, <4>1
    <3> QED
      BY <1>9, <3>1, <3>2
  <2> QED
    BY <1>1, <1>9, <1>13, <2>2, <2>3
<1>19. Passed(s, since, now, q)
  BY <1>14 DEF Passed
<1>20. InStep(s, now, q)
  BY <1>17, <1>18 DEF InStep
<1> QED
  BY <1>19, <1>20 DEF Reaches, now, q

-----------------------------------------------------------------------------
(* The reference processes bytes with operators of its own: they are the   *)
(* same ones.                                                              *)
LEMMA SameTurns ==
  ASSUME NEW p, NEW end
  PROVE  /\ Reference!Found(p, end) = Found(p, end)
         /\ Reference!Waits(p) <=> Waits(p)
         /\ Reference!Turn(p) = Turn(p)
         /\ Reference!Drained(p) = Drained(p)
<1>1. ASSUME NEW r, NEW n PROVE Reference!Consume(r, n) = Consume(r, n)
  BY DEF Reference!Consume, Consume
<1>2. ASSUME NEW b PROVE Reference!Boundaries(b, end) = Boundaries(b, end)
  BY DEF Reference!Boundaries, Boundaries, Reference!Plausible, Plausible, Reference!HeaderSize,
         HeaderSize, Reference!PayloadSize, PayloadSize, Reference!SyncByte, SyncByte,
         Reference!CandidateType, CandidateType
<1>3. ASSUME NEW S PROVE Reference!Min(S) = Min(S)
  BY DEF Reference!Min, Min
<1>4. Reference!FirstHeaderBad(p) <=> FirstHeaderBad(p)
  BY DEF Reference!FirstHeaderBad, FirstHeaderBad, Reference!PayloadSize, PayloadSize,
         Reference!SyncByte, SyncByte
<1>5. Reference!FirstPacketSize(p) = FirstPacketSize(p)
  BY DEF Reference!FirstPacketSize, FirstPacketSize, Reference!HeaderSize, HeaderSize,
         Reference!PayloadSize, PayloadSize
<1>6. Reference!Drained(p) = Drained(p)
  BY <1>1 DEF Reference!Drained, Drained
<1>7. Reference!Found(p, end) = Found(p, end)
  BY <1>1, <1>2, <1>3, <1>6
     DEF Reference!Found, Found, Reference!Searched, Searched, Reference!PartialHeader,
         PartialHeader, Reference!HeaderSize, HeaderSize
<1>8. Reference!Waits(p) <=> Waits(p)
  BY <1>4, <1>5 DEF Reference!Waits, Waits, Reference!HeaderSize, HeaderSize
<1>9. Reference!Turn(p) = Turn(p)
  BY <1>1, <1>4, <1>5
     DEF Reference!Turn, Turn, Reference!LostSync, LostSync, Reference!Emitted, Emitted,
         Reference!ResyncEvent, ResyncEvent, Reference!PacketEvent, PacketEvent,
         Reference!PayloadSize, PayloadSize
<1> QED
  BY <1>6, <1>7, <1>8, <1>9

LEMMA SameProcess ==
  ASSUME NEW p, NEW end
  PROVE  Reference!Process(p, end) = Process(p, end)
<1> DEFINE N == Len(p.buffer)
           Body(q) == IF Waits(q) THEN q ELSE Found(Turn(q), end)
           Other(q) == IF Reference!Waits(q) THEN q ELSE Reference!Found(Reference!Turn(q), end)
           Is(f) == f = [n \in 0 .. N |-> IF n = 0 THEN Found(p, end) ELSE Body(f[n - 1])]
           IsOther(f) ==
             f = [n \in 0 .. N |-> IF n = 0 THEN Reference!Found(p, end) ELSE Other(f[n - 1])]
           turns == CHOOSE f : Is(f)
           others == CHOOSE f : IsOther(f)
<1>1. Process(p, end) = IF end THEN Drained(turns[N]) ELSE turns[N]
  BY DEF Process
<1>2. Reference!Process(p, end) = IF end THEN Reference!Drained(others[N]) ELSE others[N]
  BY DEF Reference!Process
<1>3. \A q : Other(q) = Body(q)
  BY SameTurns
<1> HIDE DEF Body, Other, N
<1>4. \A f : IsOther(f) <=> Is(f)
  <2> TAKE f
  <2>1. [n \in 0 .. N |-> IF n = 0 THEN Reference!Found(p, end) ELSE Other(f[n - 1])]
          = [n \in 0 .. N |-> IF n = 0 THEN Found(p, end) ELSE Body(f[n - 1])]
    BY <1>3, SameTurns
  <2> QED
    BY <2>1
<1>5. others = turns
  <2> HIDE DEF Is, IsOther
  <2> QED
    BY <1>4, Zenon
<1> HIDE DEF turns, others
<1> QED
  BY <1>1, <1>2, <1>5, SameTurns

LEMMA SameReference ==
  ASSUME NEW p, NEW data
  PROVE  Reference!Joined(p, data) = Joined(p, data) /\ Reference!Quiet = Quiet
BY DEF Reference!Joined, Joined, Reference!Quiet, Quiet

-----------------------------------------------------------------------------
(* A parser that searches holds no boundary, and no more than its limit.   *)
Resting(q) ==
  ~q.sync => Boundaries(q.buffer, FALSE) = {} /\ Len(q.buffer) <= MaxResyncBuffer

LEMMA TooShort ==
  ASSUME NEW b \in Seq(Byte), Len(b) <= 3
  PROVE  Boundaries(b, FALSE) = {}
<1>1. \A i \in 1 .. Len(b) : ~ (i + 3 <= Len(b))
  OBVIOUS
<1>2. \A i \in DOMAIN b : ~Plausible(b, i)
  BY <1>1 DEF Plausible
<1> QED
  BY <1>2 DEF Boundaries

LEMMA FoundRests ==
  ASSUME NEW p \in Parsers
  PROVE  Resting(Found(p, FALSE))
<1> DEFINE q == Found(p, FALSE)
<1>1. /\ q \in Parsers
      /\ p.sync => q = p
      /\ ~p.sync => GivesUp(p, q, FALSE) \/ Settles(p, q, FALSE)
  BY FoundFacts
<1>2. Len(p.buffer) \in Nat /\ MaxResyncBuffer \in Nat /\ MaxResyncBuffer >= 3
  BY Limits DEF Parsers
<1> SUFFICES Resting(q)
  OBVIOUS
<1> HIDE DEF q
<1>3. CASE q.sync
  BY <1>3 DEF Resting
<1>4. CASE ~q.sync /\ GivesUp(p, q, FALSE)
  <2>1. CASE Len(p.buffer) > MaxResyncBuffer
    <3>1. Len(q.buffer) = 3
      BY <1>4, <2>1 DEF GivesUp
    <3>2. Len(q.buffer) <= 3 /\ q.buffer \in Seq(Byte)
      BY <1>1, <3>1 DEF Parsers
    <3>3. Boundaries(q.buffer, FALSE) = {}
      BY <3>2, TooShort
    <3> QED
      BY <1>2, <3>1, <3>3 DEF Resting
  <2>2. CASE ~ (Len(p.buffer) > MaxResyncBuffer)
    <3>1. q = p /\ Boundaries(p.buffer, FALSE) = {}
      BY <1>4, <2>2 DEF GivesUp
    <3>2. Len(p.buffer) <= MaxResyncBuffer
      BY <1>2, <2>2
    <3> QED
      BY <3>1, <3>2 DEF Resting
  <2> QED
    BY <2>1, <2>2
<1> QED
  BY <1>1, <1>3, <1>4 DEF Settles

(* What processing keeps, and what it reaches when nothing follows.        *)
LEMMA ProcessTells ==
  ASSUME NEW p \in Parsers, NEW end \in BOOLEAN, NEW bytes \in Seq(Byte),
         NEW e \in 0 .. Len(bytes), Buffers(p, bytes, e), NEW was \in Callbacks,
         Told(p, bytes, e, was)
  PROVE  \E q \in Parsers :
           /\ Buffers(q, bytes, e) /\ Told(q, bytes, e, was)
           /\ Process(p, end) = IF end THEN Drained(q) ELSE q
<1> DEFINE I == {q \in Parsers : Buffers(q, bytes, e) /\ Told(q, bytes, e, was)}
<1>1. ASSUME NEW q \in I PROVE Found(q, end) \in I
  <2>1. Found(q, end) \in Parsers /\ Suffix(q, Found(q, end))
    BY FoundFacts
  <2> QED
    BY <2>1, SuffixFits, FoundTold
<1>2. ASSUME NEW q \in I, ~Waits(q) PROVE Turn(q) \in I
  <2>1. Turn(q) \in Parsers /\ Suffix(q, Turn(q))
    BY <1>2, TurnFacts
  <2> QED
    BY <1>2, <2>1, SuffixFits, TurnTold
<1>3. Found(p, end) \in I
  BY <1>1
<1>4. \A q \in Parsers : q \in I /\ ~Waits(q) => Found(Turn(q), end) \in I
  BY <1>1, <1>2
<1>5. \E q \in Parsers :
        /\ q \in I /\ Waits(q)
        /\ Process(p, end) = IF end THEN Drained(q) ELSE q
  <2> HIDE DEF I
  <2> QED
    BY <1>3, <1>4, ProcessInvariant
<1> QED
  BY <1>5

LEMMA ProcessReaches ==
  ASSUME NEW p \in Parsers, NEW s \in Streams, NEW e \in 0 .. Len(s.bytes), Buffers(p, s.bytes, e),
         NEW was \in Callbacks, Told(p, s.bytes, e, was),
         NEW since, NEW done, Reaches(p, s, since, done)
  PROVE  LET q == Process(p, FALSE)
         IN  /\ q \in Parsers /\ Waits(q) /\ Resting(q)
             /\ Buffers(q, s.bytes, e) /\ Told(q, s.bytes, e, was) /\ Reaches(q, s, since, done)
<1> DEFINE I == {q \in Parsers : /\ Buffers(q, s.bytes, e) /\ Told(q, s.bytes, e, was)
                                 /\ Reaches(q, s, since, done)}
           J == {q \in I : Resting(q)}
<1>1. s.bytes \in Seq(Byte)
  BY StreamsAssumption
<1>2. ASSUME NEW q \in I PROVE Found(q, FALSE) \in J
  <2>1. Found(q, FALSE) \in Parsers /\ Suffix(q, Found(q, FALSE))
    BY FoundFacts
  <2>2. Buffers(Found(q, FALSE), s.bytes, e)
    BY <2>1, SuffixFits
  <2>3. Told(Found(q, FALSE), s.bytes, e, was)
    BY FoundTold
  <2>4. Reaches(Found(q, FALSE), s, since, done)
    BY FoundReaches
  <2> QED
    BY <2>1, <2>2, <2>3, <2>4, FoundRests
<1>3. ASSUME NEW q \in I, ~Waits(q) PROVE Turn(q) \in I
  <2>1. Turn(q) \in Parsers /\ Suffix(q, Turn(q))
    BY <1>3, TurnFacts
  <2>2. Buffers(Turn(q), s.bytes, e)
    BY <2>1, SuffixFits
  <2>3. Told(Turn(q), s.bytes, e, was)
    BY <1>1, <1>3, TurnTold
  <2>4. Reaches(Turn(q), s, since, done)
    BY <1>3, TurnReaches
  <2> QED
    BY <2>1, <2>2, <2>3, <2>4
<1>4. Found(p, FALSE) \in J
  BY <1>2
<1>5. \A q \in Parsers : q \in J /\ ~Waits(q) => Found(Turn(q), FALSE) \in J
  BY <1>2, <1>3
<1>6. \E q \in Parsers :
        /\ q \in J /\ Waits(q)
        /\ Process(p, FALSE) = IF FALSE THEN Drained(q) ELSE q
  <2> HIDE DEF J
  <2> QED
    BY <1>4, <1>5, ProcessInvariant
<1> QED
  BY <1>6

-----------------------------------------------------------------------------
(***************************************************************************)
(* Between two calls: the buffer is the input from the parser's offset on, *)
(* the parser waits for more of it, it is where the latest callback ended, *)
(* or past it, and the packets emitted since origin are those the input    *)
(* has, as far as nothing false hides them.                                *)
(***************************************************************************)
FramingInv ==
  /\ stream \in Streams /\ parser \in Parsers /\ pushed \in 0 .. Len(stream.bytes)
  /\ origin \in Nat /\ latest \in Callbacks
  /\ Buffers(parser, stream.bytes, pushed)
  /\ parser.sync => Waits(parser)
  /\ Resting(parser)
  /\ Upto(parser, latest)
  /\ Passed(stream, origin, packets, parser) /\ InStep(stream, packets, parser)

LEMMA QuietFacts ==
  ASSUME parser \in Parsers, stream \in Streams, latest \in Callbacks,
         Buffers(parser, stream.bytes, pushed), Upto(parser, latest)
  PROVE  /\ Quiet \in Parsers /\ Quiet.buffer = parser.buffer /\ Quiet.offset = parser.offset
         /\ Quiet.sync = parser.sync /\ Quiet.out = << >>
         /\ Buffers(Quiet, stream.bytes, pushed)
         /\ \A bytes, e : Told(Quiet, bytes, e, latest)
<1>1. Quiet = [parser EXCEPT !.out = << >>]
  BY DEF Quiet
<1>2. /\ Quiet \in Parsers /\ Quiet.buffer = parser.buffer /\ Quiet.offset = parser.offset
      /\ Quiet.sync = parser.sync /\ Quiet.out = << >>
  <2>1. << >> \in Seq(Events)
    OBVIOUS
  <2> QED
    BY <1>1, <2>1 DEF Parsers
<1>3. Buffers(Quiet, stream.bytes, pushed)
  BY <1>2 DEF Buffers
<1>4. ASSUME NEW bytes, NEW e PROVE Told(Quiet, bytes, e, latest)
  <2>1. LastOf(Quiet.out, latest) = latest
    BY <1>2 DEF LastOf
  <2>2. Ordered(Quiet.out, bytes, e, latest)
    BY <1>2 DEF Ordered
  <2>3. Upto(Quiet, latest)
    BY <1>2 DEF Upto
  <2> QED
    BY <2>1, <2>2, <2>3 DEF Told
<1> QED
  BY <1>2, <1>3, <1>4

(* The input a push appends.                                               *)
LEMMA JoinedFits ==
  ASSUME NEW p \in Parsers, NEW bytes \in Seq(Byte), NEW e \in Nat, NEW n \in Nat,
         e + n <= Len(bytes), Buffers(p, bytes, e)
  PROVE  LET data == SubSeq(bytes, e + 1, e + n)
         IN  data \in Seq(Byte) /\ Joined(p, data) \in Parsers /\ Buffers(Joined(p, data), bytes, e + n)
<1> DEFINE data == SubSeq(bytes, e + 1, e + n)
           q == Joined(p, data)
           b == Len(p.buffer)
           u == p.offset
<1>1. u \in Nat /\ b \in Nat /\ u + b = e /\ \A i \in 1 .. b : p.buffer[i] = bytes[u + i]
  BY DEF Buffers, Parsers
<1>2. /\ data \in Seq(Byte) /\ Len(data) = n
      /\ \A i \in 1 .. n : data[i] = bytes[e + i]
  <2>1. e + n \in e .. Len(bytes)
    OBVIOUS
  <2>2. /\ data \in Seq(Byte) /\ Len(data) = (e + n) - e
        /\ \A i \in 1 .. Len(data) : data[i] = bytes[e + i]
    BY <2>1, PartFacts
  <2>3. (e + n) - e = n
    OBVIOUS
  <2> HIDE DEF data
  <2> QED
    BY <2>2, <2>3
<1> HIDE DEF data
<1>3. /\ q \in Parsers /\ q.offset = u
      /\ Len(q.buffer) = b + n
      /\ \A i \in 1 .. b : q.buffer[i] = p.buffer[i]
      /\ \A i \in 1 .. n : q.buffer[b + i] = data[i]
  BY <1>2, JoinedFacts
<1> HIDE DEF q, u, b
<1>4. ASSUME NEW i \in 1 .. (b + n) PROVE q.buffer[i] = bytes[u + i]
  <2>1. CASE i <= b
    <3>1. i \in 1 .. b
      BY <1>1, <2>1
    <3> QED
      BY <1>1, <1>3, <3>1
  <2>2. CASE ~ (i <= b)
    <3>1. i - b \in 1 .. n /\ b + (i - b) = i /\ e + (i - b) = u + i
      BY <1>1, <2>2
    <3> QED
      BY <1>2, <1>3, <3>1
  <2> QED
    BY <2>1, <2>2
<1>5. q.offset + Len(q.buffer) = e + n
  BY <1>1, <1>3
<1>6. Buffers(q, bytes, e + n)
  BY <1>3, <1>4, <1>5 DEF Buffers
<1> QED
  BY <1>2, <1>3, <1>6 DEF data, q

(* A push processes what it is given.                                      *)
LEMMA PushProcesses ==
  ASSUME FramingInv, NEW n \in 1 .. Len(stream.bytes), Push(n)
  PROVE  /\ parser' = Process(Joined(Quiet, SubSeq(stream.bytes, pushed + 1, pushed + n)), FALSE)
         /\ pushed' \in 0 .. Len(stream.bytes) /\ stream' = stream /\ origin' = origin
         /\ parser' \in Parsers /\ Waits(parser') /\ Resting(parser')
         /\ Buffers(parser', stream.bytes, pushed')
         /\ Told(parser', stream.bytes, pushed', latest)
         /\ Reaches(parser', stream, origin, packets)
<1> DEFINE data == SubSeq(stream.bytes, pushed + 1, pushed + n)
           j == Joined(Quiet, data)
           e == pushed + n
<1>1. /\ stream \in Streams /\ parser \in Parsers /\ pushed \in 0 .. Len(stream.bytes)
      /\ latest \in Callbacks /\ Buffers(parser, stream.bytes, pushed) /\ Upto(parser, latest)
      /\ parser.sync => Waits(parser)
      /\ Passed(stream, origin, packets, parser) /\ InStep(stream, packets, parser)
  BY DEF FramingInv
<1>2. /\ e <= Len(stream.bytes) /\ pushed' = e /\ stream' = stream /\ origin' = origin
      /\ parser' = Pushed(Quiet, data)
  BY DEF Push
<1>3. stream.bytes \in Seq(Byte) /\ Len(stream.bytes) \in Nat /\ n \in Nat /\ pushed \in Nat
  BY <1>1, StreamsAssumption
<1>4. /\ Quiet \in Parsers /\ Quiet.buffer = parser.buffer /\ Quiet.offset = parser.offset
      /\ Quiet.sync = parser.sync /\ Quiet.out = << >>
      /\ Buffers(Quiet, stream.bytes, pushed)
      /\ Told(Quiet, stream.bytes, e, latest)
  BY <1>1, QuietFacts
<1>5. data \in Seq(Byte) /\ j \in Parsers /\ Buffers(j, stream.bytes, e)
  BY <1>2, <1>3, <1>4, JoinedFits
<1>6. j.offset = Quiet.offset /\ j.sync = Quiet.sync /\ j.out = Quiet.out
  BY <1>4, <1>5, JoinedFacts
<1>7. Quiet.sync => Waits(Quiet)
  <2>1. Waits(Quiet) <=> Waits(parser)
    BY <1>4 DEF Waits, FirstHeaderBad, FirstPacketSize
  <2> QED
    BY <1>1, <1>4, <2>1
<1>8. parser' = Process(j, FALSE)
  <2> HIDE DEF data
  <2> QED
    BY <1>2, <1>4, <1>5, <1>7, PushedIsProcessed
<1>9. Told(j, stream.bytes, e, latest)
  BY <1>4, <1>6 DEF Told, Ordered, Upto
<1>10. Reaches(j, stream, origin, packets)
  <2>1. j.out = << >> /\ Len(j.out) = 0
    BY <1>4, <1>6
  <2>2. Had(j, packets) = packets
    BY <2>1 DEF Had
  <2>3. j.offset = parser.offset /\ j.sync = parser.sync
    BY <1>4, <1>6
  <2> HIDE DEF j
  <2>4. Passed(stream, origin, packets, j) /\ InStep(stream, packets, j)
    BY <1>1, <2>3 DEF Passed, InStep, Front
  <2> QED
    BY <2>2, <2>4 DEF Reaches
<1>11. e \in 0 .. Len(stream.bytes)
  BY <1>2, <1>3
<1> HIDE DEF j, e
<1>12. /\ parser' \in Parsers /\ Waits(parser') /\ Resting(parser')
       /\ Buffers(parser', stream.bytes, e) /\ Told(parser', stream.bytes, e, latest)
       /\ Reaches(parser', stream, origin, packets)
  BY <1>1, <1>5, <1>8, <1>9, <1>10, <1>11, ProcessReaches
<1> QED
  BY <1>2, <1>8, <1>11, <1>12 DEF j

(* A flush leaves nothing, and reports what it finds.                      *)
LEMMA FlushDrains ==
  ASSUME FramingInv, Flush
  PROVE  /\ parser' \in Parsers /\ parser'.offset = pushed /\ Len(parser'.buffer) = 0
         /\ parser'.sync = FALSE
         /\ Ordered(parser'.out, stream.bytes, pushed, latest)
<1>1. /\ stream \in Streams /\ parser \in Parsers /\ pushed \in 0 .. Len(stream.bytes)
      /\ latest \in Callbacks /\ Buffers(parser, stream.bytes, pushed) /\ Upto(parser, latest)
  BY DEF FramingInv
<1>2. stream.bytes \in Seq(Byte)
  BY <1>1, StreamsAssumption
<1>3. /\ Quiet \in Parsers /\ Buffers(Quiet, stream.bytes, pushed)
      /\ Told(Quiet, stream.bytes, pushed, latest)
  BY <1>1, QuietFacts
<1>4. \E q \in Parsers :
        /\ Buffers(q, stream.bytes, pushed) /\ Told(q, stream.bytes, pushed, latest)
        /\ Process(Quiet, TRUE) = IF TRUE THEN Drained(q) ELSE q
  BY <1>1, <1>2, <1>3, ProcessTells
<1>5. PICK q \in Parsers :
        /\ Buffers(q, stream.bytes, pushed) /\ Told(q, stream.bytes, pushed, latest)
        /\ Process(Quiet, TRUE) = Drained(q)
  BY <1>4
<1> DEFINE d == Drained(q)
           N == Len(q.buffer)
<1>6. N \in Nat /\ q.offset \in Nat /\ q.offset + N = pushed
  BY <1>5 DEF Parsers, Buffers
<1>7. d \in Parsers /\ Suffix(q, d) /\ d.offset = q.offset + N /\ d.out = q.out
  <2>1. N \in 0 .. N
    BY <1>6
  <2> QED
    BY <2>1, ConsumeFacts DEF Drained
<1>8. parser' = [d EXCEPT !.sync = FALSE]
  BY <1>5 DEF Flush
<1> HIDE DEF d
<1>9. /\ parser' \in Parsers /\ parser'.offset = d.offset /\ parser'.buffer = d.buffer
      /\ parser'.sync = FALSE /\ parser'.out = d.out
  BY <1>7, <1>8 DEF Parsers
<1>10. Len(d.buffer) = 0
  <2>1. Len(d.buffer) \in Nat /\ d.offset + Len(d.buffer) = q.offset + N
    BY <1>7 DEF Suffix, Parsers
  <2> HIDE DEF N
  <2> QED
    BY <1>6, <1>7, <2>1
<1> QED
  BY <1>5, <1>6, <1>7, <1>9, <1>10 DEF Told

(* A parser without a byte.                                                *)
LEMMA EmptyFits ==
  ASSUME NEW p \in Parsers, Len(p.buffer) = 0, p.sync = FALSE, NEW s, NEW bytes
  PROVE  /\ Buffers(p, bytes, p.offset) /\ Resting(p) /\ Upto(p, NoEvent)
         /\ Passed(s, p.offset, {}, p) /\ InStep(s, {}, p)
<1>1. p.offset \in Nat /\ p.buffer \in Seq(Byte) /\ Len(p.buffer) <= 3
  BY DEF Parsers
<1>2. Buffers(p, bytes, p.offset)
  BY <1>1 DEF Buffers
<1>3. Resting(p)
  <2>1. Boundaries(p.buffer, FALSE) = {}
    BY <1>1, TooShort
  <2>2. Len(p.buffer) <= MaxResyncBuffer
    BY Limits
  <2> QED
    BY <2>1, <2>2 DEF Resting
<1>4. Upto(p, NoEvent)
  BY <1>1, EndFacts DEF Upto
<1> QED
  BY <1>2, <1>3, <1>4 DEF Late, Passed, InStep

LEMMA FramingStarts ==
  ASSUME FramingInit
  PROVE  FramingInv
<1>1. /\ stream \in Streams /\ parser = Parser(<< >>, 0, FALSE, << >>) /\ pushed = 0 /\ origin = 0
      /\ packets = {} /\ latest = NoEvent
  BY DEF FramingInit
<1>2. /\ parser \in Parsers /\ Len(parser.buffer) = 0 /\ parser.sync = FALSE /\ parser.offset = 0
  BY <1>1 DEF Parser, Parsers
<1>3. Len(stream.bytes) \in Nat
  BY <1>1, StreamsAssumption
<1>4. /\ Buffers(parser, stream.bytes, parser.offset) /\ Resting(parser) /\ Upto(parser, NoEvent)
      /\ Passed(stream, parser.offset, {}, parser) /\ InStep(stream, {}, parser)
  BY <1>2, EmptyFits
<1>5. pushed \in 0 .. Len(stream.bytes) /\ origin \in Nat
  BY <1>1, <1>3
<1>6. latest \in Callbacks
  BY <1>1, EndFacts
<1>7. Buffers(parser, stream.bytes, pushed) /\ Upto(parser, latest)
  BY <1>1, <1>2, <1>4
<1>8. Passed(stream, origin, packets, parser) /\ InStep(stream, packets, parser)
  BY <1>1, <1>2, <1>4
<1> QED
  BY <1>1, <1>2, <1>4, <1>5, <1>6, <1>7, <1>8 DEF FramingInv

LEMMA FramingStep ==
  ASSUME FramingInv, [FramingNext]_framingVars
  PROVE  FramingInv'
<1>1. stream \in Streams /\ stream.bytes \in Seq(Byte) /\ Len(stream.bytes) \in Nat
      /\ latest \in Callbacks
  BY StreamsAssumption DEF FramingInv
<1>2. ASSUME NEW n \in 1 .. Len(stream.bytes), Push(n) PROVE FramingInv'
  <2>1. /\ pushed' \in 0 .. Len(stream.bytes) /\ stream' = stream /\ origin' = origin
        /\ parser' \in Parsers /\ Waits(parser') /\ Resting(parser')
        /\ Buffers(parser', stream.bytes, pushed')
        /\ Told(parser', stream.bytes, pushed', latest)
        /\ Reaches(parser', stream, origin, packets)
    BY <1>2, PushProcesses
  <2>2. /\ packets' = packets \union {parser'.out[k].offset : k \in Emits(parser')}
        /\ latest' = IF parser'.out = << >> THEN latest ELSE parser'.out[Len(parser'.out)]
    BY <1>2 DEF Push
  <2>3. parser'.out \in Seq(Events)
    BY <2>1 DEF Parsers
  <2>4. latest' = LastOf(parser'.out, latest)
    BY <2>2 DEF LastOf
  <2>5. latest' \in Callbacks /\ Upto(parser', latest')
    BY <1>1, <2>1, <2>3, <2>4, LastFacts DEF Told
  <2>6. Had(parser', packets) = packets'
    <3>1. {j \in 1 .. Len(parser'.out) : parser'.out[j].kind = "packet"} = Emits(parser')
      BY <2>3 DEF Emits
    <3> QED
      BY <2>2, <3>1 DEF Had
  <2>7. Passed(stream', origin', packets', parser') /\ InStep(stream', packets', parser')
    BY <2>1, <2>6 DEF Reaches
  <2> QED
    BY <1>1, <2>1, <2>5, <2>7 DEF FramingInv
<1>3. ASSUME Flush PROVE FramingInv'
  <2>1. /\ parser' \in Parsers /\ parser'.offset = pushed /\ Len(parser'.buffer) = 0
        /\ parser'.sync = FALSE
    BY <1>3, FlushDrains
  <2>2. /\ origin' = pushed /\ packets' = {} /\ latest' = NoEvent /\ stream' = stream
        /\ pushed' = pushed /\ pushed \in 0 .. Len(stream.bytes)
    BY <1>3 DEF Flush, FramingInv
  <2>3. /\ Buffers(parser', stream.bytes, parser'.offset) /\ Resting(parser') /\ Upto(parser', NoEvent)
        /\ Passed(stream, parser'.offset, {}, parser') /\ InStep(stream, {}, parser')
    BY <2>1, EmptyFits
  <2> QED
    BY <1>1, <2>1, <2>2, <2>3, EndFacts DEF FramingInv
<1>4. ASSUME NEW o \in 0 .. Len(stream.bytes), ParserReset(o) PROVE FramingInv'
  <2>1. /\ parser' = Parser(<< >>, o, FALSE, << >>) /\ pushed' = o /\ origin' = o /\ packets' = {}
        /\ latest' = NoEvent /\ stream' = stream
    BY <1>4 DEF ParserReset
  <2>2. /\ parser' \in Parsers /\ Len(parser'.buffer) = 0 /\ parser'.sync = FALSE
        /\ parser'.offset = o
    BY <1>1, <2>1 DEF Parser, Parsers
  <2>3. /\ Buffers(parser', stream.bytes, parser'.offset) /\ Resting(parser') /\ Upto(parser', NoEvent)
        /\ Passed(stream, parser'.offset, {}, parser') /\ InStep(stream, {}, parser')
    BY <2>2, EmptyFits
  <2>4. pushed' \in 0 .. Len(stream.bytes) /\ origin' \in Nat
    BY <1>1, <2>1
  <2>5. latest' \in Callbacks
    BY <2>1, EndFacts
  <2>6. Buffers(parser', stream.bytes, pushed') /\ Upto(parser', latest')
    BY <2>1, <2>2, <2>3
  <2>7. Passed(stream', origin', packets', parser') /\ InStep(stream', packets', parser')
    BY <2>1, <2>2, <2>3
  <2> QED
    BY <1>1, <2>1, <2>2, <2>3, <2>4, <2>5, <2>6, <2>7 DEF FramingInv
<1>5. ASSUME UNCHANGED framingVars PROVE FramingInv'
  <2>1. /\ stream' = stream /\ parser' = parser /\ pushed' = pushed /\ origin' = origin
        /\ packets' = packets /\ latest' = latest
    BY <1>5 DEF framingVars
  <2> QED
    BY <2>1 DEF FramingInv
<1> QED
  BY <1>2, <1>3, <1>4, <1>5 DEF FramingNext

(* FramingInv holds in every reachable state, for every input and limits.  *)
THEOREM FramingInvariant == FramingSpec => []FramingInv
<1>1. FramingInit => FramingInv
  BY FramingStarts
<1>2. FramingInv /\ [FramingNext]_framingVars => FramingInv'
  BY FramingStep
<1> QED
  BY <1>1, <1>2, PTL DEF FramingSpec

LEMMA MaxFacts ==
  ASSUME NEW a \in Nat, NEW b \in Nat
  PROVE  Max({a, b}) \in Nat /\ Max({a, b}) >= a /\ Max({a, b}) >= b
<1>1. \E x \in {a, b} : \A y \in {a, b} : x >= y
  <2>1. CASE a >= b
    BY <2>1
  <2>2. CASE b >= a
    BY <2>2
  <2> QED
    BY <2>1, <2>2
<1>2. Max({a, b}) \in {a, b} /\ \A y \in {a, b} : Max({a, b}) >= y
  BY <1>1, Zenon DEF Max
<1> QED
  BY <1>2

(* Whoever waits lacks a part of one packet.                               *)
LEMMA WaitingIsShort ==
  ASSUME NEW p \in Parsers, p.sync, Waits(p)
  PROVE  Len(p.buffer) <= 4 + MaxTlvPayload - 1
<1>1. Len(p.buffer) \in Nat /\ p.buffer \in Seq(Byte) /\ MaxTlvPayload \in Nat
  BY Limits DEF Parsers
<1>2. CASE Len(p.buffer) < 4
  BY <1>1, <1>2
<1>3. CASE Len(p.buffer) >= 4
  <2> DEFINE size == PayloadSize(p.buffer, 1)
  <2>1. size \in Nat
    <3>1. 1 \in 1 .. Len(p.buffer) /\ 1 + 3 <= Len(p.buffer)
      BY <1>1, <1>3
    <3> QED
      BY <1>1, <3>1, HeaderFacts
  <2>2. ~FirstHeaderBad(p) /\ Len(p.buffer) < 4 + size
    BY <1>1, <1>3 DEF Waits, HeaderSize, FirstPacketSize
  <2>3. ~ (size > MaxTlvPayload)
    BY <2>2 DEF FirstHeaderBad
  <2> HIDE DEF size
  <2> QED
    BY <1>1, <2>1, <2>2, <2>3
<1> QED
  BY <1>1, <1>2, <1>3

LEMMA InvAccounts ==
  ASSUME FramingInv
  PROVE  Accounted
<1> DEFINE n == Len(parser.buffer)
           u == parser.offset
           part == SubSeq(stream.bytes, u + 1, pushed)
<1>1. /\ parser \in Parsers /\ stream.bytes \in Seq(Byte) /\ pushed \in 0 .. Len(stream.bytes)
      /\ Buffers(parser, stream.bytes, pushed) /\ Resting(parser)
      /\ parser.sync => Waits(parser)
  BY StreamsAssumption DEF FramingInv
<1>2. /\ n \in Nat /\ u \in Nat /\ parser.buffer \in Seq(Byte) /\ u + n = pushed
      /\ \A i \in 1 .. n : parser.buffer[i] = stream.bytes[u + i]
  BY <1>1 DEF Parsers, Buffers
<1> HIDE DEF n, u
<1>3. pushed \in u .. Len(stream.bytes)
  BY <1>1, <1>2
<1>4. /\ part \in Seq(Byte) /\ Len(part) = pushed - u
      /\ \A i \in 1 .. Len(part) : part[i] = stream.bytes[u + i]
  BY <1>1, <1>2, <1>3, PartFacts
<1>5. Len(part) = n
  BY <1>1, <1>2, <1>4
<1> HIDE DEF part
<1>6. parser.buffer = part
  BY <1>2, <1>4, <1>5, SameBytes DEF n
<1>7. n <= IF parser.sync THEN HeaderSize + MaxTlvPayload - 1 ELSE Max({MaxResyncBuffer, HeaderSize - 1})
  <2>1. CASE parser.sync
    BY <1>1, <2>1, WaitingIsShort DEF n, HeaderSize
  <2>2. CASE ~parser.sync
    <3>1. n <= MaxResyncBuffer /\ MaxResyncBuffer \in Nat
      BY <1>1, <2>2, Limits DEF Resting, n
    <3>2. HeaderSize - 1 \in Nat
      BY DEF HeaderSize
    <3>3. Max({MaxResyncBuffer, HeaderSize - 1}) \in Nat
          /\ Max({MaxResyncBuffer, HeaderSize - 1}) >= MaxResyncBuffer
      BY <3>1, <3>2, MaxFacts
    <3> QED
      BY <1>2, <2>2, <3>1, <3>3
  <2> QED
    BY <2>1, <2>2
<1> QED
  BY <1>2, <1>6, <1>7 DEF Accounted, n, u, part

(* Nothing whole stays in front: what is there waits for something false.  *)
LEMMA FrontIsFalse ==
  ASSUME FramingInv, NEW o \in Starts(stream), parser.offset <= o,
         PacketEnd(stream.bytes, o) + 4 <= pushed
  PROVE  /\ parser.sync /\ parser.offset \in FalsePackets(stream)
         /\ Overlap(stream.bytes, parser.offset, o)
<1>1. /\ stream \in Streams /\ parser \in Parsers /\ stream.bytes \in Seq(Byte)
      /\ pushed \in 0 .. Len(stream.bytes) /\ Len(stream.bytes) \in Nat
      /\ Buffers(parser, stream.bytes, pushed) /\ Resting(parser)
      /\ parser.sync => Waits(parser)
  BY StreamsAssumption DEF FramingInv
<1> DEFINE u == parser.offset
           n == Len(parser.buffer)
           M == MaxTlvPayload
           next == PacketEnd(stream.bytes, o)
           size == PayloadSize(stream.bytes, o + 1)
           ours == PayloadSize(parser.buffer, 1)
<1>2. u \in Nat /\ n \in Nat /\ u + n = pushed
  BY <1>1 DEF Parsers, Buffers
<1>3. o \in Nat /\ size \in Nat /\ next = o + 4 + size
  BY <1>1, StartFacts
<1>4. M \in Nat
  BY Limits
<1>5. parser.sync
  <2> SUFFICES ASSUME ~parser.sync PROVE FALSE
    OBVIOUS
  <2>1. Boundaries(parser.buffer, FALSE) = {}
    BY <1>1 DEF Resting
  <2>2. (o - u) + 1 \in Boundaries(parser.buffer, FALSE)
    BY <1>1, StartIsBoundary
  <2> QED
    BY <2>1, <2>2
<1>6. u <= o /\ next + 4 <= pushed
  OBVIOUS
<1>7. n >= 4
  <2> HIDE DEF n, u, next, size
  <2> QED
    BY <1>1, <1>2, <1>3, <1>6
<1>8. 1 \in 1 .. n /\ 1 + 3 <= n
  BY <1>2, <1>7
<1>9. ours \in Nat
  BY <1>1, <1>8, HeaderFacts DEF Parsers
<1>10. ~FirstHeaderBad(parser) /\ n < 4 + ours
  BY <1>1, <1>2, <1>5, <1>7 DEF Waits, HeaderSize, FirstPacketSize
<1>11. parser.buffer[1] = SyncByte /\ ours <= M
  BY <1>4, <1>9, <1>10 DEF FirstHeaderBad
<1>12. parser.buffer[1] = stream.bytes[u + 1] /\ ours = PayloadSize(stream.bytes, u + 1)
  BY <1>1, <1>8, HeaderRead
<1>13. u + 4 <= Len(stream.bytes)
  <2> HIDE DEF n, u, next, size, ours
  <2> QED
    BY <1>1, <1>2, <1>7
<1>14. /\ PacketEnd(stream.bytes, u) = u + 4 + ours
       /\ u \in Starts(stream) \/ u \in FalsePackets(stream)
  BY <1>1, <1>2, <1>11, <1>12, <1>13, TrueOrFalse
<1>15. o < u + 4 + ours /\ u < next
  <2> HIDE DEF n, u, next, size, ours
  <2> QED
    BY <1>1, <1>2, <1>3, <1>6, <1>9, <1>10
<1>16. u \notin Starts(stream)
  <2> SUFFICES ASSUME u \in Starts(stream) PROVE FALSE
    OBVIOUS
  <2>1. CASE u = o
    <3>1. ours = size
      BY <1>12, <2>1
    <3> HIDE DEF n, u, next, size, ours
    <3> QED
      BY <1>1, <1>2, <1>3, <1>6, <1>9, <1>10, <2>1, <3>1
  <2>2. CASE u < o
    <3>1. PacketEnd(stream.bytes, u) <= o
      BY <1>1, <2>2, StartFacts
    <3> HIDE DEF n, u, next, size, ours
    <3> QED
      BY <1>2, <1>3, <1>9, <1>14, <1>15, <3>1
  <2> HIDE DEF u
  <2> QED
    BY <1>2, <1>3, <1>6, <2>1, <2>2
<1> QED
  BY <1>5, <1>14, <1>15, <1>16 DEF Overlap

(* What is due was emitted, unless something false hides it.               *)
LEMMA InvRecovers ==
  ASSUME FramingInv
  PROVE  LosesOnlyToFalsePackets
<1>1. /\ stream \in Streams
      /\ Passed(stream, origin, packets, parser) /\ InStep(stream, packets, parser)
  BY DEF FramingInv
<1> SUFFICES ASSUME NEW o \in Starts(stream), o > stream.clean, o >= origin,
                    PacketEnd(stream.bytes, o) + HeaderSize <= pushed, o \notin packets
             PROVE  /\ \E f \in Taken \cap FalsePackets(stream) : Overlap(stream.bytes, f, o)
                    /\ \A found \in packets \cap Starts(stream) : o < found
  BY DEF LosesOnlyToFalsePackets
<1>2. Taken = packets \cup Front(parser)
  BY DEF Taken, Front
<1>3. PacketEnd(stream.bytes, o) + 4 <= pushed
  BY DEF HeaderSize
<1>4. ASSUME parser.offset <= o
      PROVE  /\ parser.offset \in Front(parser) /\ parser.offset \in FalsePackets(stream)
             /\ Overlap(stream.bytes, parser.offset, o)
  BY <1>3, <1>4, FrontIsFalse DEF Front
<1>5. \E f \in Taken \cap FalsePackets(stream) : Overlap(stream.bytes, f, o)
  <2>1. CASE parser.offset <= o
    BY <1>2, <1>4, <2>1
  <2>2. CASE Hidden(stream, o, packets \cup Front(parser))
    BY <1>2, <2>2 DEF Hidden
  <2>3. o \in Late(stream, origin)
    BY DEF Late
  <2> QED
    BY <1>1, <2>1, <2>2, <2>3 DEF Passed
<1>6. ASSUME NEW found \in packets \cap Starts(stream) PROVE o < found
  <2>1. found \in Nat /\ o \in Nat /\ found # o
    BY <1>1, StartFacts
  <2> SUFFICES ASSUME found < o PROVE FALSE
    BY <2>1
  <2>2. parser.offset <= o
    BY <1>1 DEF InStep
  <2>3. parser.offset \in FalsePackets(stream)
    BY <1>4, <2>2
  <2>4. parser.offset \in Starts(stream) \cup {Len(stream.bytes)}
    BY <1>1 DEF InStep
  <2>5. parser.offset = Len(stream.bytes)
    BY <2>3, <2>4 DEF FalsePackets
  <2>6. parser.offset \in Nat /\ parser.offset + 4 <= Len(stream.bytes)
    BY <1>1, <2>3, FalseFacts
  <2> QED
    BY <2>5, <2>6
<1> QED
  BY <1>5, <1>6

(***************************************************************************)
(* Whatever the input holds, its payloads and lengths included, and        *)
(* however it is cut, flushed and repositioned: the buffer is the input    *)
(* from the parser's offset on and stays below its limit, and a packet     *)
(* behind the garbage, but for the first, is lost only to something false  *)
(* taken for a packet, and none is once one has been found (push, flush    *)
(* and process of tlv_parser.cpp).                                         *)
(***************************************************************************)
THEOREM RecoveryIsBounded == FramingSpec => []BoundedRecovery
<1>1. FramingInv => BoundedRecovery
  BY InvAccounts, InvRecovers DEF BoundedRecovery
<1> QED
  BY <1>1, FramingInvariant, PTL

(* Where payloads have nothing that looks like a packet, every packet that *)
(* starts later than one maximal packet after the garbage is emitted.      *)
RecoversAfterOnePacket ==
  \A o \in Starts(stream) :
    /\ \A f \in FalsePackets(stream) : f < stream.clean
    /\ o >= stream.clean + HeaderSize + MaxTlvPayload /\ o >= origin
    /\ PacketEnd(stream.bytes, o) + HeaderSize <= pushed
    => o \in packets

(* The bound in bytes that follows where payloads do not mislead.          *)
THEOREM OnePacketIsEnough == FramingSpec => []RecoversAfterOnePacket
<1>1. FramingInv => RecoversAfterOnePacket
  <2> SUFFICES ASSUME FramingInv, NEW o \in Starts(stream),
                      \A f \in FalsePackets(stream) : f < stream.clean,
                      o >= stream.clean + HeaderSize + MaxTlvPayload, o >= origin,
                      PacketEnd(stream.bytes, o) + HeaderSize <= pushed
               PROVE  o \in packets
    BY DEF RecoversAfterOnePacket
  <2>1. stream \in Streams
    BY DEF FramingInv
  <2>2. /\ o \in Nat /\ stream.clean \in Nat /\ MaxTlvPayload \in Nat
        /\ o >= stream.clean + 4 + MaxTlvPayload
    BY <2>1, StartFacts, Limits DEF HeaderSize
  <2>3. o > stream.clean
    BY <2>2
  <2>4. o \in packets \/ \E f \in Taken \cap FalsePackets(stream) : Overlap(stream.bytes, f, o)
    BY <2>3, InvRecovers DEF LosesOnlyToFalsePackets
  <2>5. ASSUME NEW f \in FalsePackets(stream) PROVE ~Overlap(stream.bytes, f, o)
    <3> DEFINE size == PayloadSize(stream.bytes, f + 1)
    <3>1. /\ f \in Nat /\ f < stream.clean /\ size \in Nat /\ size <= MaxTlvPayload
          /\ PacketEnd(stream.bytes, f) = f + 4 + size
      BY <2>1, <2>5, FalseFacts
    <3> HIDE DEF size
    <3>2. ~ (o < PacketEnd(stream.bytes, f))
      BY <2>2, <3>1
    <3> QED
      BY <3>2 DEF Overlap
  <2> QED
    BY <2>4, <2>5
<1> QED
  BY <1>1, FramingInvariant, PTL

LEMMA StepOrders ==
  ASSUME FramingInv, [FramingNext]_framingVars, framingVars' # framingVars
  PROVE  stream' = stream /\ Ordered(parser'.out, stream.bytes, pushed', latest)
<1>1. ASSUME NEW n \in 1 .. Len(stream.bytes), Push(n)
      PROVE  stream' = stream /\ Ordered(parser'.out, stream.bytes, pushed', latest)
  BY <1>1, PushProcesses DEF Told
<1>2. ASSUME Flush
      PROVE  stream' = stream /\ Ordered(parser'.out, stream.bytes, pushed', latest)
  <2>1. stream' = stream /\ pushed' = pushed
    BY <1>2 DEF Flush
  <2> QED
    BY <1>2, <2>1, FlushDrains
<1>3. ASSUME NEW o \in 0 .. Len(stream.bytes), ParserReset(o)
      PROVE  stream' = stream /\ Ordered(parser'.out, stream.bytes, pushed', latest)
  <2>1. stream' = stream /\ parser'.out = << >>
    BY <1>3 DEF ParserReset, Parser
  <2> QED
    BY <2>1 DEF Ordered
<1> QED
  BY <1>1, <1>2, <1>3 DEF FramingNext

(***************************************************************************)
(* Every packet the parser reports is one of the input, and starts where   *)
(* the one before it ended, or after a resync.                             *)
(***************************************************************************)
THEOREM PacketsFollow == FramingSpec => PacketsInOrder
<1> DEFINE Told1(k) ==
      LET e == parser'.out[k]
      IN  /\ stream.bytes[e.offset + 1] = SyncByte
          /\ stream.bytes[e.offset + 2] = e.type
          /\ e.size = PayloadSize(stream.bytes, e.offset + 1)
          /\ e.size <= MaxTlvPayload
          /\ EndOf(e) <= pushed'
          /\ e.offset >= EndOf(Before(k))
          /\ Before(k).kind = "packet" => e.offset = EndOf(Before(k))
<1>1. FramingInv /\ FramingInv' /\ [FramingNext]_framingVars
        => [\A k \in Emits(parser') : Told1(k)]_framingVars
  <2> SUFFICES ASSUME FramingInv, FramingInv', [FramingNext]_framingVars,
                      framingVars' # framingVars, NEW k \in Emits(parser')
               PROVE  Told1(k)
    BY DEF Told1
  <2>1. Ordered(parser'.out, stream.bytes, pushed', latest)
    BY StepOrders
  <2>2. k \in 1 .. Len(parser'.out) /\ parser'.out[k].kind = "packet"
    <3>1. parser'.out \in Seq(Events)
      BY DEF FramingInv, Parsers
    <3> QED
      BY <3>1 DEF Emits
  <2>3. /\ Genuine(parser'.out[k], stream.bytes, pushed')
        /\ Follows(parser'.out[k], Before(k))
    BY <2>1, <2>2 DEF Ordered, Before
  <2> QED
    BY <2>3 DEF Genuine, Follows
<1> QED
  BY <1>1, FramingInvariant, PTL DEF FramingSpec, PacketsInOrder, Told1

(***************************************************************************)
(* The zero-copy paths change nothing: completing a packet across a push   *)
(* boundary and lending packets out of the input report what appending     *)
(* every push to the buffer would have, and leave the same parser.         *)
(***************************************************************************)
THEOREM CopiesNothingAway == FramingSpec => Refinement
<1>1. FramingInit => Reference!Init
  BY DEF FramingInit, Reference!Init, Reference!Parser, Parser
<1>2. FramingInv /\ [FramingNext]_framingVars => [Reference!Next]_(Reference!bufvars)
  <2> SUFFICES ASSUME FramingInv, [FramingNext]_framingVars
               PROVE  [Reference!Next]_(Reference!bufvars)
    OBVIOUS
  <2>1. ASSUME NEW n \in 1 .. Len(stream.bytes), Push(n) PROVE Reference!Push(n)
    <3>1. parser' = Process(Joined(Quiet, SubSeq(stream.bytes, pushed + 1, pushed + n)), FALSE)
      BY <2>1, PushProcesses
    <3>2. parser' = Reference!Process(Reference!Joined(Reference!Quiet, Reference!Fed(n)), FALSE)
      BY <3>1, SameProcess, SameReference DEF Reference!Fed
    <3>3. pushed + n <= Len(stream.bytes) /\ pushed' = pushed + n /\ stream' = stream
      BY <2>1 DEF Push
    <3> QED
      BY <3>2, <3>3 DEF Reference!Push
  <2>2. ASSUME Flush PROVE Reference!Flush
    BY <2>2, SameProcess, SameReference DEF Flush, Reference!Flush
  <2>3. ASSUME NEW o \in 0 .. Len(stream.bytes), ParserReset(o) PROVE Reference!Reset(o)
    BY <2>3 DEF ParserReset, Reference!Reset, Reference!Parser, Parser
  <2>4. ASSUME UNCHANGED framingVars PROVE UNCHANGED Reference!bufvars
    BY <2>4 DEF framingVars, Reference!bufvars
  <2> QED
    BY <2>1, <2>2, <2>3, <2>4 DEF FramingNext, Reference!Next
<1> QED
  BY <1>1, <1>2, FramingInvariant, PTL DEF FramingSpec, Refinement, Reference!Spec

===============================================================================
