-------------------------- MODULE VideoTrack_proofs --------------------------
(***************************************************************************)
(* Proofs about VideoTrack, for every stream, every limit and every walk   *)
(* of the channel over the stream.                                         *)
(***************************************************************************)
EXTENDS VideoTrack, MfuAssembler_proofs, FiniteSetTheorems

-----------------------------------------------------------------------------
(* The stream and its places.                                              *)
LEMMA StreamFacts ==
  ASSUME NEW i \in DOMAIN Stream
  PROVE  /\ i \in Nat /\ i >= 1 /\ i <= Len(Stream) /\ Len(Stream) \in Nat
         /\ Stream[i] \in Packet
         /\ Stream[i].units \in Seq(UnitRecord)
         /\ Len(Stream[i].units) \in Nat
         /\ DOMAIN Stream[i].units = 1 .. Len(Stream[i].units)
         /\ ~Stream[i].aggregation => Len(Stream[i].units) = 1
         /\ Stream[i].fragmentation \in Fragmentation
         /\ Stream[i].mpu \in MPU /\ Stream[i].mpu \in Nat
<1>1. Stream \in Seq(Packet)
  BY StreamAssumption
<1>2. i \in Nat /\ i >= 1 /\ i <= Len(Stream) /\ Len(Stream) \in Nat /\ Stream[i] \in Packet
  BY <1>1
<1>3. Stream[i].units \in Seq(UnitRecord) /\ Stream[i].mpu \in MPU
      /\ Stream[i].fragmentation \in Fragmentation
  BY <1>2 DEF Packet
<1>4. Stream[i].mpu \in Nat
  BY <1>3, AccessUnitsAssumption
<1>5. Len(Stream[i].units) \in Nat /\ DOMAIN Stream[i].units = 1 .. Len(Stream[i].units)
  BY <1>3, LenProperties
<1>6. ~Stream[i].aggregation => Len(Stream[i].units) = 1
  BY StreamAssumption, Zenon
<1> QED
  BY <1>2, <1>3, <1>4, <1>5, <1>6

LEMMA PlaceFacts ==
  ASSUME NEW i \in DOMAIN Stream, NEW k \in DOMAIN Stream[i].units
  PROVE  /\ << i, k >> \in Position
         /\ UnitAt(<< i, k >>) = Stream[i].units[k]
         /\ UnitAt(<< i, k >>) \in UnitRecord
         /\ MpuOf(<< i, k >>) = Stream[i].mpu
         /\ SampleOf(<< i, k >>) = Stream[i].units[k].sample
         /\ SampleOf(<< i, k >>) \in Nat
<1>1. << i, k >> \in Position
  BY DEF Position
<1>2. Stream[i].units[k] \in UnitRecord
  BY StreamFacts, ElementOfSeq
<1> QED
  BY <1>1, <1>2 DEF UnitAt, MpuOf, SampleOf, UnitRecord

LEMMA PositionFacts ==
  ASSUME NEW x \in Position
  PROVE  /\ x = << x[1], x[2] >>
         /\ x[1] \in DOMAIN Stream /\ x[2] \in DOMAIN Stream[x[1]].units
         /\ x[1] \in Nat /\ x[1] >= 1 /\ x[2] \in Nat /\ x[2] >= 1
         /\ UnitAt(x) \in UnitRecord
         /\ MpuOf(x) \in MPU /\ MpuOf(x) \in Nat
         /\ SampleOf(x) \in Nat
<1>1. PICK i \in DOMAIN Stream : x \in {i} \X DOMAIN Stream[i].units
  BY DEF Position
<1>2. x = << x[1], x[2] >> /\ x[1] = i /\ x[2] \in DOMAIN Stream[i].units
  BY <1>1
<1>3. /\ UnitAt(<< i, x[2] >>) \in UnitRecord
      /\ MpuOf(<< i, x[2] >>) = Stream[i].mpu
      /\ SampleOf(<< i, x[2] >>) \in Nat
  BY <1>2, PlaceFacts
<1>4. /\ i \in Nat /\ i >= 1 /\ x[2] \in Nat /\ x[2] >= 1
      /\ Stream[i].mpu \in MPU /\ Stream[i].mpu \in Nat
  BY <1>2, StreamFacts
<1> QED
  BY <1>2, <1>3, <1>4

(* The place behind another one, in the packet or in the next packet.      *)
LEMMA FollowsWithin ==
  ASSUME NEW i \in DOMAIN Stream, NEW k \in DOMAIN Stream[i].units,
         k + 1 \in DOMAIN Stream[i].units
  PROVE  << i, k + 1 >> \in Following[<< i, k >>]
<1>1. << i, k >> \in Position /\ << i, k + 1 >> \in Position
  BY PlaceFacts
<1>2. i \in Nat /\ k \in Nat
  BY StreamFacts
<1>3. Before(<< i, k >>, << i, k + 1 >>)
  BY <1>2 DEF Before
<1>4. ASSUME NEW z \in Position, Before(<< i, k >>, z), Before(z, << i, k + 1 >>)
      PROVE  FALSE
  <2>1. z[1] \in Nat /\ z[2] \in Nat
    BY PositionFacts
  <2> QED
    BY <1>2, <1>4, <2>1 DEF Before
<1> QED
  BY <1>1, <1>3, <1>4 DEF Following

LEMMA FollowsAcross ==
  ASSUME NEW i \in DOMAIN Stream, i + 1 \in DOMAIN Stream,
         Stream[i].units # << >>, 1 \in DOMAIN Stream[i + 1].units
  PROVE  << i, Len(Stream[i].units) >> \in Position
         /\ << i + 1, 1 >> \in Following[<< i, Len(Stream[i].units) >>]
<1> DEFINE n == Len(Stream[i].units)
<1>1. i \in Nat /\ n \in Nat /\ DOMAIN Stream[i].units = 1 .. n
      /\ Stream[i].units \in Seq(UnitRecord)
  BY StreamFacts
<1>2. n # 0
  BY <1>1, EmptySeq
<1>3. n \in DOMAIN Stream[i].units
  BY <1>1, <1>2
<1>4. << i, n >> \in Position /\ << i + 1, 1 >> \in Position
  BY <1>3, PlaceFacts
<1>5. Before(<< i, n >>, << i + 1, 1 >>)
  BY <1>1 DEF Before
<1>6. ASSUME NEW z \in Position, Before(<< i, n >>, z), Before(z, << i + 1, 1 >>)
      PROVE  FALSE
  <2>1. /\ z[1] \in Nat /\ z[2] \in Nat /\ z[2] >= 1
        /\ z[1] \in DOMAIN Stream /\ z[2] \in DOMAIN Stream[z[1]].units
    BY PositionFacts
  <2>2. CASE z[1] = i
    <3>1. z[2] <= n
      BY <2>1, <2>2, <1>1
    <3> QED
      BY <1>1, <1>6, <2>1, <2>2, <3>1 DEF Before
  <2>3. CASE z[1] # i
    BY <1>1, <1>6, <2>1, <2>3 DEF Before
  <2> QED
    BY <2>2, <2>3
<1> HIDE DEF n
<1>7. << i + 1, 1 >> \in Following[<< i, n >>]
  BY <1>4, <1>5, <1>6 DEF Following
<1> QED
  BY <1>4, <1>7 DEF n

-----------------------------------------------------------------------------
(* Runs of the stream.                                                     *)
LEMMA EndsAtAppend ==
  ASSUME NEW parts \in Seq(Position), NEW x \in Position, NEW e,
         parts # << >> => EndsAt(parts, e) /\ x \in Following[e]
  PROVE  Append(parts, x) \in Seq(Position) /\ EndsAt(Append(parts, x), x)
<1> DEFINE s == Append(parts, x)
           n == Len(parts)
<1>1. /\ s \in Seq(Position) /\ Len(s) = n + 1 /\ n \in Nat
      /\ \A j \in 1 .. n : s[j] = parts[j]
      /\ s[n + 1] = x
  BY AppendProperties, LenProperties
<1>2. n = 0 <=> parts = << >>
  BY EmptySeq
<1> HIDE DEF s, n
<1>3. s # << >> /\ s[Len(s)] = x
  BY <1>1
<1>4. Contiguous(s)
  <2> SUFFICES ASSUME NEW j \in 1 .. (Len(s) - 1)
               PROVE  s[j + 1] \in Following[s[j]]
    BY DEF Contiguous
  <2>1. j \in 1 .. n
    BY <1>1
  <2>2. parts # << >> /\ EndsAt(parts, e) /\ x \in Following[e]
    BY <1>1, <1>2, <2>1
  <2>3. CASE j = n
    BY <1>1, <2>1, <2>2, <2>3 DEF EndsAt, n
  <2>4. CASE j # n
    <3>1. j \in 1 .. (n - 1) /\ j + 1 \in 1 .. n
      BY <1>1, <2>1, <2>4
    <3>2. parts[j + 1] \in Following[parts[j]]
      BY <2>2, <3>1 DEF EndsAt, Contiguous, n
    <3> QED
      BY <1>1, <2>1, <3>1, <3>2
  <2> QED
    BY <2>3, <2>4
<1> QED
  BY <1>1, <1>3, <1>4 DEF EndsAt, s

LEMMA EndsAtSplit ==
  ASSUME NEW p \in Seq(Position), NEW q \in Seq(Position), NEW e, EndsAt(p \o q, e)
  PROVE  /\ Contiguous(p)
         /\ q # << >> => EndsAt(q, e)
<1> DEFINE s == p \o q
           n == Len(p)
           m == Len(q)
<1>1. /\ n \in Nat /\ m \in Nat /\ Len(s) = n + m
      /\ \A j \in 1 .. (n + m) : s[j] = IF j <= n THEN p[j] ELSE q[j - n]
  BY ConcatProperties, LenProperties
<1>2. s[Len(s)] = e /\ \A j \in 1 .. (Len(s) - 1) : s[j + 1] \in Following[s[j]]
  BY DEF EndsAt, Contiguous
<1>3. m = 0 <=> q = << >>
  BY EmptySeq
<1> HIDE DEF s, n, m
<1>4. Contiguous(p)
  <2> SUFFICES ASSUME NEW j \in 1 .. (n - 1)
               PROVE  p[j + 1] \in Following[p[j]]
    BY DEF Contiguous, n
  <2>1. s[j] = p[j] /\ s[j + 1] = p[j + 1] /\ j \in 1 .. (Len(s) - 1)
    BY <1>1
  <2> QED
    BY <1>2, <2>1
<1>5. ASSUME q # << >>
      PROVE  EndsAt(q, e)
  <2>1. m >= 1
    BY <1>1, <1>3, <1>5
  <2>2. q[m] = e
    <3>1. n + m \in 1 .. (n + m) /\ ~(n + m <= n) /\ (n + m) - n = m
      BY <1>1, <2>1
    <3> QED
      BY <1>1, <1>2, <3>1
  <2>3. Contiguous(q)
    <3> SUFFICES ASSUME NEW j \in 1 .. (m - 1)
                 PROVE  q[j + 1] \in Following[q[j]]
      BY DEF Contiguous, m
    <3>1. /\ n + j \in 1 .. (n + m) /\ n + j + 1 \in 1 .. (n + m)
          /\ ~(n + j <= n) /\ ~(n + j + 1 <= n)
          /\ (n + j) - n = j /\ (n + j + 1) - n = j + 1
          /\ n + j \in 1 .. (Len(s) - 1)
      BY <1>1
    <3>2. s[n + j] = q[j] /\ s[n + j + 1] = q[j + 1]
      BY <1>1, <3>1
    <3>3. s[n + j + 1] \in Following[s[n + j]]
      BY <1>2, <3>1
    <3> QED
      BY <3>2, <3>3
  <2> QED
    BY <1>5, <2>2, <2>3 DEF EndsAt, m
<1> QED
  BY <1>4, <1>5

-----------------------------------------------------------------------------
(* Changes of one field of a track.                                        *)
LEMMA MarkedFacts ==
  ASSUME NEW t \in Tracks
  PROVE  /\ Marked(t) \in Tracks
         /\ Marked(t).discontinuity = TRUE
         /\ Marked(t).media = t.media /\ Marked(t).pending = t.pending
         /\ Marked(t).skipping = t.skipping /\ Marked(t).wait = t.wait
         /\ Marked(t).mpu = t.mpu /\ Marked(t).index = t.index
         /\ Marked(t).lastDts = t.lastDts /\ Marked(t).out = t.out
BY DEF Marked, Tracks

LEMMA NoPictureFacts ==
  /\ NoPicture \in Pictures
  /\ NoPicture.active = FALSE /\ NoPicture.parts = << >> /\ NoPicture.size = 0
BY MaxAccessUnitAssumption DEF NoPicture, Pictures

LEMMA ClearedFacts ==
  ASSUME NEW t \in Tracks
  PROVE  /\ Cleared(t) \in Tracks
         /\ Cleared(t).pending = NoPicture
         /\ Cleared(t).media = t.media /\ Cleared(t).discontinuity = t.discontinuity
         /\ Cleared(t).skipping = t.skipping /\ Cleared(t).wait = t.wait
         /\ Cleared(t).mpu = t.mpu /\ Cleared(t).index = t.index
         /\ Cleared(t).lastDts = t.lastDts /\ Cleared(t).out = t.out
BY NoPictureFacts DEF Cleared, Tracks

LEMMA SkippingFacts ==
  ASSUME NEW t \in Tracks, NEW b \in BOOLEAN
  PROVE  LET u == [t EXCEPT !.skipping = b]
         IN  /\ u \in Tracks
             /\ u.skipping = b
             /\ u.media = t.media /\ u.pending = t.pending
             /\ u.discontinuity = t.discontinuity /\ u.wait = t.wait
             /\ u.mpu = t.mpu /\ u.index = t.index
             /\ u.lastDts = t.lastDts /\ u.out = t.out
BY DEF Tracks

(* The unit a picture becomes.                                             *)
UnitOf(pic, flag) == [parts |-> pic.parts, rap |-> pic.rap, flagged |-> flag]

LEMMA UnitFacts ==
  ASSUME NEW pic \in Pictures, NEW flag \in BOOLEAN
  PROVE  /\ UnitOf(pic, flag) \in Units
         /\ UnitOf(pic, flag).parts = pic.parts
         /\ UnitOf(pic, flag).rap = pic.rap
         /\ UnitOf(pic, flag).flagged = flag
BY DEF UnitOf, Units, Pictures

(* emit_access_unit hands the picture over, which takes the mark with it,  *)
(* or drops it and sets the mark.                                          *)
EmitResult(t, pic, known, u) ==
  /\ u \in Tracks
  /\ u.media = t.media /\ u.pending = t.pending
  /\ u.skipping = t.skipping /\ u.wait = t.wait /\ u.mpu = t.mpu
  /\ \/ /\ u.out = Append(t.out, UnitOf(pic, t.discontinuity))
        /\ u.discontinuity = FALSE
     \/ /\ u.out = t.out /\ u.lastDts = t.lastDts
        /\ u.discontinuity = TRUE
        /\ \/ pic.mpu \notin known
           \/ pic.sample \notin 1 .. AccessUnits[pic.mpu]
           \/ t.lastDts # None

LEMMA EmitFacts ==
  ASSUME NEW t \in Tracks, NEW pic \in Pictures, NEW known, known \subseteq MPU
  PROVE  EmitResult(t, pic, known, Emit(t, pic, known))
<1> DEFINE n == AuIndex(t, pic.sample)
           c == Counted(t, pic.sample)
           unit == UnitOf(pic, t.discontinuity)
           u == Emit(t, pic, known)
<1>1. pic.sample \in Nat /\ pic.mpu \in Nat /\ t.index \in Nat /\ t.discontinuity \in BOOLEAN
      /\ t.out \in Seq(Units)
  BY DEF Pictures, Tracks
<1>2. n \in Nat /\ (pic.sample # 0 => n = pic.sample - 1)
  BY <1>1 DEF AuIndex
<1>3. /\ c \in Tracks /\ c.media = t.media /\ c.pending = t.pending
      /\ c.skipping = t.skipping /\ c.wait = t.wait /\ c.mpu = t.mpu
      /\ c.out = t.out /\ c.lastDts = t.lastDts /\ c.discontinuity = t.discontinuity
  <2> DEFINE x == IF pic.sample = 0 THEN t.index + 1
                  ELSE IF t.index <= pic.sample - 1 THEN pic.sample ELSE t.index
  <2>1. x \in Nat
    BY <1>1
  <2>2. c = [t EXCEPT !.index = x]
    BY DEF Counted
  <2> HIDE DEF x
  <2> QED
    BY <2>1, <2>2 DEF Tracks
<1> HIDE DEF n, c
<1>4. CASE pic.mpu \in known /\ n < AccessUnits[pic.mpu] /\ n >= t.lastDts
  <2>1. u = Delivered(c, pic, n)
    BY <1>4 DEF Emit, n, c
  <2>2. unit \in Units
    BY <1>1, UnitFacts
  <2>3. Delivered(c, pic, n) =
          [c EXCEPT !.lastDts = n, !.discontinuity = FALSE, !.out = Append(t.out, unit)]
    BY <1>3 DEF Delivered, UnitOf
  <2>4. Append(t.out, unit) \in Seq(Units)
    BY <1>1, <2>2, AppendProperties
  <2> DEFINE out == Append(t.out, unit)
  <2> HIDE DEF out, unit, u
  <2>5. u = [c EXCEPT !.lastDts = n, !.discontinuity = FALSE, !.out = out]
    BY <2>1, <2>3 DEF out
  <2>6. /\ u \in Tracks /\ u.media = c.media /\ u.pending = c.pending
        /\ u.skipping = c.skipping /\ u.wait = c.wait /\ u.mpu = c.mpu
        /\ u.out = out /\ u.discontinuity = FALSE
    BY <1>2, <1>3, <2>4, <2>5 DEF Tracks, out
  <2> QED
    BY <1>3, <2>6 DEF out, unit, u, EmitResult
<1>5. CASE ~(pic.mpu \in known /\ n < AccessUnits[pic.mpu] /\ n >= t.lastDts)
  <2>1. u = Marked(c)
    BY <1>5 DEF Emit, n, c
  <2>2. /\ u \in Tracks /\ u.media = t.media /\ u.pending = t.pending
        /\ u.skipping = t.skipping /\ u.wait = t.wait /\ u.mpu = t.mpu
        /\ u.out = t.out /\ u.lastDts = t.lastDts /\ u.discontinuity = TRUE
    BY <1>3, <2>1, MarkedFacts
  <2>3. \/ pic.mpu \notin known
        \/ pic.sample \notin 1 .. AccessUnits[pic.mpu]
        \/ t.lastDts # None
    <3> SUFFICES ASSUME pic.mpu \in known, pic.sample \in 1 .. AccessUnits[pic.mpu],
                        t.lastDts = None
                 PROVE  FALSE
      OBVIOUS
    <3>1. AccessUnits[pic.mpu] \in Nat
      BY AccessUnitsAssumption
    <3> QED
      BY <1>1, <1>2, <1>5, <3>1 DEF None
  <2> HIDE DEF u
  <2> QED
    BY <2>2, <2>3 DEF EmitResult, u
<1> QED
  BY <1>4, <1>5

-----------------------------------------------------------------------------
(***************************************************************************)
(* The invariant within one packet.  c is what the step began with: the    *)
(* unit emitted last, whether the track waited and was marked, and the     *)
(* MPUs described.                                                         *)
(***************************************************************************)
Contexts == [before: Seq(Units), waited: BOOLEAN, marked: BOOLEAN, known: SUBSET MPU]

SoFar(t, c) ==
  /\ LossShows(c.before \o t.out)
  /\ \A k \in DOMAIN t.out :
       OfPicture(t.out[k].parts, MpuOf(t.out[k].parts[1]), SampleOf(t.out[k].parts[1]))
  /\ c.before = << >> /\ t.out # << >> => t.out[1].rap \/ t.out[1].flagged
  /\ c.waited /\ TimesKnown(c.known) =>
       IF t.wait THEN t.out = << >> ELSE t.out # << >> /\ t.out[1].rap
  /\ c.marked => IF t.out = << >> THEN t.discontinuity ELSE t.out[1].flagged

Now(t, c) == Latest(c.before, t.out)

(* hand is the unit, or its head, that is not in the pending picture yet.  *)
Kept(t, c, hand, e) ==
  /\ t \in Tracks
  /\ OnePending(t)
  /\ Waits(t, Now(t, c))
  /\ NothingMissing(t, Now(t, c), hand, e)
  /\ SkipsMarked(t, Now(t, c))
  /\ SoFar(t, c)

LEMMA LatestFacts ==
  ASSUME NEW before \in Seq(Units), Len(before) <= 1, NEW out \in Seq(Units)
  PROVE  /\ Latest(before, out) \in Seq(Units) /\ Len(Latest(before, out)) <= 1
         /\ before \o out \in Seq(Units)
         /\ Latest(before, out) = << >> <=> before \o out = << >>
         /\ before \o out # << >> =>
              Latest(before, out)[1] = (before \o out)[Len(before \o out)]
<1> DEFINE all == before \o out
           n == Len(before)
           m == Len(out)
<1>1. /\ n \in Nat /\ m \in Nat /\ Len(all) = n + m /\ all \in Seq(Units)
      /\ \A j \in 1 .. (n + m) : all[j] = IF j <= n THEN before[j] ELSE out[j - n]
  BY ConcatProperties, LenProperties
<1>2. (n = 0 <=> before = << >>) /\ (m = 0 <=> out = << >>) /\ (n + m = 0 <=> all = << >>)
  BY <1>1, EmptySeq
<1> HIDE DEF all, n, m
<1>3. CASE out = << >>
  <2>1. Latest(before, out) = before
    BY <1>3 DEF Latest
  <2>2. all # << >> => n = 1 /\ all[Len(all)] = before[1]
    <3>1. n <= 1
      BY DEF n
    <3>2. m = 0
      BY <1>2, <1>3
    <3> SUFFICES ASSUME all # << >> PROVE n = 1 /\ all[Len(all)] = before[1]
      OBVIOUS
    <3>3. n = 1
      BY <1>1, <1>2, <3>1, <3>2
    <3> QED
      BY <1>1, <3>2, <3>3
  <2>3. before = << >> <=> all = << >>
    BY <1>1, <1>2, <1>3
  <2> QED
    BY <2>1, <2>2, <2>3, <1>1 DEF all
<1>4. CASE out # << >>
  <2>1. Latest(before, out) = << out[m] >>
    BY <1>4 DEF Latest, m
  <2>2. m \in 1 .. m /\ out[m] \in Units
    BY <1>1, <1>2, <1>4, ElementOfSeq DEF m
  <2>3. all[Len(all)] = out[m]
    <3>1. n + m \in 1 .. (n + m) /\ ~(n + m <= n) /\ (n + m) - n = m
      BY <1>1, <2>2
    <3> QED
      BY <1>1, <3>1
  <2>4. all # << >>
    BY <1>1, <1>2, <2>2
  <2> QED
    BY <2>1, <2>2, <2>3, <2>4, <1>1 DEF all
<1> QED
  BY <1>3, <1>4

LEMMA LossShowsAppend ==
  ASSUME NEW units \in Seq(Units), NEW u \in Units, LossShows(units),
         units # << >> =>
           \/ units[Len(units)].flagged
           \/ u.flagged
           \/ Contiguous(units[Len(units)].parts \o u.parts)
  PROVE  LossShows(Append(units, u))
<1> DEFINE s == Append(units, u)
           n == Len(units)
<1>1. /\ n \in Nat /\ Len(s) = n + 1 /\ s[n + 1] = u
      /\ \A j \in 1 .. n : s[j] = units[j]
  BY AppendProperties, LenProperties
<1>2. n = 0 <=> units = << >>
  BY EmptySeq
<1> HIDE DEF s
<1> SUFFICES ASSUME NEW k \in 1 .. (Len(s) - 1)
             PROVE  \/ s[k].flagged
                    \/ s[k + 1].flagged
                    \/ Contiguous(s[k].parts \o s[k + 1].parts)
  BY DEF LossShows, s
<1>3. k \in 1 .. n
  BY <1>1
<1>4. CASE k = n
  <2>1. units # << >> /\ s[k] = units[n] /\ s[k + 1] = u
    BY <1>1, <1>2, <1>3, <1>4
  <2> QED
    BY <2>1
<1>5. CASE k # n
  <2>1. k \in 1 .. (n - 1) /\ s[k] = units[k] /\ s[k + 1] = units[k + 1]
    BY <1>1, <1>3, <1>5
  <2> QED
    BY <2>1 DEF LossShows
<1> QED
  BY <1>4, <1>5

(* A mark keeps the invariant, whatever is missing.                        *)
LEMMA MarkKeeps ==
  ASSUME NEW c \in Contexts, NEW t, NEW u \in Tracks, NEW hand, NEW e, NEW hand2, NEW e2,
         Kept(t, c, hand, e), OnePending(u),
         u.discontinuity = TRUE, u.out = t.out, u.wait = t.wait,
         u.lastDts \in {t.lastDts, None}
  PROVE  Kept(u, c, hand2, e2)
<1>1. Now(u, c) = Now(t, c)
  BY DEF Now
<1>2. Waits(u, Now(u, c))
  BY <1>1 DEF Kept, Waits
<1>3. NothingMissing(u, Now(u, c), hand2, e2) /\ SkipsMarked(u, Now(u, c))
  BY DEF NothingMissing, SkipsMarked
<1>4. SoFar(u, c)
  BY DEF Kept, SoFar
<1> QED
  BY <1>2, <1>3, <1>4 DEF Kept

(* A track without a pending picture.                                      *)
LEMMA NonePending ==
  ASSUME NEW u, u.pending = NoPicture, u.skipping => u.discontinuity
  PROVE  OnePending(u)
<1>1. u.pending.active = FALSE /\ u.pending.parts = << >>
  BY NoPictureFacts
<1>2. OfPicture(<< >>, u.pending.mpu, u.pending.sample)
  BY DEF OfPicture
<1> QED
  BY <1>1, <1>2 DEF OnePending

LEMMA PendingFacts ==
  ASSUME NEW t \in Tracks, OnePending(t), t.pending.active
  PROVE  /\ t.pending.parts \in Seq(Position) /\ t.pending.parts # << >>
         /\ t.pending.parts[1] \in Position
         /\ MpuOf(t.pending.parts[1]) = t.pending.mpu
         /\ SampleOf(t.pending.parts[1]) = t.pending.sample
         /\ t.pending.mpu = t.mpu
         /\ OfPicture(t.pending.parts, t.pending.mpu, t.pending.sample)
         /\ ~t.skipping
<1>1. t.pending.parts \in Seq(Position)
  BY DEF Tracks, Pictures
<1>2. t.pending.parts # << >>
  BY DEF OnePending
<1>3. 1 \in 1 .. Len(t.pending.parts) /\ DOMAIN t.pending.parts = 1 .. Len(t.pending.parts)
  BY <1>1, <1>2, EmptySeq, LenProperties
<1>4. t.pending.parts[1] \in Position
  BY <1>1, <1>3, ElementOfSeq
<1>5. MpuOf(t.pending.parts[1]) = t.pending.mpu
  BY <1>3 DEF OnePending, OfPicture
<1> QED
  BY <1>1, <1>2, <1>4, <1>5 DEF OnePending

-----------------------------------------------------------------------------
(* What Kept says of sequences is about sequences of places.               *)
LEMMA KeptFacts ==
  ASSUME NEW c \in Contexts, Len(c.before) <= 1, NEW t, NEW hand, NEW e, Kept(t, c, hand, e)
  PROVE  /\ t \in Tracks /\ t.out \in Seq(Units) /\ c.before \in Seq(Units)
         /\ c.known \subseteq MPU /\ t.discontinuity \in BOOLEAN /\ t.wait \in BOOLEAN
         /\ t.pending \in Pictures
         /\ Now(t, c) \in Seq(Units) /\ Len(Now(t, c)) <= 1
         /\ Now(t, c) # << >> => Now(t, c)[1] \in Units
<1>1. /\ t \in Tracks /\ t.out \in Seq(Units) /\ c.before \in Seq(Units) /\ c.known \subseteq MPU
      /\ t.discontinuity \in BOOLEAN /\ t.wait \in BOOLEAN /\ t.pending \in Pictures
  BY DEF Kept, Tracks, Contexts
<1>2. Now(t, c) \in Seq(Units) /\ Len(Now(t, c)) <= 1
  BY <1>1, LatestFacts DEF Now
<1>3. Now(t, c) # << >> => 1 \in 1 .. Len(Now(t, c))
  BY <1>2, EmptySeq
<1> QED
  BY <1>1, <1>2, <1>3, ElementOfSeq

LEMMA ConcatAppend ==
  ASSUME NEW S, NEW p \in Seq(S), NEW q \in Seq(S), NEW x \in S
  PROVE  p \o Append(q, x) = Append(p \o q, x)
<1>1. << x >> \in Seq(S) /\ p \o q \in Seq(S)
  BY ConcatProperties
<1>2. Append(q, x) = q \o << x >> /\ Append(p \o q, x) = (p \o q) \o << x >>
  BY <1>1, AppendIsConcat
<1>3. (p \o q) \o << x >> = p \o (q \o << x >>)
  BY <1>1, ConcatAssociative
<1> QED
  BY <1>2, <1>3

(* Concatenating the parts of pictures is associative.                    *)
LEMMA PartsAssociate ==
  \A p, q, r \in Seq(Position) : (p \o q) \o r = p \o (q \o r)
<1> TAKE p, q, r \in Seq(Position)
<1> DEFINE S == Position
<1>1. p \in Seq(S) /\ q \in Seq(S) /\ r \in Seq(S)
  OBVIOUS
<1> HIDE DEF S
<1> QED
  BY <1>1, ConcatAssociative

(* The unit emitted now continues the one before it, or a mark shows.      *)
LEMMA EmittedContinues ==
  ASSUME NEW c \in Contexts, Len(c.before) <= 1, NEW t, NEW hand \in Seq(Position), NEW e,
         Kept(t, c, hand, e), t.pending.active
  PROVE  /\ LossShows(c.before \o Append(t.out, UnitOf(t.pending, t.discontinuity)))
         /\ t.discontinuity \/ EndsAt(t.pending.parts \o hand, e)
<1> DEFINE pic == t.pending
           new == UnitOf(pic, t.discontinuity)
           all == c.before \o t.out
           b == Now(t, c)
<1>1. /\ t \in Tracks /\ t.out \in Seq(Units) /\ c.before \in Seq(Units)
      /\ t.discontinuity \in BOOLEAN /\ pic \in Pictures
      /\ b \in Seq(Units) /\ (b # << >> => b[1] \in Units)
  BY KeptFacts
<1>2. new \in Units /\ new.parts = pic.parts /\ new.flagged = t.discontinuity
  BY <1>1, UnitFacts
<1>3. OnePending(t) /\ NothingMissing(t, b, hand, e) /\ LossShows(all)
  BY DEF Kept, SoFar
<1>4. pic.parts \in Seq(Position) /\ pic.parts # << >>
  BY <1>1, <1>3, PendingFacts
<1>5. pic.parts \o hand \in Seq(Position) /\ pic.parts \o hand # << >>
  BY <1>4, ConcatProperties, ConcatEqualIffEmpty
<1>6. /\ all \in Seq(Units) /\ (b = << >> <=> all = << >>)
      /\ all # << >> => b[1] = all[Len(all)]
  BY <1>1, LatestFacts DEF Now
<1> HIDE DEF new, all, b
<1>7. t.discontinuity \/ EndsAt(pic.parts \o hand, e)
  BY <1>3, <1>5 DEF NothingMissing
<1>8. ASSUME all # << >>, ~t.discontinuity
      PROVE  all[Len(all)].flagged \/ Contiguous(all[Len(all)].parts \o new.parts)
  <2>1. b # << >> /\ b[1] \in Units /\ b[1] = all[Len(all)]
    BY <1>1, <1>6, <1>8
  <2>2. b[1].flagged \/ EndsAt(b[1].parts \o (pic.parts \o hand), e)
    BY <1>3, <1>8, <2>1 DEF NothingMissing
  <2>3. b[1].parts \in Seq(Position)
    BY <2>1 DEF Units
  <2>4. /\ b[1].parts \o (pic.parts \o hand) = (b[1].parts \o pic.parts) \o hand
        /\ b[1].parts \o pic.parts \in Seq(Position)
    <3> DEFINE p == b[1].parts
               q == pic.parts
    <3>1. p \in Seq(Position) /\ q \in Seq(Position) /\ hand \in Seq(Position)
      BY <1>4, <2>3
    <3> HIDE DEF p, q
    <3>2. (p \o q) \o hand = p \o (q \o hand)
      BY <3>1, PartsAssociate
    <3>3. p \o q \in Seq(Position)
      BY <3>1, ConcatProperties
    <3> QED
      BY <3>2, <3>3 DEF p, q
  <2>5. b[1].flagged \/ Contiguous(b[1].parts \o pic.parts)
    BY <2>2, <2>4, EndsAtSplit
  <2> QED
    BY <1>2, <2>1, <2>5
<1>9. LossShows(Append(all, new))
  BY <1>2, <1>3, <1>6, <1>8, LossShowsAppend
<1>10. c.before \o Append(t.out, new) = Append(all, new)
  <2> DEFINE p == c.before
             q == t.out
  <2>1. p \in Seq(Units) /\ q \in Seq(Units) /\ new \in Units
    BY <1>1, <1>2
  <2>2. all = p \o q
    BY DEF all
  <2> HIDE DEF p, q
  <2>3. p \o Append(q, new) = Append(p \o q, new)
    BY ONLY <2>1, ConcatAppend
  <2> QED
    BY <2>2, <2>3 DEF p, q
<1> QED
  BY <1>7, <1>9, <1>10 DEF new

(* The first unit of what is emitted.                                      *)
LEMMA FirstEmitted ==
  ASSUME NEW out \in Seq(Units), NEW u \in Units
  PROVE  /\ Append(out, u) # << >> /\ Append(out, u) \in Seq(Units)
         /\ Append(out, u)[1] = IF out = << >> THEN u ELSE out[1]
         /\ \A before : Latest(before, Append(out, u)) = << u >>
         /\ \A k \in DOMAIN Append(out, u) :
              Append(out, u)[k] = u \/ (k \in DOMAIN out /\ Append(out, u)[k] = out[k])
<1> DEFINE s == Append(out, u)
           n == Len(out)
<1>1. /\ s # << >> /\ Len(s) = n + 1 /\ s \in Seq(Units) /\ n \in Nat
      /\ \A j \in 1 .. n : s[j] = out[j]
      /\ s[n + 1] = u /\ DOMAIN s = 1 .. (n + 1) /\ DOMAIN out = 1 .. n
  BY AppendProperties, LenProperties
<1>2. n = 0 <=> out = << >>
  BY EmptySeq
<1> HIDE DEF s, n
<1>3. s[1] = IF out = << >> THEN u ELSE out[1]
  BY <1>1, <1>2
<1>4. \A before : Latest(before, s) = << u >>
  BY <1>1 DEF Latest
<1>5. \A k \in DOMAIN s : s[k] = u \/ (k \in DOMAIN out /\ s[k] = out[k])
  BY <1>1
<1> QED
  BY <1>1, <1>3, <1>4, <1>5 DEF s

(* The pending picture is handed over.                                     *)
LEMMA DeliveryKeeps ==
  ASSUME NEW c \in Contexts, Len(c.before) <= 1, NEW t, NEW hand \in Seq(Position), NEW e,
         hand = << >> \/ EndsAt(hand, e),
         Kept(t, c, hand, e), t.pending.active, t.wait => t.pending.rap,
         NEW u \in Tracks, u.pending = NoPicture, u.skipping = t.skipping, u.wait = FALSE,
         u.media = t.media,
         u.out = Append(t.out, UnitOf(t.pending, t.discontinuity)), u.discontinuity = FALSE
  PROVE  Kept(u, c, hand, e)
<1> DEFINE pic == t.pending
           new == UnitOf(pic, t.discontinuity)
<1>1. /\ t \in Tracks /\ t.out \in Seq(Units) /\ c.before \in Seq(Units)
      /\ t.discontinuity \in BOOLEAN /\ pic \in Pictures /\ t.wait \in BOOLEAN
  BY KeptFacts
<1>2. new \in Units /\ new.parts = pic.parts /\ new.flagged = t.discontinuity /\ new.rap = pic.rap
  BY <1>1, UnitFacts
<1>3. /\ OnePending(t) /\ Waits(t, Now(t, c)) /\ NothingMissing(t, Now(t, c), hand, e)
      /\ SoFar(t, c)
  BY DEF Kept
<1>4. /\ pic.parts \in Seq(Position) /\ pic.parts # << >>
      /\ MpuOf(pic.parts[1]) = pic.mpu /\ SampleOf(pic.parts[1]) = pic.sample
      /\ OfPicture(pic.parts, pic.mpu, pic.sample) /\ ~t.skipping
  BY <1>1, <1>3, PendingFacts
<1>5. /\ LossShows(c.before \o u.out)
      /\ t.discontinuity \/ EndsAt(pic.parts \o hand, e)
  BY EmittedContinues
<1>6. /\ u.out # << >> /\ u.out[1] = (IF t.out = << >> THEN new ELSE t.out[1])
      /\ Now(u, c) = << new >>
      /\ \A k \in DOMAIN u.out :
           u.out[k] = new \/ (k \in DOMAIN t.out /\ u.out[k] = t.out[k])
  <2>1. u.out = Append(t.out, new)
    OBVIOUS
  <2> HIDE DEF new
  <2>2. /\ Append(t.out, new) # << >>
        /\ Append(t.out, new)[1] = IF t.out = << >> THEN new ELSE t.out[1]
        /\ \A before : Latest(before, Append(t.out, new)) = << new >>
        /\ \A k \in DOMAIN Append(t.out, new) :
             \/ Append(t.out, new)[k] = new
             \/ k \in DOMAIN t.out /\ Append(t.out, new)[k] = t.out[k]
    BY <1>1, <1>2, FirstEmitted
  <2> QED
    BY <2>1, <2>2 DEF Now
<1> HIDE DEF new
<1>7. SoFar(u, c)
  <2>1. ASSUME NEW k \in DOMAIN u.out
        PROVE  OfPicture(u.out[k].parts, MpuOf(u.out[k].parts[1]), SampleOf(u.out[k].parts[1]))
    <3>1. CASE u.out[k] = new
      BY <1>2, <1>4, <3>1
    <3>2. CASE k \in DOMAIN t.out /\ u.out[k] = t.out[k]
      BY <1>3, <3>2 DEF SoFar
    <3> QED
      BY <1>6, <3>1, <3>2
  <2>2. c.before = << >> /\ u.out # << >> => u.out[1].rap \/ u.out[1].flagged
    <3>1. CASE t.out = << >>
      <4>1. c.before = << >> => t.wait \/ t.discontinuity
        BY <1>3, <3>1 DEF Waits, Now, Latest
      <4> QED
        BY <1>2, <1>6, <3>1, <4>1
    <3>2. CASE t.out # << >>
      BY <1>3, <1>6, <3>2 DEF SoFar
    <3> QED
      BY <3>1, <3>2
  <2>3. c.waited /\ TimesKnown(c.known) => u.out # << >> /\ u.out[1].rap
    <3>1. CASE t.wait
      <4>1. c.waited /\ TimesKnown(c.known) => t.out = << >>
        BY <1>3, <3>1 DEF SoFar
      <4> QED
        BY <1>2, <1>6, <3>1, <4>1
    <3>2. CASE ~t.wait
      <4>1. c.waited /\ TimesKnown(c.known) => t.out # << >> /\ t.out[1].rap
        BY <1>3, <3>2 DEF SoFar
      <4> QED
        BY <1>6, <4>1
    <3> QED
      BY <3>1, <3>2
  <2>4. c.marked => u.out[1].flagged
    <3>1. CASE t.out = << >>
      BY <1>2, <1>3, <1>6, <3>1 DEF SoFar
    <3>2. CASE t.out # << >>
      BY <1>3, <1>6, <3>2 DEF SoFar
    <3> QED
      BY <3>1, <3>2
  <2> QED
    BY <1>5, <1>6, <2>1, <2>2, <2>3, <2>4 DEF SoFar
<1>8. OnePending(u)
  BY <1>4, NonePending
<1>9. Waits(u, Now(u, c))
  BY <1>6 DEF Waits
<1>10. NothingMissing(u, Now(u, c), hand, e)
  <2>1. u.pending.parts \o hand = hand
    BY NoPictureFacts, ConcatEmptySeq
  <2> QED
    BY <1>2, <1>5, <1>6, <2>1 DEF NothingMissing
<1>11. SkipsMarked(u, Now(u, c))
  <2>1. ~u.pending.active /\ Now(u, c) # << >> /\ Now(u, c)[1] = new
    BY <1>6, NoPictureFacts
  <2>2. SkipsMarked(t, Now(t, c))
    BY DEF Kept
  <2> QED
    BY <1>2, <2>1, <2>2 DEF SkipsMarked
<1> QED
  BY <1>7, <1>8, <1>9, <1>10, <1>11 DEF Kept

(* The picture is dropped for want of a timestamp.                         *)
LEMMA RefusalKeeps ==
  ASSUME NEW c \in Contexts, Len(c.before) <= 1, NEW t, NEW hand, NEW e,
         Kept(t, c, hand, e), t.pending.active, t.wait => t.pending.rap,
         NEW u \in Tracks, u.pending = NoPicture, u.skipping = t.skipping, u.wait = FALSE,
         u.out = t.out, u.lastDts = t.lastDts, u.discontinuity = TRUE,
         \/ t.pending.mpu \notin c.known
         \/ t.pending.sample \notin 1 .. AccessUnits[t.pending.mpu]
         \/ t.lastDts # None
  PROVE  Kept(u, c, hand, e)
<1> DEFINE pic == t.pending
<1>1. t \in Tracks /\ OnePending(t) /\ Waits(t, Now(t, c)) /\ SoFar(t, c)
  BY DEF Kept
<1>2. /\ pic.parts[1] \in Position
      /\ MpuOf(pic.parts[1]) = pic.mpu /\ SampleOf(pic.parts[1]) = pic.sample
  BY <1>1, PendingFacts
<1>3. Now(u, c) = Now(t, c)
  BY DEF Now
<1>4. c.waited /\ TimesKnown(c.known) => u.out # << >> /\ u.out[1].rap
  <2>1. CASE t.wait
    <3>1. t.lastDts = None
      BY <1>1, <2>1 DEF Waits
    <3>2. ~TimesKnown(c.known)
      BY <1>2, <3>1 DEF TimesKnown
    <3> QED
      BY <3>2
  <2>2. CASE ~t.wait
    BY <1>1, <2>2 DEF SoFar
  <2> QED
    BY <2>1, <2>2
<1>5. SoFar(u, c)
  BY <1>1, <1>4 DEF SoFar
<1>6. OnePending(u)
  BY NonePending
<1>7. Waits(u, Now(u, c))
  BY DEF Waits
<1>8. NothingMissing(u, Now(u, c), hand, e) /\ SkipsMarked(u, Now(u, c))
  BY DEF NothingMissing, SkipsMarked
<1> QED
  BY <1>5, <1>6, <1>7, <1>8 DEF Kept

(* finalize_hevc leaves no picture, and shows every loss up to the unit    *)
(* in hand.                                                                *)
LEMMA FinalizedKeeps ==
  ASSUME NEW c \in Contexts, Len(c.before) <= 1, NEW t, NEW hand \in Seq(Position), NEW e,
         hand = << >> \/ EndsAt(hand, e),
         Kept(t, c, hand, e)
  PROVE  /\ Kept(Finalized(t, c.known), c, hand, e)
         /\ ~Finalized(t, c.known).pending.active
         /\ Finalized(t, c.known).media = t.media
         /\ Finalized(t, c.known).mpu = t.mpu
         /\ Finalized(t, c.known).skipping = t.skipping
<1> DEFINE f == Finalized(t, c.known)
           pic == t.pending
<1>1. /\ t \in Tracks /\ pic \in Pictures /\ c.known \subseteq MPU /\ t.wait \in BOOLEAN
      /\ t.discontinuity \in BOOLEAN
  BY KeptFacts
<1>2. OnePending(t) /\ Waits(t, Now(t, c)) /\ SkipsMarked(t, Now(t, c)) /\ SoFar(t, c)
  BY DEF Kept
<1>3. ~NoPicture.active
  BY NoPictureFacts
<1>4. CASE ~pic.active
  <2>1. f = t
    BY <1>4 DEF Finalized
  <2> QED
    BY <1>4, <2>1
<1>5. CASE pic.active /\ ~pic.vcl
  <2>1. f = Cleared(Marked(t))
    BY <1>5 DEF Finalized
  <2>2. /\ f \in Tracks /\ f.pending = NoPicture /\ f.discontinuity = TRUE
        /\ f.media = t.media /\ f.mpu = t.mpu /\ f.skipping = t.skipping
        /\ f.wait = t.wait /\ f.lastDts = t.lastDts /\ f.out = t.out
    <3> DEFINE m == Marked(t)
    <3>1. /\ m \in Tracks /\ m.discontinuity = TRUE
          /\ m.media = t.media /\ m.mpu = t.mpu /\ m.skipping = t.skipping
          /\ m.wait = t.wait /\ m.lastDts = t.lastDts /\ m.out = t.out
      BY <1>1, MarkedFacts
    <3> HIDE DEF m
    <3> QED
      BY <2>1, <3>1, ClearedFacts DEF m
  <2> HIDE DEF f
  <2>3. OnePending(f)
    BY <2>2, NonePending
  <2>4. Kept(f, c, hand, e)
    BY <2>2, <2>3, MarkKeeps
  <2> QED
    BY <1>3, <2>2, <2>4 DEF f
<1>6. CASE pic.active /\ pic.vcl /\ t.wait /\ ~pic.rap
  <2>1. f = Cleared(t)
    BY <1>6 DEF Finalized
  <2>2. /\ f \in Tracks /\ f.pending = NoPicture /\ f.discontinuity = t.discontinuity
        /\ f.media = t.media /\ f.mpu = t.mpu /\ f.skipping = t.skipping
        /\ f.wait = t.wait /\ f.lastDts = t.lastDts /\ f.out = t.out
    BY <1>1, <2>1, ClearedFacts
  <2> HIDE DEF f
  <2>3. OnePending(f)
    BY <1>2, <2>2, NonePending DEF OnePending
  <2>4. Now(f, c) = Now(t, c)
    BY <2>2 DEF Now
  <2>5. Waits(f, Now(f, c)) /\ SoFar(f, c)
    BY <1>2, <2>2, <2>4 DEF Waits, SoFar
  <2>6. NothingMissing(f, Now(f, c), hand, e)
    <3>1. f.pending.parts \o hand = hand
      BY <2>2, NoPictureFacts, ConcatEmptySeq
    <3>2. ~t.discontinuity => Now(t, c) = << >>
      BY <1>2, <1>6 DEF Waits
    <3> QED
      BY <2>2, <2>4, <3>1, <3>2 DEF NothingMissing
  <2>7. SkipsMarked(f, Now(f, c))
    BY <1>2, <1>6, <2>2, <2>4 DEF SkipsMarked
  <2>8. Kept(f, c, hand, e)
    BY <2>2, <2>3, <2>5, <2>6, <2>7 DEF Kept
  <2> QED
    BY <1>3, <2>2, <2>8 DEF f
<1>7. CASE pic.active /\ pic.vcl /\ ~(t.wait /\ ~pic.rap)
  <2> DEFINE w == [t EXCEPT !.wait = @ /\ ~pic.rap]
             u == Emit(w, pic, c.known)
  <2>1. f = Cleared(u)
    BY <1>7 DEF Finalized
  <2>2. /\ w \in Tracks /\ w.wait = FALSE
        /\ w.media = t.media /\ w.pending = t.pending /\ w.mpu = t.mpu
        /\ w.skipping = t.skipping /\ w.discontinuity = t.discontinuity
        /\ w.lastDts = t.lastDts /\ w.out = t.out
    <3>1. (t.wait /\ ~pic.rap) = FALSE
      BY <1>7
    <3>2. w = [t EXCEPT !.wait = FALSE]
      BY <3>1
    <3> HIDE DEF w
    <3> QED
      BY <1>1, <3>2 DEF Tracks
  <2> HIDE DEF w
  <2>3. /\ u \in Tracks /\ u.media = w.media /\ u.skipping = w.skipping /\ u.wait = w.wait
        /\ u.mpu = w.mpu
        /\ \/ /\ u.out = Append(w.out, UnitOf(pic, w.discontinuity))
              /\ u.discontinuity = FALSE
           \/ /\ u.out = w.out /\ u.lastDts = w.lastDts
              /\ u.discontinuity = TRUE
              /\ \/ pic.mpu \notin c.known
                 \/ pic.sample \notin 1 .. AccessUnits[pic.mpu]
                 \/ w.lastDts # None
    <3>1. EmitResult(w, pic, c.known, u)
      BY <1>1, <2>2, EmitFacts
    <3> HIDE DEF u, pic
    <3> QED
      BY <3>1 DEF EmitResult
  <2> HIDE DEF u
  <2>4. /\ f \in Tracks /\ f.pending = NoPicture /\ f.media = t.media /\ f.mpu = t.mpu
        /\ f.skipping = t.skipping /\ f.wait = FALSE
        /\ f.out = u.out /\ f.lastDts = u.lastDts /\ f.discontinuity = u.discontinuity
    BY <2>1, <2>2, <2>3, ClearedFacts
  <2> HIDE DEF f
  <2>5. CASE u.out = Append(w.out, UnitOf(pic, w.discontinuity)) /\ u.discontinuity = FALSE
    <3>1. f.out = Append(t.out, UnitOf(t.pending, t.discontinuity)) /\ f.discontinuity = FALSE
      BY <2>2, <2>4, <2>5
    <3>2. t.wait => t.pending.rap
      BY <1>7
    <3>3. Kept(f, c, hand, e)
      BY <1>7, <2>4, <3>1, <3>2, DeliveryKeeps
    <3> QED
      BY <1>3, <2>4, <3>3 DEF f
  <2>6. CASE /\ u.out = w.out /\ u.lastDts = w.lastDts
             /\ u.discontinuity = TRUE
             /\ \/ pic.mpu \notin c.known
                \/ pic.sample \notin 1 .. AccessUnits[pic.mpu]
                \/ w.lastDts # None
    <3>1. /\ f.out = t.out /\ f.lastDts = t.lastDts /\ f.discontinuity = TRUE
          /\ \/ pic.mpu \notin c.known
             \/ pic.sample \notin 1 .. AccessUnits[pic.mpu]
             \/ t.lastDts # None
      BY <2>2, <2>4, <2>6
    <3>2. t.wait => t.pending.rap
      BY <1>7
    <3>3. Kept(f, c, hand, e)
      BY <1>7, <2>4, <3>1, <3>2, RefusalKeeps
    <3> QED
      BY <1>3, <2>4, <3>3 DEF f
  <2> QED
    BY <2>3, <2>5, <2>6
<1> QED
  BY <1>4, <1>5, <1>6, <1>7

-----------------------------------------------------------------------------
(* The bytes of the first n parts of a list.                               *)
Bytes(parts) ==
  LET bytes[n \in 0 .. Len(parts)] ==
        IF n = 0 THEN 0 ELSE bytes[n - 1] + UnitAt(parts[n]).size
  IN  bytes

LEMMA BytesFacts ==
  ASSUME NEW parts \in Seq(Position)
  PROVE  /\ NalSize(parts) = Bytes(parts)[Len(parts)] - 1
         /\ \A n \in 0 .. Len(parts) : Bytes(parts)[n] \in Nat
         /\ Bytes(parts)[0] = 0
         /\ \A n \in 1 .. Len(parts) :
              /\ UnitAt(parts[n]).size \in Nat
              /\ Bytes(parts)[n] = Bytes(parts)[n - 1] + UnitAt(parts[n]).size
<1> DEFINE N == Len(parts)
           size(n) == UnitAt(parts[n]).size
           Sum(f) == f = [n \in 0 .. N |-> IF n = 0 THEN 0 ELSE f[n - 1] + size(n)]
           bytes == CHOOSE f : Sum(f)
           step == [x \in Nat \X (1 .. N) |-> x[1] + size(x[2])]
<1>1. N \in Nat /\ \A n \in 1 .. N : parts[n] \in Position
  BY LenProperties, ElementOfSeq
<1>2. \A n \in 1 .. N : size(n) \in Nat
  BY <1>1, PositionFacts DEF UnitRecord
<1>3. NalSize(parts) = bytes[N] - 1
  BY DEF NalSize
<1>4. Bytes(parts) = bytes
  BY DEF Bytes
<1> HIDE DEF size, N
<1>5. step \in [Nat \X (1 .. N) -> Nat] /\ 0 \in Nat
  BY <1>2
<1>6. \A x \in Nat, n \in 1 .. N : step[<< x, n >>] = x + size(n)
  OBVIOUS
<1> HIDE DEF step
<1>7. PICK f \in [0 .. N -> Nat] :
        f = [n \in 0 .. N |-> IF n = 0 THEN 0 ELSE step[<< f[n - 1], n >>]]
  <2>1. PICK f \in [0 .. N -> Nat] : IsLoop(f, N, 0, step)
    BY <1>1, <1>5, LoopExists
  <2> QED
    BY <2>1 DEF IsLoop
<1>8. Sum(f)
  <2>1. ASSUME NEW n \in 0 .. N, n # 0
        PROVE  step[<< f[n - 1], n >>] = f[n - 1] + size(n)
    <3>1. n \in 1 .. N /\ n - 1 \in 0 .. N
      BY <1>1, <2>1
    <3> QED
      BY <1>6, <1>7, <3>1
  <2>2. [n \in 0 .. N |-> IF n = 0 THEN 0 ELSE step[<< f[n - 1], n >>]]
          = [n \in 0 .. N |-> IF n = 0 THEN 0 ELSE f[n - 1] + size(n)]
    BY <2>1
  <2> QED
    BY <1>7, <2>2
<1>9. Sum(bytes)
  <2> HIDE DEF Sum
  <2> QED
    BY <1>8, Zenon
<1> HIDE DEF bytes
<1>10. bytes[0] = 0 /\ \A n \in 1 .. N : bytes[n] = bytes[n - 1] + size(n)
  <2>1. \A n \in 0 .. N : bytes[n] = IF n = 0 THEN 0 ELSE bytes[n - 1] + size(n)
    BY <1>9
  <2> QED
    BY <1>1, <2>1
<1> HIDE DEF Sum
<1>11. \A n \in 0 .. N : bytes[n] \in Nat
  <2> DEFINE I == [n \in 0 .. N |-> Nat]
  <2>1. bytes[0] \in I[0]
    BY <1>1, <1>10
  <2>2. ASSUME NEW n \in 1 .. N, bytes[n - 1] \in I[n - 1]
        PROVE  bytes[n] \in I[n]
    <3>1. n - 1 \in 0 .. N /\ n \in 0 .. N
      BY <1>1
    <3>2. bytes[n - 1] \in Nat
      BY <2>2, <3>1
    <3>3. bytes[n] = bytes[n - 1] + size(n) /\ size(n) \in Nat
      BY <1>2, <1>10
    <3> QED
      BY <3>1, <3>2, <3>3
  <2> HIDE DEF I
  <2>3. \A n \in 0 .. N : bytes[n] \in I[n]
    BY <1>1, <2>1, <2>2, LoopInvariant
  <2> QED
    BY <2>3 DEF I
<1> QED
  BY <1>2, <1>3, <1>4, <1>10, <1>11 DEF N, size

(* The more parts the more bytes.                                          *)
LEMMA BytesGrow ==
  ASSUME NEW W \in Seq(Position), NEW p \in 0 .. Len(W), NEW n \in p .. Len(W)
  PROVE  Bytes(W)[p] <= Bytes(W)[n]
<1> DEFINE B == Bytes(W)
           T == {m \in Nat : p + m <= Len(W) => B[p] <= B[p + m]}
<1>1. /\ Len(W) \in Nat /\ p \in Nat /\ n \in Nat
      /\ \A m \in 0 .. Len(W) : B[m] \in Nat
      /\ \A m \in 1 .. Len(W) : B[m] = B[m - 1] + UnitAt(W[m]).size /\ UnitAt(W[m]).size \in Nat
  BY BytesFacts, LenProperties
<1> HIDE DEF B
<1>2. 0 \in T
  BY <1>1
<1>3. ASSUME NEW m \in Nat, m \in T PROVE m + 1 \in T
  <2> SUFFICES ASSUME p + (m + 1) <= Len(W)
               PROVE  B[p] <= B[p + (m + 1)]
    OBVIOUS
  <2>1. /\ p + (m + 1) \in 1 .. Len(W) /\ (p + (m + 1)) - 1 = p + m
        /\ p + m \in 0 .. Len(W)
    BY <1>1
  <2>2. B[p] <= B[p + m]
    BY <1>3, <2>1
  <2>3. B[p + (m + 1)] = B[p + m] + UnitAt(W[p + (m + 1)]).size
        /\ UnitAt(W[p + (m + 1)]).size \in Nat /\ B[p + m] \in Nat
    BY <1>1, <2>1
  <2> QED
    BY <1>1, <2>2, <2>3
<1> HIDE DEF T
<1>4. n - p \in T
  <2>1. Nat \subseteq T
    BY <1>2, <1>3, SetInduction
  <2> QED
    BY <1>1, <2>1
<1> QED
  BY <1>1, <1>4 DEF T, B

(* The bytes of a NAL unit without its length prefix, when there is one.   *)
LEMMA NalSizeFacts ==
  ASSUME NEW parts \in Seq(Position), parts # << >>, UnitAt(parts[1]).size > 0
  PROVE  NalSize(parts) \in Nat
<1> DEFINE N == Len(parts)
           bytes == Bytes(parts)
<1>1. N \in Nat /\ 1 \in 1 .. N /\ 1 \in 0 .. N /\ N \in 1 .. N /\ N \in 0 .. N
  BY EmptySeq, LenProperties
<1>2. /\ NalSize(parts) = bytes[N] - 1 /\ bytes[0] = 0
      /\ \A n \in 0 .. N : bytes[n] \in Nat
      /\ \A n \in 1 .. N : /\ UnitAt(parts[n]).size \in Nat
                            /\ bytes[n] = bytes[n - 1] + UnitAt(parts[n]).size
  BY BytesFacts
<1>3. bytes[1] <= bytes[N]
  BY <1>1, BytesGrow
<1> HIDE DEF bytes, N
<1>4. bytes[1] = bytes[0] + UnitAt(parts[1]).size
  <2>1. 1 - 1 = 0
    OBVIOUS
  <2> QED
    BY <1>1, <1>2, <2>1
<1> QED
  BY <1>1, <1>2, <1>3, <1>4

(* The picture a NAL unit joins: the pending one or a new one.             *)
Joined(t, parts) ==
  IF t.pending.active THEN t.pending
  ELSE [NoPicture EXCEPT !.active = TRUE, !.mpu = t.mpu, !.sample = SampleOf(parts[1])]

IsJoined(pic, t, parts) ==
  /\ pic \in Pictures /\ pic.active = TRUE
  /\ pic.parts = t.pending.parts /\ pic.mpu = t.mpu
  /\ SampleOf((pic.parts \o parts)[1]) = pic.sample
  /\ OfPicture(pic.parts, t.mpu, pic.sample)
  /\ t.pending.active => pic.sample = t.pending.sample
  /\ ~t.pending.active => pic.sample = SampleOf(parts[1])

LEMMA JoinedFacts ==
  ASSUME NEW t \in Tracks, OnePending(t), t.mpu \in Nat,
         NEW parts \in Seq(Position), parts # << >>
  PROVE  IsJoined(Joined(t, parts), t, parts)
<1> DEFINE pic == Joined(t, parts)
<1>1. 1 \in 1 .. Len(parts) /\ parts[1] \in Position /\ Len(parts) \in Nat
  BY EmptySeq, ElementOfSeq, LenProperties
<1>2. SampleOf(parts[1]) \in Nat
  BY <1>1, PositionFacts
<1>3. CASE t.pending.active
  <2>1. pic = t.pending /\ pic \in Pictures
    BY <1>3 DEF Joined, Tracks
  <2>2. /\ pic.parts \in Seq(Position) /\ pic.parts # << >> /\ pic.mpu = t.mpu
        /\ SampleOf(pic.parts[1]) = pic.sample
        /\ OfPicture(pic.parts, pic.mpu, pic.sample)
    BY <1>3, <2>1, PendingFacts
  <2>3. pic.active = TRUE
    BY <1>3, <2>1 DEF Pictures
  <2>4. (pic.parts \o parts)[1] = pic.parts[1]
    <3> DEFINE p == pic.parts
    <3>1. p \in Seq(Position) /\ Len(p) \in Nat /\ Len(p) >= 1
      BY <2>2, EmptySeq, LenProperties
    <3> HIDE DEF p
    <3>2. 1 \in 1 .. (Len(p) + Len(parts))
      BY <1>1, <3>1
    <3>3. (p \o parts)[1] = p[1]
      BY <3>1, <3>2, ConcatProperties
    <3> QED
      BY <3>3 DEF p
  <2> QED
    BY <1>3, <2>1, <2>2, <2>3, <2>4 DEF IsJoined
<1>4. CASE ~t.pending.active
  <2>1. /\ pic \in Pictures /\ pic.active = TRUE /\ pic.parts = << >> /\ pic.mpu = t.mpu
        /\ pic.sample = SampleOf(parts[1])
    <3>1. pic = [active |-> TRUE, parts |-> << >>, size |-> 0, vcl |-> FALSE, rap |-> FALSE,
                 mpu |-> t.mpu, sample |-> SampleOf(parts[1])]
      BY <1>4 DEF Joined, NoPicture
    <3>2. << >> \in Seq(Position) /\ 0 \in 0 .. MaxAccessUnit
      BY EmptySeq, MaxAccessUnitAssumption
    <3> QED
      BY <1>2, <3>1, <3>2 DEF Pictures
  <2>2. t.pending.parts = << >>
    BY <1>4 DEF OnePending
  <2>3. << >> \o parts = parts
    BY ConcatEmptySeq
  <2>4. OfPicture(pic.parts, t.mpu, pic.sample)
    BY <2>1 DEF OfPicture
  <2> QED
    BY <1>4, <2>1, <2>2, <2>3, <2>4 DEF IsJoined
<1> QED
  BY <1>3, <1>4

(* A NAL unit of the current MPU, all of one sample number, in hand.       *)
InHand(t, parts, e) ==
  /\ parts \in Seq(Position) /\ EndsAt(parts, e)
  /\ \A j \in DOMAIN parts : PictureOf(parts[j]) = << t.mpu, SampleOf(parts[1]) >>

(* append to the pending picture.                                          *)
LEMMA AddNalKeeps ==
  ASSUME NEW c \in Contexts, NEW t, NEW parts, NEW e, NEW rap \in BOOLEAN,
         Kept(t, c, parts, e), InHand(t, parts, e), t.mpu \in Nat,
         ~t.skipping, t.media.state # "Skipping", UnitAt(parts[1]).size > 0,
         t.pending.active => SampleOf(parts[1]) \in {0, t.pending.sample}
  PROVE  /\ Kept(AddNal(t, parts, rap, t.mpu), c, << >>, e)
         /\ AddNal(t, parts, rap, t.mpu).media = t.media
         /\ AddNal(t, parts, rap, t.mpu).mpu = t.mpu
<1> DEFINE u == UnitAt(parts[1])
           size == NalSize(parts)
           pic == Joined(t, parts)
           v == AddNal(t, parts, rap, t.mpu)
<1>1. t \in Tracks /\ OnePending(t)
  BY DEF Kept
<1>2. parts \in Seq(Position) /\ parts # << >> /\ EndsAt(parts, e)
      /\ \A j \in DOMAIN parts : PictureOf(parts[j]) = << t.mpu, SampleOf(parts[1]) >>
  BY DEF InHand, EndsAt
<1>3. size \in Nat
  BY <1>2, NalSizeFacts
<1>4. /\ pic \in Pictures /\ pic.active = TRUE
      /\ pic.parts = t.pending.parts /\ pic.mpu = t.mpu
      /\ SampleOf((pic.parts \o parts)[1]) = pic.sample
      /\ OfPicture(pic.parts, t.mpu, pic.sample)
      /\ t.pending.active => pic.sample = t.pending.sample
      /\ ~t.pending.active => pic.sample = SampleOf(parts[1])
  <2>1. IsJoined(pic, t, parts)
    BY <1>1, <1>2, JoinedFacts
  <2> HIDE DEF pic
  <2> QED
    BY <2>1 DEF IsJoined
<1>5. 1 \in 1 .. Len(parts) /\ u \in UnitRecord
  BY <1>2, EmptySeq, LenProperties, ElementOfSeq, PositionFacts
<1>6. v = IF size > MaxAccessUnit - pic.size THEN Cleared(Marked(t))
          ELSE [t EXCEPT !.pending =
                 [pic EXCEPT !.parts = @ \o parts, !.size = @ + size,
                             !.vcl = @ \/ IsVcl(u), !.rap = @ \/ rap \/ u.irap]]
  BY DEF AddNal, Joined, SampleOf
<1> HIDE DEF size, pic, v, u
<1>7. CASE size > MaxAccessUnit - pic.size
  <2> DEFINE m == Marked(t)
  <2>1. /\ m \in Tracks /\ m.discontinuity = TRUE /\ m.skipping = t.skipping
        /\ m.media = t.media /\ m.mpu = t.mpu
        /\ m.wait = t.wait /\ m.lastDts = t.lastDts /\ m.out = t.out
    BY <1>1, MarkedFacts
  <2>2. v = Cleared(m)
    BY <1>6, <1>7
  <2> HIDE DEF m
  <2>3. /\ v \in Tracks /\ v.pending = NoPicture /\ v.discontinuity = TRUE
        /\ v.media = t.media /\ v.mpu = t.mpu /\ v.skipping = t.skipping
        /\ v.wait = t.wait /\ v.lastDts = t.lastDts /\ v.out = t.out
    BY <2>1, <2>2, ClearedFacts
  <2>4. OnePending(v)
    BY <2>3, NonePending
  <2>5. Kept(v, c, << >>, e)
    BY <2>3, <2>4, MarkKeeps
  <2> QED
    BY <2>3, <2>5 DEF v
<1>8. CASE ~(size > MaxAccessUnit - pic.size)
  <2> DEFINE all == pic.parts \o parts
             vcl == pic.vcl \/ IsVcl(u)
             ra == pic.rap \/ rap \/ u.irap
             bytes == pic.size + size
             new == [pic EXCEPT !.parts = all, !.size = bytes, !.vcl = vcl, !.rap = ra]
  <2>1. v = [t EXCEPT !.pending = new]
    BY <1>6, <1>8
  <2>2. pic.parts \in Seq(Position)
    BY <1>4 DEF Pictures
  <2>3. all \in Seq(Position) /\ all # << >>
    BY <1>2, <2>2, ConcatProperties, ConcatEqualIffEmpty
  <2>4. bytes \in 0 .. MaxAccessUnit
    BY <1>3, <1>4, <1>8, MaxAccessUnitAssumption DEF Pictures
  <2>5. vcl \in BOOLEAN /\ ra \in BOOLEAN
    BY <1>4, <1>5 DEF Pictures, IsVcl, UnitRecord
  <2>6. SampleOf(all[1]) = pic.sample
    BY <1>4
  <2>7. OfPicture(all, t.mpu, pic.sample)
    <3> SUFFICES ASSUME NEW j \in DOMAIN all
                 PROVE  MpuOf(all[j]) = t.mpu /\ SampleOf(all[j]) \in {0, pic.sample}
      BY DEF OfPicture
    <3> DEFINE p == pic.parts
               n == Len(p)
    <3>1. p \in Seq(Position) /\ n \in Nat /\ Len(parts) \in Nat /\ DOMAIN p = 1 .. n
          /\ DOMAIN parts = 1 .. Len(parts)
      BY <1>2, <2>2, LenProperties
    <3>2. Len(all) = n + Len(parts) /\ DOMAIN all = 1 .. Len(all)
          /\ \A i \in 1 .. (n + Len(parts)) : all[i] = IF i <= n THEN p[i] ELSE parts[i - n]
      BY <1>2, <2>2, <2>3, ConcatProperties, LenProperties
    <3> HIDE DEF n, all
    <3>3. CASE j <= n
      <4>1. j \in DOMAIN p /\ all[j] = p[j]
        BY <3>1, <3>2, <3>3
      <4> QED
        BY <1>4, <4>1 DEF OfPicture
    <3>4. CASE ~(j <= n)
      <4>1. j - n \in DOMAIN parts /\ all[j] = parts[j - n]
        BY <3>1, <3>2, <3>4
      <4>2. PictureOf(all[j]) = << t.mpu, SampleOf(parts[1]) >>
        BY <1>2, <4>1
      <4>3. MpuOf(all[j]) = t.mpu /\ SampleOf(all[j]) = SampleOf(parts[1])
        BY <4>2 DEF PictureOf
      <4> QED
        BY <1>4, <4>3
    <3> QED
      BY <3>3, <3>4
  <2> HIDE DEF all, vcl, ra, bytes
  <2>8. /\ new \in Pictures /\ new.active = TRUE /\ new.parts = all
        /\ new.mpu = t.mpu /\ new.sample = pic.sample
    BY <1>4, <2>3, <2>4, <2>5 DEF Pictures
  <2> HIDE DEF new
  <2>9. /\ v \in Tracks /\ v.pending = new /\ v.media = t.media /\ v.mpu = t.mpu
        /\ v.skipping = t.skipping /\ v.discontinuity = t.discontinuity
        /\ v.wait = t.wait /\ v.lastDts = t.lastDts /\ v.out = t.out
    BY <1>1, <2>1, <2>8 DEF Tracks
  <2>10. OnePending(v)
    BY <2>3, <2>6, <2>7, <2>8, <2>9 DEF OnePending
  <2>11. Now(v, c) = Now(t, c)
    BY <2>9 DEF Now
  <2>12. NothingMissing(v, Now(v, c), << >>, e)
    <3>1. v.pending.parts \o << >> = t.pending.parts \o parts
      BY <1>4, <2>3, <2>8, <2>9, ConcatEmptySeq DEF all
    <3> QED
      BY <2>9, <2>11, <3>1 DEF NothingMissing, Kept
  <2>13. Waits(v, Now(v, c)) /\ SoFar(v, c) /\ SkipsMarked(v, Now(v, c))
    BY <2>9, <2>11 DEF Kept, Waits, SoFar, SkipsMarked
  <2>14. Kept(v, c, << >>, e)
    BY <2>9, <2>10, <2>12, <2>13 DEF Kept
  <2> QED
    BY <2>9, <2>14 DEF v
<1> QED
  BY <1>7, <1>8

LEMMA ValidHasBytes ==
  ASSUME NEW x \in Position, UnitAt(x).valid
  PROVE  UnitAt(x).size > 0
<1>1. x = << x[1], x[2] >> /\ x[1] \in DOMAIN Stream /\ x[2] \in DOMAIN Stream[x[1]].units
  BY PositionFacts
<1>2. UnitAt(x) = Stream[x[1]].units[x[2]]
  BY DEF UnitAt
<1> QED
  BY <1>1, <1>2, SenderAssumption

(* consume_complete_mfu.                                                   *)
LEMMA CompleteKeeps ==
  ASSUME NEW c \in Contexts, Len(c.before) <= 1, NEW t, NEW parts, NEW e, NEW rap \in BOOLEAN,
         Kept(t, c, parts, e), InHand(t, parts, e), t.mpu \in Nat,
         t.media.state # "Skipping"
  PROVE  /\ Kept(CompleteMfu(t, parts, rap, t.mpu, c.known), c, << >>, e)
         /\ CompleteMfu(t, parts, rap, t.mpu, c.known).media = t.media
         /\ CompleteMfu(t, parts, rap, t.mpu, c.known).mpu = t.mpu
<1> DEFINE u == UnitAt(parts[1])
           s == [t EXCEPT !.skipping = FALSE]
           v == CompleteMfu(t, parts, rap, t.mpu, c.known)
<1>1. t \in Tracks /\ OnePending(t)
  BY DEF Kept
<1>2. /\ parts \in Seq(Position) /\ parts # << >> /\ EndsAt(parts, e)
  BY DEF InHand, EndsAt
<1>3. parts[1] \in Position
  BY <1>2, EmptySeq, LenProperties, ElementOfSeq
<1>4. CASE ~u.valid
  <2>1. v = Marked(t)
    BY <1>4 DEF CompleteMfu
  <2>2. /\ v \in Tracks /\ v.pending = t.pending /\ v.discontinuity = TRUE
        /\ v.media = t.media /\ v.mpu = t.mpu /\ v.skipping = t.skipping
        /\ v.wait = t.wait /\ v.lastDts = t.lastDts /\ v.out = t.out
    BY <1>1, <2>1, MarkedFacts
  <2> HIDE DEF v
  <2>3. OnePending(v)
    BY <1>1, <2>2 DEF OnePending
  <2>4. Kept(v, c, << >>, e)
    BY <2>2, <2>3, MarkKeeps
  <2> QED
    BY <2>2, <2>4 DEF v
<1>5. CASE u.valid /\ t.skipping /\ ~StartsAccessUnit(u)
  <2>1. v = t
    BY <1>5 DEF CompleteMfu
  <2>2. t.discontinuity = TRUE
    BY <1>1, <1>5 DEF OnePending, Tracks
  <2>3. Kept(t, c, << >>, e)
    BY <1>1, <2>2, MarkKeeps
  <2> QED
    BY <2>1, <2>3
<1>6. CASE /\ u.valid /\ ~(t.skipping /\ ~StartsAccessUnit(u))
           /\ IsVcl(u) /\ u.nal # "first" /\ ~s.pending.vcl
  <2> DEFINE k == [t EXCEPT !.skipping = TRUE]
             m == Marked(k)
  <2>1. v = Cleared(m)
    BY <1>6 DEF CompleteMfu
  <2>2. /\ k \in Tracks /\ k.media = t.media /\ k.mpu = t.mpu
        /\ k.wait = t.wait /\ k.lastDts = t.lastDts /\ k.out = t.out
    BY <1>1 DEF Tracks
  <2> HIDE DEF k
  <2>3. /\ m \in Tracks /\ m.discontinuity = TRUE /\ m.media = t.media /\ m.mpu = t.mpu
        /\ m.wait = t.wait /\ m.lastDts = t.lastDts /\ m.out = t.out
    BY <2>2, MarkedFacts
  <2> HIDE DEF m
  <2>4. /\ v \in Tracks /\ v.pending = NoPicture /\ v.discontinuity = TRUE
        /\ v.media = t.media /\ v.mpu = t.mpu
        /\ v.wait = t.wait /\ v.lastDts = t.lastDts /\ v.out = t.out
    BY <2>1, <2>3, ClearedFacts
  <2> HIDE DEF v
  <2>5. OnePending(v)
    BY <2>4, NonePending
  <2>6. Kept(v, c, << >>, e)
    BY <2>4, <2>5, MarkKeeps
  <2> QED
    BY <2>4, <2>6 DEF v
<1>7. CASE /\ u.valid /\ ~(t.skipping /\ ~StartsAccessUnit(u))
           /\ ~(IsVcl(u) /\ u.nal # "first" /\ ~s.pending.vcl)
  <2> DEFINE w == IF s.pending.active /\ BeginsAccessUnit(s.pending, u)
                  THEN Finalized(s, c.known) ELSE s
  <2>1. v = AddNal(w, parts, rap, t.mpu)
    BY <1>7 DEF CompleteMfu
  <2>2. /\ s \in Tracks /\ s.skipping = FALSE /\ s.pending = t.pending
        /\ s.media = t.media /\ s.mpu = t.mpu /\ s.discontinuity = t.discontinuity
        /\ s.wait = t.wait /\ s.lastDts = t.lastDts /\ s.out = t.out
    BY <1>1 DEF Tracks
  <2> HIDE DEF s, v, u
  <2>3. Kept(s, c, parts, e)
    <3>1. OnePending(s)
      BY <1>1, <2>2 DEF OnePending
    <3>2. Now(s, c) = Now(t, c)
      BY <2>2 DEF Now
    <3>3. /\ Waits(s, Now(s, c)) /\ NothingMissing(s, Now(s, c), parts, e)
          /\ SkipsMarked(s, Now(s, c)) /\ SoFar(s, c)
      BY <2>2, <3>2 DEF Kept, Waits, NothingMissing, SkipsMarked, SoFar
    <3> QED
      BY <2>2, <3>1, <3>3 DEF Kept
  <2>4. /\ Kept(Finalized(s, c.known), c, parts, e)
        /\ ~Finalized(s, c.known).pending.active
        /\ Finalized(s, c.known).media = s.media
        /\ Finalized(s, c.known).mpu = s.mpu
        /\ Finalized(s, c.known).skipping = s.skipping
    BY <1>2, <2>3, FinalizedKeeps
  <2>5. /\ Kept(w, c, parts, e) /\ w.media = t.media /\ w.mpu = t.mpu /\ ~w.skipping
        /\ w.pending.active => SampleOf(parts[1]) \in {0, w.pending.sample}
    <3>1. CASE s.pending.active /\ BeginsAccessUnit(s.pending, u)
      BY <2>2, <2>4, <3>1
    <3>2. CASE ~(s.pending.active /\ BeginsAccessUnit(s.pending, u))
      <4>1. w = s
        BY <3>2
      <4>2. s.pending.active => u.sample = 0 \/ s.pending.sample = u.sample
        BY <3>2 DEF BeginsAccessUnit
      <4> QED
        BY <2>2, <2>3, <4>1, <4>2 DEF SampleOf, u
    <3> QED
      BY <3>1, <3>2
  <2> HIDE DEF w
  <2>6. InHand(w, parts, e)
    BY <2>5 DEF InHand
  <2>7. UnitAt(parts[1]).size > 0
    BY <1>3, <1>7, ValidHasBytes DEF u
  <2>8. /\ Kept(AddNal(w, parts, rap, w.mpu), c, << >>, e)
        /\ AddNal(w, parts, rap, w.mpu).media = w.media
        /\ AddNal(w, parts, rap, w.mpu).mpu = w.mpu
    BY <2>5, <2>6, <2>7, AddNalKeeps
  <2> QED
    BY <2>1, <2>5, <2>8 DEF v
<1> QED
  BY <1>4, <1>5, <1>6, <1>7

-----------------------------------------------------------------------------
(* The track once the assembler has taken a piece.                         *)
Fed(t, asm, lost) == [t EXCEPT !.media = asm, !.discontinuity = @ \/ lost]

LEMMA FedFacts ==
  ASSUME NEW t \in Tracks, NEW asm \in Assemblers(Position, Nat \X Nat), NEW lost \in BOOLEAN
  PROVE  /\ Fed(t, asm, lost) \in Tracks
         /\ Fed(t, asm, lost).media = asm
         /\ Fed(t, asm, lost).discontinuity = (t.discontinuity \/ lost)
         /\ Fed(t, asm, lost).pending = t.pending /\ Fed(t, asm, lost).skipping = t.skipping
         /\ Fed(t, asm, lost).wait = t.wait /\ Fed(t, asm, lost).mpu = t.mpu
         /\ Fed(t, asm, lost).lastDts = t.lastDts /\ Fed(t, asm, lost).out = t.out
<1> DEFINE m == t.discontinuity \/ lost
<1>1. m \in BOOLEAN
  BY DEF Tracks
<1>2. Fed(t, asm, lost) = [t EXCEPT !.media = asm, !.discontinuity = m]
  BY DEF Fed
<1> HIDE DEF m
<1>3. /\ Fed(t, asm, lost) \in Tracks
      /\ Fed(t, asm, lost).media = asm
      /\ Fed(t, asm, lost).discontinuity = m
      /\ Fed(t, asm, lost).pending = t.pending /\ Fed(t, asm, lost).skipping = t.skipping
      /\ Fed(t, asm, lost).wait = t.wait /\ Fed(t, asm, lost).mpu = t.mpu
      /\ Fed(t, asm, lost).lastDts = t.lastDts /\ Fed(t, asm, lost).out = t.out
  BY <1>1, <1>2 DEF Tracks
<1> QED
  BY <1>3 DEF m

LEMMA FedKeeps ==
  ASSUME NEW c \in Contexts, NEW t, NEW hand, NEW e, Kept(t, c, hand, e),
         NEW asm \in Assemblers(Position, Nat \X Nat), NEW lost \in BOOLEAN,
         NEW s, s = Fed(t, asm, lost)
  PROVE  s \in Tracks /\ OnePending(s) /\ Now(s, c) = Now(t, c) /\ Waits(s, Now(s, c)) /\ SoFar(s, c)
<1>1. t \in Tracks /\ OnePending(t) /\ Waits(t, Now(t, c)) /\ SoFar(t, c)
  BY DEF Kept
<1>2. /\ s \in Tracks
      /\ s.discontinuity = (t.discontinuity \/ lost)
      /\ s.pending = t.pending /\ s.skipping = t.skipping
      /\ s.wait = t.wait /\ s.mpu = t.mpu
      /\ s.lastDts = t.lastDts /\ s.out = t.out
  BY <1>1, FedFacts
<1>3. Now(s, c) = Now(t, c)
  BY <1>2 DEF Now
<1>4. OnePending(s)
  BY <1>1, <1>2 DEF OnePending
<1>5. Waits(s, Now(s, c))
  BY <1>1, <1>2, <1>3 DEF Waits
<1>6. SoFar(s, c)
  BY <1>1, <1>2 DEF SoFar
<1> QED
  BY <1>2, <1>3, <1>4, <1>5, <1>6

(* Whatever is dropped shows.                                              *)
LEMMA LostKeeps ==
  ASSUME NEW c \in Contexts, NEW t, NEW hand, NEW e, Kept(t, c, hand, e),
         NEW asm \in Assemblers(Position, Nat \X Nat), NEW lost \in BOOLEAN,
         NEW hand2, NEW e2, t.discontinuity \/ lost
  PROVE  Kept(Fed(t, asm, lost), c, hand2, e2)
<1> DEFINE s == Fed(t, asm, lost)
<1>1. t \in Tracks
  BY DEF Kept
<1>2. /\ s \in Tracks /\ s.discontinuity = (t.discontinuity \/ lost)
      /\ s.wait = t.wait /\ s.lastDts = t.lastDts /\ s.out = t.out
  BY <1>1, FedFacts
<1>3. OnePending(s)
  BY FedKeeps
<1>4. s.discontinuity = TRUE
  BY <1>2
<1> HIDE DEF s
<1>5. Kept(s, c, hand2, e2)
  BY <1>2, <1>3, <1>4, MarkKeeps
<1> QED
  BY <1>5 DEF s

(* The next place of the stream joins what is in hand.                     *)
LEMMA GrowKeeps ==
  ASSUME NEW c \in Contexts, Len(c.before) <= 1, NEW t, NEW hand \in Seq(Position), NEW h,
         Kept(t, c, hand, h),
         NEW asm \in Assemblers(Position, Nat \X Nat), asm.state # "Skipping",
         NEW lost \in BOOLEAN, NEW x \in Position,
         \A q \in Seq(Position) : EndsAt(q, h) => x \in Following[h]
  PROVE  Kept(Fed(t, asm, lost), c, Append(hand, x), x)
<1> DEFINE s == Fed(t, asm, lost)
           b == Now(t, c)
           p == t.pending.parts
<1>1. t \in Tracks /\ OnePending(t) /\ NothingMissing(t, b, hand, h)
  BY DEF Kept
<1>2. s \in Tracks /\ OnePending(s) /\ Now(s, c) = b /\ Waits(s, Now(s, c)) /\ SoFar(s, c)
  BY FedKeeps
<1>3. s.media = asm /\ s.discontinuity = (t.discontinuity \/ lost) /\ s.pending = t.pending
  BY <1>1, FedFacts
<1>4. SkipsMarked(s, Now(s, c))
  BY <1>3 DEF SkipsMarked
<1>5. p \in Seq(Position) /\ b \in Seq(Units) /\ (b # << >> => b[1] \in Units)
  BY <1>1, KeptFacts DEF Pictures
<1> HIDE DEF s, b, p
<1>6. NothingMissing(s, b, Append(hand, x), x)
  <2> SUFFICES ASSUME ~s.discontinuity
               PROVE  /\ EndsAt(p \o Append(hand, x), x)
                      /\ b # << >> =>
                           \/ b[1].flagged
                           \/ EndsAt(b[1].parts \o (p \o Append(hand, x)), x)
    BY <1>3 DEF NothingMissing, p
  <2> DEFINE held == p \o hand
  <2>1. held \in Seq(Position) /\ p \o Append(hand, x) = Append(held, x)
    BY <1>5, ConcatProperties, ConcatAppend
  <2>2. /\ held # << >> => EndsAt(held, h)
        /\ b # << >> => b[1].flagged \/ EndsAt(b[1].parts \o held, h)
    BY <1>1, <1>3 DEF NothingMissing, p
  <2> HIDE DEF held
  <2>3. EndsAt(Append(held, x), x)
    BY <2>1, <2>2, EndsAtAppend
  <2>4. ASSUME b # << >>, ~b[1].flagged
        PROVE  EndsAt(b[1].parts \o Append(held, x), x)
    <3> DEFINE q == b[1].parts
    <3>1. q \in Seq(Position)
      BY <1>5, <2>4 DEF Units
    <3>2. EndsAt(q \o held, h)
      BY <2>2, <2>4
    <3> HIDE DEF q
    <3>3. q \o held \in Seq(Position) /\ q \o Append(held, x) = Append(q \o held, x)
      BY <2>1, <3>1, ConcatProperties, ConcatAppend
    <3>4. EndsAt(Append(q \o held, x), x)
      BY <3>2, <3>3, EndsAtAppend
    <3> QED
      BY <3>3, <3>4 DEF q
  <2> QED
    BY <2>1, <2>3, <2>4
<1> QED
  BY <1>2, <1>4, <1>6 DEF Kept, s

-----------------------------------------------------------------------------
(* The channel's next packet is near enough for its sequence number.       *)
Near(a, i) == a # 0 => i <= a + MaxJump /\ a <= i + MaxBack

LEMMA TrackPiece ==
  ASSUME NEW i \in DOMAIN Stream, NEW k \in DOMAIN Stream[i].units, NEW p, p = Piece(i, k)
  PROVE  /\ p.seq = i % SequenceModulus /\ p.seq \in 0 .. (SequenceModulus - 1)
         /\ p.tag = PictureOf(<< i, k >>) /\ p.tag \in Nat \X Nat
         /\ p.frag = Stream[i].fragmentation /\ p.frag \in Fragmentation
         /\ p.agg = Stream[i].aggregation
         /\ p.part = << i, k >> /\ p.part \in Position
         /\ p.size \in Nat
<1>1. /\ << i, k >> \in Position /\ MpuOf(<< i, k >>) = Stream[i].mpu
      /\ SampleOf(<< i, k >>) = Stream[i].units[k].sample
      /\ SampleOf(<< i, k >>) \in Nat /\ Stream[i].units[k] \in UnitRecord
  BY PlaceFacts
<1>2. i \in Nat /\ Stream[i].mpu \in Nat /\ Stream[i].fragmentation \in Fragmentation
  BY StreamFacts
<1>3. i % SequenceModulus \in 0 .. (SequenceModulus - 1)
  BY <1>2, Remainder, SequenceModulusAssumption
<1>4. p.tag = PictureOf(<< i, k >>)
  BY <1>1 DEF Piece, PictureOf
<1>5. p.size \in Nat
  BY <1>1 DEF Piece, UnitRecord
<1> QED
  BY <1>1, <1>2, <1>3, <1>4, <1>5 DEF Piece, PictureOf

LEMMA SequenceFacts ==
  ASSUME NEW asm, NEW a \in 0 .. Len(Stream), NEW i \in DOMAIN Stream, Near(a, i),
         asm.state = "Initial" <=> a = 0,
         a # 0 => asm.last = a % SequenceModulus,
         NEW p, p.seq = i % SequenceModulus
  PROVE  /\ Jumped(asm, p) => a # i
         /\ Duplicate(asm, p) => i = a /\ ~(p.agg /\ p.frag = 0)
         /\ ~Jumped(asm, p) /\ ~Duplicate(asm, p) =>
              a = 0 \/ i = a + 1 \/ (i = a /\ p.agg /\ p.frag = 0)
<1>1. Len(Stream) \in Nat /\ i \in Nat /\ i # 0
  BY StreamFacts
<1>2. CASE a = 0
  BY <1>1, <1>2 DEF Jumped, Duplicate
<1>3. CASE a # 0
  <2>1. asm.last = a % SequenceModulus /\ asm.state # "Initial"
    BY <1>3
  <2>2. i \in Nat /\ a \in Nat /\ i <= a + (SequenceModulus - 2)
        /\ a <= i + (SequenceModulus - 2)
    BY <1>1, <1>3, MaxJumpAssumption, SequenceModulusAssumption DEF Near
  <2>3. SequenceModulus \in Nat /\ SequenceModulus > 2
    BY SequenceModulusAssumption
  <2>4. ASSUME i % SequenceModulus = a % SequenceModulus
        PROVE  i = a
    <3>1. i - a < SequenceModulus /\ a - i < SequenceModulus
      BY <2>2, <2>3
    <3> QED
      BY <2>2, <2>3, <2>4, <3>1, SameSequence
  <2>5. ASSUME i % SequenceModulus = ((a % SequenceModulus) + 1) % SequenceModulus
        PROVE  i = a + 1
    <3>1. i - (a + 1) < SequenceModulus /\ (a + 1) - i < SequenceModulus
      BY <2>2, <2>3
    <3> QED
      BY <2>2, <2>3, <2>5, <3>1, NextSequence
  <2>6. i = a => i % SequenceModulus = a % SequenceModulus
    OBVIOUS
  <2>7. /\ Repeats(asm, p) <=> i = a
        /\ Follows(asm, p) => i = a + 1
    BY <2>1, <2>4, <2>5, <2>6, Zenon DEF Repeats, Follows
  <2>8. Follows(asm, p) => ~Repeats(asm, p)
    BY <2>2, <2>7
  <2> QED
    BY <2>7, <2>8, Zenon DEF Jumped, Duplicate
<1> QED
  BY <1>2, <1>3

(* Nothing collected ends at a place that does not exist.                  *)
LEMMA EndOfPacket ==
  ASSUME NEW a \in 0 .. Len(Stream), NEW q \in Seq(Position), EndsAt(q, End(a))
  PROVE  /\ a \in DOMAIN Stream /\ Stream[a].units # << >>
<1>1. q # << >> /\ q[Len(q)] = End(a)
  BY DEF EndsAt
<1>2. q[Len(q)] \in Position
  BY <1>1, EmptySeq, LenProperties, ElementOfSeq
<1>3. << a, Len(Stream[a].units) >> \in Position
  BY <1>1, <1>2 DEF End
<1>4. a \in DOMAIN Stream /\ Len(Stream[a].units) \in DOMAIN Stream[a].units
  BY <1>3, PositionFacts
<1>5. Len(Stream[a].units) >= 1
  BY <1>4, StreamFacts
<1> QED
  BY <1>4, <1>5

(* What is collected is continued by the next packet only.                 *)
LEMMA CollectedFacts ==
  ASSUME NEW t \in Tracks, NEW a \in 0 .. Len(Stream), HeadCollected(t, a),
         t.media.data # << >>
  PROVE  /\ a \in DOMAIN Stream /\ ~Stream[a].aggregation
         /\ Stream[a].fragmentation \in {1, 2}
         /\ End(a) = << a, 1 >> /\ EndsAt(t.media.data, End(a))
<1>1. EndsAt(t.media.data, << a, 1 >>) /\ (Carries(a, 1) \/ Carries(a, 2))
  BY DEF HeadCollected
<1>2. a \in DOMAIN Stream /\ ~Stream[a].aggregation /\ Stream[a].fragmentation \in {1, 2}
  BY <1>1 DEF Carries
<1>3. Len(Stream[a].units) = 1
  BY <1>2, StreamFacts
<1> QED
  BY <1>1, <1>2, <1>3 DEF End

-----------------------------------------------------------------------------
(***************************************************************************)
(* The invariant after k units of packet i, a being the packet consumed    *)
(* before it.  Units shorter than their header are not consumed: as long   *)
(* as there are no others, the assembler is where it was.                  *)
(***************************************************************************)
Consumed(i, k) == \E j \in 1 .. k : ~Stream[i].units[j].short

Held(a, i, k) == IF Consumed(i, k) THEN i ELSE a

PlaceOf(a, i, k) == IF Consumed(i, k) THEN << i, k >> ELSE End(a)

Stage(t, c, a, i, k) ==
  /\ t.mpu = Stream[i].mpu
  /\ HeadCollected(t, Held(a, i, k))
  /\ Kept(t, c, t.media.data, PlaceOf(a, i, k))
  /\ ~Consumed(i, k) /\ k > 0 => t.discontinuity

(* Packets the channel may deliver after a and parse_mpu does not reject.  *)
Acceptable(a, i) ==
  /\ a \in 0 .. Len(Stream) /\ i \in DOMAIN Stream
  /\ Near(a, i) /\ (i = a => ~Stream[i].aggregation)
  /\ ~Rejected(Stream[i])

LEMMA AcceptableFacts ==
  ASSUME NEW a, NEW i, Acceptable(a, i), NEW k \in Nat
  PROVE  /\ Held(a, i, k) \in 0 .. Len(Stream) /\ Near(Held(a, i, k), i)
         /\ Stream[i].aggregation => Stream[i].fragmentation = 0
<1>1. i \in Nat /\ i \in 0 .. Len(Stream) /\ MaxJump \in Nat /\ MaxBack \in Nat
  <2>1. i \in Nat /\ i >= 1 /\ i <= Len(Stream) /\ Len(Stream) \in Nat
    BY StreamFacts DEF Acceptable
  <2> QED
    BY <2>1, MaxJumpAssumption, SequenceModulusAssumption
<1>2. Near(i, i)
  BY <1>1 DEF Near
<1> QED
  BY <1>1, <1>2 DEF Acceptable, Held, Rejected

(* A piece that neither repeats nor jumps is the next of the stream.       *)
LEMMA StageForward ==
  ASSUME NEW c, NEW t, NEW a, NEW i, Acceptable(a, i), NEW k \in DOMAIN Stream[i].units,
         Stage(t, c, a, i, k - 1),
         NEW p, p = Piece(i, k), ~Jumped(t.media, p), ~Duplicate(t.media, p),
         NEW h, h = PlaceOf(a, i, k - 1)
  PROVE  /\ ~t.discontinuity =>
              \A q \in Seq(Position) : EndsAt(q, h) => << i, k >> \in Following[h]
         /\ t.media.data # << >> =>
              /\ EndsAt(t.media.data, h) /\ ~Carries(i, 1)
              /\ Stream[i].fragmentation # 0 => << i, k >> \in Following[h]
<1> DEFINE b == Held(a, i, k - 1)
<1>1. i \in DOMAIN Stream /\ a \in 0 .. Len(Stream)
  BY DEF Acceptable
<1>2. /\ DOMAIN Stream[i].units = 1 .. Len(Stream[i].units) /\ Len(Stream[i].units) \in Nat
      /\ ~Stream[i].aggregation => Len(Stream[i].units) = 1
  BY <1>1, StreamFacts
<1>3. k \in Nat /\ k >= 1 /\ k - 1 \in Nat /\ (~Stream[i].aggregation => k = 1)
  <2> DEFINE n == Len(Stream[i].units)
  <2>1. k \in 1 .. n /\ n \in Nat /\ (~Stream[i].aggregation => n = 1)
    BY <1>2
  <2> HIDE DEF n
  <2> QED
    BY <2>1
<1>4. b \in 0 .. Len(Stream) /\ Near(b, i)
      /\ (Stream[i].aggregation => Stream[i].fragmentation = 0)
  BY <1>3, AcceptableFacts
<1>5. t \in Tracks /\ HeadCollected(t, b)
  BY DEF Stage, Kept
<1>6. p.seq = i % SequenceModulus /\ p.agg = Stream[i].aggregation
  BY <1>1, TrackPiece
<1>7. b = 0 \/ i = b + 1 \/ (i = b /\ Stream[i].aggregation)
  <2>1. /\ t.media.state = "Initial" <=> b = 0
        /\ b # 0 => t.media.last = b % SequenceModulus
    BY <1>5 DEF HeadCollected
  <2> QED
    BY <1>1, <1>4, <1>6, <2>1, SequenceFacts
<1>8. CASE Consumed(i, k - 1)
  <2>1. b = i /\ h = << i, k - 1 >> /\ k - 1 >= 1
    BY <1>3, <1>8 DEF Held, PlaceOf, Consumed
  <2>2. k - 1 \in DOMAIN Stream[i].units /\ (k - 1) + 1 = k
    BY <1>2, <1>3, <2>1
  <2>3. << i, k >> \in Following[h]
    BY <1>1, <2>1, <2>2, FollowsWithin
  <2>4. Stream[i].aggregation
    <3>1. k # 1
      BY <1>3, <2>1
    <3> QED
      BY <1>3, <3>1
  <2>5. t.media.data = << >>
    BY <1>4, <1>5, <2>1, <2>4, CollectedFacts
  <2> QED
    BY <2>3, <2>5
<1>9. CASE ~Consumed(i, k - 1)
  <2>1. b = a /\ h = End(a)
    BY <1>9 DEF Held, PlaceOf
  <2>2. a = 0 \/ i = a + 1
    BY <1>7, <2>1 DEF Acceptable
  <2>3. ASSUME NEW q \in Seq(Position), EndsAt(q, h), k = 1
        PROVE  << i, k >> \in Following[h]
    <3>1. a \in DOMAIN Stream /\ Stream[a].units # << >>
      BY <1>1, <2>1, <2>3, EndOfPacket
    <3>2. a # 0
      BY <3>1, StreamFacts
    <3>3. a + 1 = i /\ 1 \in DOMAIN Stream[i].units
      BY <2>2, <2>3, <3>2
    <3>4. << a + 1, 1 >> \in Following[<< a, Len(Stream[a].units) >>]
      BY <1>1, <3>1, <3>3, FollowsAcross
    <3> QED
      BY <2>1, <2>3, <3>3, <3>4 DEF End
  <2>4. ~t.discontinuity => k = 1
    BY <1>3, <1>9 DEF Stage
  <2>5. ASSUME t.media.data # << >>
        PROVE  /\ EndsAt(t.media.data, h) /\ ~Carries(i, 1)
               /\ Stream[i].fragmentation # 0 => << i, k >> \in Following[h]
    <3>1. /\ a \in DOMAIN Stream /\ ~Stream[a].aggregation
          /\ Stream[a].fragmentation \in {1, 2} /\ EndsAt(t.media.data, h)
      BY <1>1, <1>5, <2>1, <2>5, CollectedFacts
    <3>2. Carries(a, 1) \/ Carries(a, 2)
      BY <3>1 DEF Carries
    <3>3. i = a + 1
      BY <2>2, <3>1, StreamFacts
    <3>4. ~Carries(i, 1)
      BY <3>1, <3>2, <3>3, SenderAssumption
    <3>5. ASSUME Stream[i].fragmentation # 0
          PROVE  << i, k >> \in Following[h]
      <4>1. k = 1
        BY <1>3, <1>4, <3>5
      <4>2. t.media.data \in Seq(Position)
        BY <1>5 DEF Tracks, Assemblers
      <4> QED
        BY <2>3, <3>1, <4>1, <4>2
    <3> QED
      BY <3>1, <3>4, <3>5
  <2> QED
    BY <2>3, <2>4, <2>5
<1> QED
  BY <1>8, <1>9

(* The pieces of one unit.                                                 *)
LEMMA OneTag ==
  ASSUME NEW data \in Seq(Position), NEW x \in Position,
         \A j \in DOMAIN data : PictureOf(data[j]) = PictureOf(x)
  PROVE  /\ \A j \in DOMAIN Append(data, x) : PictureOf(Append(data, x)[j]) = PictureOf(x)
         /\ SampleOf(Append(data, x)[1]) = SampleOf(x)
<1> DEFINE s == Append(data, x)
           n == Len(data)
<1>1. /\ n \in Nat /\ Len(s) = n + 1 /\ s \in Seq(Position)
      /\ \A j \in 1 .. n : s[j] = data[j]
      /\ s[n + 1] = x /\ DOMAIN s = 1 .. Len(s) /\ DOMAIN data = 1 .. n
  BY AppendProperties, LenProperties
<1> HIDE DEF s, n
<1>2. \A j \in DOMAIN s : PictureOf(s[j]) = PictureOf(x)
  <2> SUFFICES ASSUME NEW j \in DOMAIN s
               PROVE  PictureOf(s[j]) = PictureOf(x)
    OBVIOUS
  <2>1. CASE j = n + 1
    BY <1>1, <2>1
  <2>2. CASE j # n + 1
    <3>1. j \in 1 .. n
      BY <1>1, <2>2
    <3> QED
      BY <1>1, <3>1
  <2> QED
    BY <2>1, <2>2
<1>3. 1 \in DOMAIN s
  BY <1>1
<1>4. PictureOf(s[1]) = PictureOf(x)
  BY <1>2, <1>3
<1>5. SampleOf(s[1]) = SampleOf(x)
  BY <1>4 DEF PictureOf
<1> QED
  BY <1>2, <1>5 DEF s

LEMMA OneIsAppend ==
  ASSUME NEW x \in Position
  PROVE  << x >> = Append(<< >>, x) /\ << >> \in Seq(Position)
<1>1. << >> \in Seq(Position)
  BY EmptySeq
<1>2. Append(<< >>, x) = << >> \o << x >>
  BY <1>1, AppendIsConcat
<1>3. << x >> \in Seq(Position)
  OBVIOUS
<1> QED
  BY <1>1, <1>2, <1>3, ConcatEmptySeq

(* A piece that is taken completes a NAL unit, or part of one.             *)
PieceKept(v, c, i, k) ==
  /\ v.mpu = Stream[i].mpu
  /\ HeadCollected(v, i)
  /\ Kept(v, c, v.media.data, << i, k >>)

OfOne(data, tag) == \A j \in DOMAIN data : PictureOf(data[j]) = tag

(* What the cases of a piece have in common.                               *)
PieceContext(c, t, a, i, k, p, r, h) ==
  /\ c \in Contexts /\ Len(c.before) <= 1 /\ Acceptable(a, i)
  /\ k \in DOMAIN Stream[i].units /\ Stage(t, c, a, i, k - 1)
  /\ p = Piece(i, k) /\ ~Duplicate(t.media, p)
  /\ r = ConsumePiece(t.media, p)
  /\ h = PlaceOf(a, i, k - 1)

PieceSetting(c, t, i, k, p, h) ==
  /\ c \in Contexts /\ Len(c.before) <= 1
  /\ i \in DOMAIN Stream /\ i # 0 /\ k \in DOMAIN Stream[i].units
  /\ Stream[i].fragmentation # 0 => ~Stream[i].aggregation /\ k = 1
  /\ << i, k >> \in Position /\ MpuOf(<< i, k >>) = Stream[i].mpu
  /\ Stream[i].mpu \in Nat
  /\ t \in Tracks /\ t.mpu = Stream[i].mpu
  /\ t.media \in Assemblers(Position, Nat \X Nat)
  /\ t.media.data \in Seq(Position)
  /\ t.media.state # "Collecting" => t.media.data = << >>
  /\ OfOne(t.media.data, t.media.tag)
  /\ p.frag = Stream[i].fragmentation /\ p.part = << i, k >>
  /\ p.tag = PictureOf(<< i, k >>)
  /\ Kept(t, c, t.media.data, h)

LEMMA PieceContextFacts ==
  ASSUME NEW c, NEW t, NEW a, NEW i, NEW k, NEW p, NEW r, NEW h,
         PieceContext(c, t, a, i, k, p, r, h)
  PROVE  PieceSetting(c, t, i, k, p, h)
<1>1. /\ i \in DOMAIN Stream /\ k \in DOMAIN Stream[i].units
      /\ Stream[i].aggregation => Stream[i].fragmentation = 0
  BY DEF PieceContext, Acceptable, Rejected
<1>2. /\ ~Stream[i].aggregation => Len(Stream[i].units) = 1
      /\ DOMAIN Stream[i].units = 1 .. Len(Stream[i].units)
      /\ i # 0 /\ Stream[i].mpu \in Nat
  BY <1>1, StreamFacts
<1>3. Stream[i].fragmentation # 0 => ~Stream[i].aggregation /\ k = 1
  <2> DEFINE n == Len(Stream[i].units)
  <2>1. k \in 1 .. n /\ (~Stream[i].aggregation => n = 1)
    BY <1>1, <1>2
  <2> HIDE DEF n
  <2> QED
    BY <1>1, <2>1
<1>4. t \in Tracks /\ t.mpu = Stream[i].mpu /\ HeadCollected(t, Held(a, i, k - 1))
      /\ Kept(t, c, t.media.data, h)
  BY DEF PieceContext, Stage, Kept
<1>5. t.media \in Assemblers(Position, Nat \X Nat) /\ t.media.data \in Seq(Position)
  BY <1>4 DEF Tracks, Assemblers
<1>6. /\ t.media.state # "Collecting" => t.media.data = << >>
      /\ OfOne(t.media.data, t.media.tag)
  BY <1>4 DEF HeadCollected, OfOne
<1>7. p.frag = Stream[i].fragmentation /\ p.part = << i, k >> /\ p.tag = PictureOf(<< i, k >>)
  BY <1>1, TrackPiece DEF PieceContext
<1>8. << i, k >> \in Position /\ MpuOf(<< i, k >>) = Stream[i].mpu
  BY <1>1, PlaceFacts
<1> QED
  BY <1>1, <1>2, <1>3, <1>4, <1>5, <1>6, <1>7, <1>8 DEF PieceContext, PieceSetting

LEMMA PieceContextOutcome ==
  ASSUME NEW c, NEW t, NEW a, NEW i, NEW k, NEW p, NEW r, NEW h,
         PieceContext(c, t, a, i, k, p, r, h)
  PROVE  /\ r.asm \in Assemblers(Position, Nat \X Nat) /\ r.asm.last = i % SequenceModulus
         /\ r.lost \in BOOLEAN /\ (Jumped(t.media, p) => r.lost)
         /\ \/ Completes(t.media, p, r) \/ Collects(t.media, p, r)
            \/ Drops(r) \/ PassesOver(t.media, r)
<1>1. /\ i \in DOMAIN Stream /\ k \in DOMAIN Stream[i].units
      /\ t.media \in Assemblers(Position, Nat \X Nat)
      /\ t.media.state # "Collecting" => t.media.data = << >>
  <2>1. PieceSetting(c, t, i, k, p, h)
    BY PieceContextFacts
  <2> QED
    BY <2>1 DEF PieceSetting
<1>2. p = Piece(i, k) /\ r = ConsumePiece(t.media, p)
  BY DEF PieceContext
<1>3. /\ p.seq = i % SequenceModulus /\ p.seq \in 0 .. (SequenceModulus - 1)
      /\ p.tag \in Nat \X Nat /\ p.frag \in Fragmentation /\ p.part \in Position /\ p.size \in Nat
  BY <1>1, <1>2, TrackPiece
<1> DEFINE m == t.media
           Tags == Nat \X Nat
<1> HIDE DEF m, Tags
<1>4. /\ m \in Assemblers(Position, Tags) /\ p.tag \in Tags /\ r = ConsumePiece(m, p)
      /\ m.state # "Collecting" => m.data = << >>
  BY <1>1, <1>2, <1>3 DEF m, Tags
<1>5. /\ r.asm \in Assemblers(Position, Tags) /\ r.asm.last = p.seq
      /\ r.lost \in BOOLEAN /\ (Jumped(m, p) => r.lost)
      /\ Completes(m, p, r) \/ Collects(m, p, r) \/ Drops(r) \/ PassesOver(m, r)
  BY <1>3, <1>4, PieceOutcome
<1> QED
  BY <1>3, <1>5 DEF m, Tags

LEMMA PieceContextForward ==
  ASSUME NEW c, NEW t, NEW a, NEW i, NEW k, NEW p, NEW r, NEW h,
         PieceContext(c, t, a, i, k, p, r, h)
  PROVE  /\ ~t.discontinuity /\ ~r.lost =>
              \A q \in Seq(Position) : EndsAt(q, h) => << i, k >> \in Following[h]
         /\ t.media.data # << >> /\ ~Jumped(t.media, p) =>
              /\ EndsAt(t.media.data, h) /\ ~Carries(i, 1)
              /\ Stream[i].fragmentation # 0 => << i, k >> \in Following[h]
<1>1. /\ Acceptable(a, i) /\ k \in DOMAIN Stream[i].units /\ Stage(t, c, a, i, k - 1)
      /\ p = Piece(i, k) /\ ~Duplicate(t.media, p) /\ h = PlaceOf(a, i, k - 1)
  BY DEF PieceContext
<1>2. Jumped(t.media, p) => r.lost
  BY PieceContextOutcome
<1>3. ASSUME ~Jumped(t.media, p)
      PROVE  /\ ~t.discontinuity =>
                  \A q \in Seq(Position) : EndsAt(q, h) => << i, k >> \in Following[h]
             /\ t.media.data # << >> =>
                  /\ EndsAt(t.media.data, h) /\ ~Carries(i, 1)
                  /\ Stream[i].fragmentation # 0 => << i, k >> \in Following[h]
  BY <1>1, <1>3, StageForward
<1> QED
  BY <1>2, <1>3

(* The pieces in hand, grown or begun anew.                                *)
LEMMA HandKept ==
  ASSUME NEW c, NEW t, NEW a, NEW i, NEW k, NEW p, NEW r, NEW h,
         PieceContext(c, t, a, i, k, p, r, h),
         r.asm.state # "Skipping",
         NEW hand,
         \/ t.discontinuity \/ r.lost
         \/ hand = Append(t.media.data, << i, k >>)
  PROVE  Kept(Fed(t, r.asm, r.lost), c, hand, << i, k >>)
<1>1. /\ c \in Contexts /\ Len(c.before) <= 1 /\ Kept(t, c, t.media.data, h)
      /\ t.media.data \in Seq(Position) /\ << i, k >> \in Position
  <2>1. PieceSetting(c, t, i, k, p, h)
    BY PieceContextFacts
  <2> QED
    BY <2>1 DEF PieceSetting
<1>2. r.asm \in Assemblers(Position, Nat \X Nat) /\ r.lost \in BOOLEAN
  BY PieceContextOutcome
<1>3. CASE t.discontinuity \/ r.lost
  BY <1>1, <1>2, <1>3, LostKeeps
<1>4. CASE ~t.discontinuity /\ ~r.lost
  <2>1. \A q \in Seq(Position) : EndsAt(q, h) => << i, k >> \in Following[h]
    BY <1>4, PieceContextForward
  <2>2. hand = Append(t.media.data, << i, k >>)
    BY <1>4
  <2> DEFINE x == << i, k >>
             data == t.media.data
             asm == r.asm
             lost == r.lost
  <2>3. /\ data \in Seq(Position) /\ x \in Position /\ Kept(t, c, data, h)
        /\ asm \in Assemblers(Position, Nat \X Nat) /\ asm.state # "Skipping"
        /\ lost \in BOOLEAN
        /\ \A q \in Seq(Position) : EndsAt(q, h) => x \in Following[h]
    BY <1>1, <1>2, <2>1
  <2> HIDE DEF x, data, asm, lost
  <2>4. Kept(Fed(t, asm, lost), c, Append(data, x), x)
    BY <1>1, <2>3, GrowKeeps
  <2> QED
    BY <2>2, <2>4 DEF x, data, asm, lost
<1> QED
  BY <1>3, <1>4

LEMMA SingleEnds ==
  ASSUME NEW x \in Position
  PROVE  EndsAt(<< x >>, x) /\ << x >> \in Seq(Position)
<1>1. << >> \in Seq(Position) /\ << x >> = Append(<< >>, x)
  BY OneIsAppend
<1>2. Append(<< >>, x) \in Seq(Position) /\ EndsAt(Append(<< >>, x), x)
  BY <1>1, EndsAtAppend
<1> QED
  BY <1>1, <1>2

(* Pieces of the same unit as the last of them.                            *)
HeadOf(data, x) ==
  /\ data \in Seq(Position) /\ EndsAt(data, x)
  /\ OfOne(data, PictureOf(x))
  /\ SampleOf(data[1]) = SampleOf(x)

(* A fragment that continues what is collected.                            *)
LEMMA GrownHead ==
  ASSUME NEW c, NEW t, NEW a, NEW i, NEW k, NEW p, NEW r, NEW h,
         PieceContext(c, t, a, i, k, p, r, h),
         ~Jumped(t.media, p), t.media.tag = p.tag, Stream[i].fragmentation # 0,
         NEW data, data = Append(t.media.data, << i, k >>)
  PROVE  HeadOf(data, << i, k >>)
<1> DEFINE old == t.media.data
           x == << i, k >>
<1>1. /\ old \in Seq(Position) /\ x \in Position
      /\ \A j \in DOMAIN old : PictureOf(old[j]) = PictureOf(x)
  <2>1. old \in Seq(Position) /\ x \in Position
    <3>1. PieceSetting(c, t, i, k, p, h)
      BY PieceContextFacts
    <3> QED
      BY <3>1 DEF PieceSetting
  <2>2. OfOne(old, t.media.tag)
    <3>1. PieceSetting(c, t, i, k, p, h)
      BY PieceContextFacts
    <3> QED
      BY <3>1 DEF PieceSetting
  <2>3. p.tag = PictureOf(x)
    <3>1. i \in DOMAIN Stream /\ k \in DOMAIN Stream[i].units /\ p = Piece(i, k)
      BY DEF PieceContext, Acceptable
    <3> QED
      BY <3>1, TrackPiece
  <2> QED
    BY <2>1, <2>2, <2>3 DEF OfOne
<1>2. old # << >> => EndsAt(old, h) /\ x \in Following[h]
  BY PieceContextForward
<1> HIDE DEF old, x
<1>3. data = Append(old, x)
  BY DEF old, x
<1>4. data \in Seq(Position) /\ EndsAt(data, x)
  BY <1>1, <1>2, <1>3, EndsAtAppend
<1>5. /\ \A j \in DOMAIN data : PictureOf(data[j]) = PictureOf(x)
      /\ SampleOf(data[1]) = SampleOf(x)
  <2>1. /\ \A j \in DOMAIN Append(old, x) : PictureOf(Append(old, x)[j]) = PictureOf(x)
        /\ SampleOf(Append(old, x)[1]) = SampleOf(x)
    BY <1>1, OneTag
  <2> QED
    BY <1>3, <2>1
<1> QED
  BY <1>4, <1>5 DEF x, HeadOf, OfOne

LEMMA BegunHead ==
  ASSUME NEW x \in Position
  PROVE  HeadOf(<< x >>, x)
<1>1. DOMAIN << x >> = {1} /\ << x >>[1] = x
  OBVIOUS
<1> QED
  BY <1>1, SingleEnds DEF HeadOf, OfOne

(* The piece completes a NAL unit.                                         *)
LEMMA CompletedKept ==
  ASSUME NEW c, NEW t, NEW a, NEW i, NEW k, NEW p, NEW r, NEW h,
         PieceContext(c, t, a, i, k, p, r, h), Completes(t.media, p, r), NEW rap \in BOOLEAN
  PROVE  PieceKept(CompleteMfu(Fed(t, r.asm, r.lost), r.unit, rap, Stream[i].mpu, c.known), c, i, k)
<1> DEFINE s == Fed(t, r.asm, r.lost)
           x == << i, k >>
           v == CompleteMfu(s, r.unit, rap, Stream[i].mpu, c.known)
<1>1. /\ c \in Contexts /\ Len(c.before) <= 1
      /\ i # 0 /\ x \in Position /\ MpuOf(x) = Stream[i].mpu /\ Stream[i].mpu \in Nat
      /\ t \in Tracks /\ t.mpu = Stream[i].mpu
      /\ p.frag = Stream[i].fragmentation /\ p.part = x
      /\ t.media.state # "Collecting" => t.media.data = << >>
  <2>1. PieceSetting(c, t, i, k, p, h)
    BY PieceContextFacts
  <2> QED
    BY <2>1 DEF PieceSetting
<1>2. /\ r.asm \in Assemblers(Position, Nat \X Nat) /\ r.asm.last = i % SequenceModulus
      /\ r.lost \in BOOLEAN
  BY PieceContextOutcome
<1>3. r.asm.state = "Idle" /\ r.asm.data = << >>
  BY DEF Completes
<1>4. s \in Tracks /\ s.media = r.asm /\ s.mpu = Stream[i].mpu
  BY <1>1, <1>2, FedFacts
<1>5. /\ HeadOf(r.unit, x)
      /\ t.discontinuity \/ r.lost \/ r.unit = Append(t.media.data, x)
  <2>1. CASE p.frag = 0 /\ r.unit = << x >> /\ (r.lost \/ t.media.state # "Collecting")
    <3>1. HeadOf(<< x >>, x)
      BY <1>1, BegunHead
    <3>2. << x >> = Append(<< >>, x)
      BY <1>1, OneIsAppend
    <3> HIDE DEF x
    <3> QED
      BY <1>1, <2>1, <3>1, <3>2
  <2>2. CASE /\ p.frag = 3 /\ ~Jumped(t.media, p)
             /\ t.media.tag = p.tag /\ r.unit = Append(t.media.data, x)
    <3>1. Stream[i].fragmentation # 0
      BY <1>1, <2>2
    <3>2. HeadOf(r.unit, x)
      BY <2>2, <3>1, GrownHead
    <3> QED
      BY <2>2, <3>2
  <2> QED
    BY <1>1, <2>1, <2>2 DEF Completes
<1>6. Kept(s, c, r.unit, x)
  <2>1. r.asm.state # "Skipping"
    BY <1>3
  <2> QED
    BY <1>5, <2>1, HandKept
<1> HIDE DEF s, x, v
<1>7. InHand(s, r.unit, x)
  <2>1. PictureOf(x) = << s.mpu, SampleOf(r.unit[1]) >>
    BY <1>1, <1>4, <1>5 DEF PictureOf, HeadOf
  <2> QED
    BY <1>5, <2>1 DEF InHand, HeadOf, OfOne
<1>8. /\ Kept(CompleteMfu(s, r.unit, rap, s.mpu, c.known), c, << >>, x)
      /\ CompleteMfu(s, r.unit, rap, s.mpu, c.known).media = s.media
      /\ CompleteMfu(s, r.unit, rap, s.mpu, c.known).mpu = s.mpu
  <2>1. s.mpu \in Nat /\ s.media.state # "Skipping"
    BY <1>1, <1>3, <1>4
  <2> QED
    BY <1>1, <1>6, <1>7, <2>1, CompleteKeeps
<1>9. Kept(v, c, << >>, x) /\ v.media = r.asm /\ v.mpu = Stream[i].mpu
  BY <1>4, <1>8 DEF v
<1>10. HeadCollected(v, i)
  BY <1>1, <1>2, <1>3, <1>9 DEF HeadCollected
<1>11. PieceKept(v, c, i, k)
  BY <1>3, <1>9, <1>10 DEF PieceKept, x
<1> QED
  BY <1>11 DEF v, s

(* The piece is collected.                                                 *)
LEMMA CollectedKept ==
  ASSUME NEW c, NEW t, NEW a, NEW i, NEW k, NEW p, NEW r, NEW h,
         PieceContext(c, t, a, i, k, p, r, h), Collects(t.media, p, r)
  PROVE  PieceKept(Fed(t, r.asm, r.lost), c, i, k)
<1> DEFINE s == Fed(t, r.asm, r.lost)
           x == << i, k >>
<1>1. /\ i # 0 /\ i \in DOMAIN Stream /\ x \in Position
      /\ t \in Tracks /\ t.mpu = Stream[i].mpu
      /\ p.frag = Stream[i].fragmentation /\ p.part = x
      /\ t.media.state # "Collecting" => t.media.data = << >>
      /\ Stream[i].fragmentation # 0 => ~Stream[i].aggregation /\ k = 1
  <2>1. PieceSetting(c, t, i, k, p, h)
    BY PieceContextFacts
  <2> QED
    BY <2>1 DEF PieceSetting
<1>2. /\ r.asm \in Assemblers(Position, Nat \X Nat) /\ r.asm.last = i % SequenceModulus
      /\ r.lost \in BOOLEAN
  BY PieceContextOutcome
<1>3. /\ r.asm.state = "Collecting" /\ r.asm.tag = p.tag /\ p.frag \in {1, 2}
  BY DEF Collects
<1>4. /\ s.media = r.asm /\ s.mpu = Stream[i].mpu
  BY <1>1, <1>2, FedFacts
<1>5. Stream[i].fragmentation \in {1, 2} /\ ~Stream[i].aggregation /\ k = 1
  BY <1>1, <1>3
<1>6. p.tag = PictureOf(x)
  <2>1. k \in DOMAIN Stream[i].units /\ p = Piece(i, k)
    BY DEF PieceContext
  <2> QED
    BY <1>1, <2>1, TrackPiece
<1>7. /\ HeadOf(r.asm.data, x)
      /\ t.discontinuity \/ r.lost \/ r.asm.data = Append(t.media.data, x)
  <2>1. CASE p.frag = 1 /\ r.asm.data = << x >>
    <3>1. HeadOf(<< x >>, x)
      BY <1>1, BegunHead
    <3>2. << x >> = Append(<< >>, x)
      BY <1>1, OneIsAppend
    <3>3. t.media.data = << >> \/ r.lost
      <4>1. Carries(i, 1)
        BY <1>1, <1>5, <2>1 DEF Carries
      <4>2. Jumped(t.media, p) => r.lost
        BY PieceContextOutcome
      <4>3. t.media.data # << >> /\ ~Jumped(t.media, p) => ~Carries(i, 1)
        BY PieceContextForward
      <4> QED
        BY <4>1, <4>2, <4>3
    <3> HIDE DEF x
    <3> QED
      BY <2>1, <3>1, <3>2, <3>3
  <2>2. CASE /\ ~Jumped(t.media, p) /\ t.media.tag = p.tag
             /\ r.asm.data = Append(t.media.data, x)
    <3>1. Stream[i].fragmentation # 0
      BY <1>5
    <3>2. HeadOf(r.asm.data, x)
      BY <2>2, <3>1, GrownHead
    <3> QED
      BY <2>2, <3>2
  <2> QED
    BY <1>1, <2>1, <2>2 DEF Collects
<1>8. Kept(s, c, r.asm.data, x)
  <2>1. r.asm.state # "Skipping"
    BY <1>3
  <2> QED
    BY <1>7, <2>1, HandKept
<1>9. HeadCollected(s, i)
  <2>1. Carries(i, 1) \/ Carries(i, 2)
    BY <1>1, <1>5 DEF Carries
  <2>2. EndsAt(r.asm.data, << i, 1 >>)
    BY <1>5, <1>7 DEF HeadOf
  <2> HIDE DEF s, x
  <2> QED
    BY <1>1, <1>2, <1>3, <1>4, <1>6, <1>7, <2>1, <2>2 DEF HeadCollected, HeadOf, OfOne
<1> QED
  BY <1>4, <1>8, <1>9 DEF PieceKept

(* The piece is dropped, or skipped as those before it.                    *)
LEMMA DroppedKept ==
  ASSUME NEW c, NEW t, NEW a, NEW i, NEW k, NEW p, NEW r, NEW h,
         PieceContext(c, t, a, i, k, p, r, h), Drops(r) \/ PassesOver(t.media, r)
  PROVE  PieceKept(Fed(t, r.asm, r.lost), c, i, k)
<1> DEFINE s == Fed(t, r.asm, r.lost)
           x == << i, k >>
           b == Now(t, c)
<1>1. /\ c \in Contexts /\ i # 0 /\ t \in Tracks /\ t.mpu = Stream[i].mpu
      /\ t.media.state # "Collecting" => t.media.data = << >>
      /\ Kept(t, c, t.media.data, h)
  <2>1. PieceSetting(c, t, i, k, p, h)
    BY PieceContextFacts
  <2> QED
    BY <2>1 DEF PieceSetting
<1>2. /\ r.asm \in Assemblers(Position, Nat \X Nat) /\ r.asm.last = i % SequenceModulus
      /\ r.lost \in BOOLEAN
  BY PieceContextOutcome
<1>3. r.asm.data = << >> /\ r.asm.state \in {"Idle", "Skipping"}
  BY DEF Drops, PassesOver
<1>4. /\ s.media = r.asm /\ s.mpu = Stream[i].mpu /\ s.pending = t.pending
      /\ s.discontinuity = (t.discontinuity \/ r.lost)
  BY <1>1, <1>2, FedFacts
<1>5. Kept(s, c, << >>, x)
  <2>1. CASE t.discontinuity \/ r.lost
    BY <1>1, <1>2, <2>1, LostKeeps
  <2>2. CASE ~t.discontinuity /\ ~r.lost
    <3>1. t.media.state = "Skipping"
      BY <2>2 DEF Drops, PassesOver
    <3>2. /\ ~t.pending.active /\ b # << >> /\ b[1].flagged
          /\ OnePending(t)
      BY <1>1, <2>2, <3>1 DEF Kept, SkipsMarked
    <3>3. t.pending.parts = << >>
      BY <3>2 DEF OnePending
    <3>4. s \in Tracks /\ OnePending(s) /\ Now(s, c) = b /\ Waits(s, Now(s, c)) /\ SoFar(s, c)
      BY <1>1, <1>2, FedKeeps
    <3>5. << >> \o << >> = << >>
      <4>1. << >> \in Seq(Position)
        BY EmptySeq
      <4> QED
        BY <4>1, ConcatEmptySeq
    <3>6. NothingMissing(s, b, << >>, x) /\ SkipsMarked(s, b)
      <4> HIDE DEF s, b, x
      <4> QED
        BY <1>4, <3>2, <3>3, <3>5 DEF NothingMissing, SkipsMarked
    <3> HIDE DEF s, b, x
    <3> QED
      BY <3>4, <3>6 DEF Kept
  <2> QED
    BY <2>1, <2>2
<1>6. HeadCollected(s, i)
  <2> HIDE DEF s
  <2> QED
    BY <1>1, <1>2, <1>3, <1>4 DEF HeadCollected
<1> QED
  BY <1>3, <1>4, <1>5, <1>6 DEF PieceKept

(* consume_mfu_piece.                                                      *)
LEMMA PieceKeeps ==
  ASSUME NEW c, NEW t, NEW a, NEW i, NEW k, NEW p, NEW r, NEW h,
         PieceContext(c, t, a, i, k, p, r, h), NEW rap \in BOOLEAN
  PROVE  PieceKept(IF r.unit = << >> THEN Fed(t, r.asm, r.lost)
                   ELSE CompleteMfu(Fed(t, r.asm, r.lost), r.unit, rap, Stream[i].mpu, c.known),
                   c, i, k)
<1>1. \/ Completes(t.media, p, r) \/ Collects(t.media, p, r)
      \/ Drops(r) \/ PassesOver(t.media, r)
  BY PieceContextOutcome
<1>2. CASE Completes(t.media, p, r)
  <2>1. r.unit # << >>
    <3>1. t.media.data \in Seq(Position) /\ p.part \in Position
      <4>1. PieceSetting(c, t, i, k, p, h)
        BY PieceContextFacts
      <4> QED
        BY <4>1 DEF PieceSetting
    <3>2. Append(t.media.data, p.part) # << >> /\ << p.part >> # << >>
      BY <3>1, AppendProperties
    <3>3. r.unit = << p.part >> \/ r.unit = Append(t.media.data, p.part)
      BY <1>2 DEF Completes
    <3> QED
      BY <3>2, <3>3
  <2>2. PieceKept(CompleteMfu(Fed(t, r.asm, r.lost), r.unit, rap, Stream[i].mpu, c.known), c, i, k)
    BY <1>2, CompletedKept
  <2> QED
    BY <2>1, <2>2
<1>3. CASE Collects(t.media, p, r)
  <2>1. r.unit = << >>
    BY <1>3 DEF Collects
  <2>2. PieceKept(Fed(t, r.asm, r.lost), c, i, k)
    BY <1>3, CollectedKept
  <2> QED
    BY <2>1, <2>2
<1>4. CASE Drops(r) \/ PassesOver(t.media, r)
  <2>1. r.unit = << >>
    BY <1>4 DEF Drops, PassesOver
  <2>2. PieceKept(Fed(t, r.asm, r.lost), c, i, k)
    BY <1>4, DroppedKept
  <2> QED
    BY <2>1, <2>2
<1> QED
  BY <1>1, <1>2, <1>3, <1>4

LEMMA ConsumedStep ==
  ASSUME NEW i, NEW k \in Nat, k >= 1
  PROVE  Consumed(i, k) <=> Consumed(i, k - 1) \/ ~Stream[i].units[k].short
<1>1. 1 .. k = (1 .. (k - 1)) \union {k}
  OBVIOUS
<1> QED
  BY <1>1 DEF Consumed

LEMMA ConsumeKeeps ==
  ASSUME NEW c \in Contexts, Len(c.before) <= 1, NEW t, NEW a, NEW i, Acceptable(a, i),
         NEW k \in DOMAIN Stream[i].units, Stage(t, c, a, i, k - 1)
  PROVE  Stage(ConsumeMfu(t, i, k, c.known), c, a, i, k)
<1> DEFINE p == Piece(i, k)
           r == ConsumePiece(t.media, p)
           v == ConsumeMfu(t, i, k, c.known)
           h == PlaceOf(a, i, k - 1)
           b == Held(a, i, k - 1)
           rap == \E j \in DOMAIN r.unit : Stream[r.unit[j][1]].rap
<1>1. i \in DOMAIN Stream
  BY DEF Acceptable
<1>2. k \in Nat /\ k >= 1 /\ k - 1 \in Nat /\ (~Stream[i].aggregation => k = 1)
      /\ (~Stream[i].aggregation => Len(Stream[i].units) = 1)
  <2> DEFINE n == Len(Stream[i].units)
  <2>1. k \in 1 .. n /\ n \in Nat /\ (~Stream[i].aggregation => n = 1)
    BY <1>1, StreamFacts
  <2> HIDE DEF n
  <2>2. k \in Nat /\ k >= 1 /\ k - 1 \in Nat /\ (~Stream[i].aggregation => k = 1)
    BY <2>1
  <2> QED
    BY <2>1, <2>2 DEF n
<1>3. b \in 0 .. Len(Stream) /\ Near(b, i)
      /\ (Stream[i].aggregation => Stream[i].fragmentation = 0)
  BY <1>2, AcceptableFacts
<1>4. /\ t \in Tracks /\ t.mpu = Stream[i].mpu /\ HeadCollected(t, b)
      /\ Kept(t, c, t.media.data, h)
  BY DEF Stage, Kept
<1>5. p.seq = i % SequenceModulus /\ p.agg = Stream[i].aggregation
      /\ p.frag = Stream[i].fragmentation /\ p.part = << i, k >>
  BY <1>1, TrackPiece
<1>6. UnitAt(p.part).short <=> Stream[i].units[k].short
  BY <1>1, <1>5, PlaceFacts
<1>7. CASE Stream[i].units[k].short
  <2>1. v = Marked(t)
    BY <1>6, <1>7 DEF ConsumeMfu
  <2>2. /\ v \in Tracks /\ v.pending = t.pending /\ v.discontinuity = TRUE
        /\ v.media = t.media /\ v.mpu = t.mpu /\ v.skipping = t.skipping
        /\ v.wait = t.wait /\ v.lastDts = t.lastDts /\ v.out = t.out
    BY <1>4, <2>1, MarkedFacts
  <2>3. Held(a, i, k) = b
    BY <1>2, <1>7, ConsumedStep DEF Held
  <2> HIDE DEF v, b, h, p, r
  <2>4. OnePending(t)
    BY <1>4 DEF Kept
  <2>5. OnePending(v)
    BY <2>2, <2>4 DEF OnePending
  <2>6. Kept(v, c, v.media.data, PlaceOf(a, i, k))
    <3> DEFINE hand == t.media.data
               hand2 == v.media.data
               e2 == PlaceOf(a, i, k)
    <3>1. /\ Kept(t, c, hand, h) /\ v \in Tracks /\ OnePending(v)
          /\ v.discontinuity = TRUE /\ v.out = t.out /\ v.wait = t.wait
          /\ v.lastDts \in {t.lastDts, None}
      BY <1>4, <2>2, <2>5
    <3> HIDE DEF hand, hand2, e2
    <3>2. Kept(v, c, hand2, e2)
      BY <3>1, MarkKeeps
    <3> QED
      BY <3>2 DEF hand2, e2
  <2>7. HeadCollected(v, Held(a, i, k))
    BY <1>4, <2>2, <2>3 DEF HeadCollected
  <2>8. Stage(v, c, a, i, k)
    BY <1>4, <2>2, <2>6, <2>7 DEF Stage
  <2> QED
    BY <2>8 DEF v
<1>8. CASE ~Stream[i].units[k].short
  <2>1. Consumed(i, k)
    BY <1>2, <1>8, ConsumedStep
  <2>2. Held(a, i, k) = i /\ PlaceOf(a, i, k) = << i, k >>
    BY <2>1 DEF Held, PlaceOf
  <2>3. CASE Duplicate(t.media, p)
    <3>1. v = t
      BY <1>6, <1>8, <2>3 DEF ConsumeMfu
    <3>2. i = b /\ ~(Stream[i].aggregation /\ Stream[i].fragmentation = 0)
      <4>1. /\ t.media.state = "Initial" <=> b = 0
            /\ b # 0 => t.media.last = b % SequenceModulus
        BY <1>4 DEF HeadCollected
      <4> HIDE DEF b, p
      <4>2. i = b /\ ~(p.agg /\ p.frag = 0)
        BY <1>1, <1>3, <1>5, <2>3, <4>1, SequenceFacts
      <4> QED
        BY <1>5, <4>2
    <3>3. ~Stream[i].aggregation /\ k = 1 /\ Len(Stream[i].units) = 1
      BY <1>2, <1>3, <3>2
    <3>4. ~Consumed(i, k - 1)
      BY <3>3 DEF Consumed
    <3>5. b = a /\ h = << i, k >>
      BY <3>2, <3>3, <3>4 DEF Held, PlaceOf, End
    <3>6. Stage(t, c, a, i, k)
      BY <1>4, <2>1, <2>2, <3>2, <3>5 DEF Stage
    <3> QED
      BY <3>1, <3>6
  <2>4. CASE ~Duplicate(t.media, p)
    <3>1. PieceContext(c, t, a, i, k, p, r, h)
      BY <2>4 DEF PieceContext
    <3>2. rap \in BOOLEAN
      OBVIOUS
    <3>3. v = IF r.unit = << >> THEN Fed(t, r.asm, r.lost)
              ELSE CompleteMfu(Fed(t, r.asm, r.lost), r.unit, rap, Stream[i].mpu, c.known)
      BY <1>6, <1>8, <2>4 DEF ConsumeMfu, Fed
    <3> HIDE DEF p, r, v, h, rap
    <3>4. PieceKept(v, c, i, k)
      BY <3>1, <3>2, <3>3, PieceKeeps
    <3>5. Stage(v, c, a, i, k)
      BY <2>1, <2>2, <3>4 DEF Stage, PieceKept
    <3> QED
      BY <3>5 DEF v
  <2> QED
    BY <2>3, <2>4
<1> QED
  BY <1>7, <1>8

-----------------------------------------------------------------------------
(* Between packets: a is the packet consumed last.                         *)
Settled(t, c, a) == HeadCollected(t, a) /\ Kept(t, c, t.media.data, End(a))

LEMMA SettledHand ==
  ASSUME NEW c, NEW t, NEW a \in 0 .. Len(Stream), Settled(t, c, a)
  PROVE  /\ t \in Tracks /\ t.media.data \in Seq(Position)
         /\ t.media.data = << >> \/ EndsAt(t.media.data, End(a))
<1>1. t \in Tracks /\ HeadCollected(t, a)
  BY DEF Settled, Kept
<1>2. t.media.data \in Seq(Position)
  BY <1>1 DEF Tracks, Assemblers
<1>3. t.media.data # << >> => EndsAt(t.media.data, End(a))
  BY <1>1, CollectedFacts
<1> QED
  BY <1>1, <1>2, <1>3

LEMMA SettledMarked ==
  ASSUME NEW c \in Contexts, NEW t, NEW a, Settled(t, c, a)
  PROVE  Settled(Marked(t), c, a) /\ Marked(t).mpu = t.mpu
<1> DEFINE v == Marked(t)
           hand == t.media.data
           h == End(a)
<1>1. t \in Tracks /\ HeadCollected(t, a) /\ Kept(t, c, hand, h) /\ OnePending(t)
  BY DEF Settled, Kept
<1>2. /\ v \in Tracks /\ v.pending = t.pending /\ v.discontinuity = TRUE
      /\ v.media = t.media /\ v.mpu = t.mpu /\ v.skipping = t.skipping
      /\ v.wait = t.wait /\ v.lastDts = t.lastDts /\ v.out = t.out
  BY <1>1, MarkedFacts
<1> HIDE DEF v, hand, h
<1>3. OnePending(v)
  BY <1>1, <1>2 DEF OnePending
<1>4. Kept(v, c, hand, h)
  BY <1>1, <1>2, <1>3, MarkKeeps
<1>5. HeadCollected(v, a)
  BY <1>1, <1>2 DEF HeadCollected
<1>6. Settled(v, c, a)
  BY <1>2, <1>4, <1>5 DEF Settled, hand, h
<1> QED
  BY <1>2, <1>6 DEF v

(* Another MPU; its access units are counted anew.                         *)
Renumbered(t, m) == [t EXCEPT !.mpu = m, !.index = 0, !.lastDts = None]

LEMMA RenumberedKeeps ==
  ASSUME NEW c \in Contexts, NEW t, NEW a, Settled(t, c, a), ~t.pending.active, NEW m \in MPU
  PROVE  Settled(Renumbered(t, m), c, a) /\ Renumbered(t, m).mpu = m
<1> DEFINE v == Renumbered(t, m)
<1>1. t \in Tracks /\ HeadCollected(t, a) /\ Kept(t, c, t.media.data, End(a))
  BY DEF Settled, Kept
<1>2. /\ v \in Tracks /\ v.pending = t.pending /\ v.discontinuity = t.discontinuity
      /\ v.media = t.media /\ v.mpu = m /\ v.skipping = t.skipping
      /\ v.wait = t.wait /\ v.lastDts = None /\ v.out = t.out
  BY <1>1 DEF Renumbered, Tracks
<1> HIDE DEF v
<1>3. OnePending(v)
  <2>1. /\ t.pending.active <=> t.pending.parts # << >>
        /\ OfPicture(t.pending.parts, t.pending.mpu, t.pending.sample)
        /\ t.skipping => t.discontinuity
    BY <1>1 DEF Kept, OnePending
  <2> QED
    BY <1>2, <2>1 DEF OnePending
<1>4. Now(v, c) = Now(t, c)
  BY <1>2 DEF Now
<1>5. /\ Waits(v, Now(v, c)) /\ NothingMissing(v, Now(v, c), v.media.data, End(a))
      /\ SkipsMarked(v, Now(v, c)) /\ SoFar(v, c)
  BY <1>1, <1>2, <1>4 DEF Kept, Waits, NothingMissing, SkipsMarked, SoFar
<1>6. HeadCollected(v, a)
  BY <1>1, <1>2 DEF HeadCollected
<1>7. Settled(v, c, a)
  BY <1>2, <1>3, <1>5, <1>6 DEF Settled, Kept
<1> QED
  BY <1>2, <1>7 DEF v

LEMMA EnterKeeps ==
  ASSUME NEW c \in Contexts, Len(c.before) <= 1, NEW t, NEW a \in 0 .. Len(Stream),
         Settled(t, c, a), NEW m \in MPU
  PROVE  Settled(EnterMpu(t, m, c.known), c, a) /\ EnterMpu(t, m, c.known).mpu = m
<1> DEFINE f == Finalized(t, c.known)
           g == IF CountDisagrees(f, c.known) \/ m # t.mpu + 1 THEN Marked(f) ELSE f
           u == EnterMpu(t, m, c.known)
<1>1. /\ t \in Tracks /\ t.media.data \in Seq(Position)
      /\ t.media.data = << >> \/ EndsAt(t.media.data, End(a))
      /\ HeadCollected(t, a) /\ Kept(t, c, t.media.data, End(a)) /\ OnePending(t)
  BY SettledHand DEF Settled, Kept
<1>2. CASE t.mpu = m
  BY <1>2 DEF EnterMpu
<1>3. CASE t.mpu # m /\ t.mpu = None
  <2>1. u = Renumbered(t, m)
    BY <1>3 DEF EnterMpu, Renumbered
  <2>2. ~t.pending.active
    <3>1. t.pending.mpu \in Nat
      BY <1>1 DEF Tracks, Pictures
    <3>2. t.pending.active => t.pending.mpu = None
      BY <1>1, <1>3 DEF OnePending
    <3> QED
      BY <3>1, <3>2 DEF None
  <2> QED
    BY <2>1, <2>2, RenumberedKeeps
<1>4. CASE t.mpu # m /\ t.mpu # None
  <2>1. u = Renumbered(g, m)
    BY <1>4 DEF EnterMpu, Renumbered
  <2>2. Settled(f, c, a) /\ ~f.pending.active
    <3> DEFINE hand == t.media.data
               h == End(a)
    <3>1. hand \in Seq(Position) /\ (hand = << >> \/ EndsAt(hand, h)) /\ Kept(t, c, hand, h)
      BY <1>1
    <3> HIDE DEF hand, h
    <3>2. Kept(f, c, hand, h) /\ ~f.pending.active /\ f.media = t.media
      BY <3>1, FinalizedKeeps
    <3> HIDE DEF f
    <3>3. HeadCollected(f, a)
      BY <1>1, <3>2 DEF HeadCollected
    <3> QED
      BY <3>2, <3>3 DEF Settled, hand, h
  <2> HIDE DEF f
  <2>3. Settled(g, c, a) /\ ~g.pending.active
    <3>1. Settled(Marked(f), c, a)
      BY <2>2, SettledMarked
    <3>2. Marked(f).pending = f.pending
      <4>1. f \in Tracks
        BY <2>2 DEF Settled, Kept
      <4> QED
        BY <4>1, MarkedFacts
    <3> QED
      BY <2>2, <3>1, <3>2
  <2> HIDE DEF g
  <2> QED
    BY <2>1, <2>3, RenumberedKeeps
<1> QED
  BY <1>2, <1>3, <1>4

(* The loop over the units of a packet keeps the invariant at each turn.   *)
LEMMA UnitsKeep ==
  ASSUME NEW c \in Contexts, Len(c.before) <= 1, NEW t, NEW a, NEW i, Acceptable(a, i),
         Stage(t, c, a, i, 0)
  PROVE  LET n == Len(Stream[i].units)
             after == AfterUnits(t, i, c.known)
         IN  /\ after[0] = t
             /\ \A k \in 1 .. n : after[k] = ConsumeMfu(after[k - 1], i, k, c.known)
             /\ \A k \in 0 .. n : Stage(after[k], c, a, i, k)
<1> DEFINE N == Len(Stream[i].units)
           Turn(s, n) == ConsumeMfu(s, i, n, c.known)
           step == [x \in Tracks \X (1 .. N) |->
                      IF Stage(x[1], c, a, i, x[2] - 1) THEN Turn(x[1], x[2]) ELSE x[1]]
           Loop(f) == f = [k \in 0 .. N |-> IF k = 0 THEN t ELSE Turn(f[k - 1], k)]
           after == CHOOSE f : Loop(f)
           I == [n \in 0 .. N |-> {s \in Tracks : Stage(s, c, a, i, n)}]
<1>1. N \in Nat /\ DOMAIN Stream[i].units = 1 .. N
  BY StreamFacts DEF Acceptable
<1>2. \A s, n : Stage(s, c, a, i, n) => s \in Tracks
  BY DEF Stage, Kept
<1>3. \A s, n : n \in 1 .. N /\ Stage(s, c, a, i, n - 1) => Stage(Turn(s, n), c, a, i, n)
  BY <1>1, ConsumeKeeps
<1>4. AfterUnits(t, i, c.known) = after
  BY DEF AfterUnits
<1> HIDE DEF Turn, N
<1>5. t \in Tracks /\ step \in [Tracks \X (1 .. N) -> Tracks]
  <2>1. \A x \in Tracks \X (1 .. N) :
          (IF Stage(x[1], c, a, i, x[2] - 1) THEN Turn(x[1], x[2]) ELSE x[1]) \in Tracks
    BY <1>2, <1>3
  <2> QED
    BY <1>2, <2>1
<1>6. \A s \in Tracks, n \in 1 .. N :
        step[<< s, n >>] = IF Stage(s, c, a, i, n - 1) THEN Turn(s, n) ELSE s
  OBVIOUS
<1> HIDE DEF step
<1>7. PICK f \in [0 .. N -> Tracks] : IsLoop(f, N, t, step)
  BY <1>1, <1>5, LoopExists
<1>8. /\ f = [k \in 0 .. N |-> IF k = 0 THEN t ELSE step[<< f[k - 1], k >>]]
      /\ \A k \in 0 .. N : f[k] \in Tracks
  BY <1>7 DEF IsLoop
<1>9. \A k \in 0 .. N : f[k] \in I[k]
  <2>1. f[0] \in I[0]
    <3>1. f[0] = t /\ 0 \in 0 .. N
      BY <1>1, <1>8
    <3> QED
      BY <1>5, <3>1
  <2>2. ASSUME NEW k \in 1 .. N, f[k - 1] \in I[k - 1]
        PROVE  f[k] \in I[k]
    <3>1. k - 1 \in 0 .. N /\ k \in 0 .. N /\ k # 0
      BY <1>1
    <3>2. f[k - 1] \in Tracks /\ Stage(f[k - 1], c, a, i, k - 1)
      BY <2>2, <3>1
    <3>3. f[k] = Turn(f[k - 1], k)
      <4>1. f[k] = step[<< f[k - 1], k >>]
        BY <1>8, <3>1
      <4> QED
        BY <1>6, <3>2, <4>1
    <3>4. Stage(f[k], c, a, i, k)
      BY <1>3, <3>2, <3>3
    <3> QED
      BY <1>2, <3>1, <3>4
  <2> HIDE DEF I
  <2> QED
    BY <1>1, <2>1, <2>2, LoopInvariant
<1>10. Loop(f)
  <2>1. ASSUME NEW k \in 0 .. N, k # 0
        PROVE  step[<< f[k - 1], k >>] = Turn(f[k - 1], k)
    <3>1. k - 1 \in 0 .. N /\ k \in 1 .. N
      BY <1>1, <2>1
    <3>2. f[k - 1] \in Tracks /\ Stage(f[k - 1], c, a, i, k - 1)
      BY <1>9, <3>1
    <3> QED
      BY <1>6, <3>1, <3>2
  <2>2. [k \in 0 .. N |-> IF k = 0 THEN t ELSE step[<< f[k - 1], k >>]]
          = [k \in 0 .. N |-> IF k = 0 THEN t ELSE Turn(f[k - 1], k)]
    BY <2>1
  <2> QED
    BY <1>8, <2>2
<1>11. Loop(after)
  <2> HIDE DEF Loop
  <2> QED
    BY <1>10, Zenon
<1> HIDE DEF after
<1>12. after[0] = t /\ \A k \in 1 .. N : after[k] = Turn(after[k - 1], k)
  <2>1. \A k \in 0 .. N : after[k] = IF k = 0 THEN t ELSE Turn(after[k - 1], k)
    BY <1>11
  <2> QED
    BY <1>1, <2>1
<1> HIDE DEF Loop
<1>13. \A k \in 0 .. N : after[k] \in I[k]
  <2>1. after[0] \in I[0]
    <3>1. 0 \in 0 .. N
      BY <1>1
    <3> QED
      BY <1>5, <1>12, <3>1
  <2>2. ASSUME NEW k \in 1 .. N, after[k - 1] \in I[k - 1]
        PROVE  after[k] \in I[k]
    <3>1. k - 1 \in 0 .. N /\ k \in 0 .. N
      BY <1>1
    <3>2. Stage(after[k - 1], c, a, i, k - 1)
      BY <2>2, <3>1
    <3>3. Stage(after[k], c, a, i, k)
      BY <1>3, <1>12, <3>2
    <3> QED
      BY <1>2, <3>1, <3>3
  <2> HIDE DEF I
  <2> QED
    BY <1>1, <2>1, <2>2, LoopInvariant
<1>14. \A k \in 0 .. N : Stage(after[k], c, a, i, k)
  BY <1>13
<1> QED
  BY <1>4, <1>12, <1>14 DEF N, Turn

(* parse_mpu: the whole packet.                                            *)
LEMMA PacketKeeps ==
  ASSUME NEW c \in Contexts, Len(c.before) <= 1, NEW t, NEW a, NEW i, Acceptable(a, i),
         Settled(t, c, a)
  PROVE  LET n == Len(Stream[i].units)
         IN  Settled(ConsumePacket(t, i, c.known), c, IF Consumed(i, n) THEN i ELSE a)
<1> DEFINE n == Len(Stream[i].units)
           s == EnterMpu(t, Stream[i].mpu, c.known)
           all == AfterUnits(s, i, c.known)[n]
           b == IF Consumed(i, n) THEN i ELSE a
           u == ConsumePacket(t, i, c.known)
<1>1. a \in 0 .. Len(Stream) /\ Stream[i].mpu \in MPU
  BY StreamFacts DEF Acceptable
<1>2. Settled(s, c, a) /\ s.mpu = Stream[i].mpu
  BY <1>1, EnterKeeps
<1>3. u = IF Stream[i].aggregation /\ Stream[i].cut THEN Marked(all) ELSE all
  BY DEF ConsumePacket
<1> HIDE DEF s
<1>4. Stage(s, c, a, i, 0)
  <2>1. ~Consumed(i, 0)
    BY DEF Consumed
  <2> QED
    BY <1>2, <2>1 DEF Stage, Settled, Held, PlaceOf
<1>5. Stage(all, c, a, i, n)
  <2>1. n \in 0 .. n
    BY StreamFacts DEF Acceptable
  <2> QED
    BY <1>4, <2>1, UnitsKeep
<1> HIDE DEF all
<1>6. Settled(all, c, b)
  <2>1. Held(a, i, n) = b /\ PlaceOf(a, i, n) = End(b)
    BY DEF Held, PlaceOf, End
  <2> HIDE DEF b
  <2> QED
    BY <1>5, <2>1 DEF Stage, Settled
<1> HIDE DEF b
<1>7. Settled(u, c, b)
  <2>1. Settled(Marked(all), c, b)
    BY <1>6, SettledMarked
  <2> QED
    BY <1>3, <1>6, <2>1
<1> QED
  BY <1>7 DEF b, u

-----------------------------------------------------------------------------
(* What observe_damage has said of the first n units, d0 being the state   *)
(* before them.                                                            *)
Witnessed(d, d0, units, n) ==
  /\ d \in Damages /\ Len(d.heard) = n
  /\ \A k \in 1 .. n :
       /\ d.heard[k].parts = units[k].parts
       /\ units[k].flagged => d.heard[k].damaged
       /\ k = 1 /\ d0.open => d.heard[k].damaged
       /\ k > 1 /\ units[k - 1].flagged /\ ~units[k - 1].rap => d.heard[k].damaged
  /\ n = 0 => d.open = d0.open
  /\ n > 0 /\ units[n].flagged /\ ~units[n].rap => d.open

LEMMA ObservedKeeps ==
  ASSUME NEW d0, NEW units \in Seq(Units), NEW n \in 1 .. Len(units), NEW d,
         Witnessed(d, d0, units, n - 1)
  PROVE  Witnessed(Observed(d, units[n]), d0, units, n)
<1> DEFINE u == units[n]
           in == d.open \/ u.flagged
           open == in /\ ~u.rap
           entry == [parts |-> u.parts, damaged |-> in]
           heard == Append(d.heard, entry)
           v == Observed(d, u)
           Heard == [parts: Seq(Position), damaged: BOOLEAN]
<1>1. u \in Units /\ n \in Nat /\ n >= 1 /\ n - 1 \in Nat
  BY ElementOfSeq, LenProperties
<1>2. d \in Damages /\ d.open \in BOOLEAN /\ d.heard \in Seq(Heard) /\ Len(d.heard) = n - 1
  BY DEF Witnessed, Damages
<1>3. in \in BOOLEAN /\ open \in BOOLEAN
  BY <1>1, <1>2 DEF Units
<1>4. v = [open |-> open, heard |-> heard]
  BY DEF Observed
<1> HIDE DEF in, open, v, u
<1>5. entry \in Heard /\ entry.parts = u.parts /\ entry.damaged = in
  BY <1>1, <1>3 DEF Units
<1> HIDE DEF entry, Heard
<1>6. /\ heard \in Seq(Heard) /\ Len(heard) = n
      /\ \A k \in 1 .. (n - 1) : heard[k] = d.heard[k]
      /\ heard[n] = entry
  <2> DEFINE old == d.heard
  <2>1. old \in Seq(Heard) /\ Len(old) = n - 1
    BY <1>2
  <2> HIDE DEF old
  <2>2. /\ Append(old, entry) \in Seq(Heard) /\ Len(Append(old, entry)) = Len(old) + 1
        /\ \A k \in 1 .. Len(old) : Append(old, entry)[k] = old[k]
        /\ Append(old, entry)[Len(old) + 1] = entry
    BY <1>5, <2>1, AppendProperties
  <2>3. (n - 1) + 1 = n
    BY <1>1
  <2> QED
    BY <2>1, <2>2, <2>3 DEF old
<1> HIDE DEF heard
<1>7. v \in Damages /\ v.open = open /\ v.heard = heard
  BY <1>3, <1>4, <1>6 DEF Damages, Heard
<1>8. ASSUME NEW k \in 1 .. n
      PROVE  /\ heard[k].parts = units[k].parts
             /\ units[k].flagged => heard[k].damaged
             /\ k = 1 /\ d0.open => heard[k].damaged
             /\ k > 1 /\ units[k - 1].flagged /\ ~units[k - 1].rap => heard[k].damaged
  <2>1. CASE k = n
    <3>1. heard[k] = entry /\ units[k] = u
      BY <1>6, <2>1 DEF u
    <3>2. k = 1 /\ d0.open => d.open
      <4>1. k = 1 => n - 1 = 0
        BY <2>1
      <4>2. n - 1 = 0 => d.open = d0.open
        BY DEF Witnessed
      <4> QED
        BY <4>1, <4>2
    <3>3. k > 1 /\ units[k - 1].flagged /\ ~units[k - 1].rap => d.open
      BY <1>1, <2>1 DEF Witnessed
    <3> QED
      BY <1>5, <3>1, <3>2, <3>3 DEF in
  <2>2. CASE k # n
    <3>1. k \in 1 .. (n - 1)
      BY <1>1, <2>2
    <3> QED
      BY <1>6, <3>1 DEF Witnessed
  <2> QED
    BY <2>1, <2>2
<1>9. u.flagged /\ ~u.rap => open
  BY DEF open, in
<1> QED
  BY <1>1, <1>6, <1>7, <1>8, <1>9 DEF Witnessed, v, u

LEMMA ObserveAllFacts ==
  ASSUME NEW d0, d0.open \in BOOLEAN, NEW units \in Seq(Units)
  PROVE  Witnessed(ObserveAll(d0, units), d0, units, Len(units))
<1> DEFINE N == Len(units)
           start == [open |-> d0.open, heard |-> << >>]
           Turn(d, n) == Observed(d, units[n])
           step == [x \in Damages \X (1 .. N) |->
                      IF Witnessed(x[1], d0, units, x[2] - 1) THEN Turn(x[1], x[2]) ELSE x[1]]
           Loop(f) == f = [n \in 0 .. N |-> IF n = 0 THEN start ELSE Turn(f[n - 1], n)]
           after == CHOOSE f : Loop(f)
           I == [n \in 0 .. N |-> {d \in Damages : Witnessed(d, d0, units, n)}]
<1>1. N \in Nat
  BY LenProperties
<1>2. \A d, n : Witnessed(d, d0, units, n) => d \in Damages
  BY DEF Witnessed
<1>3. \A d, n : n \in 1 .. N /\ Witnessed(d, d0, units, n - 1) => Witnessed(Turn(d, n), d0, units, n)
  BY ObservedKeeps
<1>4. ObserveAll(d0, units) = after[N]
  BY DEF ObserveAll
<1>5. start \in Damages /\ Witnessed(start, d0, units, 0)
  <2>1. << >> \in Seq([parts: Seq(Position), damaged: BOOLEAN]) /\ Len(<< >>) = 0
    BY EmptySeq
  <2>2. start.open = d0.open /\ start.heard = << >> /\ start \in Damages
    BY <2>1 DEF Damages
  <2> HIDE DEF start
  <2> QED
    BY <2>1, <2>2 DEF Witnessed
<1> HIDE DEF Turn, N, start
<1>6. step \in [Damages \X (1 .. N) -> Damages]
  <2>1. \A x \in Damages \X (1 .. N) :
          (IF Witnessed(x[1], d0, units, x[2] - 1) THEN Turn(x[1], x[2]) ELSE x[1]) \in Damages
    BY <1>2, <1>3
  <2> QED
    BY <2>1
<1>7. \A d \in Damages, n \in 1 .. N :
        step[<< d, n >>] = IF Witnessed(d, d0, units, n - 1) THEN Turn(d, n) ELSE d
  OBVIOUS
<1> HIDE DEF step
<1>8. PICK f \in [0 .. N -> Damages] : IsLoop(f, N, start, step)
  BY <1>1, <1>5, <1>6, LoopExists
<1>9. /\ f = [n \in 0 .. N |-> IF n = 0 THEN start ELSE step[<< f[n - 1], n >>]]
      /\ \A n \in 0 .. N : f[n] \in Damages
  BY <1>8 DEF IsLoop
<1>10. \A n \in 0 .. N : f[n] \in I[n]
  <2>1. f[0] \in I[0]
    <3>1. f[0] = start /\ 0 \in 0 .. N
      BY <1>1, <1>9
    <3> QED
      BY <1>5, <3>1
  <2>2. ASSUME NEW n \in 1 .. N, f[n - 1] \in I[n - 1]
        PROVE  f[n] \in I[n]
    <3>1. n - 1 \in 0 .. N /\ n \in 0 .. N /\ n # 0
      BY <1>1
    <3>2. f[n - 1] \in Damages /\ Witnessed(f[n - 1], d0, units, n - 1)
      BY <2>2, <3>1
    <3>3. f[n] = step[<< f[n - 1], n >>]
      BY <1>9, <3>1
    <3>4. Witnessed(f[n], d0, units, n)
      BY <1>3, <1>7, <3>2, <3>3
    <3> QED
      BY <1>2, <3>1, <3>4
  <2> HIDE DEF I
  <2> QED
    BY <1>1, <2>1, <2>2, LoopInvariant
<1>11. Loop(f)
  <2>1. ASSUME NEW n \in 0 .. N, n # 0
        PROVE  step[<< f[n - 1], n >>] = Turn(f[n - 1], n)
    <3>1. n - 1 \in 0 .. N /\ n \in 1 .. N
      BY <1>1, <2>1
    <3>2. f[n - 1] \in Damages /\ Witnessed(f[n - 1], d0, units, n - 1)
      BY <1>10, <3>1
    <3> QED
      BY <1>7, <3>1, <3>2
  <2>2. [n \in 0 .. N |-> IF n = 0 THEN start ELSE step[<< f[n - 1], n >>]]
          = [n \in 0 .. N |-> IF n = 0 THEN start ELSE Turn(f[n - 1], n)]
    BY <2>1
  <2> QED
    BY <1>9, <2>2
<1>12. Loop(after)
  <2> HIDE DEF Loop
  <2> QED
    BY <1>11, Zenon
<1> HIDE DEF after
<1>13. after[0] = start /\ \A n \in 1 .. N : after[n] = Turn(after[n - 1], n)
  <2>1. \A n \in 0 .. N : after[n] = IF n = 0 THEN start ELSE Turn(after[n - 1], n)
    BY <1>12
  <2> QED
    BY <1>1, <2>1
<1> HIDE DEF Loop
<1>14. \A n \in 0 .. N : after[n] \in I[n]
  <2>1. after[0] \in I[0]
    <3>1. 0 \in 0 .. N
      BY <1>1
    <3> QED
      BY <1>5, <1>13, <3>1
  <2>2. ASSUME NEW n \in 1 .. N, after[n - 1] \in I[n - 1]
        PROVE  after[n] \in I[n]
    <3>1. n - 1 \in 0 .. N /\ n \in 0 .. N
      BY <1>1
    <3>2. Witnessed(after[n - 1], d0, units, n - 1)
      BY <2>2, <3>1
    <3>3. Witnessed(after[n], d0, units, n)
      BY <1>3, <1>13, <3>2
    <3> QED
      BY <1>2, <3>1, <3>3
  <2> HIDE DEF I
  <2> QED
    BY <1>1, <2>1, <2>2, LoopInvariant
<1>15. Witnessed(after[N], d0, units, N)
  <2>1. N \in 0 .. N
    BY <1>1
  <2> QED
    BY <1>14, <2>1
<1> QED
  BY <1>4, <1>15 DEF N

-----------------------------------------------------------------------------
(* What a step begins with.                                                *)
Context == [before |-> seen, waited |-> track.wait, marked |-> track.discontinuity,
            known |-> described]

LEMMA ShortLossShows ==
  ASSUME NEW units \in Seq(Units), Len(units) <= 1
  PROVE  LossShows(units)
<1>1. Len(units) \in Nat
  BY LenProperties
<1>2. 1 .. (Len(units) - 1) = {}
  BY <1>1
<1> QED
  BY <1>2 DEF LossShows

LEMMA Beginning ==
  ASSUME IInv
  PROVE  /\ Context \in Contexts /\ Len(Context.before) <= 1
         /\ Context.before = seen /\ Context.waited = track.wait
         /\ Context.marked = track.discontinuity /\ Context.known = described
         /\ at \in 0 .. Len(Stream) /\ described \subseteq MPU
         /\ Settled(Silence, Context, at)
<1>1. /\ track \in Tracks /\ described \subseteq MPU /\ at \in 0 .. Len(Stream)
      /\ seen \in Seq(Units) /\ Len(seen) <= 1
  BY DEF IInv, TypeOK
<1>2. track.wait \in BOOLEAN /\ track.discontinuity \in BOOLEAN
  BY <1>1 DEF Tracks
<1>3. /\ Context \in Contexts
      /\ Context.before = seen /\ Context.waited = track.wait
      /\ Context.marked = track.discontinuity /\ Context.known = described
  BY <1>1, <1>2 DEF Context, Contexts
<1> DEFINE t == Silence
           c == Context
<1>4. /\ t \in Tracks /\ t.out = << >> /\ t.media = track.media /\ t.pending = track.pending
      /\ t.skipping = track.skipping /\ t.wait = track.wait /\ t.mpu = track.mpu
      /\ t.discontinuity = track.discontinuity /\ t.lastDts = track.lastDts
  <2>1. << >> \in Seq(Units)
    BY EmptySeq
  <2> QED
    BY <1>1, <2>1 DEF Silence, Tracks
<1> HIDE DEF t, c
<1>5. Consistent(track, seen, at, End(at))
  BY DEF IInv
<1>6. Now(t, c) = seen
  BY <1>3, <1>4 DEF Now, Latest, c
<1>7. SoFar(t, c)
  <2>1. c.before \o t.out = seen
    BY <1>1, <1>3, <1>4, ConcatEmptySeq DEF c
  <2>2. LossShows(c.before \o t.out)
    BY <1>1, <2>1, ShortLossShows
  <2>3. DOMAIN t.out = {}
    BY <1>4
  <2> QED
    BY <1>3, <1>4, <2>2, <2>3 DEF SoFar, c
<1>8. /\ OnePending(t) /\ Waits(t, seen) /\ NothingMissing(t, seen, t.media.data, End(at))
      /\ SkipsMarked(t, seen) /\ HeadCollected(t, at)
  BY <1>4, <1>5 DEF Consistent, OnePending, Waits, NothingMissing, SkipsMarked, HeadCollected
<1>9. Settled(t, c, at)
  BY <1>4, <1>6, <1>7, <1>8 DEF Settled, Kept
<1> QED
  BY <1>1, <1>3, <1>9 DEF t, c

(* What a step hands over.                                                 *)
Handed(out) ==
  /\ out \in Seq(Units)
  /\ LossShows(seen \o out)
  /\ \A k \in DOMAIN out :
       OfPicture(out[k].parts, MpuOf(out[k].parts[1]), SampleOf(out[k].parts[1]))
  /\ out # << >> =>
       /\ seen = << >> => out[1].rap \/ out[1].flagged
       /\ track.wait /\ TimesKnown(described) => out[1].rap
       /\ track.discontinuity => out[1].flagged

LEMMA HandedFacts ==
  ASSUME IInv, NEW t, NEW hand, NEW e, Kept(t, Context, hand, e)
  PROVE  Handed(t.out)
<1>1. /\ Context.before = seen /\ Context.waited = track.wait
      /\ Context.marked = track.discontinuity /\ Context.known = described
  BY Beginning
<1>2. t \in Tracks /\ SoFar(t, Context)
  BY DEF Kept
<1>3. t.out \in Seq(Units)
  BY <1>2 DEF Tracks
<1>4. track.wait /\ TimesKnown(described) /\ t.out # << >> => t.out[1].rap
  BY <1>1, <1>2 DEF SoFar
<1> QED
  BY <1>1, <1>2, <1>3, <1>4 DEF SoFar, Handed

LEMMA NothingHanded ==
  ASSUME IInv
  PROVE  Handed(<< >>)
<1>1. << >> \in Seq(Units) /\ seen \in Seq(Units) /\ Len(seen) <= 1
  BY EmptySeq DEF IInv, TypeOK
<1>2. seen \o << >> = seen
  BY <1>1, ConcatEmptySeq
<1>3. LossShows(seen)
  BY <1>1, ShortLossShows
<1>4. DOMAIN << >> = {}
  OBVIOUS
<1> QED
  BY <1>1, <1>2, <1>3, <1>4 DEF Handed

(* The damage state and the units it was told of.                          *)
LEMMA DamageFollows ==
  ASSUME IInv, NEW out, Handed(out), NEW d, d = ObserveAll(damage, out)
  PROVE  /\ d \in Damages
         /\ Latest(seen, out) \in Seq(Units) /\ Len(Latest(seen, out)) <= 1
         /\ out # << >> /\ Latest(seen, out)[1].flagged /\ ~Latest(seen, out)[1].rap => d.open
         /\ out = << >> => d.open = damage.open
<1>1. /\ damage.open \in BOOLEAN /\ out \in Seq(Units)
      /\ seen \in Seq(Units) /\ Len(seen) <= 1
  BY DEF IInv, TypeOK, Damages, Handed
<1>2. Witnessed(d, damage, out, Len(out))
  BY <1>1, ObserveAllFacts
<1>3. Latest(seen, out) \in Seq(Units) /\ Len(Latest(seen, out)) <= 1
  BY <1>1, LatestFacts
<1>4. Len(out) \in Nat /\ (Len(out) = 0 <=> out = << >>)
  BY <1>1, EmptySeq, LenProperties
<1>5. out # << >> => Latest(seen, out)[1] = out[Len(out)]
  BY DEF Latest
<1> QED
  BY <1>2, <1>3, <1>4, <1>5 DEF Witnessed

(* A step that leaves the track as it should be keeps the invariant.       *)
LEMMA StepKeeps ==
  ASSUME IInv, Settled(track', Context, at'), damage' = ObserveAll(damage, track'.out),
         seen' = Latest(seen, track'.out), described' \subseteq MPU,
         at' \in 0 .. Len(Stream), since' \in 0 .. at'
  PROVE  IInv' /\ Handed(track'.out)
<1> DEFINE t == track'
           c == Context
<1>1. /\ HeadCollected(t, at') /\ Kept(t, c, t.media.data, End(at')) /\ t \in Tracks
  BY DEF Settled, Kept
<1>2. Handed(t.out)
  BY <1>1, HandedFacts
<1>3. c.before = seen /\ c.marked = track.discontinuity
  BY Beginning
<1>4. Now(t, c) = seen'
  BY <1>3 DEF Now
<1>5. Consistent(t, seen', at', End(at'))
  BY <1>1, <1>4 DEF Kept, Consistent
<1>6. /\ damage' \in Damages /\ seen' \in Seq(Units) /\ Len(seen') <= 1
      /\ t.out # << >> /\ seen'[1].flagged /\ ~seen'[1].rap => damage'.open
      /\ t.out = << >> => damage'.open = damage.open
  BY <1>2, DamageFollows
<1>7. DamageKept(t, damage', seen')
  <2>1. CASE t.out = << >>
    <3>1. seen' = seen
      BY <2>1 DEF Latest
    <3>2. track.discontinuity => t.discontinuity
      BY <1>1, <1>3, <2>1 DEF Kept, SoFar
    <3>3. DamageKept(track, damage, seen)
      BY DEF IInv
    <3> QED
      BY <1>6, <2>1, <3>1, <3>2, <3>3 DEF DamageKept
  <2>2. CASE t.out # << >>
    BY <1>6, <2>2 DEF DamageKept
  <2> QED
    BY <2>1, <2>2
<1>8. OnePicture'
  BY <1>2 DEF OnePicture, Handed, OfPicture, MpuOf, SampleOf, UnitAt
<1>9. TypeOK'
  BY <1>1, <1>6 DEF TypeOK
<1> QED
  BY <1>2, <1>5, <1>7, <1>8, <1>9 DEF IInv, Consistent, HeadCollected, OnePending, Waits,
     NothingMissing, SkipsMarked, DamageKept

-----------------------------------------------------------------------------
(* One step per operation: what each hands over, and the invariant.        *)
StepDone == IInv' /\ Handed(track'.out) /\ damage'.heard = ObserveAll(damage, track'.out).heard

LEMMA ReceiveStep ==
  ASSUME IInv, NEW i \in DOMAIN Stream, ReceiveMpu(i)
  PROVE  StepDone
<1> DEFINE c == Context
           n == Len(Stream[i].units)
           b == IF Consumed(i, n) THEN i ELSE at
<1>1. /\ c \in Contexts /\ Len(c.before) <= 1 /\ c.known = described
      /\ at \in 0 .. Len(Stream) /\ described \subseteq MPU /\ Settled(Silence, c, at)
  BY Beginning
<1>2. /\ track' = ConsumePacket(Silence, i, described)
      /\ damage' = ObserveAll(damage, track'.out)
      /\ seen' = Latest(seen, track'.out)
      /\ described' = described
  BY DEF ReceiveMpu, Hands
<1>3. Acceptable(at, i)
  BY <1>1 DEF ReceiveMpu, Deliverable, Acceptable, Near
<1>4. Settled(track', c, b)
  <2>1. Settled(ConsumePacket(Silence, i, c.known), c, b)
    BY <1>1, <1>3, PacketKeeps
  <2> QED
    BY <1>1, <1>2, <2>1
<1>5. Consumed(i, n) <=>
        ~(Stream[i].units = << >> \/ \A k \in DOMAIN Stream[i].units : Stream[i].units[k].short)
  <2>1. DOMAIN Stream[i].units = 1 .. n /\ n \in Nat
    BY StreamFacts
  <2>2. Stream[i].units = << >> => 1 .. n = {}
    BY <2>1
  <2> HIDE DEF n
  <2> QED
    BY <2>1, <2>2 DEF Consumed
<1>6. i \in Nat /\ i >= 1 /\ i <= Len(Stream) /\ Len(Stream) \in Nat
  BY StreamFacts
<1>7. since \in 0 .. at
  BY DEF IInv, TypeOK
<1>8. at' = b /\ b \in 0 .. Len(Stream) /\ since' \in 0 .. at'
  <2>1. CASE Consumed(i, n)
    <3>1. /\ at' = i
          /\ since' = IF i = at + 1 /\ at # 0 /\ since # 0 THEN since
                      ELSE IF i = at THEN since ELSE i
      BY <1>5, <2>1 DEF ReceiveMpu
    <3>2. since' \in 0 .. i
      BY <1>1, <1>6, <1>7, <3>1
    <3> QED
      BY <1>6, <2>1, <3>1, <3>2
  <2>2. CASE ~Consumed(i, n)
    <3>1. at' = at /\ since' = 0
      BY <1>5, <2>2 DEF ReceiveMpu
    <3> QED
      BY <1>1, <2>2, <3>1
  <2> QED
    BY <2>1, <2>2
<1> HIDE DEF b, c
<1>9. Settled(track', Context, at')
  BY <1>4, <1>8 DEF c
<1>10. IInv' /\ Handed(track'.out)
  BY <1>1, <1>2, <1>8, <1>9, StepKeeps
<1> QED
  BY <1>2, <1>10 DEF StepDone

LEMMA RejectStep ==
  ASSUME IInv, NEW i \in DOMAIN Stream, RejectMpu(i)
  PROVE  StepDone
<1>1. /\ Context \in Contexts /\ at \in 0 .. Len(Stream) /\ described \subseteq MPU
      /\ Settled(Silence, Context, at)
  BY Beginning
<1>2. /\ track' = Marked(Silence)
      /\ damage' = ObserveAll(damage, track'.out)
      /\ seen' = Latest(seen, track'.out)
      /\ described' = described /\ at' = at /\ since' = 0
  BY DEF RejectMpu, Hands
<1>3. Settled(track', Context, at')
  <2>1. Settled(Marked(Silence), Context, at)
    BY <1>1, SettledMarked
  <2> QED
    BY <1>2, <2>1
<1>4. since' \in 0 .. at' /\ at' \in 0 .. Len(Stream) /\ described' \subseteq MPU
  BY <1>1, <1>2
<1>5. IInv' /\ Handed(track'.out)
  BY <1>2, <1>3, <1>4, StepKeeps
<1> QED
  BY <1>2, <1>5 DEF StepDone

LEMMA InstallStep ==
  ASSUME IInv, NEW m \in MPU, InstallTimestamps(m)
  PROVE  StepDone
<1>1. /\ at \in 0 .. Len(Stream) /\ described \subseteq MPU /\ Settled(Silence, Context, at)
  BY Beginning
<1>2. /\ track' = Silence
      /\ damage' = ObserveAll(damage, track'.out)
      /\ seen' = Latest(seen, track'.out)
      /\ described' = described \union {m} /\ at' = at /\ since' = since
  BY DEF InstallTimestamps, Hands
<1>3. Settled(track', Context, at')
  BY <1>1, <1>2
<1>4. since' \in 0 .. at' /\ at' \in 0 .. Len(Stream) /\ described' \subseteq MPU
  BY <1>1, <1>2 DEF IInv, TypeOK
<1>5. IInv' /\ Handed(track'.out)
  BY <1>2, <1>3, <1>4, StepKeeps
<1> QED
  BY <1>2, <1>5 DEF StepDone

(* A track that is new, or was flushed.                                    *)
Restarted(t, before) ==
  /\ t \in Tracks
  /\ t.media.state = "Initial" /\ t.media.data = << >>
  /\ t.pending = NoPicture /\ ~t.skipping
  /\ t.wait /\ t.lastDts = None
  /\ t.discontinuity \/ before = << >>

LEMMA RestartedConsistent ==
  ASSUME NEW t, NEW before, Restarted(t, before)
  PROVE  Consistent(t, before, 0, End(0))
<1>1. HeadCollected(t, 0)
  BY DEF Restarted, HeadCollected
<1>2. OnePending(t)
  BY NonePending DEF Restarted
<1>3. Waits(t, before)
  BY DEF Restarted, Waits
<1>4. NothingMissing(t, before, t.media.data, End(0))
  <2>1. << >> \in Seq(Position)
    BY EmptySeq
  <2>2. t.pending.parts \o t.media.data = << >>
    BY <2>1, NoPictureFacts, ConcatEmptySeq DEF Restarted
  <2> QED
    BY <2>2 DEF Restarted, NothingMissing
<1>5. SkipsMarked(t, before)
  BY DEF Restarted, SkipsMarked
<1> QED
  BY <1>1, <1>2, <1>3, <1>4, <1>5 DEF Consistent

LEMMA NewTrackFacts ==
  /\ NewTrack \in Tracks /\ NewTrack.out = << >>
  /\ Restarted(NewTrack, << >>)
<1>1. FreshAssembler(<< 0, 0 >>) \in Assemblers(Position, Nat \X Nat)
      /\ FreshAssembler(<< 0, 0 >>).state = "Initial"
      /\ FreshAssembler(<< 0, 0 >>).data = << >>
  <2>1. << >> \in Seq(Position) /\ 0 \in 0 .. MaxAccessUnit
        /\ 0 \in 0 .. (SequenceModulus - 1) /\ "Initial" \in FragmentState
    BY MaxAccessUnitAssumption, SequenceModulusAssumption DEF FragmentState
  <2> QED
    BY <2>1 DEF FreshAssembler, Assembler, Assemblers
<1> DEFINE m == FreshAssembler(<< 0, 0 >>)
<1>2. << >> \in Seq(Units) /\ NoPicture \in Pictures
  BY NoPictureFacts
<1>3. NewTrack = [media |-> m, pending |-> NoPicture, skipping |-> FALSE,
                  wait |-> TRUE, discontinuity |-> FALSE, mpu |-> None, index |-> 0,
                  lastDts |-> None, out |-> << >>]
  BY DEF NewTrack
<1> HIDE DEF m
<1>4. NewTrack \in Tracks
  BY <1>1, <1>2, <1>3 DEF Tracks, m
<1> QED
  BY <1>1, <1>3, <1>4 DEF Restarted, m

LEMMA CalmFacts == Calm \in Damages
BY EmptySeq DEF Calm, Damages

LEMMA InitInvariant == Init => IInv
<1> SUFFICES ASSUME Init PROVE IInv
  OBVIOUS
<1>1. track = NewTrack /\ described = {} /\ damage = Calm /\ at = 0 /\ since = 0 /\ seen = << >>
  BY DEF Init
<1>2. Consistent(track, seen, at, End(at))
  BY <1>1, NewTrackFacts, RestartedConsistent
<1>3. TypeOK
  <2>1. Len(Stream) \in Nat
    BY StreamAssumption
  <2>2. << >> \in Seq(Units) /\ Len(<< >>) = 0
    BY EmptySeq
  <2> QED
    BY <1>1, <2>1, <2>2, NewTrackFacts, CalmFacts DEF TypeOK
<1>4. DamageKept(track, damage, seen)
  BY <1>1 DEF DamageKept
<1>5. OnePicture
  <2>1. DOMAIN track.out = {}
    BY <1>1, NewTrackFacts
  <2> QED
    BY <2>1 DEF OnePicture
<1> QED
  BY <1>2, <1>3, <1>4, <1>5 DEF IInv

-----------------------------------------------------------------------------
LEMMA RestartKeeps ==
  ASSUME IInv, Restarted(track', seen'), Handed(track'.out),
         damage' \in Damages, described' \subseteq MPU,
         seen' \in Seq(Units), Len(seen') <= 1,
         seen' = << >> \/ track'.discontinuity,
         at' = 0, since' = 0
  PROVE  IInv'
<1> DEFINE t == track'
<1>1. t \in Tracks
  BY DEF Restarted
<1>2. Consistent(t, seen', at', End(at'))
  BY RestartedConsistent
<1>3. DamageKept(t, damage', seen')
  BY DEF DamageKept
<1>4. OnePicture'
  BY DEF OnePicture, Handed, OfPicture, MpuOf, SampleOf, UnitAt
<1>5. TypeOK'
  <2>1. Len(Stream) \in Nat
    BY StreamAssumption
  <2> QED
    BY <1>1, <2>1 DEF TypeOK
<1> QED
  BY <1>2, <1>3, <1>4, <1>5 DEF IInv, Consistent, HeadCollected, OnePending, Waits,
     NothingMissing, SkipsMarked, DamageKept

LEMMA FlushStep ==
  ASSUME IInv, Flush
  PROVE  StepDone
<1> DEFINE t == Finalized(Silence, described)
           d == ObserveAll(damage, t.out)
<1>1. /\ Context \in Contexts /\ Len(Context.before) <= 1 /\ Context.known = described
      /\ at \in 0 .. Len(Stream) /\ described \subseteq MPU
      /\ Settled(Silence, Context, at)
  BY Beginning
<1>2. /\ track' = [NewTrack EXCEPT !.discontinuity = TRUE, !.out = t.out]
      /\ damage' = Finished(d)
      /\ seen' = Latest(seen, t.out)
      /\ described' = described /\ at' = 0 /\ since' = 0
  BY DEF Flush
<1>3. Kept(t, Context, Silence.media.data, End(at))
  <2> DEFINE s == Silence
             hand == s.media.data
             e == End(at)
             c == Context
  <2>1. /\ hand \in Seq(Position) /\ (hand = << >> \/ EndsAt(hand, e))
        /\ Kept(s, c, hand, e)
    BY <1>1, SettledHand DEF Settled
  <2>2. c \in Contexts /\ Len(c.before) <= 1 /\ c.known = described
    BY <1>1
  <2> HIDE DEF s, hand, e, c
  <2>3. Kept(Finalized(s, c.known), c, hand, e)
    BY <2>1, <2>2, FinalizedKeeps
  <2> QED
    BY <2>2, <2>3 DEF s, hand, e, c
<1>4. Handed(t.out)
  <2> HIDE DEF t
  <2> QED
    BY <1>3, HandedFacts
<1>5. t.out \in Seq(Units)
  BY <1>4 DEF Handed
<1>6. /\ d \in Damages
      /\ Latest(seen, t.out) \in Seq(Units) /\ Len(Latest(seen, t.out)) <= 1
  <2> HIDE DEF t
  <2> QED
    BY <1>4, DamageFollows
<1> HIDE DEF t
<1>7. /\ track' \in Tracks /\ track'.out = t.out /\ track'.discontinuity = TRUE
      /\ Restarted(track', seen')
  <2>1. NewTrack \in Tracks /\ Restarted(NewTrack, << >>)
    BY NewTrackFacts
  <2>2. /\ track' \in Tracks /\ track'.out = t.out /\ track'.discontinuity = TRUE
        /\ track'.media = NewTrack.media /\ track'.pending = NewTrack.pending
        /\ track'.skipping = NewTrack.skipping /\ track'.wait = NewTrack.wait
        /\ track'.lastDts = NewTrack.lastDts
    <3> HIDE DEF NewTrack
    <3> QED
      BY <1>2, <1>5, <2>1 DEF Tracks
  <2> QED
    BY <2>1, <2>2 DEF Restarted
<1>8. damage' \in Damages /\ damage'.heard = d.heard
  <2> HIDE DEF d
  <2> QED
    BY <1>2, <1>6 DEF Finished, Damages
<1>9. IInv'
  BY <1>1, <1>2, <1>4, <1>6, <1>7, <1>8, RestartKeeps
<1> QED
  BY <1>4, <1>7, <1>8, <1>9 DEF StepDone

LEMMA ReinstallStep ==
  ASSUME IInv, Reinstall
  PROVE  StepDone
<1>1. /\ track' = NewTrack /\ damage' = ObserveAll(damage, << >>)
      /\ seen' = << >> /\ described' = {} /\ at' = 0 /\ since' = 0
  BY DEF Reinstall
<1>2. /\ track' \in Tracks /\ track'.out = << >> /\ Restarted(track', seen')
  BY <1>1, NewTrackFacts
<1>3. Handed(<< >>)
  BY NothingHanded
<1>4. damage' \in Damages
  BY <1>1, <1>3, DamageFollows
<1>5. seen' \in Seq(Units) /\ Len(seen') <= 1 /\ described' \subseteq MPU
  BY <1>1, EmptySeq
<1>6. IInv'
  BY <1>1, <1>2, <1>3, <1>4, <1>5, RestartKeeps
<1> QED
  BY <1>1, <1>2, <1>3, <1>6 DEF StepDone

LEMMA NextStep ==
  ASSUME IInv, Next
  PROVE  StepDone
<1>1. CASE \E i \in DOMAIN Stream : ReceiveMpu(i)
  BY <1>1, ReceiveStep
<1>2. CASE \E i \in DOMAIN Stream : RejectMpu(i)
  BY <1>2, RejectStep
<1>3. CASE \E m \in MPU : InstallTimestamps(m)
  BY <1>3, InstallStep
<1>4. CASE Flush
  BY <1>4, FlushStep
<1>5. CASE Reinstall
  BY <1>5, ReinstallStep
<1> QED
  BY <1>1, <1>2, <1>3, <1>4, <1>5 DEF Next

LEMMA StepInvariant ==
  ASSUME IInv, [Next]_vars
  PROVE  IInv'
<1>1. CASE Next
  BY <1>1, NextStep DEF StepDone
<1>2. CASE UNCHANGED vars
  BY <1>2 DEF vars, IInv, TypeOK, Consistent, HeadCollected, OnePending, Waits,
     NothingMissing, SkipsMarked, DamageKept, OnePicture, OfPicture
<1> QED
  BY <1>1, <1>2

(***************************************************************************)
(* Whatever the channel loses or reorders, what the track holds is the     *)
(* head of one NAL unit and one picture, with nothing of the stream        *)
(* missing unless a loss is marked.                                        *)
(***************************************************************************)
THEOREM Invariant == Spec => []IInv
<1>1. Init => IInv
  BY InitInvariant
<1>2. IInv /\ [Next]_vars => IInv'
  BY StepInvariant
<1> QED
  BY <1>1, <1>2, PTL DEF Spec

(***************************************************************************)
(* Neither the assembler nor the pending picture outgrows the limit.       *)
(***************************************************************************)
THEOREM TypesKept == Spec => []TypeOK
<1>1. IInv => TypeOK
  BY DEF IInv
<1> QED
  BY <1>1, Invariant, PTL

(***************************************************************************)
(* Every access unit is put together from the NAL units of one picture.    *)
(***************************************************************************)
THEOREM OnePictureKept == Spec => []OnePicture
<1>1. IInv => OnePicture
  BY DEF IInv
<1> QED
  BY <1>1, Invariant, PTL

(***************************************************************************)
(* Of two access units emitted one after the other one is flagged, or      *)
(* nothing of the stream is missing between them.                          *)
(***************************************************************************)
THEOREM LossesShow == Spec => LossFlagged
<1>1. IInv /\ [Next]_vars => [LossShows(Emitted)]_vars
  <2> SUFFICES ASSUME IInv, Next PROVE LossShows(Emitted)
    OBVIOUS
  <2>1. Handed(track'.out)
    BY NextStep DEF StepDone
  <2> QED
    BY <2>1 DEF Handed, Emitted
<1> QED
  BY <1>1, Invariant, PTL DEF Spec, LossFlagged

(***************************************************************************)
(* The first access unit after a join is a random access point, or flagged *)
(* when times are missing.                                                 *)
(***************************************************************************)
THEOREM RandomAccessFirst == Spec => JoinsAtRandomAccess
<1> DEFINE A == track'.out # << >> =>
                  /\ track.wait /\ TimesKnown(described) => track'.out[1].rap
                  /\ seen = << >> => track'.out[1].rap \/ track'.out[1].flagged
<1>1. IInv /\ [Next]_vars => [A]_vars
  <2> SUFFICES ASSUME IInv, Next PROVE A
    OBVIOUS
  <2>1. Handed(track'.out)
    BY NextStep DEF StepDone
  <2> QED
    BY <2>1 DEF Handed
<1> HIDE DEF A
<1>2. Spec => [][A]_vars
  BY <1>1, Invariant, PTL DEF Spec
<1> QED
  BY <1>2 DEF JoinsAtRandomAccess, A

(***************************************************************************)
(* A loss between two units puts the second into a damaged interval, or    *)
(* the first is the recovery point that took the mark.                     *)
(***************************************************************************)
THEOREM LossesInDamage == Spec => LossInDamageOrEarly
<1> DEFINE A == \A k \in DOMAIN damage'.heard :
                  LossBetween(k) =>
                    \/ damage'.heard[k].damaged
                    \/ UnitBefore(k).flagged /\ UnitBefore(k).rap
<1>1. IInv /\ [Next]_vars => [A]_vars
  <2> SUFFICES ASSUME IInv, Next PROVE A
    OBVIOUS
  <2> DEFINE out == track'.out
             d == ObserveAll(damage, out)
             all == seen \o out
             n == Len(seen)
             N == Len(out)
  <2>1. Handed(out) /\ damage'.heard = d.heard
    BY NextStep DEF StepDone
  <2>2. /\ out \in Seq(Units) /\ LossShows(all)
        /\ out # << >> /\ track.discontinuity => out[1].flagged
    BY <2>1 DEF Handed
  <2>3. /\ seen \in Seq(Units) /\ n <= 1 /\ damage.open \in BOOLEAN
        /\ DamageKept(track, damage, seen)
    BY DEF IInv, TypeOK, Damages
  <2>4. Witnessed(d, damage, out, N)
    BY <2>2, <2>3, ObserveAllFacts
  <2>5. /\ n \in Nat /\ N \in Nat /\ Len(all) = n + N
        /\ \A j \in 1 .. (n + N) : all[j] = IF j <= n THEN seen[j] ELSE out[j - n]
        /\ (n = 0 <=> seen = << >>) /\ (N = 0 <=> out = << >>)
    BY <2>2, <2>3, ConcatProperties, LenProperties, EmptySeq
  <2>6. Emitted = all
    BY DEF Emitted
  <2> HIDE DEF d, all, n, N
  <2>7. DOMAIN damage'.heard = 1 .. N
    <3>1. d.heard \in Seq([parts: Seq(Position), damaged: BOOLEAN]) /\ Len(d.heard) = N
      BY <2>4 DEF Witnessed, Damages
    <3> QED
      BY <2>1, <3>1, LenProperties
  <2> SUFFICES ASSUME NEW k \in 1 .. N, LossBetween(k), ~d.heard[k].damaged
               PROVE  UnitBefore(k).flagged /\ UnitBefore(k).rap
    BY <2>1, <2>7
  <2>8. /\ n + k > 1
        /\ ~Contiguous(all[n + k - 1].parts \o d.heard[k].parts)
        /\ UnitBefore(k) = all[n + k - 1]
    BY <2>1, <2>6 DEF LossBetween, UnitBefore, n
  <2>9. /\ d.heard[k].parts = out[k].parts
        /\ ~out[k].flagged
        /\ ~(k = 1 /\ damage.open)
        /\ k > 1 => ~(out[k - 1].flagged /\ ~out[k - 1].rap)
    BY <2>4 DEF Witnessed
  <2>10. all[n + k] = out[k] /\ n + k - 1 \in 1 .. (Len(all) - 1)
    BY <2>5, <2>8
  <2>11. all[n + k - 1].flagged
    <3>1. LossShows(all) /\ n + k - 1 + 1 = n + k
      BY <2>2, <2>5
    <3> QED
      BY <2>8, <2>9, <2>10, <3>1 DEF LossShows
  <2>12. CASE k = 1
    <3>1. n = 1 /\ all[n + k - 1] = seen[1] /\ seen # << >>
      BY <2>3, <2>5, <2>8, <2>12
    <3>2. out # << >>
      BY <2>5
    <3>3. ~track.discontinuity
      BY <2>2, <2>9, <2>12, <3>2
    <3> QED
      BY <2>3, <2>8, <2>9, <2>11, <2>12, <3>1, <3>3 DEF DamageKept
  <2>13. CASE k > 1
    <3>1. all[n + k - 1] = out[k - 1]
      BY <2>5, <2>10, <2>13
    <3>2. ~(out[k - 1].flagged /\ ~out[k - 1].rap)
      BY <2>9, <2>13
    <3>3. out[k - 1].flagged
      BY <2>11, <3>1
    <3> QED
      BY <2>8, <3>1, <3>2, <3>3
  <2> QED
    BY <2>12, <2>13
<1> HIDE DEF A
<1>2. Spec => [][A]_vars
  BY <1>1, Invariant, PTL DEF Spec
<1> QED
  BY <1>2 DEF LossInDamageOrEarly, A

-----------------------------------------------------------------------------
(* Pictures that come whole.  First the order of the stream.               *)
LEMMA OrderFacts ==
  ASSUME NEW x \in Position, NEW y \in Position, NEW z \in Position
  PROVE  /\ ~Before(x, x)
         /\ Before(x, y) /\ Before(y, z) => Before(x, z)
         /\ x = y \/ Before(x, y) \/ Before(y, x)
         /\ Before(x, y) => x[1] <= y[1]
<1>1. /\ x = << x[1], x[2] >> /\ x[1] \in Nat /\ x[2] \in Nat
      /\ y = << y[1], y[2] >> /\ y[1] \in Nat /\ y[2] \in Nat
      /\ z[1] \in Nat /\ z[2] \in Nat
  BY PositionFacts
<1>2. x[1] = y[1] /\ x[2] = y[2] => x = y
  BY <1>1
<1> QED
  BY <1>1, <1>2 DEF Before

LEMMA NextPlace ==
  ASSUME NEW x \in Position, NEW y \in Following[x]
  PROVE  /\ y \in Position /\ Before(x, y)
         /\ \A z \in Position : ~(Before(x, z) /\ Before(z, y))
         /\ \A z \in Following[x] : z = y
         /\ \A z \in Position : y \in Following[z] => z = x
<1>1. \A u \in Position : Following[u] =
        {v \in Position : Before(u, v) /\ ~\E z \in Position : Before(u, z) /\ Before(z, v)}
  BY DEF Following
<1>2. y \in Position /\ Before(x, y) /\ \A z \in Position : ~(Before(x, z) /\ Before(z, y))
  BY <1>1
<1>3. ASSUME NEW z \in Following[x] PROVE z = y
  <2>1. z \in Position /\ Before(x, z) /\ ~(Before(x, y) /\ Before(y, z)) /\ ~Before(z, y)
    BY <1>1, <1>2, <1>3
  <2> QED
    BY <1>2, <2>1, OrderFacts
<1>4. ASSUME NEW z \in Position, y \in Following[z] PROVE z = x
  <2>1. Before(z, y) /\ ~Before(z, x) /\ ~Before(x, z)
    BY <1>1, <1>2, <1>4
  <2> QED
    BY <2>1, OrderFacts
<1> QED
  BY <1>2, <1>3, <1>4

LEMMA PositionsFinite == IsFiniteSet(Position)
<1> DEFINE row == [i \in DOMAIN Stream |-> {i} \X DOMAIN Stream[i].units]
           Rows == {row[i] : i \in DOMAIN Stream}
<1>1. IsFiniteSet(DOMAIN Stream)
  <2>1. DOMAIN Stream = 1 .. Len(Stream) /\ Len(Stream) \in Nat
    BY StreamAssumption
  <2> QED
    BY <2>1, FS_Interval
<1>2. \A i \in DOMAIN Stream : IsFiniteSet(row[i])
  <2> TAKE i \in DOMAIN Stream
  <2>1. PICK n \in Nat : DOMAIN Stream[i].units = 1 .. n
    BY StreamFacts
  <2>2. IsFiniteSet(1 .. n)
    BY FS_Interval
  <2>3. IsFiniteSet({i})
    BY FS_Singleton
  <2> QED
    BY <2>1, <2>2, <2>3, FS_Product
<1>3. IsFiniteSet(Rows)
  <2>1. row \in Surjection(DOMAIN Stream, Rows)
    BY DEF Surjection
  <2> QED
    BY <1>1, <2>1, FS_Surjection
<1>4. Position = UNION Rows
  BY DEF Position
<1> QED
  BY <1>2, <1>3, <1>4, FS_UNION

(* A set of places in the order of the stream.                             *)
Lists(f, S, n) ==
  /\ f \in [1 .. n -> S] /\ Range(f) = S
  /\ \A j, k \in 1 .. n : j < k => Before(f[j], f[k])

LEMMA ListLast ==
  ASSUME NEW n \in Nat, NEW g, NEW R, R \subseteq Position, Lists(g, R, n),
         NEW y \in Position, \A x \in R : Before(x, y)
  PROVE  \E f : Lists(f, R \union {y}, n + 1)
<1> DEFINE S == R \union {y}
           f == [j \in 1 .. (n + 1) |-> IF j = n + 1 THEN y ELSE g[j]]
<1>1. \A j \in 1 .. (n + 1) : j # n + 1 => j \in 1 .. n
  OBVIOUS
<1>2. \A j \in 1 .. n : g[j] \in R /\ j \in 1 .. (n + 1) /\ j # n + 1
  BY DEF Lists
<1>3. f \in [1 .. (n + 1) -> S]
  BY <1>1, <1>2
<1>4. /\ \A j \in 1 .. n : f[j] = g[j]
      /\ f[n + 1] = y
  BY <1>2
<1> HIDE DEF f
<1>5. Range(f) = S
  <2>1. Range(g) = R /\ DOMAIN g = 1 .. n /\ DOMAIN f = 1 .. (n + 1)
    BY <1>3 DEF Lists
  <2>2. ASSUME NEW x \in S PROVE x \in Range(f)
    <3>1. CASE x = y
      BY <1>4, <2>1, <3>1 DEF Range
    <3>2. CASE x \in R
      <4>1. PICK j \in 1 .. n : g[j] = x
        BY <2>1, <3>2 DEF Range
      <4>2. f[j] = x /\ j \in DOMAIN f
        BY <1>2, <1>4, <2>1, <4>1
      <4> QED
        BY <4>2 DEF Range
    <3> QED
      BY <3>1, <3>2
  <2>3. Range(f) \subseteq S
    BY <1>3 DEF Range
  <2> QED
    BY <2>2, <2>3
<1>6. ASSUME NEW j \in 1 .. (n + 1), NEW k \in 1 .. (n + 1), j < k
      PROVE  Before(f[j], f[k])
  <2>1. j \in 1 .. n
    BY <1>6
  <2>2. CASE k = n + 1
    BY <1>2, <1>4, <2>1, <2>2
  <2>3. CASE k \in 1 .. n
    BY <1>4, <1>6, <2>1, <2>3 DEF Lists
  <2> QED
    BY <2>2, <2>3
<1> QED
  BY <1>3, <1>5, <1>6 DEF Lists

LEMMA ListExists ==
  ASSUME NEW S, S \subseteq Position
  PROVE  IsFiniteSet(S) /\ \E f : Lists(f, S, Cardinality(S))
<1> DEFINE T == {n \in Nat : \A R \in SUBSET Position :
                   IsFiniteSet(R) /\ Cardinality(R) = n => \E f : Lists(f, R, n)}
<1>1. 0 \in T
  <2> SUFFICES ASSUME NEW R \in SUBSET Position, IsFiniteSet(R), Cardinality(R) = 0
               PROVE  \E f : Lists(f, R, 0)
    OBVIOUS
  <2>1. R = {}
    BY FS_EmptySet
  <2> DEFINE f == [j \in 1 .. 0 |-> 0]
  <2>2. 1 .. 0 = {}
    OBVIOUS
  <2>3. f \in [1 .. 0 -> R] /\ Range(f) = R
    BY <2>1, <2>2 DEF Range
  <2>4. Lists(f, R, 0)
    BY <2>2, <2>3 DEF Lists
  <2> QED
    BY <2>4
<1>2. ASSUME NEW n \in Nat, n \in T PROVE n + 1 \in T
  <2> SUFFICES ASSUME NEW R \in SUBSET Position, IsFiniteSet(R), Cardinality(R) = n + 1
               PROVE  \E f : Lists(f, R, n + 1)
    OBVIOUS
  <2>1. \A x \in R : /\ \E f : Lists(f, R \ {x}, n)
                     /\ (R \ {x}) \union {x} = R
    <3> TAKE x \in R
    <3>1. IsFiniteSet(R \ {x}) /\ Cardinality(R \ {x}) = n
      BY FS_RemoveElement
    <3> QED
      BY <1>2, <3>1
  <2>2. PICK z : z \in R
    <3>1. R # {}
      BY FS_EmptySet
    <3> QED
      BY <3>1
  <2>3. PICK g : Lists(g, R \ {z}, n)
    BY <2>1, <2>2
  <2>4. \E y \in R : \A x \in R \ {y} : Before(x, y)
    <3>1. CASE n = 0
      <4>1. R \ {z} = {}
        <5>1. Range(g) = R \ {z} /\ DOMAIN g = {}
          BY <2>3, <3>1 DEF Lists
        <5> QED
          BY <5>1 DEF Range
      <4> QED
        BY <2>2, <4>1
    <3>2. CASE n # 0
      <4> DEFINE w == g[n]
      <4>1. n \in 1 .. n
        BY <3>2
      <4>2. w \in R \ {z} /\ w \in Position /\ z \in Position
        BY <2>2, <2>3, <4>1 DEF Lists
      <4>3. ASSUME NEW x \in R \ {z}, x # w PROVE Before(x, w)
        <5>1. PICK j \in 1 .. n : g[j] = x
          BY <2>3 DEF Lists, Range
        <5>2. j < n
          BY <4>3, <5>1
        <5> QED
          BY <2>3, <4>1, <5>1, <5>2 DEF Lists
      <4> HIDE DEF w
      <4>4. CASE Before(w, z)
        <5>1. ASSUME NEW x \in R \ {z} PROVE Before(x, z)
          <6>1. x \in Position
            OBVIOUS
          <6> QED
            BY <4>2, <4>3, <4>4, <6>1, OrderFacts
        <5> QED
          BY <2>2, <5>1
      <4>5. CASE Before(z, w)
        <5>1. \A x \in R \ {w} : Before(x, w)
          BY <4>3, <4>5
        <5> QED
          BY <4>2, <5>1
      <4> QED
        BY <4>2, <4>4, <4>5, OrderFacts
    <3> QED
      BY <3>1, <3>2
  <2>5. PICK y \in R : \A x \in R \ {y} : Before(x, y)
    BY <2>4
  <2>6. PICK h : Lists(h, R \ {y}, n)
    BY <2>1
  <2>7. \E f : Lists(f, (R \ {y}) \union {y}, n + 1)
    <3>1. R \ {y} \subseteq Position /\ y \in Position
      OBVIOUS
    <3> QED
      BY <2>5, <2>6, <3>1, ListLast
  <2> QED
    BY <2>1, <2>7
<1> HIDE DEF T
<1>3. Nat \subseteq T
  BY <1>1, <1>2, SetInduction
<1>4. IsFiniteSet(S) /\ Cardinality(S) \in Nat
  BY PositionsFinite, FS_Subset, FS_CardinalityType
<1>5. Cardinality(S) \in T
  BY <1>3, <1>4
<1> QED
  BY <1>4, <1>5 DEF T

(* The places of a picture.                                                *)
LEMMA WholeParts ==
  ASSUME NEW x \in Position
  PROVE  LET W == PartsOf(PictureOf(x))
         IN  /\ W \in Seq(Position) /\ Len(W) \in Nat /\ Len(W) >= 1 /\ DOMAIN W = 1 .. Len(W)
             /\ \A j \in 1 .. Len(W) : W[j] \in Position /\ PictureOf(W[j]) = PictureOf(x)
             /\ \A j, k \in 1 .. Len(W) : j < k => Before(W[j], W[k])
             /\ \A y \in Position : PictureOf(y) = PictureOf(x) => \E j \in 1 .. Len(W) : W[j] = y
<1> DEFINE pic == PictureOf(x)
           S == {y \in Position : PictureOf(y) = pic}
           n == Cardinality(S)
           W == PartsOf(pic)
<1>1. IsFiniteSet(S) /\ \E f : Lists(f, S, n)
  BY ListExists
<1>2. n \in Nat
  BY <1>1, FS_CardinalityType
<1>3. W = CHOOSE parts \in [1 .. n -> S] :
            /\ Range(parts) = S
            /\ \A j, k \in DOMAIN parts : j < k => Before(parts[j], parts[k])
  BY DEF PartsOf, WholePictures
<1> HIDE DEF W, n, S
<1>4. \E parts \in [1 .. n -> S] :
        /\ Range(parts) = S
        /\ \A j, k \in DOMAIN parts : j < k => Before(parts[j], parts[k])
  BY <1>1 DEF Lists
<1>5. /\ W \in [1 .. n -> S] /\ Range(W) = S
      /\ \A j, k \in DOMAIN W : j < k => Before(W[j], W[k])
  BY <1>3, <1>4
<1>6. S \subseteq Position /\ x \in S /\ \A y \in S : PictureOf(y) = pic
  BY DEF S
<1>7. W \in Seq(Position) /\ Len(W) = n /\ DOMAIN W = 1 .. n
  <2>1. W \in [1 .. n -> Position]
    BY <1>5, <1>6
  <2> QED
    BY <1>2, <2>1, SeqDef, LenProperties
<1>8. \A y \in S : \E j \in 1 .. n : W[j] = y
  BY <1>5, <1>7 DEF Range
<1>9. n >= 1
  BY <1>2, <1>6, <1>8
<1>10. \A y \in Position : PictureOf(y) = pic => y \in S
  BY DEF S
<1> QED
  BY <1>2, <1>5, <1>6, <1>7, <1>8, <1>9, <1>10 DEF W

-----------------------------------------------------------------------------
(* The bytes of a run of a list.                                           *)
RunOf(parts, W, p) ==
  /\ parts \in Seq(Position)
  /\ p + Len(parts) <= Len(W)
  /\ \A j \in 1 .. Len(parts) : parts[j] = W[p + j]

LEMMA BytesOfRun ==
  ASSUME NEW W \in Seq(Position), NEW p \in Nat, NEW parts, RunOf(parts, W, p)
  PROVE  Bytes(parts)[Len(parts)] = Bytes(W)[p + Len(parts)] - Bytes(W)[p]
<1> DEFINE B == Bytes(W)
           b == Bytes(parts)
           m == Len(parts)
           I == [n \in 0 .. m |-> {B[p + n] - B[p]}]
<1>1. parts \in Seq(Position) /\ m \in Nat /\ Len(W) \in Nat /\ p + m <= Len(W)
  BY LenProperties DEF RunOf
<1>2. /\ \A n \in 0 .. Len(W) : B[n] \in Nat
      /\ \A n \in 1 .. Len(W) : B[n] = B[n - 1] + UnitAt(W[n]).size /\ UnitAt(W[n]).size \in Nat
  BY BytesFacts
<1>3. b[0] = 0 /\ \A n \in 1 .. m : b[n] = b[n - 1] + UnitAt(parts[n]).size
  BY <1>1, BytesFacts
<1>4. \A n \in 1 .. m : parts[n] = W[p + n]
  BY DEF RunOf
<1> HIDE DEF B, b, m
<1>5. b[0] \in I[0]
  <2>1. 0 \in 0 .. m /\ p + 0 = p /\ p \in 0 .. Len(W)
    BY <1>1
  <2>2. B[p] - B[p] = 0
    BY <1>2, <2>1
  <2> QED
    BY <1>3, <2>1, <2>2
<1>6. ASSUME NEW n \in 1 .. m, b[n - 1] \in I[n - 1]
      PROVE  b[n] \in I[n]
  <2>1. /\ n - 1 \in 0 .. m /\ n \in 0 .. m /\ p + (n - 1) = (p + n) - 1
        /\ p + n \in 1 .. Len(W) /\ p \in 0 .. Len(W) /\ (p + n) - 1 \in 0 .. Len(W)
    BY <1>1
  <2>2. b[n - 1] = B[(p + n) - 1] - B[p]
    BY <1>6, <2>1
  <2>3. b[n] = b[n - 1] + UnitAt(W[p + n]).size
    BY <1>3, <1>4
  <2>4. B[p + n] = B[(p + n) - 1] + UnitAt(W[p + n]).size
        /\ UnitAt(W[p + n]).size \in Nat /\ B[p] \in Nat /\ B[(p + n) - 1] \in Nat
    BY <1>2, <2>1
  <2>5. b[n] = B[p + n] - B[p]
    BY <2>2, <2>3, <2>4
  <2> QED
    BY <2>1, <2>5
<1> HIDE DEF I
<1>7. \A n \in 0 .. m : b[n] \in I[n]
  BY <1>1, <1>5, <1>6, LoopInvariant
<1>8. b[m] = B[p + m] - B[p]
  <2>1. m \in 0 .. m
    BY <1>1
  <2> QED
    BY <1>7, <2>1 DEF I
<1> QED
  BY <1>8 DEF b, B, m

-----------------------------------------------------------------------------
(***************************************************************************)
(* A picture that is to survive, and the first n of its parts in a track:  *)
(* p of them pending, as whole NAL units, and the others collected.        *)
(***************************************************************************)
WholeSound(W) == Sound(W) /\ \E x \in Position : W = PartsOf(PictureOf(x))

LEMMA WholeFacts ==
  ASSUME OrderlySender, NEW W, WholeSound(W)
  PROVE  /\ W \in Seq(Position) /\ Len(W) \in Nat /\ Len(W) >= 1 /\ DOMAIN W = 1 .. Len(W)
         /\ \A j \in 1 .. Len(W) :
              /\ W[j] \in Position /\ PictureOf(W[j]) = PictureOf(W[1])
              /\ MpuOf(W[j]) = MpuOf(W[1]) /\ SampleOf(W[j]) = SampleOf(W[1])
              /\ UnitAt(W[j]).valid /\ ~UnitAt(W[j]).short
              /\ W[1][1] <= W[j][1]
         /\ MpuOf(W[1]) \in MPU /\ SampleOf(W[1]) \in Nat /\ SampleOf(W[1]) # 0
         /\ \A y \in Position : PictureOf(y) = PictureOf(W[1]) => \E j \in 1 .. Len(W) : W[j] = y
         /\ W = PartsOf(PictureOf(W[1]))
         /\ Orderly(W)
         /\ Bytes(W)[Len(W)] <= MaxAccessUnit
<1>1. PICK x \in Position : W = PartsOf(PictureOf(x))
  BY DEF WholeSound
<1>2. /\ W \in Seq(Position) /\ Len(W) \in Nat /\ Len(W) >= 1 /\ DOMAIN W = 1 .. Len(W)
      /\ \A j \in 1 .. Len(W) : W[j] \in Position /\ PictureOf(W[j]) = PictureOf(x)
      /\ \A j, k \in 1 .. Len(W) : j < k => Before(W[j], W[k])
      /\ \A y \in Position : PictureOf(y) = PictureOf(x) => \E j \in 1 .. Len(W) : W[j] = y
  BY <1>1, WholeParts
<1>3. 1 \in 1 .. Len(W) /\ W[1] \in Position /\ PictureOf(W[1]) = PictureOf(x)
  BY <1>2
<1>4. \A j \in 1 .. Len(W) : PictureOf(W[j]) = PictureOf(W[1])
  BY <1>2, <1>3
<1>5. \A j \in 1 .. Len(W) : MpuOf(W[j]) = MpuOf(W[1]) /\ SampleOf(W[j]) = SampleOf(W[1])
  BY <1>4 DEF PictureOf
<1>6. MpuOf(W[1]) \in MPU /\ SampleOf(W[1]) \in Nat /\ SampleOf(W[1]) # 0
  BY <1>3, PositionFacts DEF OrderlySender
<1>7. Orderly(W)
  BY <1>1 DEF OrderlySender, WholeSound
<1>8. \A j \in 1 .. Len(W) : UnitAt(W[j]).valid /\ ~UnitAt(W[j]).short
  BY <1>2 DEF WholeSound, Sound
<1>9. Bytes(W)[Len(W)] <= MaxAccessUnit
  <2>1. NalSize(W) + 1 <= MaxAccessUnit
    BY DEF WholeSound, Sound
  <2>2. NalSize(W) = Bytes(W)[Len(W)] - 1 /\ Bytes(W)[Len(W)] \in Nat
    BY <1>2, BytesFacts
  <2> QED
    BY <2>1, <2>2
<1>10. ASSUME NEW j \in 1 .. Len(W) PROVE W[1][1] <= W[j][1]
  <2>1. W[j] \in Position /\ W[1][1] \in Nat
    BY <1>2, <1>3, PositionFacts
  <2>2. CASE j = 1
    BY <2>1, <2>2
  <2>3. CASE j # 1
    <3>1. Before(W[1], W[j])
      BY <1>2, <1>3, <2>3
    <3> QED
      BY <1>3, <2>1, <3>1, OrderFacts
  <2> QED
    BY <2>2, <2>3
<1> QED
  BY <1>1, <1>2, <1>3, <1>4, <1>5, <1>6, <1>7, <1>8, <1>9, <1>10

(* W[p + 1 .. n] is one NAL unit, whole or not.                            *)
OneNal(W, p, n) ==
  /\ p \in Nat /\ n \in Nat /\ p < n /\ n <= Len(W)
  /\ BeginsNal(W[p + 1])
  /\ p # 0 => EndsNal(W[p])
  /\ \A j \in (p + 1) .. n : SameNal(W[p + 1], W[j])

PictureHolds(pic, W, p) ==
  /\ pic.active
  /\ RunOf(pic.parts, W, 0) /\ Len(pic.parts) = p
  /\ pic.mpu = MpuOf(W[1]) /\ pic.sample = SampleOf(W[1])
  /\ pic.size \in Int /\ pic.size <= Bytes(W)[p]
  /\ pic.vcl <=> HasVcl(W, p)
  /\ \A j \in 1 .. p : UnitAt(W[j]).irap \/ Stream[W[j][1]].rap => pic.rap

PendingHolds(t, W, p) ==
  /\ t.mpu = MpuOf(W[1])
  /\ p # 0 => ~t.skipping /\ PictureHolds(t.pending, W, p)

CollectedHolds(a, W, p, n) ==
  IF EndsNal(W[n]) THEN p = n /\ a.state = "Idle"
  ELSE /\ a.state = "Collecting" /\ OneNal(W, p, n)
       /\ a.tag = PictureOf(W[1])
       /\ RunOf(a.data, W, p) /\ Len(a.data) = n - p
       /\ a.size <= Bytes(W)[n] - Bytes(W)[p]

Gathers(t, W, n) ==
  \E p \in 0 .. n : PendingHolds(t, W, p) /\ CollectedHolds(t.media, W, p, n)

(* What is pending without a slice does not begin with one.                *)
HeadSeen(t) == t.pending.active /\ IsVcl(UnitAt(t.pending.parts[1])) => t.pending.vcl

(* A NAL unit of the picture can follow those before it.                   *)
LEMMA NalInPlace ==
  ASSUME OrderlySender, NEW W, WholeSound(W), NEW p, NEW n, OneNal(W, p, n), p # 0
  PROVE  InPlace(UnitAt(W[p + 1]), HasVcl(W, p))
<1>1. Orderly(W) /\ Len(W) \in Nat
  BY WholeFacts
<1>2. p \in 1 .. (Len(W) - 1) /\ EndsNal(W[p])
  BY <1>1 DEF OneNal
<1> QED
  BY <1>1, <1>2, Zenon DEF Orderly

(* The head of the picture is a delimiter or the first slice of a picture  *)
(* of slices.                                                              *)
LEMMA HeadFacts ==
  ASSUME OrderlySender, NEW W, WholeSound(W)
  PROVE  /\ BeginsNal(W[1]) /\ EndsNal(W[Len(W)])
         /\ StartsAccessUnit(UnitAt(W[1]))
         /\ ~(IsVcl(UnitAt(W[1])) /\ UnitAt(W[1]).nal # "first")
         /\ \/ UnitAt(W[1]).nal = "delimiter"
            \/ /\ UnitAt(W[1]).nal = "first"
               /\ \A j \in 1 .. Len(W) : IsVcl(UnitAt(W[j]))
<1>1. Orderly(W) /\ Sound(W) /\ DOMAIN W = 1 .. Len(W) /\ 1 \in 1 .. Len(W)
  BY WholeFacts DEF WholeSound
<1>2. UnitAt(W[1]).nal \in {"delimiter", "prefix", "first"}
  BY <1>1 DEF Sound
<1>3. UnitAt(W[1]).nal = "delimiter" \/ \A j \in 1 .. Len(W) : IsVcl(UnitAt(W[j]))
  BY <1>1 DEF Orderly
<1>4. UnitAt(W[1]).nal = "delimiter" \/ UnitAt(W[1]).nal = "first"
  BY <1>1, <1>2, <1>3 DEF IsVcl
<1>5. BeginsNal(W[1]) /\ EndsNal(W[Len(W)])
  BY <1>1 DEF Orderly
<1> QED
  BY <1>2, <1>3, <1>4, <1>5 DEF IsVcl, StartsAccessUnit

(* The slices among the first parts, when one more NAL unit is known.      *)
LEMMA VclGrows ==
  ASSUME OrderlySender, NEW W, WholeSound(W), NEW p, NEW n, OneNal(W, p, n)
  PROVE  /\ HasVcl(W, n) <=> HasVcl(W, p) \/ IsVcl(UnitAt(W[p + 1]))
         /\ \A j \in (p + 1) .. n : UnitAt(W[j]).irap = UnitAt(W[p + 1]).irap
<1>1. \A j \in (p + 1) .. n : /\ IsVcl(UnitAt(W[j])) <=> IsVcl(UnitAt(W[p + 1]))
                              /\ UnitAt(W[j]).irap = UnitAt(W[p + 1]).irap
  BY DEF OneNal, SameNal, IsVcl
<1>2. /\ 1 .. n = (1 .. p) \union ((p + 1) .. n)
      /\ p + 1 \in (p + 1) .. n
  BY DEF OneNal
<1>3. HasVcl(W, n) <=> HasVcl(W, p) \/ \E j \in (p + 1) .. n : IsVcl(UnitAt(W[j]))
  BY <1>2 DEF HasVcl
<1> QED
  BY <1>1, <1>2, <1>3

-----------------------------------------------------------------------------
(* What is emitted stays emitted until the step is over.                   *)
Grows(t, u) == \A k \in DOMAIN t.out : k \in DOMAIN u.out /\ u.out[k] = t.out[k]

Brings(t, W) == \E k \in DOMAIN t.out : t.out[k].parts = W

Steady(t, u) == Grows(t, u) /\ (HeadSeen(t) => HeadSeen(u))

LEMMA SteadySame ==
  ASSUME NEW t, NEW u, u.out = t.out, u.pending = t.pending
  PROVE  Steady(t, u)
BY DEF Steady, Grows, HeadSeen

LEMMA SteadyNone ==
  ASSUME NEW t, NEW u, Grows(t, u), u.pending = NoPicture
  PROVE  Steady(t, u)
BY NoPictureFacts DEF Steady, HeadSeen

LEMMA SteadyFollows ==
  ASSUME NEW t, NEW u, NEW v, Steady(t, u), Steady(u, v)
  PROVE  Steady(t, v)
BY DEF Steady, Grows

LEMMA BringsStays ==
  ASSUME NEW t, NEW u, NEW W, Steady(t, u), Brings(t, W)
  PROVE  Brings(u, W)
<1>1. PICK k \in DOMAIN t.out : t.out[k].parts = W
  BY DEF Brings
<1>2. k \in DOMAIN u.out /\ u.out[k] = t.out[k]
  BY DEF Steady, Grows
<1> QED
  BY <1>1, <1>2 DEF Brings

LEMMA EmittedGrows ==
  ASSUME NEW t \in Tracks, NEW pic \in Pictures, NEW known, known \subseteq MPU,
         NEW u, u = Emit(t, pic, known)
  PROVE  /\ Grows(t, u)
         /\ /\ pic.mpu \in known /\ pic.sample \in 1 .. AccessUnits[pic.mpu]
            /\ t.lastDts < pic.sample
            => Brings(u, pic.parts)
<1>1. /\ t.out \in Seq(Units) /\ t.discontinuity \in BOOLEAN /\ t.lastDts \in Nat \union {None}
      /\ pic.sample \in Nat /\ pic.mpu \in Nat
  BY DEF Tracks, Pictures
<1> DEFINE unit == UnitOf(pic, t.discontinuity)
<1>2. unit \in Units /\ unit.parts = pic.parts
  BY <1>1, UnitFacts
<1>3. EmitResult(t, pic, known, u)
  BY EmitFacts
<1>4. u.out = t.out \/ u.out = Append(t.out, unit)
  BY <1>3 DEF EmitResult
<1> HIDE DEF unit
<1>5. /\ Append(t.out, unit) \in Seq(Units) /\ Len(t.out) \in Nat
      /\ Len(Append(t.out, unit)) = Len(t.out) + 1
      /\ \A k \in 1 .. Len(t.out) : Append(t.out, unit)[k] = t.out[k]
      /\ Append(t.out, unit)[Len(t.out) + 1] = unit
      /\ DOMAIN t.out = 1 .. Len(t.out)
      /\ DOMAIN Append(t.out, unit) = 1 .. (Len(t.out) + 1)
  BY <1>1, <1>2, AppendProperties, LenProperties
<1>6. Grows(t, u)
  BY <1>4, <1>5 DEF Grows
<1>7. ASSUME pic.mpu \in known, pic.sample \in 1 .. AccessUnits[pic.mpu], t.lastDts < pic.sample
      PROVE  Brings(u, pic.parts)
  <2> DEFINE n == AuIndex(t, pic.sample)
             c == Counted(t, pic.sample)
  <2>1. AccessUnits[pic.mpu] \in Nat
    BY <1>7, AccessUnitsAssumption
  <2>2. n = pic.sample - 1
    BY <1>7, <2>1 DEF AuIndex
  <2>3. n < AccessUnits[pic.mpu] /\ n >= t.lastDts
    BY <1>1, <1>7, <2>1, <2>2 DEF None
  <2>4. c.out = t.out /\ c \in Tracks
    <3> DEFINE x == IF pic.sample = 0 THEN t.index + 1
                    ELSE IF t.index <= pic.sample - 1 THEN pic.sample ELSE t.index
    <3>1. x \in Nat
      BY <1>1 DEF Tracks
    <3>2. c = [t EXCEPT !.index = x]
      BY DEF Counted
    <3> HIDE DEF x
    <3> QED
      BY <3>1, <3>2 DEF Tracks
  <2>5. u = Delivered(c, pic, n)
    BY <1>7, <2>3 DEF Emit
  <2> HIDE DEF n, c
  <2>6. c.discontinuity \in BOOLEAN /\ UnitOf(pic, c.discontinuity).parts = pic.parts
        /\ UnitOf(pic, c.discontinuity) \in Units
    BY <2>4, UnitFacts DEF Tracks
  <2> DEFINE au == UnitOf(pic, c.discontinuity)
  <2>7. u.out = Append(t.out, au)
    BY <2>4, <2>5 DEF Delivered, UnitOf, Tracks
  <2> HIDE DEF au
  <2>8. /\ Append(t.out, au)[Len(t.out) + 1] = au
        /\ Append(t.out, au) \in Seq(Units) /\ Len(Append(t.out, au)) = Len(t.out) + 1
    BY <1>1, <2>6, AppendProperties DEF au
  <2>9. Len(t.out) + 1 \in DOMAIN u.out
    BY <1>5, <2>7, <2>8, LenProperties
  <2> QED
    BY <2>6, <2>7, <2>8, <2>9 DEF Brings, au
<1> QED
  BY <1>6, <1>7

(* finalize_hevc.                                                          *)
LEMMA FinalizedFacts ==
  ASSUME NEW t \in Tracks, NEW known, known \subseteq MPU, NEW f, f = Finalized(t, known)
  PROVE  /\ f \in Tracks /\ Steady(t, f)
         /\ f.media = t.media /\ f.mpu = t.mpu /\ f.skipping = t.skipping
         /\ ~f.pending.active
         /\ t.pending.active => f.pending = NoPicture
         /\ ~t.pending.active => f = t
         /\ LET pic == t.pending
            IN  /\ pic.active /\ pic.vcl /\ (t.wait => pic.rap)
                /\ pic.mpu \in known /\ pic.sample \in 1 .. AccessUnits[pic.mpu]
                /\ t.lastDts < pic.sample
                => Brings(f, pic.parts)
<1> DEFINE pic == t.pending
<1>1. pic \in Pictures /\ t.wait \in BOOLEAN /\ pic.rap \in BOOLEAN /\ ~NoPicture.active
  BY NoPictureFacts DEF Tracks, Pictures
<1> HIDE DEF pic
<1>2. CASE ~pic.active
  <2>1. f = t
    BY <1>2 DEF Finalized, pic
  <2> QED
    BY <1>2, <2>1, SteadySame DEF pic
<1>3. CASE pic.active /\ ~pic.vcl
  <2> DEFINE m == Marked(t)
  <2>1. f = Cleared(m)
    BY <1>3 DEF Finalized, pic
  <2>2. m \in Tracks /\ m.media = t.media /\ m.mpu = t.mpu /\ m.skipping = t.skipping
        /\ m.out = t.out
    BY MarkedFacts
  <2> HIDE DEF m
  <2>3. f \in Tracks /\ f.media = t.media /\ f.mpu = t.mpu /\ f.skipping = t.skipping
        /\ f.out = t.out /\ f.pending = NoPicture
    BY <2>1, <2>2, ClearedFacts
  <2>4. Grows(t, f)
    BY <2>3 DEF Grows
  <2> QED
    BY <1>1, <1>3, <2>3, <2>4, SteadyNone DEF pic
<1>4. CASE pic.active /\ pic.vcl /\ t.wait /\ ~pic.rap
  <2>1. f = Cleared(t)
    BY <1>4 DEF Finalized, pic
  <2>2. f \in Tracks /\ f.media = t.media /\ f.mpu = t.mpu /\ f.skipping = t.skipping
        /\ f.out = t.out /\ f.pending = NoPicture
    BY <2>1, ClearedFacts
  <2>3. Grows(t, f)
    BY <2>2 DEF Grows
  <2> QED
    BY <1>1, <1>4, <2>2, <2>3, SteadyNone DEF pic
<1>5. CASE pic.active /\ pic.vcl /\ ~(t.wait /\ ~pic.rap)
  <2> DEFINE b == t.wait /\ ~pic.rap
             s == [t EXCEPT !.wait = b]
             u == Emit(s, pic, known)
  <2>1. f = Cleared(u)
    BY <1>5 DEF Finalized, pic
  <2>2. b \in BOOLEAN
    BY <1>1
  <2> HIDE DEF b
  <2>3. s \in Tracks /\ s.media = t.media /\ s.mpu = t.mpu /\ s.skipping = t.skipping
        /\ s.out = t.out /\ s.lastDts = t.lastDts
    BY <2>2 DEF Tracks
  <2> HIDE DEF s
  <2>4. EmitResult(s, pic, known, u)
    BY <1>1, <2>3, EmitFacts
  <2>5. /\ Grows(s, u)
        /\ /\ pic.mpu \in known /\ pic.sample \in 1 .. AccessUnits[pic.mpu]
           /\ s.lastDts < pic.sample
           => Brings(u, pic.parts)
    BY <1>1, <2>3, EmittedGrows
  <2>6. u \in Tracks /\ u.media = t.media /\ u.mpu = t.mpu /\ u.skipping = t.skipping
    BY <2>3, <2>4 DEF EmitResult
  <2> HIDE DEF u
  <2>7. f \in Tracks /\ f.media = t.media /\ f.mpu = t.mpu /\ f.skipping = t.skipping
        /\ f.out = u.out /\ f.pending = NoPicture
    BY <2>1, <2>6, ClearedFacts
  <2>8. Grows(t, f)
    BY <2>3, <2>5, <2>7 DEF Grows
  <2>9. Steady(t, f)
    BY <2>7, <2>8, SteadyNone
  <2>10. /\ pic.mpu \in known /\ pic.sample \in 1 .. AccessUnits[pic.mpu]
         /\ t.lastDts < pic.sample
         => Brings(f, pic.parts)
    BY <2>3, <2>5, <2>7 DEF Brings
  <2> QED
    BY <1>1, <1>5, <2>7, <2>9, <2>10 DEF pic
<1> QED
  BY <1>2, <1>3, <1>4, <1>5

-----------------------------------------------------------------------------
(* The pending picture with one more NAL unit; pic is the one it joins.    *)
Added(v, t, pic, parts, rap) ==
  LET w == v.pending
      u == UnitAt(parts[1])
  IN  /\ v.media = t.media /\ v.mpu = t.mpu /\ v.skipping = t.skipping /\ v.out = t.out
      /\ IF NalSize(parts) > MaxAccessUnit - pic.size THEN w = NoPicture
         ELSE /\ w.active = pic.active /\ w.parts = pic.parts \o parts
              /\ w.size = pic.size + NalSize(parts)
              /\ w.vcl = (pic.vcl \/ IsVcl(u)) /\ w.rap = (pic.rap \/ rap \/ u.irap)
              /\ w.mpu = pic.mpu /\ w.sample = pic.sample

JoinedBy(t, parts, mpu) ==
  IF t.pending.active THEN t.pending
  ELSE [NoPicture EXCEPT !.active = TRUE, !.mpu = mpu, !.sample = UnitAt(parts[1]).sample]

LEMMA AddedFacts ==
  ASSUME NEW t \in Tracks, NEW parts, NEW rap, NEW mpu
  PROVE  Added(AddNal(t, parts, rap, mpu), t, JoinedBy(t, parts, mpu), parts, rap)
<1> DEFINE pic == JoinedBy(t, parts, mpu)
           size == NalSize(parts)
           u == UnitAt(parts[1])
           vcl == pic.vcl \/ IsVcl(u)
           head == pic.rap \/ rap \/ u.irap
           new == [pic EXCEPT !.parts = pic.parts \o parts, !.size = pic.size + size,
                              !.vcl = vcl, !.rap = head]
           v == AddNal(t, parts, rap, mpu)
<1>1. v = IF size > MaxAccessUnit - pic.size THEN Cleared(Marked(t))
          ELSE [t EXCEPT !.pending = new]
  BY DEF AddNal, JoinedBy
<1>2. DOMAIN pic = {"active", "parts", "size", "vcl", "rap", "mpu", "sample"}
  <2>1. CASE t.pending.active
    <3>1. t.pending \in Pictures
      BY DEF Tracks
    <3> QED
      BY <2>1, <3>1 DEF JoinedBy, Pictures
  <2>2. CASE ~t.pending.active
    BY <2>2 DEF JoinedBy, NoPicture
  <2> QED
    BY <2>1, <2>2
<1> HIDE DEF pic, size, u, vcl, head
<1>3. /\ new.active = pic.active /\ new.parts = pic.parts \o parts
      /\ new.size = pic.size + size /\ new.vcl = vcl /\ new.rap = head
      /\ new.mpu = pic.mpu /\ new.sample = pic.sample
  BY <1>2
<1> HIDE DEF new, v
<1>4. CASE size > MaxAccessUnit - pic.size
  <2>1. /\ Marked(t) \in Tracks /\ Marked(t).media = t.media /\ Marked(t).mpu = t.mpu
        /\ Marked(t).skipping = t.skipping /\ Marked(t).out = t.out
    BY MarkedFacts
  <2>2. v = Cleared(Marked(t))
    BY <1>1, <1>4
  <2>3. /\ v.media = t.media /\ v.mpu = t.mpu /\ v.skipping = t.skipping /\ v.out = t.out
        /\ v.pending = NoPicture
    BY <2>1, <2>2, ClearedFacts
  <2> QED
    BY <1>4, <2>3 DEF Added, v, pic, size
<1>5. CASE ~(size > MaxAccessUnit - pic.size)
  <2>1. v = [t EXCEPT !.pending = new]
    BY <1>1, <1>5
  <2>2. /\ v.media = t.media /\ v.mpu = t.mpu /\ v.skipping = t.skipping /\ v.out = t.out
        /\ v.pending = new
    BY <2>1 DEF Tracks
  <2> QED
    BY <1>3, <1>5, <2>2 DEF Added, v, pic, size, vcl, head, u
<1> QED
  BY <1>4, <1>5

LEMMA AddedSteady ==
  ASSUME NEW t \in Tracks, t.pending.active <=> t.pending.parts # << >>,
         NEW parts \in Seq(Position), parts # << >>, NEW rap, NEW mpu
  PROVE  Steady(t, AddNal(t, parts, rap, mpu))
<1> DEFINE pic == JoinedBy(t, parts, mpu)
           v == AddNal(t, parts, rap, mpu)
<1>1. Added(v, t, pic, parts, rap)
  BY AddedFacts
<1>2. t.pending \in Pictures /\ t.pending.parts \in Seq(Position)
  BY DEF Tracks, Pictures
<1>3. CASE ~t.pending.active
  <2>1. pic.parts = << >>
    BY <1>3 DEF JoinedBy, NoPicture
  <2>2. << >> \o parts = parts
    BY ConcatEmptySeq
  <2> HIDE DEF pic, v
  <2>3. HeadSeen(v)
    BY <1>1, <2>1, <2>2, NoPictureFacts DEF Added, HeadSeen
  <2>4. Grows(t, v)
    BY <1>1 DEF Added, Grows
  <2> QED
    BY <2>3, <2>4 DEF Steady, v
<1>4. CASE t.pending.active
  <2> DEFINE q == t.pending.parts
  <2>1. pic = t.pending
    BY <1>4 DEF JoinedBy
  <2>2. q \in Seq(Position) /\ q # << >> /\ Len(q) \in Nat /\ Len(q) >= 1 /\ Len(parts) \in Nat
    BY <1>2, <1>4, EmptySeq, LenProperties
  <2> HIDE DEF q, pic, v
  <2>3. (q \o parts)[1] = q[1]
    <3>1. 1 \in 1 .. (Len(q) + Len(parts)) /\ 1 <= Len(q)
      BY <2>2
    <3> QED
      BY <2>2, <3>1, ConcatProperties
  <2>4. Grows(t, v)
    BY <1>1 DEF Added, Grows
  <2>5. HeadSeen(t) => HeadSeen(v)
    BY <1>1, <1>4, <2>1, <2>3, NoPictureFacts DEF Added, HeadSeen, q
  <2> QED
    BY <2>4, <2>5 DEF Steady, v
<1> QED
  BY <1>3, <1>4

LEMMA SteadyMarked ==
  ASSUME NEW t \in Tracks
  PROVE  Marked(t) \in Tracks /\ Steady(t, Marked(t))
<1> DEFINE m == Marked(t)
<1>1. m \in Tracks /\ m.out = t.out /\ m.pending = t.pending
  BY MarkedFacts
<1> HIDE DEF m
<1>2. Steady(t, m)
  BY <1>1, SteadySame
<1> QED
  BY <1>1, <1>2 DEF m

LEMMA CompleteSteady ==
  ASSUME NEW t \in Tracks, OnePending(t), NEW parts \in Seq(Position), parts # << >>,
         NEW rap, NEW mpu, NEW known, known \subseteq MPU
  PROVE  Steady(t, CompleteMfu(t, parts, rap, mpu, known))
<1> DEFINE u == UnitAt(parts[1])
           s == [t EXCEPT !.skipping = FALSE]
           v == CompleteMfu(t, parts, rap, mpu, known)
<1>1. t.pending.active <=> t.pending.parts # << >>
  BY DEF OnePending
<1>2. s \in Tracks /\ s.out = t.out /\ s.pending = t.pending
  BY SkippingFacts
<1>3. CASE ~u.valid
  <2>1. v = Marked(t)
    BY <1>3 DEF CompleteMfu
  <2> QED
    BY <2>1, SteadyMarked
<1>4. CASE u.valid /\ t.skipping /\ ~StartsAccessUnit(u)
  <2>1. v = t
    BY <1>4 DEF CompleteMfu
  <2> QED
    BY <2>1, SteadySame
<1>5. CASE /\ u.valid /\ ~(t.skipping /\ ~StartsAccessUnit(u))
           /\ IsVcl(u) /\ u.nal # "first" /\ ~s.pending.vcl
  <2> DEFINE k == [t EXCEPT !.skipping = TRUE]
             m == Marked(k)
  <2>1. v = Cleared(m)
    BY <1>5 DEF CompleteMfu
  <2>2. k \in Tracks /\ k.out = t.out
    BY SkippingFacts
  <2> HIDE DEF k
  <2>3. m \in Tracks /\ m.out = t.out
    BY <2>2, MarkedFacts
  <2> HIDE DEF m
  <2>4. v.out = t.out /\ v.pending = NoPicture
    BY <2>1, <2>3, ClearedFacts
  <2>5. Grows(t, v)
    BY <2>4 DEF Grows
  <2> QED
    BY <2>4, <2>5, SteadyNone
<1>6. CASE /\ u.valid /\ ~(t.skipping /\ ~StartsAccessUnit(u))
           /\ ~(IsVcl(u) /\ u.nal # "first" /\ ~s.pending.vcl)
  <2> DEFINE w == IF s.pending.active /\ BeginsAccessUnit(s.pending, u)
                  THEN Finalized(s, known) ELSE s
  <2>1. v = AddNal(w, parts, rap, mpu)
    BY <1>6 DEF CompleteMfu
  <2>2. Steady(t, s)
    BY <1>2, SteadySame
  <2> HIDE DEF s
  <2>3. w \in Tracks /\ Steady(s, w) /\ (w.pending.active <=> w.pending.parts # << >>)
    <3>1. CASE s.pending.active /\ BeginsAccessUnit(s.pending, u)
      <4>1. w = Finalized(s, known)
        BY <3>1
      <4> HIDE DEF w
      <4>2. w \in Tracks /\ Steady(s, w) /\ w.pending = NoPicture
        BY <1>2, <3>1, <4>1, FinalizedFacts
      <4> QED
        BY <4>2, NoPictureFacts
    <3>2. CASE ~(s.pending.active /\ BeginsAccessUnit(s.pending, u))
      BY <1>1, <1>2, <3>2, SteadySame
    <3> QED
      BY <3>1, <3>2
  <2> HIDE DEF w
  <2>4. Steady(w, v)
    BY <2>1, <2>3, AddedSteady
  <2> QED
    BY <2>2, <2>3, <2>4, SteadyFollows
<1> QED
  BY <1>3, <1>4, <1>5, <1>6

(* consume_mfu_piece.                                                      *)
LEMMA ConsumeSteady ==
  ASSUME NEW t \in Tracks, OnePending(t), t.media.state # "Collecting" => t.media.data = << >>,
         NEW i \in DOMAIN Stream, NEW k \in DOMAIN Stream[i].units,
         NEW known, known \subseteq MPU
  PROVE  Steady(t, ConsumeMfu(t, i, k, known))
<1> DEFINE p == Piece(i, k)
           r == ConsumePiece(t.media, p)
           v == ConsumeMfu(t, i, k, known)
           rap == \E j \in DOMAIN r.unit : Stream[r.unit[j][1]].rap
           s == Fed(t, r.asm, r.lost)
<1>1. /\ p.seq \in 0 .. (SequenceModulus - 1) /\ p.tag \in Nat \X Nat
      /\ p.frag \in Fragmentation /\ p.part \in Position /\ p.size \in Nat
  BY TrackPiece
<1>2. /\ v = IF UnitAt(p.part).short THEN Marked(t)
             ELSE IF Duplicate(t.media, p) THEN t
             ELSE IF r.unit = << >> THEN s
             ELSE CompleteMfu(s, r.unit, rap, Stream[i].mpu, known)
  BY DEF ConsumeMfu, Fed
<1> HIDE DEF p, rap, v
<1>3. t.media \in Assemblers(Position, Nat \X Nat)
  BY DEF Tracks
<1>4. /\ r.asm \in Assemblers(Position, Nat \X Nat) /\ r.lost \in BOOLEAN
      /\ Completes(t.media, p, r) \/ Collects(t.media, p, r) \/ Drops(r)
         \/ PassesOver(t.media, r)
  BY <1>1, <1>3, PieceOutcome
<1>5. r.unit = << >> \/ (r.unit \in Seq(Position) /\ r.unit # << >>)
  <2>1. CASE Completes(t.media, p, r)
    <3>1. r.unit = << p.part >> \/ r.unit = Append(t.media.data, p.part)
      BY <2>1 DEF Completes
    <3>2. t.media.data \in Seq(Position)
      BY <1>3 DEF Assemblers
    <3>3. /\ Append(t.media.data, p.part) \in Seq(Position)
          /\ Append(t.media.data, p.part) # << >>
      BY <1>1, <3>2, AppendProperties
    <3>4. << p.part >> \in Seq(Position) /\ << p.part >> # << >>
      BY <1>1
    <3> QED
      BY <3>1, <3>3, <3>4
  <2> QED
    BY <1>4, <2>1 DEF Collects, Drops, PassesOver
<1> HIDE DEF r
<1>6. /\ s \in Tracks /\ s.pending = t.pending /\ s.out = t.out
      /\ s.discontinuity = (t.discontinuity \/ r.lost) /\ s.skipping = t.skipping
      /\ s.mpu = t.mpu
  BY <1>4, FedFacts
<1> HIDE DEF s
<1>7. OnePending(s)
  BY <1>6 DEF OnePending
<1>8. Steady(t, s)
  BY <1>6, SteadySame
<1>9. CASE UnitAt(p.part).short
  <2>1. v = Marked(t)
    BY <1>2, <1>9
  <2> QED
    BY <2>1, SteadyMarked DEF v
<1>10. CASE ~UnitAt(p.part).short /\ Duplicate(t.media, p)
  <2>1. v = t
    BY <1>2, <1>10
  <2> QED
    BY <2>1, SteadySame DEF v
<1>11. CASE ~UnitAt(p.part).short /\ ~Duplicate(t.media, p) /\ r.unit = << >>
  <2>1. v = s
    BY <1>2, <1>11
  <2> QED
    BY <1>8, <2>1 DEF v
<1>12. CASE ~UnitAt(p.part).short /\ ~Duplicate(t.media, p) /\ r.unit # << >>
  <2>1. v = CompleteMfu(s, r.unit, rap, Stream[i].mpu, known)
    BY <1>2, <1>12
  <2>2. Steady(s, v)
    BY <1>5, <1>6, <1>7, <1>12, <2>1, CompleteSteady
  <2> QED
    BY <1>8, <2>2, SteadyFollows DEF v
<1> QED
  BY <1>9, <1>10, <1>11, <1>12

(* The MPU change.                                                         *)
LEMMA EnterSteady ==
  ASSUME NEW t \in Tracks, NEW known, known \subseteq MPU, NEW m \in MPU
  PROVE  /\ Steady(t, EnterMpu(t, m, known))
         /\ t.mpu # m /\ t.mpu # None =>
              Steady(Finalized(t, known), EnterMpu(t, m, known))
<1> DEFINE f == Finalized(t, known)
           g == IF CountDisagrees(f, known) \/ m # t.mpu + 1 THEN Marked(f) ELSE f
           u == EnterMpu(t, m, known)
<1>1. f \in Tracks /\ Steady(t, f)
  BY FinalizedFacts
<1> HIDE DEF f
<1>2. g \in Tracks /\ Steady(f, g)
  <2>1. Steady(f, f)
    BY SteadySame
  <2> QED
    BY <1>1, <2>1, SteadyMarked
<1>3. u = IF t.mpu = m THEN t ELSE Renumbered(IF t.mpu = None THEN t ELSE g, m)
  BY DEF EnterMpu, Renumbered, f
<1> HIDE DEF g, u
<1>4. ASSUME NEW w \in Tracks PROVE Steady(w, Renumbered(w, m))
  <2>1. Renumbered(w, m).out = w.out /\ Renumbered(w, m).pending = w.pending
    BY DEF Renumbered, Tracks
  <2> QED
    BY <2>1, SteadySame
<1>5. Steady(t, t)
  BY SteadySame
<1>6. t.mpu # m /\ t.mpu # None => Steady(f, u)
  BY <1>2, <1>3, <1>4, SteadyFollows
<1>7. Steady(t, u)
  BY <1>1, <1>3, <1>4, <1>5, <1>6, SteadyFollows
<1> QED
  BY <1>6, <1>7 DEF f, u

-----------------------------------------------------------------------------
(* A NAL unit of the picture is complete.  First what it is added to.      *)
LEMMA HeadComes ==
  ASSUME OrderlySender, NEW W, WholeSound(W), NEW t \in Tracks, OnePending(t), HeadSeen(t),
         t.mpu = MpuOf(W[1]), t.pending.active
  PROVE  BeginsAccessUnit(t.pending, UnitAt(W[1]))
<1> DEFINE pic == t.pending
           x == pic.parts[1]
           u == UnitAt(W[1])
<1>1. /\ x \in Position /\ MpuOf(x) = pic.mpu /\ SampleOf(x) = pic.sample /\ pic.mpu = t.mpu
  BY PendingFacts
<1>2. /\ SampleOf(W[1]) # 0
      /\ \A y \in Position : PictureOf(y) = PictureOf(W[1]) => \E j \in 1 .. Len(W) : W[j] = y
  BY WholeFacts
<1>3. \/ u.nal = "delimiter"
      \/ u.nal = "first" /\ \A j \in 1 .. Len(W) : IsVcl(UnitAt(W[j]))
  BY HeadFacts
<1>4. u.sample = SampleOf(W[1])
  BY DEF SampleOf
<1>5. CASE pic.sample # u.sample
  BY <1>2, <1>4, <1>5 DEF BeginsAccessUnit
<1>6. CASE pic.sample = u.sample
  <2>1. PictureOf(x) = PictureOf(W[1])
    BY <1>1, <1>4, <1>6 DEF PictureOf
  <2>2. PICK j \in 1 .. Len(W) : W[j] = x
    BY <1>1, <1>2, <2>1
  <2>3. u.nal = "first" => pic.vcl
    BY <1>3, <2>2 DEF HeadSeen
  <2> QED
    BY <1>3, <2>3 DEF BeginsAccessUnit
<1> QED
  BY <1>5, <1>6

LEMMA NalJoins ==
  ASSUME OrderlySender, NEW W, WholeSound(W), NEW p, NEW n, OneNal(W, p, n), p # 0,
         NEW pic, PictureHolds(pic, W, p)
  PROVE  LET u == UnitAt(W[p + 1])
         IN  /\ ~BeginsAccessUnit(pic, u)
             /\ ~(IsVcl(u) /\ u.nal # "first" /\ ~pic.vcl)
<1> DEFINE u == UnitAt(W[p + 1])
<1>1. p + 1 \in 1 .. Len(W)
  BY WholeFacts DEF OneNal
<1>2. u.sample = pic.sample
  <2>1. SampleOf(W[p + 1]) = SampleOf(W[1])
    BY <1>1, WholeFacts
  <2> QED
    BY <2>1 DEF PictureHolds, SampleOf
<1>3. InPlace(u, HasVcl(W, p))
  BY NalInPlace
<1>4. pic.vcl <=> HasVcl(W, p)
  BY DEF PictureHolds
<1>5. u.nal # "delimiter"
  BY <1>3 DEF InPlace
<1>6. u.nal \in {"prefix", "first"} => ~pic.vcl
  BY <1>3, <1>4 DEF InPlace
<1>7. u.nal = "slice" => pic.vcl
  BY <1>3, <1>4 DEF InPlace
<1> QED
  BY <1>2, <1>5, <1>6, <1>7 DEF BeginsAccessUnit, IsVcl

LEMMA FreshHolds ==
  ASSUME OrderlySender, NEW W, WholeSound(W),
         NEW pic, pic = [NoPicture EXCEPT !.active = TRUE, !.mpu = MpuOf(W[1]),
                                          !.sample = UnitAt(W[1]).sample]
  PROVE  PictureHolds(pic, W, 0)
<1>1. /\ pic.active = TRUE /\ pic.parts = << >> /\ pic.size = 0 /\ pic.vcl = FALSE
      /\ pic.mpu = MpuOf(W[1]) /\ pic.sample = SampleOf(W[1])
  BY DEF NoPicture, SampleOf
<1>2. W \in Seq(Position) /\ Len(W) \in Nat
  BY WholeFacts
<1>3. Bytes(W)[0] = 0
  BY <1>2, BytesFacts
<1>4. RunOf(<< >>, W, 0) /\ Len(<< >>) = 0
  BY <1>2 DEF RunOf
<1>5. ~HasVcl(W, 0)
  BY DEF HasVcl
<1> QED
  BY <1>1, <1>3, <1>4, <1>5 DEF PictureHolds

LEMMA RunGrows ==
  ASSUME NEW W \in Seq(Position), NEW q, RunOf(q, W, 0), NEW parts, RunOf(parts, W, Len(q))
  PROVE  RunOf(q \o parts, W, 0) /\ Len(q \o parts) = Len(q) + Len(parts)
<1>1. q \in Seq(Position) /\ parts \in Seq(Position) /\ Len(q) \in Nat /\ Len(parts) \in Nat
  BY LenProperties DEF RunOf
<1>2. /\ q \o parts \in Seq(Position) /\ Len(q \o parts) = Len(q) + Len(parts)
      /\ \A j \in 1 .. (Len(q) + Len(parts)) :
           (q \o parts)[j] = IF j <= Len(q) THEN q[j] ELSE parts[j - Len(q)]
  BY <1>1, ConcatProperties
<1>3. /\ \A j \in 1 .. Len(q) : q[j] = W[0 + j]
      /\ \A j \in 1 .. Len(parts) : parts[j] = W[Len(q) + j]
      /\ Len(q) + Len(parts) <= Len(W)
  BY DEF RunOf
<1>4. ASSUME NEW j \in 1 .. (Len(q) + Len(parts))
      PROVE  (q \o parts)[j] = W[0 + j]
  <2>1. CASE j <= Len(q)
    <3>1. j \in 1 .. Len(q)
      BY <1>1, <2>1
    <3> QED
      BY <1>2, <1>3, <2>1, <3>1
  <2>2. CASE ~(j <= Len(q))
    <3>1. j - Len(q) \in 1 .. Len(parts) /\ Len(q) + (j - Len(q)) = 0 + j
      BY <1>1, <2>2
    <3> QED
      BY <1>2, <1>3, <2>2, <3>1
  <2> QED
    BY <2>1, <2>2
<1> QED
  BY <1>1, <1>2, <1>3, <1>4 DEF RunOf

LEMMA PictureGrows ==
  ASSUME OrderlySender, NEW W, WholeSound(W), NEW p, NEW n, OneNal(W, p, n),
         NEW parts, RunOf(parts, W, p), Len(parts) = n - p,
         NEW rap \in BOOLEAN, \A j \in DOMAIN parts : Stream[parts[j][1]].rap => rap,
         NEW t, NEW v, NEW pic, PictureHolds(pic, W, p),
         Added(v, t, pic, parts, rap)
  PROVE  /\ PictureHolds(v.pending, W, n)
         /\ v.media = t.media /\ v.mpu = t.mpu /\ v.skipping = t.skipping
<1> DEFINE u == UnitAt(parts[1])
           B == Bytes(W)
           new == v.pending
<1>1. /\ W \in Seq(Position) /\ Len(W) \in Nat /\ B[Len(W)] <= MaxAccessUnit
      /\ \A k \in 0 .. Len(W) : B[k] \in Nat
  BY WholeFacts, BytesFacts
<1>2. p \in Nat /\ n \in Nat /\ p < n /\ n <= Len(W) /\ p \in 0 .. Len(W) /\ n \in p .. Len(W)
  BY <1>1 DEF OneNal
<1>3. /\ parts \in Seq(Position) /\ Len(parts) >= 1 /\ 1 \in 1 .. Len(parts)
      /\ DOMAIN parts = 1 .. Len(parts)
      /\ \A j \in 1 .. Len(parts) : parts[j] = W[p + j]
  BY <1>2, LenProperties DEF RunOf
<1>4. u = UnitAt(W[p + 1])
  BY <1>3
<1>5. B[n] <= MaxAccessUnit /\ B[p] \in Nat /\ B[n] \in Nat
  <2>1. B[n] <= B[Len(W)] /\ n \in 0 .. Len(W) /\ Len(W) \in n .. Len(W)
    BY <1>1, <1>2, BytesGrow
  <2> QED
    BY <1>1, <1>2, <2>1, MaxAccessUnitAssumption
<1>6. NalSize(parts) = B[n] - B[p] - 1
  <2>1. NalSize(parts) = Bytes(parts)[Len(parts)] - 1
    BY <1>3, BytesFacts
  <2>2. Bytes(parts)[Len(parts)] = B[p + Len(parts)] - B[p]
    BY <1>1, <1>2, BytesOfRun
  <2>3. p + Len(parts) = n
    BY <1>2
  <2> QED
    BY <2>1, <2>2, <2>3
<1>7. /\ pic.active /\ RunOf(pic.parts, W, 0) /\ Len(pic.parts) = p
      /\ pic.mpu = MpuOf(W[1]) /\ pic.sample = SampleOf(W[1])
      /\ pic.size \in Int /\ pic.size <= B[p]
      /\ pic.vcl <=> HasVcl(W, p)
      /\ \A j \in 1 .. p : UnitAt(W[j]).irap \/ Stream[W[j][1]].rap => pic.rap
  BY DEF PictureHolds
<1>8. ~(NalSize(parts) > MaxAccessUnit - pic.size)
  BY <1>5, <1>6, <1>7, MaxAccessUnitAssumption
<1>9. /\ v.media = t.media /\ v.mpu = t.mpu /\ v.skipping = t.skipping
      /\ new.active = pic.active /\ new.parts = pic.parts \o parts
      /\ new.size = pic.size + NalSize(parts)
      /\ new.vcl = (pic.vcl \/ IsVcl(u)) /\ new.rap = (pic.rap \/ rap \/ u.irap)
      /\ new.mpu = pic.mpu /\ new.sample = pic.sample
  BY <1>8 DEF Added
<1> HIDE DEF B, new, u
<1>10. RunOf(new.parts, W, 0) /\ Len(new.parts) = n
  <2>1. RunOf(pic.parts \o parts, W, 0) /\ Len(pic.parts \o parts) = p + Len(parts)
    BY <1>1, <1>7, RunGrows
  <2> QED
    BY <1>2, <1>9, <2>1
<1>11. new.size \in Int /\ new.size <= B[n]
  BY <1>5, <1>6, <1>7, <1>9
<1>12. /\ HasVcl(W, n) <=> HasVcl(W, p) \/ IsVcl(u)
       /\ \A j \in (p + 1) .. n : UnitAt(W[j]).irap = u.irap
  BY <1>4, VclGrows
<1>13. ASSUME NEW j \in 1 .. n, UnitAt(W[j]).irap \/ Stream[W[j][1]].rap
       PROVE  new.rap
  <2>1. CASE j <= p
    <3>1. j \in 1 .. p
      BY <1>2, <2>1
    <3> QED
      BY <1>7, <1>9, <1>13, <3>1
  <2>2. CASE ~(j <= p)
    <3>1. j \in (p + 1) .. n /\ j - p \in 1 .. Len(parts) /\ p + (j - p) = j
      BY <1>2, <2>2
    <3>2. parts[j - p] = W[j]
      BY <1>3, <3>1
    <3> QED
      BY <1>3, <1>9, <1>12, <1>13, <3>1, <3>2
  <2> QED
    BY <2>1, <2>2
<1>14. PictureHolds(new, W, n)
  BY <1>7, <1>9, <1>10, <1>11, <1>12, <1>13 DEF PictureHolds, B
<1> QED
  BY <1>9, <1>14 DEF new

HasRap(parts) == \E j \in DOMAIN parts : Stream[parts[j][1]].rap

(* The parts of one NAL unit, up to n.                                     *)
NalParts(parts, W, p, n) ==
  OneNal(W, p, n) /\ RunOf(parts, W, p) /\ Len(parts) = n - p

LEMMA CompleteHolds ==
  ASSUME OrderlySender, NEW W, WholeSound(W), NEW p, NEW n, NEW parts,
         NalParts(parts, W, p, n),
         NEW t \in Tracks, OnePending(t), HeadSeen(t), PendingHolds(t, W, p),
         NEW known, known \subseteq MPU
  PROVE  LET v == CompleteMfu(t, parts, HasRap(parts), MpuOf(W[1]), known)
         IN  PendingHolds(v, W, n) /\ v.media = t.media
<1> DEFINE rap == HasRap(parts)
           u == UnitAt(parts[1])
           s == [t EXCEPT !.skipping = FALSE]
           w == IF s.pending.active /\ BeginsAccessUnit(s.pending, u)
                THEN Finalized(s, known) ELSE s
           pic == JoinedBy(w, parts, MpuOf(W[1]))
           v == CompleteMfu(t, parts, rap, MpuOf(W[1]), known)
<1>1. OneNal(W, p, n) /\ RunOf(parts, W, p) /\ Len(parts) = n - p
  BY DEF NalParts
<1>2. rap \in BOOLEAN /\ \A j \in DOMAIN parts : Stream[parts[j][1]].rap => rap
  BY DEF HasRap
<1> HIDE DEF rap
<1> USE <1>1
<1>3. /\ p \in Nat /\ n \in Nat /\ p < n /\ n # 0 /\ p + 1 \in 1 .. Len(W)
      /\ 1 \in 1 .. Len(parts) /\ parts[1] = W[p + 1]
  <2>1. Len(W) \in Nat
    BY WholeFacts
  <2>2. p \in Nat /\ n \in Nat /\ p < n /\ n <= Len(W)
    BY DEF OneNal
  <2>3. \A j \in 1 .. Len(parts) : parts[j] = W[p + j]
    BY DEF RunOf
  <2>4. 1 \in 1 .. Len(parts)
    BY <2>2
  <2> QED
    BY <2>1, <2>2, <2>3, <2>4
<1>4. u = UnitAt(W[p + 1]) /\ u.valid
  BY <1>3, WholeFacts
<1>5. /\ s \in Tracks /\ s.skipping = FALSE /\ s.media = t.media /\ s.pending = t.pending
      /\ s.mpu = t.mpu /\ s.discontinuity = t.discontinuity
  BY SkippingFacts
<1>6. t.mpu = MpuOf(W[1]) /\ (p # 0 => ~t.skipping /\ PictureHolds(t.pending, W, p))
  BY DEF PendingHolds
<1>7. ~(t.skipping /\ ~StartsAccessUnit(u))
  <2>1. CASE p = 0
    BY <1>4, <2>1, HeadFacts
  <2>2. CASE p # 0
    BY <1>6, <2>2
  <2> QED
    BY <2>1, <2>2
<1>8. ~(IsVcl(u) /\ u.nal # "first" /\ ~s.pending.vcl)
  <2>1. CASE p = 0
    BY <1>4, <2>1, HeadFacts
  <2>2. CASE p # 0
    BY <1>4, <1>5, <1>6, <2>2, NalJoins
  <2> QED
    BY <2>1, <2>2
<1>9. v = AddNal(w, parts, rap, MpuOf(W[1]))
  BY <1>4, <1>7, <1>8 DEF CompleteMfu
<1>10. /\ w \in Tracks /\ w.media = t.media /\ w.mpu = t.mpu /\ w.skipping = FALSE
       /\ PictureHolds(pic, W, p)
  <2>1. CASE p = 0
    <3>1. t.pending.active => BeginsAccessUnit(t.pending, u)
      BY <1>4, <1>6, <2>1, HeadComes
    <3>2. /\ w \in Tracks /\ w.media = s.media /\ w.mpu = s.mpu /\ w.skipping = s.skipping
          /\ ~w.pending.active
      <4>1. CASE t.pending.active
        <5> DEFINE f == Finalized(s, known)
        <5>1. w = f
          BY <1>5, <3>1, <4>1
        <5>2. /\ f \in Tracks /\ f.media = s.media /\ f.mpu = s.mpu /\ f.skipping = s.skipping
              /\ ~f.pending.active
          <6> HIDE DEF s
          <6> QED
            BY <1>5, FinalizedFacts
        <5> HIDE DEF w, f
        <5> QED
          BY <5>1, <5>2
      <4>2. CASE ~t.pending.active
        <5>1. w = s
          BY <1>5, <4>2
        <5> HIDE DEF w, s
        <5> QED
          BY <1>5, <4>2, <5>1
      <4> QED
        BY <4>1, <4>2
    <3> HIDE DEF w, s
    <3>3. pic = [NoPicture EXCEPT !.active = TRUE, !.mpu = MpuOf(W[1]),
                                  !.sample = UnitAt(W[1]).sample]
      BY <1>4, <2>1, <3>2 DEF JoinedBy
    <3>4. PictureHolds(pic, W, 0)
      <4> HIDE DEF pic
      <4> QED
        BY <3>3, FreshHolds
    <3> QED
      BY <1>5, <2>1, <3>2, <3>4
  <2>2. CASE p # 0
    <3>1. ~BeginsAccessUnit(t.pending, u) /\ t.pending.active
      BY <1>4, <1>6, <2>2, NalJoins DEF PictureHolds
    <3>2. w = s
      BY <1>5, <3>1
    <3> HIDE DEF w, s
    <3>3. pic = t.pending
      BY <1>5, <3>1, <3>2 DEF JoinedBy
    <3> QED
      BY <1>5, <1>6, <2>2, <3>2, <3>3
  <2> QED
    BY <2>1, <2>2
<1> HIDE DEF w
<1>11. Added(v, w, pic, parts, rap)
  BY <1>9, <1>10, AddedFacts
<1> HIDE DEF pic, v
<1>12. /\ PictureHolds(v.pending, W, n)
       /\ v.media = w.media /\ v.mpu = w.mpu /\ v.skipping = w.skipping
  BY <1>10, <1>11, <1>2, PictureGrows
<1> QED
  BY <1>3, <1>6, <1>10, <1>12 DEF PendingHolds, v, rap

-----------------------------------------------------------------------------
(* What a fragment does to an assembler that expects it.                   *)
Assembled(a, p, state, data, size, unit) ==
  LET r == ConsumePiece(a, p)
  IN  /\ r.asm = Assembler(state, p.seq, IF state = "Idle" THEN a.tag ELSE p.tag, data, size)
      /\ r.unit = unit

LEMMA PieceMade ==
  \A a, p, x, unit :
    ByFragmentation(Sequenced(a, p), p) = Outcome(x, FALSE, unit) =>
      ConsumePiece(a, p).asm = x /\ ConsumePiece(a, p).unit = unit
BY PieceFields

LEMMA UnitMade ==
  \A a, p, x, unit :
    ByFragmentation(Sequenced(a, p), p) = Outcome(x, FALSE, unit) =>
      unit = ConsumePiece(a, p).unit
BY PieceFields

LEMMA WholePiece ==
  ASSUME NEW a, NEW p, p.frag = 0
  PROVE  Assembled(a, p, "Idle", << >>, 0, << p.part >>)
<1> DEFINE b == Sequenced(a, p)
           lost == b.state = "Collecting"
<1>1. b.last = p.seq /\ b.tag = a.tag
  BY DEF Sequenced, Assembler
<1>2. ByFragmentation(b, p) = Outcome(Emptied(b, "Idle"), lost, << p.part >>)
  BY DEF ByFragmentation, CompletePiece
<1> HIDE DEF lost
<1>3. /\ ConsumePiece(a, p).asm = Emptied(b, "Idle")
      /\ ConsumePiece(a, p).unit = << p.part >>
  BY <1>2, PieceFields
<1> QED
  BY <1>1, <1>3 DEF Assembled, Emptied

LEMMA FirstFragment ==
  ASSUME NEW a, NEW p, p.frag = 1, p.size \in Nat, p.size <= MaxAccessUnit
  PROVE  Assembled(a, p, "Collecting", << p.part >>, p.size, << >>)
<1> DEFINE b == Sequenced(a, p)
           c == Begun(b, p)
<1>1. b.last = p.seq
  BY DEF Sequenced, Assembler
<1>2. c = Assembler("Collecting", p.seq, p.tag, << >>, 0)
  BY <1>1 DEF Begun
<1>3. c.state = "Collecting" /\ c.last = p.seq /\ c.tag = p.tag /\ c.data = << >> /\ c.size = 0
  BY <1>2 DEF Assembler
<1>4. Fits(c, p)
  BY <1>3, MaxAccessUnitAssumption DEF Fits
<1>5. ByFragmentation(b, p) = Outcome(Appended(c, p), FALSE, << >>)
  BY <1>4 DEF ByFragmentation, FirstPiece
<1> HIDE DEF c
<1>6. ConsumePiece(a, p).asm = Appended(c, p) /\ ConsumePiece(a, p).unit = << >>
  BY <1>5, PieceFields
<1>7. Appended(c, p) = Assembler("Collecting", p.seq, p.tag, << p.part >>, p.size)
  <2>1. 0 + p.size = p.size
    OBVIOUS
  <2>2. Append(<< >>, p.part) = << p.part >>
    OBVIOUS
  <2> QED
    BY <1>3, <2>1, <2>2 DEF Appended
<1> QED
  BY <1>6, <1>7 DEF Assembled

LEMMA ContinuedPiece ==
  ASSUME NEW a, NEW p, ~Jumped(a, p), a.state = "Collecting",
         a.tag = p.tag, p.size <= MaxAccessUnit - a.size
  PROVE  LET b == Sequenced(a, p)
         IN  /\ Continues(b, p) /\ Fits(b, p) /\ b.state # "Skipping"
             /\ Appended(b, p) =
                  Assembler("Collecting", p.seq, p.tag, Append(a.data, p.part), a.size + p.size)
             /\ Appended(b, p).data = Append(a.data, p.part)
             /\ Emptied(b, "Idle") = Assembler("Idle", p.seq, a.tag, << >>, 0)
<1> DEFINE b == Sequenced(a, p)
<1>1. b = Assembler("Collecting", p.seq, p.tag, a.data, a.size)
  BY DEF Sequenced
<1>2. /\ b.state = "Collecting" /\ b.last = p.seq /\ b.tag = p.tag /\ b.data = a.data
      /\ b.size = a.size
  BY <1>1 DEF Assembler
<1>3. Continues(b, p) /\ Fits(b, p) /\ b.state # "Skipping"
  BY <1>2 DEF Continues, Fits
<1>4. /\ Appended(b, p) =
            Assembler("Collecting", p.seq, p.tag, Append(a.data, p.part), a.size + p.size)
      /\ Emptied(b, "Idle") = Assembler("Idle", p.seq, a.tag, << >>, 0)
  BY <1>2 DEF Appended, Emptied
<1>5. Appended(b, p).data = Append(a.data, p.part)
  BY <1>4 DEF Assembler
<1> QED
  BY <1>3, <1>4, <1>5

LEMMA MiddleFragment ==
  ASSUME NEW a, NEW p, p.frag = 2, ~Jumped(a, p), a.state = "Collecting",
         a.tag = p.tag, p.size <= MaxAccessUnit - a.size
  PROVE  Assembled(a, p, "Collecting", Append(a.data, p.part), a.size + p.size, << >>)
<1> DEFINE b == Sequenced(a, p)
           x == Appended(b, p)
<1>1. /\ Continues(b, p) /\ Fits(b, p) /\ b.state # "Skipping"
      /\ x = Assembler("Collecting", p.seq, p.tag, Append(a.data, p.part), a.size + p.size)
  BY ContinuedPiece
<1>2. ByFragmentation(b, p) = Outcome(x, FALSE, << >>)
  BY <1>1 DEF ByFragmentation, MiddlePiece
<1>3. ConsumePiece(a, p).asm = x /\ ConsumePiece(a, p).unit = << >>
  BY <1>2, PieceMade, Zenon
<1> QED
  BY <1>1, <1>3 DEF Assembled

LEMMA LastFragment ==
  ASSUME NEW a, NEW p, p.frag = 3, ~Jumped(a, p), a.state = "Collecting",
         a.tag = p.tag, p.size <= MaxAccessUnit - a.size
  PROVE  Assembled(a, p, "Idle", << >>, 0, Append(a.data, p.part))
<1> DEFINE b == Sequenced(a, p)
           y == Emptied(b, "Idle")
           u == Appended(b, p).data
<1>1. /\ Continues(b, p) /\ Fits(b, p) /\ b.state # "Skipping"
      /\ y = Assembler("Idle", p.seq, a.tag, << >>, 0)
      /\ u = Append(a.data, p.part)
  BY ContinuedPiece
<1>2. ByFragmentation(b, p) = Outcome(y, FALSE, u)
  <2>1. ByFragmentation(b, p) = LastPiece(b, p)
    BY DEF ByFragmentation
  <2>2. LastPiece(b, p) = Outcome(y, FALSE, u)
    BY <1>1, Zenon DEF LastPiece
  <2> QED
    BY <2>1, <2>2
<1> HIDE DEF y, u
<1>3. ConsumePiece(a, p).asm = y
  BY <1>2, PieceMade, Zenon
<1>4. ConsumePiece(a, p).unit = u
  BY <1>2, UnitMade, Zenon
<1> QED
  BY <1>1, <1>3, <1>4 DEF Assembled

-----------------------------------------------------------------------------
(* A unit of the picture in the hands of the track.  What ConsumeMfu does  *)
(* with a piece that is not passed over.                                   *)
Unburdened(a) == a.state # "Collecting" => a.data = << >>

LEMMA PieceTypes ==
  ASSUME NEW t \in Tracks, Unburdened(t.media), NEW i \in DOMAIN Stream, NEW k \in DOMAIN Stream[i].units
  PROVE  /\ ConsumePiece(t.media, Piece(i, k)).asm \in Assemblers(Position, Nat \X Nat)
         /\ ConsumePiece(t.media, Piece(i, k)).lost \in BOOLEAN
<1> DEFINE p == Piece(i, k)
<1>1. /\ p.seq \in 0 .. (SequenceModulus - 1) /\ p.tag \in Nat \X Nat
      /\ p.frag \in Fragmentation /\ p.part \in Position /\ p.size \in Nat
  BY TrackPiece
<1> HIDE DEF p
<1>2. /\ t.media \in Assemblers(Position, Nat \X Nat)
      /\ t.media.state # "Collecting" => t.media.data = << >>
  BY DEF Tracks, Unburdened
<1>3. /\ ConsumePiece(t.media, p).asm \in Assemblers(Position, Nat \X Nat)
      /\ ConsumePiece(t.media, p).lost \in BOOLEAN
  BY <1>1, <1>2, PieceOutcome
<1> QED
  BY <1>3 DEF p

FedBy(t, r) == Fed(t, r.asm, r.lost)

LEMMA FedByFacts ==
  ASSUME NEW t \in Tracks, Unburdened(t.media), NEW i \in DOMAIN Stream, NEW k \in DOMAIN Stream[i].units
  PROVE  LET r == ConsumePiece(t.media, Piece(i, k))
             s == FedBy(t, r)
         IN  /\ s \in Tracks /\ s.media = r.asm /\ s.pending = t.pending
             /\ s.skipping = t.skipping /\ s.mpu = t.mpu /\ s.out = t.out
             /\ s.wait = t.wait /\ s.lastDts = t.lastDts
             /\ OnePending(t) => OnePending(s)
             /\ HeadSeen(t) => HeadSeen(s)
<1> DEFINE r == ConsumePiece(t.media, Piece(i, k))
           s == FedBy(t, r)
<1>1. r.asm \in Assemblers(Position, Nat \X Nat) /\ r.lost \in BOOLEAN
  BY PieceTypes
<1> HIDE DEF r
<1>2. /\ s \in Tracks /\ s.media = r.asm /\ s.pending = t.pending
      /\ s.skipping = t.skipping /\ s.mpu = t.mpu /\ s.out = t.out
      /\ s.wait = t.wait /\ s.lastDts = t.lastDts
      /\ s.discontinuity = (t.discontinuity \/ r.lost)
  BY <1>1, FedFacts DEF FedBy
<1> HIDE DEF s
<1>3. OnePending(t) => OnePending(s)
  BY <1>2 DEF OnePending
<1>4. HeadSeen(t) => HeadSeen(s)
  BY <1>2 DEF HeadSeen
<1> QED
  BY <1>2, <1>3, <1>4 DEF r, s

AfterPiece(t, i, r, known) ==
  IF r.unit = << >> THEN FedBy(t, r)
  ELSE CompleteMfu(FedBy(t, r), r.unit, HasRap(r.unit), Stream[i].mpu, known)

LEMMA PieceConsumed ==
  ASSUME NEW t, NEW i, NEW k, NEW known,
         ~UnitAt(<< i, k >>).short, ~Duplicate(t.media, Piece(i, k))
  PROVE  ConsumeMfu(t, i, k, known) = AfterPiece(t, i, ConsumePiece(t.media, Piece(i, k)), known)
<1>1. Piece(i, k).part = << i, k >>
  BY DEF Piece
<1> QED
  BY <1>1 DEF ConsumeMfu, Fed, FedBy, AfterPiece, HasRap

(* The state and the data of the assembler, read off Assembled.            *)
LEMMA AssembledFields ==
  ASSUME NEW a, NEW p, NEW state, NEW data, NEW size, NEW unit,
         Assembled(a, p, state, data, size, unit)
  PROVE  LET r == ConsumePiece(a, p)
         IN  /\ r.asm.state = state /\ r.asm.data = data /\ r.asm.size = size
             /\ state # "Idle" => r.asm.tag = p.tag
             /\ r.unit = unit
BY DEF Assembled, Assembler

LEMMA CompleteGathers ==
  ASSUME OrderlySender, NEW W, WholeSound(W), NEW p, NEW n, EndsNal(W[n]),
         NEW t \in Tracks, OnePending(t), HeadSeen(t), PendingHolds(t, W, p),
         Unburdened(t.media),
         NEW i \in DOMAIN Stream, NEW k \in DOMAIN Stream[i].units, W[n] = << i, k >>,
         ~Duplicate(t.media, Piece(i, k)), NEW unit, NalParts(unit, W, p, n),
         Assembled(t.media, Piece(i, k), "Idle", << >>, 0, unit), NEW known, known \subseteq MPU
  PROVE  Gathers(ConsumeMfu(t, i, k, known), W, n)
<1> DEFINE r == ConsumePiece(t.media, Piece(i, k))
           s == FedBy(t, r)
           v == ConsumeMfu(t, i, k, known)
<1>1. n \in 1 .. Len(W) /\ n \in Nat /\ p \in Nat /\ p < n
  BY WholeFacts DEF OneNal, NalParts
<1>2. ~UnitAt(<< i, k >>).short /\ Stream[i].mpu = MpuOf(W[1])
  <2>1. ~UnitAt(W[n]).short /\ MpuOf(W[n]) = MpuOf(W[1])
    BY <1>1, WholeFacts
  <2> QED
    BY <2>1 DEF MpuOf
<1>3. r.asm.state = "Idle" /\ r.unit = unit
  BY AssembledFields
<1>4. unit # << >>
  BY <1>1 DEF NalParts
<1>5. /\ s \in Tracks /\ s.media = r.asm /\ s.pending = t.pending
      /\ s.skipping = t.skipping /\ s.mpu = t.mpu
      /\ OnePending(s) /\ HeadSeen(s)
  BY FedByFacts
<1>6. v = CompleteMfu(s, unit, HasRap(unit), MpuOf(W[1]), known)
  <2>1. v = AfterPiece(t, i, r, known)
    BY <1>2, PieceConsumed
  <2> HIDE DEF r, v
  <2> QED
    BY <1>2, <1>3, <1>4, <2>1 DEF AfterPiece
<1> HIDE DEF r, s, v
<1>7. PendingHolds(s, W, p)
  BY <1>5 DEF PendingHolds
<1>8. PendingHolds(v, W, n) /\ v.media = s.media
  <2>1. s \in Tracks /\ OnePending(s) /\ HeadSeen(s)
    BY <1>5
  <2>2. /\ PendingHolds(CompleteMfu(s, unit, HasRap(unit), MpuOf(W[1]), known), W, n)
        /\ CompleteMfu(s, unit, HasRap(unit), MpuOf(W[1]), known).media = s.media
    BY <2>1, <1>7, CompleteHolds
  <2> QED
    BY <1>6, <2>2
<1>9. CollectedHolds(v.media, W, n, n)
  BY <1>3, <1>5, <1>8 DEF CollectedHolds
<1> QED
  BY <1>1, <1>8, <1>9 DEF Gathers, v

LEMMA CollectGathers ==
  ASSUME OrderlySender, NEW W, WholeSound(W), NEW p, NEW n, OneNal(W, p, n), ~EndsNal(W[n]),
         NEW t \in Tracks, PendingHolds(t, W, p), Unburdened(t.media),
         NEW i \in DOMAIN Stream, NEW k \in DOMAIN Stream[i].units, W[n] = << i, k >>,
         ~Duplicate(t.media, Piece(i, k)), NEW data, NEW size,
         Assembled(t.media, Piece(i, k), "Collecting", data, size, << >>),
         RunOf(data, W, p), Len(data) = n - p, size <= Bytes(W)[n] - Bytes(W)[p],
         NEW known, known \subseteq MPU
  PROVE  Gathers(ConsumeMfu(t, i, k, known), W, n)
<1> DEFINE r == ConsumePiece(t.media, Piece(i, k))
           s == FedBy(t, r)
           v == ConsumeMfu(t, i, k, known)
<1>1. n \in 1 .. Len(W) /\ n \in Nat /\ p \in Nat /\ p < n
  BY WholeFacts DEF OneNal
<1>2. ~UnitAt(<< i, k >>).short
  BY <1>1, WholeFacts
<1>3. Piece(i, k).tag = PictureOf(W[1])
  <2>1. Piece(i, k).tag = PictureOf(<< i, k >>)
    BY TrackPiece
  <2>2. PictureOf(W[n]) = PictureOf(W[1])
    BY <1>1, WholeFacts
  <2> QED
    BY <2>1, <2>2
<1>4. /\ r.asm.state = "Collecting" /\ r.unit = << >> /\ r.asm.data = data
      /\ r.asm.size = size /\ r.asm.tag = PictureOf(W[1])
  <2>1. "Collecting" # "Idle"
    OBVIOUS
  <2> QED
    BY <1>3, <2>1, AssembledFields
<1>5. v = s /\ s.media = r.asm /\ s.pending = t.pending /\ s.skipping = t.skipping /\ s.mpu = t.mpu
  <2>1. /\ s.media = r.asm /\ s.pending = t.pending
        /\ s.skipping = t.skipping /\ s.mpu = t.mpu
    BY FedByFacts
  <2>2. v = AfterPiece(t, i, r, known)
    BY <1>2, PieceConsumed
  <2> HIDE DEF r, v
  <2>3. v = s
    BY <1>4, <2>2 DEF AfterPiece
  <2> QED
    BY <2>1, <2>3 DEF r
<1> HIDE DEF r, s, v
<1>6. PendingHolds(v, W, p)
  BY <1>5 DEF PendingHolds
<1>7. CollectedHolds(v.media, W, p, n)
  BY <1>4, <1>5 DEF CollectedHolds
<1>8. p \in 0 .. n
  BY <1>1
<1> QED
  BY <1>6, <1>7, <1>8 DEF Gathers, v

(* The data and the size of what is collected, with the next part.         *)
LEMMA RunAppend ==
  ASSUME NEW W \in Seq(Position), NEW p \in Nat, NEW data, RunOf(data, W, p),
         NEW n \in 1 .. Len(W), p + Len(data) + 1 = n
  PROVE  RunOf(Append(data, W[n]), W, p) /\ Len(Append(data, W[n])) = n - p
<1> DEFINE new == Append(data, W[n])
           m == Len(data)
<1>1. /\ data \in Seq(Position) /\ m \in Nat /\ Len(W) \in Nat /\ W[n] \in Position
      /\ \A j \in 1 .. m : data[j] = W[p + j]
  BY LenProperties, ElementOfSeq DEF RunOf
<1>2. /\ new \in Seq(Position) /\ Len(new) = m + 1
      /\ \A j \in 1 .. m : new[j] = data[j]
      /\ new[m + 1] = W[n]
  BY <1>1, AppendProperties
<1> HIDE DEF new, m
<1>3. p + m + 1 = n
  BY DEF m
<1>4. Len(new) = n - p /\ p + Len(new) <= Len(W) /\ p + (m + 1) = n
  BY <1>1, <1>2, <1>3
<1>5. ASSUME NEW j \in 1 .. Len(new) PROVE new[j] = W[p + j]
  <2>1. j \in 1 .. m \/ j = m + 1
    BY <1>1, <1>2
  <2> QED
    BY <1>1, <1>2, <1>4, <2>1
<1> QED
  BY <1>2, <1>4, <1>5 DEF RunOf, new

LEMMA RunFits ==
  ASSUME NEW W \in Seq(Position), Bytes(W)[Len(W)] <= MaxAccessUnit,
         NEW p \in Nat, NEW n \in 1 .. Len(W), p < n,
         NEW size \in Nat, size <= Bytes(W)[n - 1] - Bytes(W)[p]
  PROVE  /\ UnitAt(W[n]).size \in Nat
         /\ UnitAt(W[n]).size <= MaxAccessUnit - size
         /\ size + UnitAt(W[n]).size <= Bytes(W)[n] - Bytes(W)[p]
<1> DEFINE B == Bytes(W)
           x == UnitAt(W[n]).size
<1>1. /\ B[n] = B[n - 1] + x /\ x \in Nat
      /\ \A j \in 0 .. Len(W) : B[j] \in Nat
  BY BytesFacts
<1>2. /\ Len(W) \in Nat /\ p \in 0 .. Len(W) /\ n - 1 \in 0 .. Len(W) /\ n \in 0 .. Len(W)
      /\ Len(W) \in n .. Len(W) /\ Len(W) \in 0 .. Len(W)
  BY LenProperties
<1>3. B[n] <= B[Len(W)]
  BY <1>2, BytesGrow
<1> HIDE DEF x
<1>4. /\ B[p] \in Nat /\ B[n - 1] \in Nat /\ B[n] \in Nat /\ B[Len(W)] \in Nat
      /\ B[Len(W)] <= MaxAccessUnit /\ size <= B[n - 1] - B[p]
  BY <1>1, <1>2
<1> HIDE DEF B
<1>5. size + x <= B[n] - B[p]
  BY <1>1, <1>4
<1>6. B[n] - B[p] <= MaxAccessUnit
  BY <1>3, <1>4, MaxAccessUnitAssumption
<1>7. x <= MaxAccessUnit - size
  BY <1>1, <1>4, <1>5, <1>6, MaxAccessUnitAssumption
<1> QED
  BY <1>1, <1>5, <1>7 DEF B, x

LEMMA NalGrows ==
  ASSUME NEW W, NEW p, NEW m, OneNal(W, p, m), m + 1 <= Len(W), SameNal(W[m], W[m + 1])
  PROVE  OneNal(W, p, m + 1)
<1>1. p \in Nat /\ m \in Nat /\ p < m /\ SameNal(W[p + 1], W[m])
  BY DEF OneNal
<1>2. SameNal(W[p + 1], W[m + 1])
  BY <1>1 DEF SameNal
<1>3. \A j \in (p + 1) .. (m + 1) : j \in (p + 1) .. m \/ j = m + 1
  BY <1>1
<1> QED
  BY <1>1, <1>2, <1>3 DEF OneNal

LEMMA FreshNal ==
  ASSUME OrderlySender, NEW W, WholeSound(W), NEW p, NEW n, OneNal(W, p, n), n = p + 1,
         NEW t \in Tracks, OnePending(t), HeadSeen(t), PendingHolds(t, W, p),
         Unburdened(t.media),
         NEW i \in DOMAIN Stream, NEW k \in DOMAIN Stream[i].units, W[n] = << i, k >>,
         ~Duplicate(t.media, Piece(i, k)), NEW known, known \subseteq MPU
  PROVE  Gathers(ConsumeMfu(t, i, k, known), W, n)
<1> DEFINE pc == Piece(i, k)
           data == << W[n] >>
<1>1. /\ W \in Seq(Position) /\ n \in 1 .. Len(W) /\ n \in Nat /\ p \in Nat /\ Len(W) \in Nat
      /\ W[n] \in Position /\ BeginsNal(W[n])
  <2>1. /\ W \in Seq(Position) /\ Len(W) \in Nat
        /\ \A j \in 1 .. Len(W) : W[j] \in Position
    BY WholeFacts
  <2>2. p \in Nat /\ n \in Nat /\ n <= Len(W) /\ BeginsNal(W[p + 1])
    BY DEF OneNal
  <2> QED
    BY <2>1, <2>2
<1>2. /\ pc.frag = Stream[i].fragmentation /\ pc.part = W[n] /\ pc.size \in Nat
      /\ pc.size = UnitAt(W[n]).size
  BY TrackPiece DEF Piece, UnitAt
<1>3. Stream[i].fragmentation \in {0, 1} /\ (EndsNal(W[n]) <=> Stream[i].fragmentation \in {0, 3})
  BY <1>1 DEF BeginsNal, EndsNal
<1>4. RunOf(data, W, p) /\ Len(data) = n - p
  BY <1>1 DEF RunOf
<1>5. pc.size <= Bytes(W)[n] - Bytes(W)[p] /\ pc.size <= MaxAccessUnit
  <2>1. /\ n - 1 = p /\ p \in 0 .. Len(W) /\ p < n /\ 0 \in Nat
        /\ Bytes(W)[Len(W)] <= MaxAccessUnit
    BY <1>1, WholeFacts
  <2>2. Bytes(W)[p] \in Nat /\ Bytes(W)[n - 1] = Bytes(W)[p]
    BY <1>1, <2>1, BytesFacts
  <2>3. 0 <= Bytes(W)[n - 1] - Bytes(W)[p]
    BY <2>2
  <2>4. /\ UnitAt(W[n]).size <= MaxAccessUnit - 0
        /\ 0 + UnitAt(W[n]).size <= Bytes(W)[n] - Bytes(W)[p]
    BY <1>1, <2>1, <2>3, RunFits
  <2> QED
    BY <1>2, <2>4, MaxAccessUnitAssumption
<1>6. CASE Stream[i].fragmentation = 0
  <2>1. Assembled(t.media, pc, "Idle", << >>, 0, data)
    BY <1>2, <1>6, WholePiece
  <2> HIDE DEF pc, data
  <2>2. Assembled(t.media, Piece(i, k), "Idle", << >>, 0, data)
    BY <2>1 DEF pc
  <2> QED
    BY <1>3, <1>4, <1>6, <2>2, CompleteGathers, Zenon DEF NalParts
<1>7. CASE Stream[i].fragmentation = 1
  <2>1. Assembled(t.media, pc, "Collecting", data, pc.size, << >>)
    BY <1>2, <1>5, <1>7, FirstFragment
  <2> DEFINE size == pc.size
  <2>2. size <= Bytes(W)[n] - Bytes(W)[p]
    BY <1>5
  <2>3. Assembled(t.media, Piece(i, k), "Collecting", data, size, << >>)
    BY <2>1
  <2>4. ~EndsNal(W[n])
    BY <1>3, <1>7
  <2> HIDE DEF pc, data, size
  <2> QED
    BY <1>4, <2>2, <2>3, <2>4, CollectGathers, Zenon
<1> QED
  BY <1>3, <1>6, <1>7

LEMMA NalContinues ==
  ASSUME OrderlySender, NEW W, WholeSound(W), NEW p, NEW m, m + 1 <= Len(W),
         OneNal(W, p, m), ~BeginsNal(W[m + 1]), SameNal(W[m], W[m + 1]),
         NEW t \in Tracks, OnePending(t), HeadSeen(t), PendingHolds(t, W, p),
         t.media.state = "Collecting", t.media.tag = PictureOf(W[1]),
         RunOf(t.media.data, W, p), Len(t.media.data) = m - p,
         t.media.size <= Bytes(W)[m] - Bytes(W)[p],
         NEW i \in DOMAIN Stream, NEW k \in DOMAIN Stream[i].units, W[m + 1] = << i, k >>,
         ~Duplicate(t.media, Piece(i, k)), ~Jumped(t.media, Piece(i, k)),
         NEW known, known \subseteq MPU
  PROVE  Gathers(ConsumeMfu(t, i, k, known), W, m + 1)
<1> DEFINE pc == Piece(i, k)
           a == t.media
           n == m + 1
           data == Append(a.data, W[n])
           size == a.size + pc.size
<1>1. /\ W \in Seq(Position) /\ Len(W) \in Nat /\ Bytes(W)[Len(W)] <= MaxAccessUnit
      /\ \A j \in 1 .. Len(W) : PictureOf(W[j]) = PictureOf(W[1])
  BY WholeFacts
<1>2. p \in Nat /\ m \in Nat /\ p < m
  BY DEF OneNal
<1>3. n \in 1 .. Len(W) /\ n \in Nat /\ p < n /\ n - 1 = m
  BY <1>1, <1>2
<1>4. OneNal(W, p, n)
  BY NalGrows
<1>5. /\ pc.frag = Stream[i].fragmentation /\ pc.part = W[n]
      /\ pc.size = UnitAt(W[n]).size /\ pc.tag = PictureOf(W[n])
  BY TrackPiece DEF Piece, UnitAt
<1>6. /\ Stream[i].fragmentation \in {2, 3}
      /\ EndsNal(W[n]) <=> Stream[i].fragmentation \in {0, 3}
  <2>1. Stream[i].fragmentation \in Fragmentation /\ W[n][1] = i
    BY StreamFacts
  <2> QED
    BY <2>1 DEF BeginsNal, EndsNal, Fragmentation
<1>7. Unburdened(a) /\ ~Jumped(a, pc) /\ ~Duplicate(a, pc) /\ a.state = "Collecting"
  BY DEF Unburdened
<1>8. a.tag = pc.tag
  BY <1>1, <1>3, <1>5
<1>9. a.size \in Nat /\ a.size <= Bytes(W)[n - 1] - Bytes(W)[p]
  BY <1>3 DEF Tracks, Assemblers
<1>10. RunOf(a.data, W, p) /\ p + Len(a.data) + 1 = n
  BY <1>2
<1> HIDE DEF n, a
<1>11. RunOf(data, W, p) /\ Len(data) = n - p
  BY <1>1, <1>2, <1>3, <1>10, RunAppend
<1>12. pc.size <= MaxAccessUnit - a.size /\ size <= Bytes(W)[n] - Bytes(W)[p]
  <2> HIDE DEF pc
  <2> QED
    BY <1>1, <1>2, <1>3, <1>5, <1>9, RunFits
<1> HIDE DEF pc, data, size
<1>13. CASE Stream[i].fragmentation = 3
  <2>1. Assembled(a, pc, "Idle", << >>, 0, data)
    <3>1. Assembled(a, pc, "Idle", << >>, 0, Append(a.data, pc.part))
      BY <1>5, <1>7, <1>8, <1>12, <1>13, LastFragment
    <3> QED
      BY <1>5, <3>1 DEF data
  <2>2. Assembled(t.media, Piece(i, k), "Idle", << >>, 0, data)
    BY <2>1 DEF pc, a
  <2>3. Unburdened(t.media) /\ W[n] = << i, k >> /\ EndsNal(W[n])
    BY <1>6, <1>7, <1>13 DEF n, a
  <2>4. Gathers(ConsumeMfu(t, i, k, known), W, n)
    BY <1>4, <1>11, <2>2, <2>3, CompleteGathers, Zenon DEF NalParts
  <2> QED
    BY <2>4 DEF n
<1>14. CASE Stream[i].fragmentation = 2
  <2>1. Assembled(a, pc, "Collecting", data, size, << >>)
    <3>1. Assembled(a, pc, "Collecting", Append(a.data, pc.part), a.size + pc.size, << >>)
      BY <1>5, <1>7, <1>8, <1>12, <1>14, MiddleFragment
    <3> QED
      BY <1>5, <3>1 DEF data, size
  <2>2. Assembled(t.media, Piece(i, k), "Collecting", data, size, << >>)
    BY <2>1 DEF pc, a
  <2>3. Unburdened(t.media) /\ W[n] = << i, k >> /\ ~EndsNal(W[n])
    BY <1>6, <1>7, <1>14 DEF n, a
  <2>4. Gathers(ConsumeMfu(t, i, k, known), W, n)
    BY <1>4, <1>11, <1>12, <2>2, <2>3, CollectGathers, Zenon
  <2> QED
    BY <2>4 DEF n
<1> QED
  BY <1>6, <1>13, <1>14

(* One unit more of the picture.                                           *)
LEMMA UnitGathers ==
  ASSUME OrderlySender, NEW t \in Tracks, OnePending(t), HeadSeen(t), Unburdened(t.media),
         NEW i \in DOMAIN Stream, NEW k \in DOMAIN Stream[i].units, t.mpu = Stream[i].mpu,
         ~Duplicate(t.media, Piece(i, k)),
         NEW W, WholeSound(W), NEW n \in 1 .. Len(W), W[n] = << i, k >>,
         n > 1 => Gathers(t, W, n - 1) /\ ~Jumped(t.media, Piece(i, k)),
         NEW known, known \subseteq MPU
  PROVE  Gathers(ConsumeMfu(t, i, k, known), W, n)
<1>1. /\ W \in Seq(Position) /\ n \in Nat /\ Len(W) \in Nat /\ Orderly(W)
      /\ MpuOf(W[n]) = MpuOf(W[1])
  <2>1. /\ W \in Seq(Position) /\ Len(W) \in Nat /\ Orderly(W)
        /\ \A j \in 1 .. Len(W) : MpuOf(W[j]) = MpuOf(W[1])
    BY WholeFacts
  <2> QED
    BY <2>1
<1>2. t.mpu = MpuOf(W[1])
  BY <1>1 DEF MpuOf
<1>3. CASE n = 1
  <2>1. OneNal(W, 0, 1)
    <3>1. BeginsNal(W[0 + 1])
      BY HeadFacts
    <3>2. \A j \in (0 + 1) .. 1 : j = 1
      OBVIOUS
    <3>3. SameNal(W[1], W[1])
      BY DEF SameNal
    <3> QED
      BY <1>1, <1>3, <3>1, <3>2, <3>3 DEF OneNal
  <2>2. PendingHolds(t, W, 0)
    BY <1>2 DEF PendingHolds
  <2>3. 1 = 0 + 1 /\ W[1] = << i, k >>
    BY <1>3
  <2>4. Gathers(ConsumeMfu(t, i, k, known), W, 1)
    BY <2>1, <2>2, <2>3, FreshNal, Zenon
  <2> QED
    BY <1>3, <2>4
<1>4. CASE n > 1
  <2> DEFINE m == n - 1
  <2>1. m \in Nat /\ m >= 1 /\ n = m + 1 /\ n <= Len(W) /\ m \in 1 .. (Len(W) - 1)
    BY <1>1, <1>4
  <2>2. Gathers(t, W, m) /\ ~Jumped(t.media, Piece(i, k))
    BY <1>4
  <2>3. IF EndsNal(W[m])
        THEN BeginsNal(W[n]) /\ InPlace(UnitAt(W[n]), HasVcl(W, m))
        ELSE ~BeginsNal(W[n]) /\ SameNal(W[m], W[n])
    BY <1>1, <2>1 DEF Orderly
  <2> HIDE DEF m
  <2>4. PICK p \in 0 .. m : PendingHolds(t, W, p) /\ CollectedHolds(t.media, W, p, m)
    BY <2>2 DEF Gathers
  <2>5. CASE EndsNal(W[m])
    <3>1. p = m
      BY <2>4, <2>5 DEF CollectedHolds
    <3>2. OneNal(W, m, n)
      <4>1. SameNal(W[n], W[n]) /\ \A j \in (m + 1) .. n : j = n
        BY <2>1 DEF SameNal
      <4> QED
        BY <1>1, <2>1, <2>3, <2>5, <4>1 DEF OneNal
    <3>3. PendingHolds(t, W, m)
      BY <2>4, <3>1
    <3> QED
      BY <2>1, <3>2, <3>3, FreshNal, Zenon
  <2>6. CASE ~EndsNal(W[m])
    <3>1. /\ t.media.state = "Collecting" /\ OneNal(W, p, m)
          /\ t.media.tag = PictureOf(W[1])
          /\ RunOf(t.media.data, W, p) /\ Len(t.media.data) = m - p
          /\ t.media.size <= Bytes(W)[m] - Bytes(W)[p]
      BY <2>4, <2>6 DEF CollectedHolds
    <3> QED
      BY <2>1, <2>2, <2>3, <2>4, <2>6, <3>1, NalContinues, Zenon
  <2> QED
    BY <2>5, <2>6
<1> QED
  BY <1>3, <1>4

-----------------------------------------------------------------------------
(* What is gathered stays as it is when only marks and outputs change.     *)
GatheredFrom(t, s, e) ==
  \A W : WholeSound(W) =>
    \A n \in 1 .. Len(W) : W[n] = e /\ s <= W[1][1] => Gathers(t, W, n)

LEMMA GatheredSame ==
  ASSUME NEW t, NEW u, u.media = t.media, u.pending = t.pending,
         u.skipping = t.skipping, u.mpu = t.mpu
  PROVE  /\ HeadSeen(t) => HeadSeen(u)
         /\ \A W, n : Gathers(t, W, n) => Gathers(u, W, n)
         /\ \A s, e : GatheredFrom(t, s, e) => GatheredFrom(u, s, e)
<1>1. HeadSeen(t) => HeadSeen(u)
  BY DEF HeadSeen
<1>2. ASSUME NEW W, NEW n, Gathers(t, W, n) PROVE Gathers(u, W, n)
  <2>1. PICK p \in 0 .. n : PendingHolds(t, W, p) /\ CollectedHolds(t.media, W, p, n)
    BY <1>2 DEF Gathers
  <2>2. PendingHolds(u, W, p)
    BY <2>1 DEF PendingHolds
  <2> QED
    BY <2>1, <2>2 DEF Gathers
<1> QED
  BY <1>1, <1>2 DEF GatheredFrom

(* A unit of a packet that is not the one consumed last is no duplicate.   *)
LEMMA StageFacts ==
  ASSUME NEW c, NEW t, NEW a, NEW i, Acceptable(a, i), NEW k \in DOMAIN Stream[i].units,
         Stage(t, c, a, i, k - 1)
  PROVE  /\ i \in DOMAIN Stream /\ t \in Tracks /\ OnePending(t) /\ Unburdened(t.media)
         /\ t.mpu = Stream[i].mpu
         /\ i # a => ~Duplicate(t.media, Piece(i, k))
         /\ Consumed(i, k - 1) => ~Jumped(t.media, Piece(i, k))
         /\ k = 1 /\ a # 0 /\ i = a + 1 => ~Jumped(t.media, Piece(i, k))
         /\ i = a /\ a # 0 => Duplicate(t.media, Piece(i, k))
<1> DEFINE b == Held(a, i, k - 1)
           p == Piece(i, k)
<1>1. i \in DOMAIN Stream /\ a \in 0 .. Len(Stream) /\ (i = a => ~Stream[i].aggregation)
      /\ ~Rejected(Stream[i])
  BY DEF Acceptable
<1>2. /\ DOMAIN Stream[i].units = 1 .. Len(Stream[i].units) /\ Len(Stream[i].units) \in Nat
      /\ ~Stream[i].aggregation => Len(Stream[i].units) = 1
      /\ i \in Nat /\ i >= 1 /\ Len(Stream) \in Nat
  BY <1>1, StreamFacts
<1>3. k \in Nat /\ k >= 1 /\ k - 1 \in Nat /\ (~Stream[i].aggregation => k = 1)
  <2> DEFINE n == Len(Stream[i].units)
  <2>1. k \in 1 .. n /\ n \in Nat /\ (~Stream[i].aggregation => n = 1)
    BY <1>2
  <2> HIDE DEF n
  <2> QED
    BY <2>1
<1>4. b \in 0 .. Len(Stream) /\ Near(b, i)
      /\ (Stream[i].aggregation => Stream[i].fragmentation = 0)
  BY <1>3, AcceptableFacts
<1>5. t \in Tracks /\ HeadCollected(t, b) /\ OnePending(t) /\ t.mpu = Stream[i].mpu
  BY DEF Stage, Kept
<1>6. p.seq = i % SequenceModulus /\ p.agg = Stream[i].aggregation
      /\ p.frag = Stream[i].fragmentation
  BY <1>1, TrackPiece
<1>7. /\ t.media.state = "Initial" <=> b = 0
      /\ b # 0 => t.media.last = b % SequenceModulus
      /\ Unburdened(t.media)
  BY <1>5 DEF HeadCollected, Unburdened
<1> HIDE DEF p
<1>8. /\ Jumped(t.media, p) => b # i
      /\ Duplicate(t.media, p) => i = b /\ ~(p.agg /\ p.frag = 0)
      /\ ~Jumped(t.media, p) /\ ~Duplicate(t.media, p) =>
           b = 0 \/ i = b + 1 \/ (i = b /\ p.agg /\ p.frag = 0)
  <2> HIDE DEF b
  <2> QED
    BY <1>1, <1>4, <1>6, <1>7, SequenceFacts
<1>9. Consumed(i, k - 1) => b = i /\ k # 1
  BY <1>3 DEF Held, Consumed
<1>10. ~Consumed(i, k - 1) => b = a
  BY DEF Held
<1> HIDE DEF b
<1>11. i # a => ~Duplicate(t.media, p)
  BY <1>3, <1>4, <1>6, <1>8, <1>9, <1>10
<1>12. Consumed(i, k - 1) => ~Jumped(t.media, p)
  BY <1>8, <1>9
<1>13. ASSUME k = 1, a # 0, i = a + 1 PROVE ~Jumped(t.media, p)
  <2>1. a \in Nat /\ t.media.last = a % SequenceModulus
    BY <1>1, <1>2, <1>7, <1>9, <1>10, <1>13
  <2> DEFINE M == SequenceModulus
  <2>2. M \in Nat /\ M > 2
    BY SequenceModulusAssumption
  <2>3. ((a % M) + 1) % M = (a + 1) % M
    <3> HIDE DEF M
    <3> QED
      BY <2>1, <2>2, Successor
  <2>4. ((a % M) + 1) % M = i % M
    BY <1>13, <2>3
  <2> QED
    BY <1>6, <2>1, <2>4 DEF Jumped, Follows
<1>14. ASSUME i = a, a # 0 PROVE Duplicate(t.media, p)
  <2>1. b = i /\ ~p.agg
    BY <1>1, <1>6, <1>9, <1>10, <1>14
  <2>2. i # i + 1 /\ i # 0
    BY <1>2
  <2> QED
    BY <1>8, <2>1, <2>2
<1> QED
  BY <1>1, <1>5, <1>7, <1>11, <1>12, <1>13, <1>14 DEF p

(* The units of a picture follow one another, also across packets.         *)
LEMMA PlaceBefore ==
  ASSUME OrderlySender, NEW W, WholeSound(W), NEW n \in 1 .. Len(W), n > 1
  PROVE  /\ n - 1 \in 1 .. Len(W) /\ W[n - 1] \in Position /\ W[n] \in Position
         /\ W[n] \in Following[W[n - 1]]
         /\ ~UnitAt(W[n - 1]).short
<1>1. /\ Len(W) \in Nat /\ Orderly(W)
      /\ \A j \in 1 .. Len(W) : W[j] \in Position /\ ~UnitAt(W[j]).short
  BY WholeFacts
<1> DEFINE m == n - 1
<1>2. m \in 1 .. Len(W) /\ m \in 1 .. (Len(W) - 1) /\ m + 1 = n
  BY <1>1
<1> HIDE DEF m
<1>3. W[m + 1] \in Following[W[m]]
  BY <1>1, <1>2 DEF Orderly, Contiguous
<1> QED
  BY <1>1, <1>2, <1>3 DEF m

LEMMA PlaceWithin ==
  ASSUME OrderlySender, NEW W, WholeSound(W), NEW n \in 1 .. Len(W), n > 1,
         NEW i \in DOMAIN Stream, NEW k \in DOMAIN Stream[i].units, k > 1, W[n] = << i, k >>
  PROVE  W[n - 1] = << i, k - 1 >> /\ Consumed(i, k - 1)
<1>1. /\ W[n - 1] \in Position /\ W[n] \in Position /\ W[n] \in Following[W[n - 1]]
      /\ ~UnitAt(W[n - 1]).short
  BY PlaceBefore
<1>2. DOMAIN Stream[i].units = 1 .. Len(Stream[i].units) /\ Len(Stream[i].units) \in Nat
  BY StreamFacts
<1> DEFINE m == k - 1
<1>3. m \in DOMAIN Stream[i].units /\ m + 1 = k /\ m \in 1 .. m
  <2> DEFINE N == Len(Stream[i].units)
  <2>1. k \in 1 .. N /\ N \in Nat
    BY <1>2
  <2> HIDE DEF N
  <2>2. m \in 1 .. N /\ m + 1 = k /\ m \in 1 .. m
    BY <2>1
  <2> QED
    BY <1>2, <2>2 DEF N
<1> HIDE DEF m
<1>4. << i, m >> \in Position /\ << i, k >> \in Following[<< i, m >>]
  <2>1. << i, m + 1 >> \in Following[<< i, m >>]
    BY <1>3, FollowsWithin
  <2>2. << i, m >> \in Position
    BY <1>3 DEF Position
  <2> QED
    BY <1>3, <2>1, <2>2
<1>5. W[n - 1] = << i, m >>
  BY <1>1, <1>4, NextPlace
<1>6. ~Stream[i].units[m].short
  BY <1>1, <1>5 DEF UnitAt
<1>7. Consumed(i, m)
  BY <1>3, <1>6 DEF Consumed
<1> QED
  BY <1>5, <1>7 DEF m

LEMMA PlaceAcross ==
  ASSUME OrderlySender, NEW W, WholeSound(W), NEW n \in 1 .. Len(W), n > 1,
         NEW a \in DOMAIN Stream, Stream[a].units # << >>, a + 1 \in DOMAIN Stream,
         W[n] = << a + 1, 1 >>
  PROVE  W[n - 1] = End(a)
<1>1. /\ W[n - 1] \in Position /\ W[n] \in Position /\ W[n] \in Following[W[n - 1]]
  BY PlaceBefore
<1>2. 1 \in DOMAIN Stream[a + 1].units
  <2>1. << a + 1, 1 >>[1] = a + 1 /\ << a + 1, 1 >>[2] = 1
    OBVIOUS
  <2> QED
    BY <1>1, <2>1, PositionFacts
<1>3. End(a) \in Position /\ << a + 1, 1 >> \in Following[End(a)]
  BY <1>2, FollowsAcross DEF End
<1> QED
  BY <1>1, <1>3, NextPlace

LEMMA PlaceFirst ==
  ASSUME OrderlySender, NEW W, WholeSound(W), NEW n \in 1 .. Len(W), NEW i,
         W[n] = << i, 1 >>, i <= W[1][1]
  PROVE  n = 1
<1>1. PICK x \in Position : W = PartsOf(PictureOf(x))
  BY DEF WholeSound
<1>2. /\ Len(W) \in Nat /\ \A j \in 1 .. Len(W) : W[j] \in Position
      /\ \A j, k \in 1 .. Len(W) : j < k => Before(W[j], W[k])
  BY <1>1, WholeParts
<1> SUFFICES ASSUME n # 1 PROVE FALSE
  OBVIOUS
<1>3. 1 \in 1 .. Len(W) /\ 1 < n
  BY <1>2
<1>4. Before(W[1], W[n]) /\ W[1] \in Position /\ W[n] \in Position
  BY <1>2, <1>3
<1>5. W[n][1] = i /\ W[n][2] = 1
  OBVIOUS
<1>6. W[1][1] \in Nat /\ W[1][2] \in Nat /\ W[1][2] >= 1 /\ W[n][1] \in Nat
  BY <1>4, PositionFacts
<1> QED
  BY <1>4, <1>5, <1>6 DEF Before

(***************************************************************************)
(* What is gathered before packet i, of pictures that began with packet s  *)
(* or later.                                                               *)
(***************************************************************************)
Enters(t, s, a, i) ==
  \A W : WholeSound(W) =>
    \A n \in 1 .. Len(W) :
      W[n] = << i, 1 >> /\ s <= W[1][1] /\ n > 1 =>
        Gathers(t, W, n - 1) /\ a # 0 /\ i = a + 1

LEMMA UnitStep ==
  ASSUME OrderlySender, NEW c \in Contexts, NEW t, NEW a, NEW i, Acceptable(a, i), i # a,
         NEW k \in DOMAIN Stream[i].units, Stage(t, c, a, i, k - 1), HeadSeen(t),
         NEW s, IF k = 1 THEN Enters(t, s, a, i) ELSE GatheredFrom(t, s, << i, k - 1 >>)
  PROVE  GatheredFrom(ConsumeMfu(t, i, k, c.known), s, << i, k >>)
<1>1. /\ i \in DOMAIN Stream /\ t \in Tracks /\ OnePending(t) /\ Unburdened(t.media)
      /\ t.mpu = Stream[i].mpu
      /\ ~Duplicate(t.media, Piece(i, k))
      /\ Consumed(i, k - 1) => ~Jumped(t.media, Piece(i, k))
      /\ k = 1 /\ a # 0 /\ i = a + 1 => ~Jumped(t.media, Piece(i, k))
  BY StageFacts
<1>2. c.known \subseteq MPU
  BY DEF Contexts
<1> SUFFICES ASSUME NEW W, WholeSound(W), NEW n \in 1 .. Len(W), W[n] = << i, k >>,
                    s <= W[1][1]
             PROVE  Gathers(ConsumeMfu(t, i, k, c.known), W, n)
  BY DEF GatheredFrom
<1>3. n > 1 => Gathers(t, W, n - 1) /\ ~Jumped(t.media, Piece(i, k))
  <2> SUFFICES ASSUME n > 1 PROVE Gathers(t, W, n - 1) /\ ~Jumped(t.media, Piece(i, k))
    OBVIOUS
  <2>1. CASE k = 1
    <3>1. Gathers(t, W, n - 1) /\ a # 0 /\ i = a + 1
      BY <2>1 DEF Enters
    <3> QED
      BY <1>1, <2>1, <3>1
  <2>2. CASE k # 1
    <3>1. k > 1
      BY <1>1, <2>2, StreamFacts
    <3>2. W[n - 1] = << i, k - 1 >> /\ Consumed(i, k - 1)
      BY <1>1, <3>1, PlaceWithin
    <3>3. n - 1 \in 1 .. Len(W)
      BY PlaceBefore
    <3>4. Gathers(t, W, n - 1)
      BY <2>2, <3>2, <3>3 DEF GatheredFrom
    <3> QED
      BY <1>1, <3>2, <3>4
  <2> QED
    BY <2>1, <2>2
<1> QED
  BY <1>1, <1>2, <1>3, UnitGathers

-----------------------------------------------------------------------------
(* All units of a packet: what is emitted stays, what is gathered grows.   *)
LEMMA UnitsSteady ==
  ASSUME NEW c \in Contexts, Len(c.before) <= 1, NEW t, NEW a, NEW i, Acceptable(a, i),
         Stage(t, c, a, i, 0)
  PROVE  LET n == Len(Stream[i].units)
             after == AfterUnits(t, i, c.known)
         IN  /\ \A k \in 0 .. n : after[k] \in Tracks /\ Steady(t, after[k])
             /\ \A k \in 1 .. n : Steady(after[1], after[k])
<1> DEFINE N == Len(Stream[i].units)
           after == AfterUnits(t, i, c.known)
           I == [k \in 0 .. N |-> {u \in Tracks : Steady(t, u)}]
           J == [k \in 0 .. N |-> {u \in Tracks : k > 0 => Steady(after[1], u)}]
<1>1. N \in Nat /\ DOMAIN Stream[i].units = 1 .. N
  BY StreamFacts DEF Acceptable
<1>2. /\ after[0] = t
      /\ \A k \in 1 .. N : after[k] = ConsumeMfu(after[k - 1], i, k, c.known)
      /\ \A k \in 0 .. N : Stage(after[k], c, a, i, k)
  BY UnitsKeep
<1> HIDE DEF N, after
<1>3. \A k \in 0 .. N : after[k] \in Tracks
  BY <1>2 DEF Stage, Kept
<1>4. ASSUME NEW k \in 1 .. N PROVE Steady(after[k - 1], after[k])
  <2>1. k - 1 \in 0 .. N /\ k \in DOMAIN Stream[i].units
    BY <1>1
  <2>2. Stage(after[k - 1], c, a, i, k - 1)
    BY <1>2, <2>1
  <2>3. /\ i \in DOMAIN Stream /\ after[k - 1] \in Tracks /\ OnePending(after[k - 1])
        /\ Unburdened(after[k - 1].media)
    BY <2>1, <2>2, StageFacts
  <2>4. c.known \subseteq MPU
    BY DEF Contexts
  <2>5. Steady(after[k - 1], ConsumeMfu(after[k - 1], i, k, c.known))
    BY <2>1, <2>3, <2>4, ConsumeSteady DEF Unburdened
  <2> QED
    BY <1>2, <2>5
<1>5. \A k \in 0 .. N : after[k] \in I[k]
  <2>1. after[0] \in I[0]
    <3>1. Steady(t, t)
      BY SteadySame
    <3>2. 0 \in 0 .. N
      BY <1>1
    <3> QED
      BY <1>2, <1>3, <3>1, <3>2
  <2>2. ASSUME NEW k \in 1 .. N, after[k - 1] \in I[k - 1]
        PROVE  after[k] \in I[k]
    <3>1. k - 1 \in 0 .. N /\ k \in 0 .. N
      BY <1>1
    <3>2. Steady(t, after[k - 1])
      BY <2>2, <3>1
    <3>3. Steady(t, after[k])
      BY <1>4, <3>2, SteadyFollows
    <3> QED
      BY <1>3, <3>1, <3>3
  <2> HIDE DEF I
  <2> QED
    BY <1>1, <2>1, <2>2, LoopInvariant
<1>6. \A k \in 0 .. N : after[k] \in J[k]
  <2>1. after[0] \in J[0]
    <3>1. 0 \in 0 .. N
      BY <1>1
    <3> QED
      BY <1>3, <3>1
  <2>2. ASSUME NEW k \in 1 .. N, after[k - 1] \in J[k - 1]
        PROVE  after[k] \in J[k]
    <3>1. k - 1 \in 0 .. N /\ k \in 0 .. N /\ k - 1 \in Nat
      BY <1>1
    <3>2. CASE k = 1
      <4>1. Steady(after[1], after[1])
        BY SteadySame
      <4> QED
        BY <1>3, <3>1, <3>2, <4>1
    <3>3. CASE k # 1
      <4>1. k - 1 > 0
        BY <3>1, <3>3
      <4>2. Steady(after[1], after[k - 1])
        BY <2>2, <3>1, <4>1
      <4>3. Steady(after[1], after[k])
        BY <1>4, <4>2, SteadyFollows
      <4> QED
        BY <1>3, <3>1, <4>3
    <3> QED
      BY <3>2, <3>3
  <2> HIDE DEF J
  <2> QED
    BY <1>1, <2>1, <2>2, LoopInvariant
<1>7. \A k \in 0 .. N : Steady(t, after[k])
  BY <1>5
<1>8. \A k \in 1 .. N : Steady(after[1], after[k])
  <2>1. \A k \in 1 .. N : k \in 0 .. N /\ k > 0
    BY <1>1
  <2> QED
    BY <1>6, <2>1
<1> QED
  BY <1>3, <1>7, <1>8 DEF N, after

LEMMA UnitsGather ==
  ASSUME OrderlySender, NEW c \in Contexts, Len(c.before) <= 1, NEW t, NEW a, NEW i,
         Acceptable(a, i), i # a, Stage(t, c, a, i, 0), HeadSeen(t),
         NEW s, Enters(t, s, a, i)
  PROVE  LET n == Len(Stream[i].units)
             after == AfterUnits(t, i, c.known)
         IN  \A k \in 1 .. n : GatheredFrom(after[k], s, << i, k >>)
<1> DEFINE N == Len(Stream[i].units)
           after == AfterUnits(t, i, c.known)
           I == [k \in 0 .. N |->
                   {u \in Tracks : IF k = 0 THEN u = t ELSE GatheredFrom(u, s, << i, k >>)}]
<1>1. N \in Nat /\ DOMAIN Stream[i].units = 1 .. N
  BY StreamFacts DEF Acceptable
<1>2. /\ after[0] = t
      /\ \A k \in 1 .. N : after[k] = ConsumeMfu(after[k - 1], i, k, c.known)
      /\ \A k \in 0 .. N : Stage(after[k], c, a, i, k)
  BY UnitsKeep
<1>3. \A k \in 0 .. N : after[k] \in Tracks /\ HeadSeen(after[k])
  <2>1. \A k \in 0 .. N : after[k] \in Tracks /\ Steady(t, after[k])
    BY UnitsSteady
  <2> QED
    BY <2>1 DEF Steady
<1> HIDE DEF N, after
<1>4. after[0] \in I[0]
  <2>1. 0 \in 0 .. N
    BY <1>1
  <2> QED
    BY <1>2, <1>3, <2>1
<1>5. ASSUME NEW k \in 1 .. N, after[k - 1] \in I[k - 1]
      PROVE  after[k] \in I[k]
  <2>1. k - 1 \in 0 .. N /\ k \in 0 .. N /\ k # 0 /\ k \in DOMAIN Stream[i].units
    BY <1>1
  <2>2. Stage(after[k - 1], c, a, i, k - 1) /\ HeadSeen(after[k - 1])
    BY <1>2, <1>3, <2>1
  <2>3. IF k = 1 THEN Enters(after[k - 1], s, a, i)
        ELSE GatheredFrom(after[k - 1], s, << i, k - 1 >>)
    <3>1. IF k - 1 = 0 THEN after[k - 1] = t ELSE GatheredFrom(after[k - 1], s, << i, k - 1 >>)
      BY <1>5, <2>1
    <3>2. k = 1 <=> k - 1 = 0
      BY <2>1
    <3> QED
      BY <3>1, <3>2
  <2>4. GatheredFrom(ConsumeMfu(after[k - 1], i, k, c.known), s, << i, k >>)
    BY <2>1, <2>2, <2>3, UnitStep
  <2>5. GatheredFrom(after[k], s, << i, k >>)
    BY <1>2, <2>4
  <2> QED
    BY <1>3, <2>1, <2>5
<1>6. \A k \in 0 .. N : after[k] \in I[k]
  <2> HIDE DEF I
  <2> QED
    BY <1>1, <1>4, <1>5, LoopInvariant
<1>7. ASSUME NEW k \in 1 .. N PROVE GatheredFrom(after[k], s, << i, k >>)
  <2>1. k \in 0 .. N /\ k # 0
    BY <1>1
  <2> QED
    BY <1>6, <2>1
<1> QED
  BY <1>7 DEF N, after

(* The packet as a whole.                                                  *)
LEMMA PacketSteady ==
  ASSUME NEW c \in Contexts, Len(c.before) <= 1, NEW t, NEW a, NEW i, Acceptable(a, i),
         Settled(t, c, a)
  PROVE  LET s == EnterMpu(t, Stream[i].mpu, c.known)
             u == ConsumePacket(t, i, c.known)
         IN  /\ s \in Tracks /\ Stage(s, c, a, i, 0) /\ Steady(t, s) /\ Steady(s, u)
             /\ Stream[i].units # << >> => Steady(AfterUnits(s, i, c.known)[1], u)
<1> DEFINE N == Len(Stream[i].units)
           s == EnterMpu(t, Stream[i].mpu, c.known)
           after == AfterUnits(s, i, c.known)
           all == after[N]
           u == ConsumePacket(t, i, c.known)
<1>1. /\ i \in DOMAIN Stream /\ a \in 0 .. Len(Stream) /\ Stream[i].mpu \in MPU /\ N \in Nat
      /\ Stream[i].units # << >> => N >= 1
  BY StreamFacts DEF Acceptable
<1>2. Settled(s, c, a) /\ s.mpu = Stream[i].mpu
  BY <1>1, EnterKeeps
<1>3. u = IF Stream[i].aggregation /\ Stream[i].cut THEN Marked(all) ELSE all
  BY DEF ConsumePacket
<1>4. Steady(t, s)
  <2>1. c.known \subseteq MPU /\ t \in Tracks
    BY DEF Contexts, Settled, Kept
  <2> QED
    BY <1>1, <2>1, EnterSteady
<1> HIDE DEF s
<1>5. Stage(s, c, a, i, 0)
  <2>1. ~Consumed(i, 0)
    BY DEF Consumed
  <2> QED
    BY <1>2, <2>1 DEF Stage, Settled, Held, PlaceOf
<1>6. /\ \A k \in 0 .. N : after[k] \in Tracks /\ Steady(s, after[k])
      /\ \A k \in 1 .. N : Steady(after[1], after[k])
  BY <1>5, UnitsSteady
<1>7. all \in Tracks /\ Steady(s, all) /\ (Stream[i].units # << >> => Steady(after[1], all))
  <2>1. N \in 0 .. N /\ (N >= 1 => N \in 1 .. N)
    BY <1>1
  <2> QED
    BY <1>1, <1>6, <2>1
<1> HIDE DEF all, after, N, u
<1>8. Steady(all, u)
  BY <1>3, <1>7, SteadyMarked, SteadySame
<1>9. Steady(s, u) /\ (Stream[i].units # << >> => Steady(after[1], u))
  BY <1>7, <1>8, SteadyFollows
<1>10. s \in Tracks
  BY <1>2 DEF Settled, Kept
<1> QED
  BY <1>4, <1>5, <1>9, <1>10 DEF s, u, after

-----------------------------------------------------------------------------
(* A whole packet, for a track that gathers what it brings.                *)
LEMMA GatheredMpu ==
  ASSUME OrderlySender, NEW W, WholeSound(W), NEW n \in 1 .. Len(W), NEW t, Gathers(t, W, n)
  PROVE  t.mpu = MpuOf(W[n])
<1>1. t.mpu = MpuOf(W[1])
  BY DEF Gathers, PendingHolds
<1>2. MpuOf(W[n]) = MpuOf(W[1])
  BY WholeFacts
<1> QED
  BY <1>1, <1>2

LEMMA EntersFirst ==
  ASSUME OrderlySender, NEW t, NEW a, NEW i
  PROVE  Enters(t, i, a, i)
<1> SUFFICES ASSUME NEW W, WholeSound(W), NEW n \in 1 .. Len(W), W[n] = << i, 1 >>,
                    i <= W[1][1], n > 1
             PROVE  FALSE
  BY DEF Enters
<1>1. n = 1
  BY PlaceFirst
<1> QED
  BY <1>1

LEMMA EntersNext ==
  ASSUME OrderlySender, NEW a \in DOMAIN Stream, Stream[a].units # << >>,
         NEW i \in DOMAIN Stream, i = a + 1, NEW t, NEW s, GatheredFrom(t, s, End(a)),
         NEW known
  PROVE  Enters(EnterMpu(t, Stream[i].mpu, known), s, a, i)
<1> SUFFICES ASSUME NEW W, WholeSound(W), NEW n \in 1 .. Len(W), W[n] = << i, 1 >>,
                    s <= W[1][1], n > 1
             PROVE  /\ Gathers(EnterMpu(t, Stream[i].mpu, known), W, n - 1)
                    /\ a # 0 /\ i = a + 1
  BY DEF Enters
<1>1. W[n - 1] = End(a)
  BY PlaceAcross
<1>2. n - 1 \in 1 .. Len(W)
  BY PlaceBefore
<1>3. Gathers(t, W, n - 1)
  BY <1>1, <1>2 DEF GatheredFrom
<1>4. t.mpu = Stream[i].mpu
  <2>1. t.mpu = MpuOf(W[n - 1])
    BY <1>2, <1>3, GatheredMpu
  <2>2. MpuOf(W[n - 1]) = MpuOf(W[n])
    BY <1>2, WholeFacts
  <2> QED
    BY <2>1, <2>2 DEF MpuOf
<1>5. EnterMpu(t, Stream[i].mpu, known) = t
  BY <1>4 DEF EnterMpu
<1>6. a # 0
  BY StreamFacts
<1> QED
  BY <1>3, <1>5, <1>6

LEMMA PacketGathers ==
  ASSUME OrderlySender, NEW c \in Contexts, Len(c.before) <= 1, NEW t, NEW a, NEW i,
         Acceptable(a, i), i # a, Settled(t, c, a), HeadSeen(t), Stream[i].units # << >>,
         NEW s, Enters(EnterMpu(t, Stream[i].mpu, c.known), s, a, i)
  PROVE  GatheredFrom(ConsumePacket(t, i, c.known), s, End(i))
<1> DEFINE N == Len(Stream[i].units)
           e == EnterMpu(t, Stream[i].mpu, c.known)
           after == AfterUnits(e, i, c.known)
           all == after[N]
           u == ConsumePacket(t, i, c.known)
<1>1. N \in Nat /\ N \in 1 .. N /\ End(i) = << i, N >>
  BY StreamFacts DEF Acceptable, End
<1>2. e \in Tracks /\ Stage(e, c, a, i, 0) /\ Steady(t, e)
  BY PacketSteady
<1>3. HeadSeen(e)
  BY <1>2 DEF Steady
<1>4. u = IF Stream[i].aggregation /\ Stream[i].cut THEN Marked(all) ELSE all
  BY DEF ConsumePacket
<1> HIDE DEF e
<1>5. \A k \in 1 .. N : GatheredFrom(after[k], s, << i, k >>)
  BY <1>2, <1>3, UnitsGather DEF e
<1>6. \A k \in 0 .. N : after[k] \in Tracks
  BY <1>2, UnitsSteady
<1>7. GatheredFrom(all, s, End(i)) /\ all \in Tracks
  <2>1. N \in 0 .. N
    BY <1>1
  <2> QED
    BY <1>1, <1>5, <1>6, <2>1
<1> HIDE DEF all, after, N
<1>8. GatheredFrom(Marked(all), s, End(i))
  <2>1. /\ Marked(all).media = all.media /\ Marked(all).pending = all.pending
        /\ Marked(all).skipping = all.skipping /\ Marked(all).mpu = all.mpu
    BY <1>7, MarkedFacts
  <2> QED
    BY <1>7, <2>1, GatheredSame
<1> QED
  BY <1>4, <1>7, <1>8

(* A packet that comes again changes nothing but marks.                    *)
LEMMA RepeatGathers ==
  ASSUME OrderlySender, NEW c \in Contexts, Len(c.before) <= 1, NEW t, NEW a, a # 0,
         Acceptable(a, a), Settled(t, c, a), NEW s, GatheredFrom(t, s, End(a))
  PROVE  GatheredFrom(ConsumePacket(t, a, c.known), s, End(a))
<1> DEFINE N == Len(Stream[a].units)
           e == EnterMpu(t, Stream[a].mpu, c.known)
           after == AfterUnits(e, a, c.known)
           u == ConsumePacket(t, a, c.known)
<1>1. /\ a \in DOMAIN Stream /\ ~Stream[a].aggregation /\ N = 1
      /\ DOMAIN Stream[a].units = 1 .. N
  BY StreamFacts DEF Acceptable
<1>2. e \in Tracks /\ Stage(e, c, a, a, 0)
  BY PacketSteady
<1> HIDE DEF e
<1>3. after[1] = ConsumeMfu(after[0], a, 1, c.known) /\ after[0] = e
  <2>1. after[0] = e /\ \A k \in 1 .. N : after[k] = ConsumeMfu(after[k - 1], a, k, c.known)
    BY <1>2, UnitsKeep
  <2>2. 1 \in 1 .. N /\ 1 - 1 = 0
    BY <1>1
  <2> QED
    BY <2>1, <2>2
<1>4. u = after[1]
  BY <1>1 DEF ConsumePacket, e
<1> HIDE DEF after
<1>5. Duplicate(e.media, Piece(a, 1))
  <2>1. 1 \in DOMAIN Stream[a].units /\ Stage(e, c, a, a, 1 - 1)
    BY <1>1, <1>2
  <2> QED
    BY <2>1, StageFacts
<1>6. u = Marked(e) \/ u = e
  BY <1>3, <1>4, <1>5 DEF ConsumeMfu
<1>7. /\ Marked(e).media = e.media /\ Marked(e).pending = e.pending
      /\ Marked(e).skipping = e.skipping /\ Marked(e).mpu = e.mpu
  BY <1>2, MarkedFacts
<1> HIDE DEF u
<1>8. \A W, n : Gathers(e, W, n) => Gathers(u, W, n)
  BY <1>6, <1>7, GatheredSame
<1> SUFFICES ASSUME NEW W, WholeSound(W), NEW n \in 1 .. Len(W), W[n] = End(a), s <= W[1][1]
             PROVE  Gathers(u, W, n)
  BY DEF GatheredFrom, u
<1>9. Gathers(t, W, n)
  BY DEF GatheredFrom
<1>10. t.mpu = Stream[a].mpu
  <2>1. t.mpu = MpuOf(W[n])
    BY <1>9, GatheredMpu
  <2> QED
    BY <2>1 DEF MpuOf, End
<1>11. e = t
  BY <1>10 DEF EnterMpu, e
<1> QED
  BY <1>8, <1>9, <1>11

(***************************************************************************)
(* The inductive invariant of recovery: of each picture that began in the  *)
(* run of packets since then, the track holds all that came, as NAL units  *)
(* of the pending picture and as the fragments of the one being collected. *)
(***************************************************************************)
RunGathered ==
  since # 0 =>
    /\ at \in DOMAIN Stream /\ Stream[at].units # << >>
    /\ GatheredFrom(track, since, End(at))

GInv == HeadSeen(track) /\ RunGathered

LEMMA SilenceGathers ==
  ASSUME IInv
  PROVE  /\ HeadSeen(track) => HeadSeen(Silence)
         /\ \A s, e : GatheredFrom(track, s, e) => GatheredFrom(Silence, s, e)
<1>1. /\ Silence.media = track.media /\ Silence.pending = track.pending
      /\ Silence.skipping = track.skipping /\ Silence.mpu = track.mpu
  BY DEF Silence, IInv, TypeOK, Tracks
<1> QED
  BY <1>1, GatheredSame

LEMMA InitGathers == Init => GInv
<1> SUFFICES ASSUME Init PROVE GInv
  OBVIOUS
<1>1. ~track.pending.active /\ since = 0
  BY DEF Init, NewTrack, NoPicture
<1> QED
  BY <1>1 DEF GInv, HeadSeen, RunGathered

LEMMA ReceiveGathers ==
  ASSUME OrderlySender, IInv, GInv, NEW i \in DOMAIN Stream, ReceiveMpu(i)
  PROVE  GInv'
<1> DEFINE c == Context
           t == Silence
<1>1. /\ c \in Contexts /\ Len(c.before) <= 1 /\ c.known = described
      /\ at \in 0 .. Len(Stream) /\ Settled(t, c, at)
  BY Beginning
<1>2. track' = ConsumePacket(t, i, c.known)
  BY <1>1 DEF ReceiveMpu, Hands
<1>3. Acceptable(at, i)
  BY <1>1 DEF ReceiveMpu, Deliverable, Acceptable, Near
<1>4. HeadSeen(t) /\ \A s, e : GatheredFrom(track, s, e) => GatheredFrom(t, s, e)
  BY SilenceGathers DEF GInv
<1> HIDE DEF c, t
<1>5. HeadSeen(track')
  <2>1. LET s == EnterMpu(t, Stream[i].mpu, c.known)
        IN  Steady(t, s) /\ Steady(s, track')
    BY <1>1, <1>2, <1>3, PacketSteady
  <2> QED
    BY <1>4, <2>1 DEF Steady
<1>6. ASSUME since' # 0
      PROVE  /\ at' = i /\ Stream[i].units # << >>
             /\ since' = IF i = at + 1 /\ at # 0 /\ since # 0 THEN since
                         ELSE IF i = at THEN since ELSE i
  BY <1>6 DEF ReceiveMpu
<1>7. i # 0
  BY StreamFacts
<1>8. ASSUME since' # 0 PROVE GatheredFrom(track', since', End(i))
  <2>1. CASE i = at
    <3>1. since' = since /\ at # 0
      BY <1>1, <1>6, <1>7, <1>8, <2>1
    <3>2. GatheredFrom(t, since, End(at))
      BY <1>4, <1>8, <3>1 DEF GInv, RunGathered
    <3>3. GatheredFrom(ConsumePacket(t, at, c.known), since, End(at))
      BY <1>1, <1>3, <2>1, <3>1, <3>2, RepeatGathers
    <3> QED
      BY <1>2, <2>1, <3>1, <3>3
  <2>2. CASE i # at
    <3>1. Enters(EnterMpu(t, Stream[i].mpu, c.known), since', at, i)
      <4>1. CASE i = at + 1 /\ at # 0 /\ since # 0
        <5>1. since' = since
          BY <1>6, <1>8, <4>1
        <5>2. /\ at \in DOMAIN Stream /\ Stream[at].units # << >>
              /\ GatheredFrom(t, since, End(at))
          BY <1>4, <4>1 DEF GInv, RunGathered
        <5>3. Enters(EnterMpu(t, Stream[i].mpu, c.known), since, at, i)
          BY <4>1, <5>2, EntersNext
        <5> QED
          BY <5>1, <5>3
      <4>2. CASE ~(i = at + 1 /\ at # 0 /\ since # 0)
        <5>1. since' = i
          BY <1>6, <1>8, <2>2, <4>2
        <5> QED
          BY <5>1, EntersFirst
      <4> QED
        BY <4>1, <4>2
    <3> QED
      BY <1>1, <1>2, <1>3, <1>4, <1>6, <1>8, <2>2, <3>1, PacketGathers
  <2> QED
    BY <2>1, <2>2
<1>9. RunGathered'
  BY <1>6, <1>8 DEF RunGathered, End
<1>10. HeadSeen(track)'
  BY <1>5 DEF HeadSeen, IsVcl, UnitAt
<1> QED
  BY <1>9, <1>10 DEF GInv

LEMMA StepGathers ==
  ASSUME OrderlySender, IInv, GInv, [Next]_vars
  PROVE  GInv'
<1>1. ASSUME NEW i \in DOMAIN Stream, ReceiveMpu(i) PROVE GInv'
  BY <1>1, ReceiveGathers
<1>2. ASSUME NEW i \in DOMAIN Stream, RejectMpu(i) PROVE GInv'
  <2>1. track' = Marked(Silence) /\ since' = 0
    BY <1>2 DEF RejectMpu, Hands
  <2>2. Silence \in Tracks
    BY Beginning DEF Settled, Kept
  <2>3. Marked(Silence).pending = Silence.pending /\ HeadSeen(Silence)
    BY <2>2, MarkedFacts, SilenceGathers DEF GInv
  <2> QED
    BY <2>1, <2>3 DEF GInv, RunGathered, HeadSeen, IsVcl, UnitAt
<1>3. ASSUME NEW m \in MPU, InstallTimestamps(m) PROVE GInv'
  <2>1. track' = Silence /\ since' = since /\ at' = at
    BY <1>3 DEF InstallTimestamps, Hands
  <2>2. HeadSeen(Silence)
    BY SilenceGathers DEF GInv
  <2>3. since # 0 => /\ at \in DOMAIN Stream /\ Stream[at].units # << >>
                     /\ GatheredFrom(Silence, since, End(at))
    BY SilenceGathers DEF GInv, RunGathered
  <2>4. RunGathered'
    BY <2>1, <2>3 DEF RunGathered, End
  <2>5. HeadSeen(track)'
    BY <2>1, <2>2 DEF HeadSeen, IsVcl, UnitAt
  <2> QED
    BY <2>4, <2>5 DEF GInv
<1>4. CASE Flush \/ Reinstall
  <2>1. NewTrack.pending = NoPicture /\ ~NoPicture.active
    BY NoPictureFacts DEF NewTrack
  <2>2. track'.pending = NoPicture /\ since' = 0
    BY <1>4, <2>1 DEF Flush, Reinstall, NewTrack
  <2>3. ~track'.pending.active /\ since' = 0
    BY <2>1, <2>2
  <2> QED
    BY <2>3 DEF GInv, RunGathered, HeadSeen
<1>5. CASE UNCHANGED vars
  BY <1>5 DEF vars, GInv, RunGathered, HeadSeen, GatheredFrom, Gathers, PendingHolds,
     CollectedHolds, End, IsVcl, UnitAt
<1> QED
  BY <1>1, <1>2, <1>3, <1>4, <1>5 DEF Next

-----------------------------------------------------------------------------
(***************************************************************************)
(* Recovery.  A picture that is pending whole, with nothing against it.    *)
(***************************************************************************)
Due(t, W, known) ==
  LET pic == t.pending
  IN  /\ pic.active /\ pic.parts = W /\ pic.vcl /\ (t.wait => pic.rap)
      /\ pic.mpu \in known /\ pic.sample \in 1 .. AccessUnits[pic.mpu]
      /\ t.lastDts < pic.sample

LEMMA DueBrings ==
  ASSUME NEW t \in Tracks, NEW known, known \subseteq MPU, NEW W, Due(t, W, known)
  PROVE  Brings(Finalized(t, known), W)
BY FinalizedFacts DEF Due

LEMMA GatheredWhole ==
  ASSUME OrderlySender, NEW W, WholeSound(W), NEW t, Gathers(t, W, Len(W))
  PROVE  LET pic == t.pending
         IN  /\ t.mpu = MpuOf(W[1]) /\ ~t.skipping
             /\ pic.active /\ pic.parts = W /\ pic.vcl
             /\ RandomAccess(W) => pic.rap
             /\ pic.mpu = MpuOf(W[1]) /\ pic.sample = SampleOf(W[1])
<1> DEFINE N == Len(W)
           pic == t.pending
<1>1. /\ W \in Seq(Position) /\ N \in Nat /\ N >= 1 /\ DOMAIN W = 1 .. N
  BY WholeFacts
<1>2. EndsNal(W[N])
  BY HeadFacts
<1>3. PICK p \in 0 .. N : PendingHolds(t, W, p) /\ CollectedHolds(t.media, W, p, N)
  BY DEF Gathers
<1> HIDE DEF N
<1>4. p = N /\ p # 0
  <2>1. p = N
    BY <1>2, <1>3 DEF CollectedHolds
  <2> QED
    BY <1>1, <2>1
<1>5. t.mpu = MpuOf(W[1]) /\ ~t.skipping /\ PictureHolds(pic, W, N)
  BY <1>3, <1>4 DEF PendingHolds
<1>6. pic.parts = W
  <2>1. pic.parts \in Seq(Position) /\ Len(pic.parts) = N
        /\ \A j \in 1 .. Len(pic.parts) : pic.parts[j] = W[0 + j]
    BY <1>5 DEF PictureHolds, RunOf
  <2>2. \A j \in 1 .. Len(pic.parts) : pic.parts[j] = W[j]
    BY <1>1, <2>1
  <2> QED
    BY <1>1, <2>1, <2>2, SeqEqual DEF N
<1>7. pic.vcl
  <2>1. \E j \in DOMAIN W : IsVcl(UnitAt(W[j]))
    BY DEF WholeSound, Sound
  <2>2. HasVcl(W, N)
    BY <1>1, <2>1 DEF HasVcl
  <2> QED
    BY <1>5, <2>2 DEF PictureHolds
<1>8. RandomAccess(W) => pic.rap
  BY <1>1, <1>5 DEF RandomAccess, PictureHolds
<1> QED
  BY <1>5, <1>6, <1>7, <1>8 DEF PictureHolds

(* The first unit of the next picture brings the pending one out.          *)
LEMMA UnitBrings ==
  ASSUME NEW t \in Tracks, Unburdened(t.media), OnePending(t), ~t.skipping,
         NEW i \in DOMAIN Stream, 1 \in DOMAIN Stream[i].units, Stream[i].fragmentation = 0,
         UnitAt(<< i, 1 >>).valid, ~UnitAt(<< i, 1 >>).short,
         ~Duplicate(t.media, Piece(i, 1)),
         SampleOf(<< i, 1 >>) # 0, SampleOf(<< i, 1 >>) # t.pending.sample,
         NEW known, known \subseteq MPU, NEW W, Due(t, W, known)
  PROVE  Brings(ConsumeMfu(t, i, 1, known), W)
<1> DEFINE r == ConsumePiece(t.media, Piece(i, 1))
           parts == << << i, 1 >> >>
           u == UnitAt(<< i, 1 >>)
           s == FedBy(t, r)
           w == [s EXCEPT !.skipping = FALSE]
           f == Finalized(w, known)
           v == ConsumeMfu(t, i, 1, known)
<1>1. r.unit = parts
  <2>1. Piece(i, 1).frag = 0 /\ Piece(i, 1).part = << i, 1 >>
    BY DEF Piece
  <2>2. Assembled(t.media, Piece(i, 1), "Idle", << >>, 0, << Piece(i, 1).part >>)
    BY <2>1, WholePiece
  <2> QED
    BY <2>1, <2>2, AssembledFields
<1>2. /\ s \in Tracks /\ s.pending = t.pending /\ s.skipping = t.skipping
      /\ s.wait = t.wait /\ s.lastDts = t.lastDts
  BY FedByFacts
<1>3. v = AfterPiece(t, i, r, known)
  BY PieceConsumed
<1> HIDE DEF r
<1>4. parts # << >> /\ parts[1] = << i, 1 >> /\ parts \in Seq(Position)
  BY DEF Position
<1>5. v = CompleteMfu(s, parts, HasRap(parts), Stream[i].mpu, known)
  BY <1>1, <1>3, <1>4 DEF AfterPiece
<1> HIDE DEF s, v
<1>6. /\ w \in Tracks /\ w.pending = t.pending /\ w.wait = t.wait /\ w.lastDts = t.lastDts
  BY <1>2, SkippingFacts
<1>7. Due(w, W, known)
  BY <1>6 DEF Due
<1>8. Brings(f, W) /\ f \in Tracks /\ f.pending = NoPicture
  <2>1. Brings(f, W)
    BY <1>6, <1>7, DueBrings
  <2>2. w.pending.active
    BY <1>7 DEF Due
  <2> HIDE DEF w
  <2>3. f \in Tracks /\ f.pending = NoPicture
    BY <1>6, <2>2, FinalizedFacts
  <2> QED
    BY <2>1, <2>3
<1>9. w.pending.active /\ w.pending.vcl /\ BeginsAccessUnit(w.pending, u)
  BY <1>6, <1>7 DEF Due, BeginsAccessUnit, SampleOf
<1>10. v = AddNal(f, parts, HasRap(parts), Stream[i].mpu)
  <2>1. ~s.skipping
    BY <1>2
  <2> HIDE DEF parts
  <2>2. UnitAt(parts[1]) = u
    BY <1>4
  <2> HIDE DEF u, w
  <2> QED
    BY <1>5, <1>9, <2>1, <2>2 DEF CompleteMfu, w, u
<1> HIDE DEF f, parts
<1>11. Steady(f, v)
  <2>1. f.pending.active <=> f.pending.parts # << >>
    BY <1>8, NoPictureFacts
  <2> QED
    BY <1>4, <1>8, <1>10, <2>1, AddedSteady
<1> QED
  BY <1>8, <1>11, BringsStays DEF v

LEMMA FirstUnit ==
  ASSUME NEW c, NEW t, NEW a, NEW i, Acceptable(a, i), i # a, 1 \in DOMAIN Stream[i].units,
         Stage(t, c, a, i, 0)
  PROVE  OnePending(t) /\ Unburdened(t.media) /\ ~Duplicate(t.media, Piece(i, 1))
<1>1. Stage(t, c, a, i, 1 - 1)
  OBVIOUS
<1> QED
  BY <1>1, StageFacts

LEMMA PacketBrings ==
  ASSUME NEW c \in Contexts, Len(c.before) <= 1, NEW t, NEW a, NEW i, Acceptable(a, i),
         i # a, Settled(t, c, a), ~t.skipping, t.mpu \in MPU,
         1 \in DOMAIN Stream[i].units, Stream[i].fragmentation = 0,
         UnitAt(<< i, 1 >>).valid, ~UnitAt(<< i, 1 >>).short, SampleOf(<< i, 1 >>) # 0,
         t.mpu = Stream[i].mpu => SampleOf(<< i, 1 >>) # t.pending.sample,
         NEW W, Due(t, W, c.known)
  PROVE  Brings(ConsumePacket(t, i, c.known), W)
<1> DEFINE N == Len(Stream[i].units)
           e == EnterMpu(t, Stream[i].mpu, c.known)
           after == AfterUnits(e, i, c.known)
           u == ConsumePacket(t, i, c.known)
<1>1. /\ i \in DOMAIN Stream /\ Stream[i].mpu \in MPU /\ N \in Nat /\ 1 \in 1 .. N
      /\ Stream[i].units # << >> /\ DOMAIN Stream[i].units = 1 .. N
  BY StreamFacts DEF Acceptable
<1>2. t \in Tracks /\ c.known \subseteq MPU
  BY DEF Settled, Kept, Contexts
<1>3. /\ e \in Tracks /\ Stage(e, c, a, i, 0) /\ Steady(e, u) /\ Steady(after[1], u)
  BY <1>1, PacketSteady
<1>4. CASE t.mpu # Stream[i].mpu
  <2>1. t.mpu # None
    BY AccessUnitsAssumption DEF None
  <2>2. Steady(Finalized(t, c.known), e)
    BY <1>1, <1>2, <1>4, <2>1, EnterSteady
  <2>3. Brings(Finalized(t, c.known), W)
    BY <1>2, DueBrings
  <2> HIDE DEF e, u, after
  <2> QED
    BY <1>3, <2>2, <2>3, BringsStays DEF u
<1>5. CASE t.mpu = Stream[i].mpu
  <2>1. e = t
    BY <1>5 DEF EnterMpu
  <2> HIDE DEF e, N
  <2>2. after[1] = ConsumeMfu(t, i, 1, c.known)
    <3>1. after[0] = e /\ \A k \in 1 .. N : after[k] = ConsumeMfu(after[k - 1], i, k, c.known)
      BY <1>3, UnitsKeep DEF N
    <3>2. 1 - 1 = 0
      OBVIOUS
    <3> QED
      BY <1>1, <2>1, <3>1, <3>2
  <2> HIDE DEF after, u
  <2>3. OnePending(t) /\ Unburdened(t.media) /\ ~Duplicate(t.media, Piece(i, 1))
    BY <1>1, <1>3, <2>1, FirstUnit
  <2>4. Brings(ConsumeMfu(t, i, 1, c.known), W)
    BY <1>1, <1>2, <1>5, <2>3, UnitBrings
  <2> QED
    BY <1>3, <2>2, <2>4, BringsStays DEF u
<1> QED
  BY <1>4, <1>5

LEMMA PictureComes ==
  ASSUME OrderlySender, IInv, GInv, Next, ArrivesInOrder, NEW W, W = PartsOf(PictureBefore(at')),
         PictureBefore(at') # PictureOf(<< at', 1 >>),
         since' <= W[1][1], Sound(W), track.wait => RandomAccess(W),
         PictureBefore(at')[1] \in described,
         PictureBefore(at')[2] <= AccessUnits[PictureBefore(at')[1]],
         track.mpu = PictureBefore(at')[1] => track.lastDts < PictureBefore(at')[2]
  PROVE  Brings(track', W)
<1>1. PICK i \in DOMAIN Stream :
        /\ ReceiveMpu(i) /\ i = at' /\ i # at /\ Stream[i].units # << >>
        /\ i = at + 1 /\ at # 0 /\ since # 0 /\ since' = since
  <2>1. at' # at /\ since' # 0 /\ since' < at'
    BY DEF ArrivesInOrder
  <2>2. PICK i \in DOMAIN Stream : ReceiveMpu(i)
    <3>1. ~Flush /\ ~Reinstall
      BY <2>1 DEF Flush, Reinstall
    <3>2. \A i \in DOMAIN Stream : ~RejectMpu(i)
      BY <2>1 DEF RejectMpu
    <3>3. \A m \in MPU : ~InstallTimestamps(m)
      BY <2>1 DEF InstallTimestamps
    <3> QED
      BY <3>1, <3>2, <3>3 DEF Next
  <2>3. /\ at' = i /\ Stream[i].units # << >>
        /\ since' = IF i = at + 1 /\ at # 0 /\ since # 0 THEN since
                    ELSE IF i = at THEN since ELSE i
    BY <2>1, <2>2 DEF ReceiveMpu
  <2>4. i \in Nat
    BY StreamFacts
  <2>5. ~(since' = i)
    BY <2>1, <2>3, <2>4
  <2> QED
    BY <2>1, <2>2, <2>3, <2>5
<1> DEFINE c == Context
           t == Silence
           e == End(at)
           x == << i, 1 >>
           pic == PictureOf(e)
<1>2. /\ c \in Contexts /\ Len(c.before) <= 1 /\ c.known = described
      /\ at \in 0 .. Len(Stream) /\ Settled(t, c, at) /\ t \in Tracks
  BY Beginning DEF Settled, Kept
<1>3. track' = ConsumePacket(t, i, c.known)
  BY <1>1, <1>2 DEF ReceiveMpu, Hands
<1>4. Acceptable(at, i)
  BY <1>1, <1>2 DEF ReceiveMpu, Deliverable, Acceptable, Near
<1>5. /\ t.wait = track.wait /\ t.mpu = track.mpu /\ t.lastDts = track.lastDts
      /\ t.media = track.media /\ t.pending = track.pending /\ t.skipping = track.skipping
  BY DEF Silence, IInv, TypeOK, Tracks
<1>6. /\ at \in DOMAIN Stream /\ Stream[at].units # << >>
      /\ GatheredFrom(t, since, e)
  <2>1. GatheredFrom(track, since, e)
    BY <1>1 DEF GInv, RunGathered
  <2> QED
    BY <1>1, <1>5, <2>1, GatheredSame DEF GInv, RunGathered
<1>7. 1 \in DOMAIN Stream[i].units
  <2> DEFINE N == Len(Stream[i].units)
  <2>1. N \in Nat /\ DOMAIN Stream[i].units = 1 .. N /\ N # 0
    BY <1>1, StreamFacts, EmptySeq
  <2> HIDE DEF N
  <2> QED
    BY <2>1
<1>8. e \in Position /\ x \in Position /\ x \in Following[e]
  <2>1. x \in Position
    BY <1>7 DEF Position
  <2> QED
    BY <1>1, <1>6, <1>7, <2>1, FollowsAcross DEF End
<1>9. PictureBefore(at') = pic
  <2>1. i - 1 = at
    BY <1>1, <1>2
  <2> QED
    BY <1>1, <2>1 DEF PictureBefore, End
<1> HIDE DEF t, c, e, x
<1>10. W = PartsOf(pic) /\ WholeSound(W)
  BY <1>8, <1>9 DEF WholeSound
<1>11. \A n \in 1 .. Len(W) : W[n] \in Position /\ PictureOf(W[n]) = pic
  BY <1>8, <1>10, WholeParts
<1>12. PictureOf(x) # pic
  BY <1>1, <1>9 DEF x
<1>13. Len(W) \in 1 .. Len(W) /\ W[Len(W)] = e
  <2>1. Len(W) \in Nat /\ \E n \in 1 .. Len(W) : W[n] = e
    BY <1>8, <1>10, WholeParts
  <2>2. PICK n \in 1 .. Len(W) : W[n] = e
    BY <2>1
  <2>3. n = Len(W)
    <3> SUFFICES ASSUME n # Len(W) PROVE FALSE
      OBVIOUS
    <3> DEFINE m == n + 1
    <3>1. m \in 1 .. Len(W) /\ m > 1 /\ m - 1 = n
      BY <2>1
    <3> HIDE DEF m
    <3>2. W[m] \in Following[W[m - 1]]
      BY <1>10, <3>1, PlaceBefore
    <3>3. W[m] = x
      BY <1>8, <2>2, <3>1, <3>2, NextPlace
    <3> QED
      BY <1>11, <1>12, <3>1, <3>3
  <2> QED
    BY <2>2, <2>3
<1>14. Gathers(t, W, Len(W))
  BY <1>1, <1>6, <1>10, <1>13 DEF GatheredFrom
<1>15. LET p == t.pending
       IN  /\ t.mpu = MpuOf(W[1]) /\ ~t.skipping
           /\ p.active /\ p.parts = W /\ p.vcl
           /\ RandomAccess(W) => p.rap
           /\ p.mpu = MpuOf(W[1]) /\ p.sample = SampleOf(W[1])
  BY <1>10, <1>14, GatheredWhole
<1>16. /\ MpuOf(W[1]) \in MPU /\ SampleOf(W[1]) \in Nat /\ SampleOf(W[1]) # 0
       /\ 1 \in 1 .. Len(W)
  BY <1>10, <1>13, WholeFacts
<1>17. pic = << MpuOf(W[1]), SampleOf(W[1]) >>
  BY <1>11, <1>16 DEF PictureOf
<1>18. Due(t, W, c.known)
  <2>1. MpuOf(W[1]) \in described /\ SampleOf(W[1]) <= AccessUnits[MpuOf(W[1])]
    BY <1>9, <1>17
  <2>2. t.lastDts < SampleOf(W[1])
    BY <1>5, <1>9, <1>15, <1>17
  <2>3. AccessUnits[MpuOf(W[1])] \in Nat
    BY <1>16, AccessUnitsAssumption
  <2>4. SampleOf(W[1]) \in 1 .. AccessUnits[MpuOf(W[1])]
    BY <1>16, <2>1, <2>3
  <2>5. t.wait => t.pending.rap
    BY <1>5, <1>15
  <2> QED
    BY <1>2, <1>15, <2>1, <2>2, <2>4, <2>5 DEF Due
<1>19. /\ Stream[i].fragmentation = 0 /\ UnitAt(<< i, 1 >>).valid /\ ~UnitAt(<< i, 1 >>).short
       /\ SampleOf(<< i, 1 >>) # 0
       /\ t.mpu = Stream[i].mpu => SampleOf(<< i, 1 >>) # t.pending.sample
  <2>1. Stream[i].fragmentation = 0 /\ UnitAt(<< i, 1 >>).valid /\ ~UnitAt(<< i, 1 >>).short
    BY <1>1 DEF ArrivesInOrder
  <2>2. SampleOf(x) # 0
    BY <1>8 DEF OrderlySender
  <2>3. ASSUME t.mpu = Stream[i].mpu PROVE SampleOf(x) # t.pending.sample
    <3>1. MpuOf(x) = MpuOf(W[1])
      BY <1>15, <2>3 DEF MpuOf, x
    <3> QED
      BY <1>12, <1>15, <1>17, <3>1 DEF PictureOf
  <2> QED
    BY <2>1, <2>2, <2>3 DEF x
<1>20. Brings(ConsumePacket(t, i, c.known), W)
  BY <1>1, <1>2, <1>4, <1>7, <1>15, <1>16, <1>18, <1>19, PacketBrings
<1> QED
  BY <1>3, <1>20

(***************************************************************************)
(* For a sender that sends pictures in their order, recovery: whatever was *)
(* lost, repeated or reordered before, a picture all of whose packets came *)
(* in order is brought out whole by the next unit of the stream.           *)
(***************************************************************************)
THEOREM PicturesSurvive == ASSUME OrderlySender PROVE Spec => PictureSurvives
<1> DEFINE A == ArrivesInOrder =>
                  LET pic   == PictureBefore(at')
                      parts == PartsOf(pic)
                  IN  /\ pic # PictureOf(<< at', 1 >>)
                      /\ since' <= parts[1][1]
                      /\ Sound(parts)
                      /\ track.wait => RandomAccess(parts)
                      /\ pic[1] \in described /\ pic[2] <= AccessUnits[pic[1]]
                      /\ track.mpu = pic[1] => track.lastDts < pic[2]
                      => \E k \in DOMAIN track'.out : track'.out[k].parts = parts
<1>1. Init => GInv
  BY InitGathers
<1>2. IInv /\ GInv /\ [Next]_vars => GInv'
  BY StepGathers
<1>3. IInv /\ GInv /\ [Next]_vars => [A]_vars
  <2> SUFFICES ASSUME IInv, GInv, Next PROVE A
    OBVIOUS
  <2> QED
    BY PictureComes DEF Brings
<1> HIDE DEF A
<1>4. Spec => [][A]_vars
  BY <1>1, <1>2, <1>3, Invariant, PTL DEF Spec
<1> QED
  BY <1>4 DEF PictureSurvives, A

===============================================================================
