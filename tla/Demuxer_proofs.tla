---------------------------- MODULE Demuxer_proofs ----------------------------
(***************************************************************************)
(* What the sink of a Demuxer may rely on, for any tracks, any input, any  *)
(* seeks and any number of calls.                                          *)
(***************************************************************************)
EXTENDS Demuxer, TLAPS

How == {"open", "due", "refused", "marked", "unmarked"}

(* The types the arguments need.                                           *)
SinkType ==
  sink \in [first: [Kind -> How], seek: [Track -> How], told: Nat, shown: Nat,
            damaged: [Track -> SUBSET Nat], from: Nat]

ChoiceType ==
  selection \in [Kind -> [track: {None} \cup Track, boundary: Nat,
                          pending: BOOLEAN, rap: BOOLEAN]]

(* Where the parsers are in the input, and that a held picture is one of   *)
(* its own, video, track.                                                  *)
Places ==
  /\ chunk \in Nat \X Nat \X Nat
  /\ 0 < chunk[2] /\ chunk[2] <= chunk[3] /\ chunk[3] <= Len(Stream) + 1
  /\ held \in [Track -> Nat]
  /\ lost \in [Track -> BOOLEAN]
  /\ routed \subseteq Track
  /\ \A t \in Track :
       held[t] # None => t \in Video /\ held[t] \in Position /\ Stream[held[t]].track = t

Types == SinkType /\ ChoiceType /\ Places

LEMMA UnitType ==
  ASSUME NEW p \in Position
  PROVE  /\ p \in Nat \ {0}
         /\ Stream[p].track \in Track
         /\ Stream[p].rap \in BOOLEAN
         /\ Stream[p].mpu \in Nat \ {0}
<1> DEFINE Unit == [track: Track, rap: BOOLEAN, mpu: Nat \ {0}, verdict: Verdict]
<1>1. Stream \in Seq(Unit) /\ p \in 1 .. Len(Stream)
  BY StreamAssumption DEF Position
<1> HIDE DEF Unit
<1>2. Stream[p] \in Unit
  BY <1>1
<1> QED
  BY <1>1, <1>2 DEF Unit

LEMMA KindType == \A t \in Track : KindOf(t) \in Kind /\ (t \in Video <=> KindOf(t) = "video")
BY TrackAssumption DEF Kind, KindOf

(* Steps that neither deliver nor refuse a unit and change nothing that    *)
(* the sink is told about.                                                 *)
Quiet == UNCHANGED << selection, timeline, epoch, emitted, sink >>

(* The unit a step puts through the gate.                                  *)
Gated ==
  \E p \in Position : AccessUnit(p, lost[Stream[p].track]) /\ UNCHANGED epoch

LEMMA HereIsPosition == Places /\ InChunk => Here \in Position
BY StreamAssumption DEF Places, InChunk, Here, Position

LEMMA StepKinds ==
  ASSUME Places, Next
  PROVE  \/ Quiet
         \/ Gated
         \/ TransportNtp \/ TransportDiscontinuity \/ FlushEnd \/ Reset
         \/ \E k \in Kind : \E t \in Choices(k) : SelectTrack(k, t)
         \/ \E at \in Seeks, keep \in BOOLEAN : Reposition(at, keep)
         \/ \E same \in BOOLEAN : SelectService(same)
<1>1. CASE \E n \in 1 .. MaxChunk : chunk[3] + n <= Len(Stream) + 1 /\ PushBegin(n)
  BY <1>1 DEF PushBegin, Quiet
<1>2. CASE Lose \/ Unrouted \/ PushEnd \/ FlushBegin \/ SetSubtitlePassthrough
  BY <1>2 DEF Lose, Unrouted, PushEnd, FlushBegin, SetSubtitlePassthrough, Quiet
<1>3. CASE \E s \in Mpts : Mpt(s)
  BY <1>3 DEF Mpt, Quiet
<1>4. CASE NextPicture
  <2> DEFINE t == Stream[Here].track
  <2>1. Here \in Position /\ t \in Track
    BY <1>4, HereIsPosition, UnitType DEF NextPicture
  <2>2. CASE held[t] = None
    BY <1>4, <2>2 DEF NextPicture, Quiet
  <2>3. CASE held[t] # None
    <3>1. held[t] \in Position
      BY <2>1, <2>3 DEF Places
    <3> QED
      BY <1>4, <2>3, <3>1 DEF NextPicture, Emit, Gated
  <2> QED
    BY <2>2, <2>3
<1>5. CASE WholeUnit
  <2>1. Here \in Position
    BY <1>5, HereIsPosition DEF WholeUnit
  <2> QED
    BY <1>5, <2>1 DEF WholeUnit, Emit, Gated
<1>6. ASSUME NEW t \in Track, FlushTrack(t) PROVE Gated
  <2>1. held[t] \in Position
    BY <1>6 DEF FlushTrack, Places
  <2> QED
    BY <1>6, <2>1 DEF FlushTrack, Emit, Gated
<1> QED
  BY <1>1, <1>2, <1>3, <1>4, <1>5, <1>6 DEF Next, Callback

-----------------------------------------------------------------------------
(* The types hold.                                                         *)
LEMMA InitTypes == Init => Types
BY DEF Init, Types, SinkType, ChoiceType, Places, Told, How, Unselected, None

(* Deliver and Refuse keep what the sink has been told in its types.       *)
LEMMA DeliverTypes ==
  ASSUME SinkType, ChoiceType, NEW p \in Position, NEW zero \in Nat, NEW f \in BOOLEAN,
         Deliver(p, f, zero)
  PROVE  SinkType' /\ ChoiceType'
<1> DEFINE t == Stream[p].track
           k == KindOf(t)
<1>1. t \in Track /\ k \in Kind /\ p \in Nat /\ Stream[p].rap \in BOOLEAN
  BY UnitType, KindType
<1> HIDE DEF t, k
<1>2. ChoiceType'
  BY <1>1 DEF ChoiceType, Deliver, Consumed, t, k
<1>3. \A m \in BOOLEAN : SawFirst(p, m) \in [Kind -> How] /\ SawSeek(p, m) \in [Track -> How]
  BY <1>1 DEF SawFirst, SawSeek, SinkType, How, t, k
<1>4. Arriving(t) \in BOOLEAN /\ (epoch # 0 /\ emitted[t] # epoch) \in BOOLEAN
  BY DEF Arriving
<1>5. /\ sink'.first \in [Kind -> How] /\ sink'.seek \in [Track -> How]
      /\ sink'.told \in Nat /\ sink'.shown \in Nat
      /\ sink'.damaged \in [Track -> SUBSET Nat] /\ sink'.from \in Nat
      /\ sink' = [first |-> sink'.first, seek |-> sink'.seek, told |-> sink'.told,
                  shown |-> sink'.shown, damaged |-> sink'.damaged, from |-> sink'.from]
  BY <1>1, <1>3, <1>4 DEF Deliver, SinkType, t
<1> QED
  BY <1>2, <1>5 DEF SinkType


LEMMA RefuseTypes ==
  ASSUME SinkType, ChoiceType, NEW p \in Position, Refuse(p)
  PROVE  SinkType' /\ ChoiceType'
<1> DEFINE t == Stream[p].track
<1>1. t \in Track /\ KindOf(t) \in Kind
  BY UnitType, KindType
<1> HIDE DEF t
<1>2. ChoiceType'
  BY <1>1 DEF ChoiceType, Refuse, Consumed, t
<1>3. SinkType'
  BY <1>1 DEF SinkType, Refuse, How, t
<1> QED
  BY <1>2, <1>3

(* What a unit at the gate may do.                                         *)
LEMMA AtTheGate ==
  ASSUME SinkType, ChoiceType, origin \in Nat, NEW p \in Position, NEW f,
         AccessUnit(p, f)
  PROVE  \/ UNCHANGED << selection, timeline, emitted, damage, sink >>
         \/ Passes(p) /\ Refuse(p) /\ origin' \in {origin, IF origin = None THEN p ELSE origin}
         \/ /\ Passes(p)
            /\ Deliver(p, f, IF origin = None THEN p ELSE origin)
            /\ origin' = IF origin = None THEN p ELSE origin
BY DEF AccessUnit

ClockType == origin \in Nat /\ clock \in [base: Nat, transport: BOOLEAN] /\ clockMpu \in Nat

EpochType == epoch \in Nat /\ emitted \in [Track -> Nat]

AllTypes == Types /\ ClockType /\ EpochType

LEMMA InitAllTypes == Init => AllTypes
BY InitTypes DEF Init, AllTypes, ClockType, EpochType, NoClock, None

LEMMA GateTypes ==
  ASSUME AllTypes, Gated
  PROVE  SinkType' /\ ChoiceType' /\ ClockType' /\ EpochType'
<1> PICK p \in Position : AccessUnit(p, lost[Stream[p].track]) /\ UNCHANGED epoch
  BY DEF Gated
<1> DEFINE f == lost[Stream[p].track]
           zero == IF origin = None THEN p ELSE origin
<1>1. /\ p \in Nat \ {0} /\ Stream[p].track \in Track /\ Stream[p].mpu \in Nat \ {0}
      /\ f \in BOOLEAN /\ zero \in Nat
  BY UnitType DEF AllTypes, Types, Places, ClockType, None
<1>2. CASE UNCHANGED << selection, timeline, emitted, damage, sink >>
  BY <1>2 DEF AllTypes, Types, SinkType, ChoiceType, ClockType, EpochType, timeline
<1>3. CASE Refuse(p) /\ origin' \in {origin, zero}
  <2>1. SinkType' /\ ChoiceType'
    BY <1>3, RefuseTypes DEF AllTypes, Types
  <2>2. ClockType' /\ EpochType'
    BY <1>1, <1>3 DEF Refuse, AllTypes, ClockType, EpochType
  <2> QED
    BY <2>1, <2>2
<1>4. CASE Deliver(p, f, zero) /\ origin' = zero
  <2>1. SinkType' /\ ChoiceType'
    BY <1>1, <1>4, DeliverTypes DEF AllTypes, Types
  <2>2. ClockType' /\ EpochType'
    BY <1>1, <1>4 DEF Deliver, AllTypes, ClockType, EpochType
  <2> QED
    BY <2>1, <2>2
<1> QED
  BY <1>2, <1>3, <1>4, AtTheGate DEF AllTypes, Types, ClockType


LEMMA ChoiceKinds ==
  ASSUME NEW k \in Kind, NEW t \in Choices(k)
  PROVE  t \in {None} \cup Track
BY DEF Choices

Choice == [track: {None} \cup Track, boundary: Nat, pending: BOOLEAN, rap: BOOLEAN]

LEMMA ArmedType ==
  ASSUME NEW k \in Kind, NEW t \in {None} \cup Track, NEW b \in Nat
  PROVE  /\ Armed(k, t, b) \in Choice
         /\ Armed(k, t, b).pending <=> t # None
         /\ k = "video" => (Armed(k, t, b).rap <=> t # None)
<1> DEFINE some == t # None
           vid == k = "video" /\ t # None
<1>1. some \in BOOLEAN /\ vid \in BOOLEAN
  OBVIOUS
<1>2. Armed(k, t, b) = [track |-> t, boundary |-> b, pending |-> some, rap |-> vid]
  BY DEF Armed
<1>3. Armed(k, t, b).pending = some /\ Armed(k, t, b).rap = vid
  BY <1>2
<1> HIDE DEF some, vid
<1>4. Armed(k, t, b) \in Choice
  BY <1>1, <1>2 DEF Choice
<1> QED
  BY <1>3, <1>4 DEF some, vid

(* arm_track_selections keeps the tracks and arms every kind.              *)
LEMMA AllArmed ==
  ASSUME ChoiceType, NEW b \in Nat, ArmAll(b)
  PROVE  /\ ChoiceType'
         /\ \A k \in Kind :
              /\ selection'[k].pending <=> selection[k].track # None
              /\ k = "video" => (selection'[k].rap <=> selection[k].track # None)
<1>1. \A k \in Kind : selection[k].track \in {None} \cup Track
  BY DEF ChoiceType
<1>2. selection' \in [Kind -> Choice]
  BY <1>1, ArmedType DEF ArmAll
<1>3. \A k \in Kind : selection'[k] = Armed(k, selection[k].track, b)
  BY DEF ArmAll
<1>4. ChoiceType'
  BY <1>2 DEF ChoiceType, Choice
<1>5. ASSUME NEW k \in Kind
      PROVE  /\ selection'[k].pending <=> selection[k].track # None
             /\ k = "video" => (selection'[k].rap <=> selection[k].track # None)
  BY <1>1, <1>3, ArmedType
<1> QED
  BY <1>4, <1>5

LEMMA OneArmed ==
  ASSUME ChoiceType, NEW k \in Kind, NEW t \in {None} \cup Track, NEW b \in Nat,
         selection' = [selection EXCEPT ![k] = Armed(k, t, b)]
  PROVE  /\ ChoiceType'
         /\ selection'[k].pending <=> t # None
         /\ k = "video" => (selection'[k].rap <=> t # None)
         /\ \A j \in Kind : j # k => selection'[j] = selection[j]
<1>1. Armed(k, t, b) \in Choice
  BY ArmedType
<1>2. selection' \in [Kind -> Choice]
  BY <1>1 DEF ChoiceType, Choice
<1>3. selection'[k] = Armed(k, t, b) /\ \A j \in Kind : j # k => selection'[j] = selection[j]
  BY DEF ChoiceType
<1> QED
  BY <1>2, <1>3, ArmedType DEF ChoiceType, Choice

(* The calls.                                                              *)
LEMMA CallTypes ==
  ASSUME AllTypes,
         \/ TransportNtp \/ TransportDiscontinuity \/ FlushEnd \/ Reset
         \/ \E k \in Kind : \E t \in Choices(k) : SelectTrack(k, t)
         \/ \E at \in Seeks, keep \in BOOLEAN : Reposition(at, keep)
         \/ \E same \in BOOLEAN : SelectService(same)
  PROVE  SinkType' /\ ChoiceType' /\ ClockType' /\ EpochType'
<1> USE DEF AllTypes, Types, SinkType, ChoiceType, ClockType, EpochType
<1>1. CASE TransportNtp
  BY <1>1 DEF TransportNtp, Places, Here
<1>2. CASE TransportDiscontinuity
  BY <1>2 DEF TransportDiscontinuity, WithoutTransportClock, NoClock, None
<1>3. CASE FlushEnd
  BY <1>3 DEF FlushEnd, Reported, timeline
<1>4. CASE Reset
  <2>1. ChoiceType'
    BY <1>4, AllArmed DEF Reset
  <2>2. ClockType' /\ EpochType'
    BY <1>4 DEF Reset, NoClock, None
  <2>3. SinkType'
    BY <1>4 DEF Reset, ExpectAll, Restarted, None, How
  <2> QED
    BY <2>1, <2>2, <2>3
<1>5. ASSUME NEW k \in Kind, NEW t \in Choices(k), SelectTrack(k, t)
      PROVE  SinkType' /\ ChoiceType' /\ ClockType' /\ EpochType'
  <2>1. SinkType' /\ ClockType' /\ EpochType'
    BY <1>5 DEF SelectTrack, Expect, How, None
  <2>2. chunk[1] \in Nat /\ t \in {None} \cup Track
    BY ChoiceKinds DEF Places
  <2>3. ChoiceType'
    BY <1>5, <2>2, OneArmed DEF SelectTrack
  <2> QED
    BY <2>1, <2>3
<1>6. ASSUME NEW at \in Seeks, NEW keep \in BOOLEAN, Reposition(at, keep)
      PROVE  SinkType' /\ ChoiceType' /\ ClockType' /\ EpochType'
  <2>1. at \in Nat
    BY SeekAssumption
  <2>2. ChoiceType'
    BY <1>6, <2>1, AllArmed DEF Reposition
  <2>4. ClockType'
    BY <1>6 DEF Reposition, WithoutTransportClock, NoClock, None
  <2>5. epoch' = epoch + 1 /\ emitted' = emitted
    BY <1>6 DEF Reposition
  <2>6. EpochType'
    BY <2>5
  <2>3. SinkType'
    BY <1>6, <2>1 DEF Reposition, Restarted, ExpectAll, How, None
  <2> QED
    BY <2>2, <2>3, <2>4, <2>6
<1>7. ASSUME NEW same \in BOOLEAN, SelectService(same)
      PROVE  SinkType' /\ ChoiceType' /\ ClockType' /\ EpochType'
  BY <1>7 DEF SelectService, NoClock, None
<1> QED
  BY <1>1, <1>2, <1>3, <1>4, <1>5, <1>6, <1>7

LEMMA StepAllButPlaces ==
  ASSUME AllTypes, Next
  PROVE  SinkType' /\ ChoiceType' /\ ClockType' /\ EpochType'
<1>1. CASE Quiet
  BY <1>1 DEF Quiet, timeline, AllTypes, Types, SinkType, ChoiceType, ClockType, EpochType
<1> QED
  BY <1>1, StepKinds, GateTypes, CallTypes DEF AllTypes, Types

(* Where the parsers are.                                                  *)
LEMMA StepPlaces ==
  ASSUME Places, Next
  PROVE  Places'
<1> USE DEF Places
<1>1. ASSUME NEW n \in 1 .. MaxChunk, chunk[3] + n <= Len(Stream) + 1, PushBegin(n)
      PROVE  Places'
  BY <1>1 DEF PushBegin, parser
<1>2. CASE Lose
  BY <1>2, HereIsPosition, UnitType DEF Lose, Next1, InChunk, Here
<1>3. CASE Unrouted
  BY <1>3 DEF Unrouted, Next1, InChunk, parser
<1>4. CASE NextPicture
  <2>1. Here \in Position /\ Stream[Here].track \in Track /\ Here \in Nat
    BY <1>4, HereIsPosition, UnitType DEF NextPicture
  <2>2. /\ held' = [held EXCEPT ![Stream[Here].track] = Here]
        /\ chunk' = [chunk EXCEPT ![2] = @ + 1] /\ chunk[2] < chunk[3]
        /\ routed' = routed
    BY <1>4 DEF NextPicture, Next1, InChunk
  <2>3. lost' \in [Track -> BOOLEAN]
    BY <1>4, <2>1 DEF NextPicture
  <2>4. Here = chunk[2]
    BY DEF Here
  <2>5. chunk' \in Nat \X Nat \X Nat /\ chunk'[2] = chunk[2] + 1 /\ chunk'[3] = chunk[3]
    BY <2>2
  <2>6. held' \in [Track -> Nat]
    BY <2>1, <2>2
  <2>7. ASSUME NEW t \in Track, held'[t] # None
        PROVE  t \in Video /\ held'[t] \in Position /\ Stream[held'[t]].track = t
    <3>1. Stream[Here].track \in Video
      BY <1>4 DEF NextPicture
    <3>2. CASE t = Stream[Here].track
      BY <2>1, <2>2, <3>1, <3>2
    <3>3. CASE t # Stream[Here].track
      BY <2>1, <2>2, <2>7, <3>3
    <3> QED
      BY <3>2, <3>3
  <2> QED
    BY <2>2, <2>3, <2>5, <2>6, <2>7
<1>5. CASE WholeUnit
  <2>1. /\ lost' \in [Track -> BOOLEAN]
        /\ held' = held /\ routed' = routed
        /\ chunk' = [chunk EXCEPT ![2] = @ + 1] /\ chunk[2] < chunk[3]
    BY <1>5 DEF WholeUnit, Next1, InChunk
  <2>2. chunk' \in Nat \X Nat \X Nat /\ chunk'[2] = chunk[2] + 1 /\ chunk'[3] = chunk[3]
    BY <2>1
  <2> QED
    BY <2>1, <2>2
<1>6. ASSUME NEW s \in Mpts, Mpt(s)
      PROVE  Places'
  <2>1. s \subseteq Track
    BY MptAssumption
  <2> QED
    BY <1>6, <2>1 DEF Mpt, None
<1>7. CASE TransportNtp
  BY <1>7 DEF TransportNtp, parser
<1>8. CASE TransportDiscontinuity
  BY <1>8 DEF TransportDiscontinuity, Next1, InChunk, ParsersReset, None
<1>9. CASE PushEnd
  <2>1. chunk[3] - 1 \in Nat
    BY DEF Places
  <2> QED
    BY <1>9, <2>1 DEF PushEnd, parser
<1>10. CASE FlushBegin \/ SetSubtitlePassthrough
  BY <1>10 DEF FlushBegin, SetSubtitlePassthrough, parser
<1>11. ASSUME NEW t \in Track, FlushTrack(t)
       PROVE  Places'
  BY <1>11 DEF FlushTrack, None
<1>12. CASE FlushEnd
  BY <1>12 DEF FlushEnd
<1>13. ASSUME NEW k \in Kind, NEW t \in Choices(k), SelectTrack(k, t)
       PROVE  Places'
  BY <1>13 DEF SelectTrack, parser
<1>14. CASE Reset
  BY <1>14, StreamAssumption DEF Reset, ParsersReset, None
<1>15. ASSUME NEW at \in Seeks, NEW keep \in BOOLEAN, Reposition(at, keep)
       PROVE  Places'
  <2>1. at \in 0 .. Len(Stream) /\ Len(Stream) \in Nat
    BY SeekAssumption, StreamAssumption
  <2> QED
    BY <1>15, <2>1 DEF Reposition, ParsersReset, None
<1>16. ASSUME NEW same \in BOOLEAN, SelectService(same)
       PROVE  Places'
  <2>1. chunk' = chunk /\ (UNCHANGED parser \/ ParsersReset)
    BY <1>16 DEF SelectService
  <2>2. CASE UNCHANGED parser
    BY <2>1, <2>2 DEF parser
  <2>3. CASE ParsersReset
    BY <2>1, <2>3 DEF ParsersReset, None
  <2> QED
    BY <2>1, <2>2, <2>3
<1> QED
  BY <1>1, <1>2, <1>3, <1>4, <1>5, <1>6, <1>7, <1>8, <1>9, <1>10, <1>11, <1>12,
     <1>13, <1>14, <1>15, <1>16 DEF Next, Callback

(* The types of the Demuxer's state, and that a picture a parser holds is  *)
(* a video unit of its own track, behind what has been parsed.             *)
THEOREM TypesHold == Spec => []AllTypes
<1>1. AllTypes /\ [Next]_vars => AllTypes'
  <2> SUFFICES ASSUME AllTypes, [Next]_vars PROVE AllTypes'
    OBVIOUS
  <2>1. CASE Next
    BY <2>1, StepAllButPlaces, StepPlaces DEF AllTypes, Types
  <2>2. CASE UNCHANGED vars
    BY <2>2 DEF vars, parser, timeline, damage, AllTypes, Types, SinkType, ChoiceType,
                Places, ClockType, EpochType
  <2> QED
    BY <2>1, <2>2
<1> QED
  BY <1>1, InitAllTypes, PTL DEF Spec

-----------------------------------------------------------------------------
(* Switching: what is due is what the demuxer has armed.                   *)
SwitchInv ==
  \A k \in Kind :
    /\ sink.first[k] # "unmarked"
    /\ sink.first[k] = "due" <=> selection[k].pending
    /\ k = "video" /\ selection[k].pending => selection[k].rap

LEMMA InitSwitch == Init => SwitchInv
BY DEF Init, SwitchInv, Told, Unselected

(* A unit that passes the gate and finds its kind armed is one to mark.    *)
LEMMA DeliverSwitch ==
  ASSUME AllTypes, SwitchInv, NEW p \in Position, NEW f, NEW zero, Passes(p),
         Deliver(p, f, zero)
  PROVE  SwitchInv'
<1> DEFINE t == Stream[p].track
           k == KindOf(t)
<1>1. /\ t \in Track /\ k \in Kind /\ p \in Nat \ {0}
      /\ t \in Video <=> k = "video"
  BY UnitType, KindType
<1>2. /\ selection \in [Kind -> Choice] /\ sink.first \in [Kind -> How]
      /\ selection[k].boundary \in Nat
  BY <1>1 DEF AllTypes, Types, ChoiceType, SinkType, Choice
<1>3. Arriving(t) => p > selection[k].boundary /\ (selection[k].rap => Stream[p].rap)
  BY <1>1, <1>2 DEF Passes
<1>4. sink'.first = SawFirst(p, Arriving(t)) /\ selection' = Consumed(t)
  BY DEF Deliver, AllTypes, Types, SinkType
<1>5. CASE Bypass(t)
  BY <1>4, <1>5 DEF SwitchInv, SawFirst, Consumed, Arriving
<1>6. CASE ~Bypass(t) /\ selection[k].pending
  <2>1. Arriving(t)
    BY <1>6 DEF Arriving
  <2>2. sink'.first = [sink.first EXCEPT ![k] = "marked"]
    BY <1>1, <1>2, <1>3, <1>4, <1>6, <2>1 DEF SawFirst, SwitchInv
  <2>3. selection' = [selection EXCEPT ![k].pending = FALSE, ![k].rap = FALSE]
    BY <1>4, <2>1 DEF Consumed
  <2>4. \A j \in Kind \ {k} : selection'[j] = selection[j] /\ sink'.first[j] = sink.first[j]
    BY <1>2, <2>2, <2>3
  <2>5. sink'.first[k] = "marked" /\ ~selection'[k].pending
    BY <1>1, <1>2, <2>2, <2>3 DEF Choice
  <2> QED
    BY <2>4, <2>5 DEF SwitchInv
<1>7. CASE ~Bypass(t) /\ ~selection[k].pending
  <2>1. ~Arriving(t)
    BY <1>7 DEF Arriving
  <2>2. sink'.first = sink.first
    BY <1>1, <1>2, <1>4, <1>7, <2>1 DEF SawFirst, SwitchInv
  <2>3. selection' = selection
    BY <1>4, <2>1 DEF Consumed
  <2> QED
    BY <2>2, <2>3 DEF SwitchInv
<1> QED
  BY <1>5, <1>6, <1>7

LEMMA RefuseSwitch ==
  ASSUME AllTypes, SwitchInv, NEW p \in Position, Refuse(p)
  PROVE  SwitchInv'
<1> DEFINE t == Stream[p].track
           k == KindOf(t)
<1>1. t \in Track /\ k \in Kind
  BY UnitType, KindType
<1>2. /\ selection \in [Kind -> Choice] /\ sink.first \in [Kind -> How]
      /\ sink \in [first: [Kind -> How], seek: [Track -> How], told: Nat, shown: Nat,
                   damaged: [Track -> SUBSET Nat], from: Nat]
  BY DEF AllTypes, Types, ChoiceType, SinkType, Choice
<1>3. CASE Arriving(t)
  <2>1. sink'.first = [sink.first EXCEPT ![k] = "refused"]
    BY <1>2, <1>3 DEF Refuse
  <2>2. selection' = [selection EXCEPT ![k].pending = FALSE, ![k].rap = FALSE]
    BY <1>3 DEF Refuse, Consumed
  <2>3. \A j \in Kind \ {k} : selection'[j] = selection[j] /\ sink'.first[j] = sink.first[j]
    BY <1>2, <2>1, <2>2
  <2>4. sink'.first[k] = "refused" /\ ~selection'[k].pending
    BY <1>1, <1>2, <2>1, <2>2 DEF Choice
  <2> QED
    BY <2>3, <2>4 DEF SwitchInv
<1>4. CASE ~Arriving(t)
  BY <1>4 DEF Refuse, Consumed, SwitchInv
<1> QED
  BY <1>3, <1>4

LEMMA CallSwitch ==
  ASSUME AllTypes, SwitchInv,
         \/ Reset
         \/ \E k \in Kind : \E t \in Choices(k) : SelectTrack(k, t)
         \/ \E at \in Seeks, keep \in BOOLEAN : Reposition(at, keep)
  PROVE  SwitchInv'
<1>1. ChoiceType
  BY DEF AllTypes, Types
<1>2. ASSUME NEW b \in Nat, ArmAll(b), sink'.first = ExpectAll
      PROVE  SwitchInv'
  BY <1>1, <1>2, AllArmed DEF SwitchInv, ExpectAll
<1>3. CASE Reset
  <2>1. sink'.first = ExpectAll
    BY <1>3 DEF Reset, Restarted, AllTypes, Types, SinkType
  <2> QED
    BY <1>2, <1>3, <2>1 DEF Reset
<1>4. ASSUME NEW at \in Seeks, NEW keep \in BOOLEAN, Reposition(at, keep)
      PROVE  SwitchInv'
  <2>1. /\ at \in Nat
        /\ sink \in [first: [Kind -> How], seek: [Track -> How], told: Nat, shown: Nat,
                     damaged: [Track -> SUBSET Nat], from: Nat]
    BY SeekAssumption DEF AllTypes, Types, SinkType
  <2>2. sink'.first = ExpectAll
    BY <1>4, <2>1 DEF Reposition, Restarted
  <2> QED
    BY <1>2, <1>4, <2>1, <2>2 DEF Reposition
<1>5. ASSUME NEW k \in Kind, NEW t \in Choices(k), SelectTrack(k, t)
      PROVE  SwitchInv'
  <2>1. t \in {None} \cup Track /\ chunk[1] \in Nat
    BY ChoiceKinds DEF AllTypes, Types, Places
  <2>2. /\ selection'[k].pending <=> t # None
        /\ k = "video" => (selection'[k].rap <=> t # None)
        /\ \A j \in Kind : j # k => selection'[j] = selection[j]
    BY <1>1, <1>5, <2>1, OneArmed DEF SelectTrack
  <2>3. /\ sink'.first[k] = IF t = None THEN "open" ELSE "due"
        /\ \A j \in Kind : j # k => sink'.first[j] = sink.first[j]
    BY <1>5 DEF SelectTrack, Expect, AllTypes, Types, SinkType
  <2> QED
    BY <2>2, <2>3 DEF SwitchInv
<1> QED
  BY <1>3, <1>4, <1>5

LEMMA StepSwitch ==
  ASSUME AllTypes, SwitchInv, Next
  PROVE  SwitchInv'
<1>1. CASE Quiet
  BY <1>1 DEF Quiet, SwitchInv
<1>2. CASE Gated
  <2> PICK p \in Position : AccessUnit(p, lost[Stream[p].track]) /\ UNCHANGED epoch
    BY <1>2 DEF Gated
  <2>1. CASE UNCHANGED << selection, timeline, emitted, damage, sink >>
    BY <2>1 DEF SwitchInv
  <2> QED
    BY <2>1, AtTheGate, DeliverSwitch, RefuseSwitch DEF AllTypes, Types, ClockType
<1>3. CASE TransportNtp \/ TransportDiscontinuity \/ FlushEnd \/ \E same \in BOOLEAN : SelectService(same)
  <2>1. selection' = selection /\ sink'.first = sink.first
    BY <1>3 DEF TransportNtp, TransportDiscontinuity, FlushEnd, SelectService, AllTypes,
                Types, SinkType
  <2> QED
    BY <2>1 DEF SwitchInv
<1> QED
  BY <1>1, <1>2, <1>3, CallSwitch, StepKinds DEF AllTypes, Types

(***************************************************************************)
(* Of a selected kind, the first unit after select_track, reset or         *)
(* reposition is the marked one, whatever the parsers still held and       *)
(* wherever in a push or a flush the choice was made.                      *)
(***************************************************************************)
THEOREM SwitchesClean == Spec => []SwitchIsClean
<1>1. AllTypes /\ SwitchInv /\ [Next]_vars => SwitchInv'
  <2> SUFFICES ASSUME AllTypes, SwitchInv, [Next]_vars PROVE SwitchInv'
    OBVIOUS
  <2>1. CASE UNCHANGED vars
    BY <2>1 DEF vars, SwitchInv
  <2> QED
    BY <2>1, StepSwitch
<1>2. SwitchInv => SwitchIsClean
  BY DEF SwitchInv, SwitchIsClean
<1> QED
  BY <1>1, <1>2, InitSwitch, TypesHold, PTL DEF Spec


-----------------------------------------------------------------------------
(* Seeks: a track is owed a mark as long as it has not met the epoch.      *)
SeekInv ==
  \A t \in Track :
    /\ sink.seek[t] # "unmarked"
    /\ sink.seek[t] = "due" <=> epoch # 0 /\ emitted[t] # epoch
    /\ emitted[t] <= epoch

LEMMA InitSeek == Init => SeekInv
<1> SUFFICES ASSUME Init PROVE SeekInv
  OBVIOUS
<1>1. /\ sink.seek = [t \in Track |-> "open"]
      /\ epoch = 0 /\ emitted = [t \in Track |-> 0]
  BY DEF Init, Told
<1>2. ASSUME NEW t \in Track
      PROVE  /\ sink.seek[t] # "unmarked" /\ sink.seek[t] # "due"
             /\ emitted[t] <= epoch
  BY <1>1
<1> QED
  BY <1>1, <1>2 DEF SeekInv

LEMMA DeliverSeek ==
  ASSUME AllTypes, SeekInv, NEW p \in Position, NEW f, NEW zero, Deliver(p, f, zero),
         UNCHANGED epoch
  PROVE  SeekInv'
<1> DEFINE t == Stream[p].track
           sought == epoch # 0 /\ emitted[t] # epoch
<1>1. /\ t \in Track /\ epoch \in Nat /\ emitted \in [Track -> Nat]
      /\ sink.seek \in [Track -> How]
      /\ sink \in [first: [Kind -> How], seek: [Track -> How], told: Nat, shown: Nat,
                   damaged: [Track -> SUBSET Nat], from: Nat]
  BY UnitType DEF AllTypes, Types, SinkType, EpochType
<1>2. /\ sink'.seek = SawSeek(p, sought)
      /\ emitted' = IF sought THEN [emitted EXCEPT ![t] = epoch] ELSE emitted
  BY <1>1 DEF Deliver
<1>3. CASE sought
  <2>1. sink'.seek = [sink.seek EXCEPT ![t] = "marked"]
    BY <1>1, <1>2, <1>3 DEF SawSeek, SeekInv
  <2> QED
    BY <1>1, <1>2, <1>3, <2>1 DEF SeekInv
<1>4. CASE ~sought
  <2>1. sink'.seek = sink.seek
    BY <1>1, <1>2, <1>4 DEF SawSeek, SeekInv
  <2> QED
    BY <1>2, <1>4, <2>1 DEF SeekInv
<1> QED
  BY <1>3, <1>4

LEMMA StepSeek ==
  ASSUME AllTypes, SeekInv, Next
  PROVE  SeekInv'
<1>1. /\ epoch \in Nat /\ emitted \in [Track -> Nat]
      /\ sink \in [first: [Kind -> How], seek: [Track -> How], told: Nat, shown: Nat,
                   damaged: [Track -> SUBSET Nat], from: Nat]
  BY DEF AllTypes, Types, SinkType, EpochType
<1>2. CASE Quiet
  BY <1>2 DEF Quiet, SeekInv
<1>3. CASE Gated
  <2> PICK p \in Position : AccessUnit(p, lost[Stream[p].track]) /\ UNCHANGED epoch
    BY <1>3 DEF Gated
  <2>1. CASE UNCHANGED << selection, timeline, emitted, damage, sink >>
    BY <2>1 DEF SeekInv
  <2>2. CASE Refuse(p)
    <3>1. sink'.seek = sink.seek /\ emitted' = emitted
      BY <1>1, <2>2 DEF Refuse
    <3> QED
      BY <3>1 DEF SeekInv
  <2> QED
    BY <2>1, <2>2, AtTheGate, DeliverSeek DEF AllTypes, Types, ClockType
<1>4. CASE \/ TransportNtp \/ TransportDiscontinuity \/ FlushEnd
           \/ \E same \in BOOLEAN : SelectService(same)
           \/ \E k \in Kind : \E t \in Choices(k) : SelectTrack(k, t)
  <2>1. UNCHANGED << epoch, emitted >> /\ sink'.seek = sink.seek
    BY <1>1, <1>4 DEF TransportNtp, TransportDiscontinuity, FlushEnd, SelectService,
                      SelectTrack
  <2> QED
    BY <2>1 DEF SeekInv
<1>5. CASE Reset
  <2>1. epoch' = 0 /\ emitted' = [t \in Track |-> 0] /\ sink'.seek = [t \in Track |-> "open"]
    BY <1>1, <1>5 DEF Reset, Restarted
  <2> QED
    BY <2>1 DEF SeekInv
<1>6. ASSUME NEW at \in Seeks, NEW keep \in BOOLEAN, Reposition(at, keep)
      PROVE  SeekInv'
  <2>1. epoch' = epoch + 1 /\ emitted' = emitted
    BY <1>6 DEF Reposition
  <2>2. sink'.seek = [t \in Track |-> "due"]
    BY <1>1, <1>6 DEF Reposition, Restarted
  <2> QED
    BY <1>1, <2>1, <2>2 DEF SeekInv
<1> QED
  BY <1>2, <1>3, <1>4, <1>5, <1>6, StepKinds DEF AllTypes, Types

(***************************************************************************)
(* access_unit marks each reposition once on each track, whatever it       *)
(* refused or dropped before, and reset starts the epochs afresh.          *)
(***************************************************************************)
THEOREM SeeksMarked == Spec => []SeekMarkedOnce
<1>1. AllTypes /\ SeekInv /\ [Next]_vars => SeekInv'
  <2> SUFFICES ASSUME AllTypes, SeekInv, [Next]_vars PROVE SeekInv'
    OBVIOUS
  <2>1. CASE UNCHANGED vars
    BY <2>1 DEF vars, SeekInv
  <2> QED
    BY <2>1, StepSeek
<1>2. SeekInv => SeekMarkedOnce
  BY DEF SeekInv, SeekMarkedOnce
<1> QED
  BY <1>1, <1>2, InitSeek, TypesHold, PTL DEF Spec

-----------------------------------------------------------------------------
(* The clock: once a video unit is shown, the timeline and the clock the   *)
(* demuxer holds are those of the sink, and an MPU for which the clock was *)
(* told was shown.                                                         *)
ClockInv ==
  /\ sink.shown # None =>
       /\ sink.told = sink.shown /\ clock.base = sink.shown /\ origin = sink.shown
       /\ ~clock.transport
  /\ clockMpu # None => sink.shown # None

LEMMA InitClock == Init => ClockInv
BY DEF Init, ClockInv, Told

LEMMA GateClock ==
  ASSUME AllTypes, ClockInv, Gated
  PROVE  ClockInv'
<1> PICK p \in Position : AccessUnit(p, lost[Stream[p].track]) /\ UNCHANGED epoch
  BY DEF Gated
<1> DEFINE zero == IF origin = None THEN p ELSE origin
           t == Stream[p].track
<1>1. /\ p \in Nat \ {0} /\ t \in Track /\ Stream[p].mpu \in Nat \ {0}
      /\ origin \in Nat /\ clock \in [base: Nat, transport: BOOLEAN]
      /\ sink \in [first: [Kind -> How], seek: [Track -> How], told: Nat, shown: Nat,
                   damaged: [Track -> SUBSET Nat], from: Nat]
  BY UnitType DEF AllTypes, Types, SinkType, ClockType
<1>2. CASE UNCHANGED << selection, timeline, emitted, damage, sink >>
  BY <1>2 DEF ClockInv, timeline
<1>3. CASE Refuse(p) /\ origin' \in {origin, zero}
  <2>1. sink'.shown = sink.shown /\ sink'.told = sink.told /\ UNCHANGED << clock, clockMpu >>
    BY <1>1, <1>3 DEF Refuse
  <2> QED
    BY <1>3, <2>1 DEF ClockInv
<1>4. CASE Deliver(p, lost[t], zero) /\ origin' = zero /\ t \in Video
  <2> DEFINE tell == ClockTold(p, lost[t] \/ Arriving(t))
  <2>1. /\ sink'.shown = zero
        /\ sink'.told = IF tell THEN zero ELSE sink.told
        /\ clock' = [base |-> zero, transport |-> FALSE]
        /\ clockMpu' = IF tell THEN Stream[p].mpu ELSE clockMpu
    BY <1>1, <1>4 DEF Deliver
  <2>2. zero # None
    BY <1>1 DEF None
  <2>3. ~tell => sink.told = zero
    BY <1>1 DEF ClockTold, ClockInv, None
  <2> QED
    BY <1>4, <2>1, <2>2, <2>3 DEF ClockInv
<1>5. CASE Deliver(p, lost[t], zero) /\ origin' = zero /\ t \notin Video
  <2>1. sink'.shown = sink.shown /\ sink'.told = sink.told /\ UNCHANGED << clock, clockMpu >>
    BY <1>1, <1>5 DEF Deliver
  <2> QED
    BY <1>5, <2>1 DEF ClockInv
<1> QED
  BY <1>2, <1>3, <1>4, <1>5, AtTheGate DEF AllTypes, Types, ClockType

LEMMA StepClock ==
  ASSUME AllTypes, ClockInv, Next
  PROVE  ClockInv'
<1>1. /\ clock \in [base: Nat, transport: BOOLEAN]
      /\ sink \in [first: [Kind -> How], seek: [Track -> How], told: Nat, shown: Nat,
                   damaged: [Track -> SUBSET Nat], from: Nat]
  BY DEF AllTypes, Types, SinkType, ClockType
<1>2. CASE Quiet
  BY <1>2 DEF Quiet, ClockInv, timeline
<1>3. CASE TransportNtp
  <2>1. sink.shown = None /\ clockMpu' = clockMpu
    BY <1>3 DEF TransportNtp, ClockInv
  <2>2. sink'.shown = sink.shown
    BY <1>1, <1>3 DEF TransportNtp
  <2> QED
    BY <2>1, <2>2 DEF ClockInv
<1>4. CASE TransportDiscontinuity
  BY <1>4 DEF TransportDiscontinuity, WithoutTransportClock, ClockInv
<1>5. CASE FlushEnd
  <2>1. sink'.shown = sink.shown /\ sink'.told = sink.told /\ UNCHANGED timeline
    BY <1>1, <1>5 DEF FlushEnd
  <2> QED
    BY <2>1 DEF ClockInv, timeline
<1>6. CASE Reset
  <2>1. sink'.shown = None /\ clockMpu' = None
    BY <1>1, <1>6 DEF Reset, Restarted
  <2> QED
    BY <2>1 DEF ClockInv
<1>7. ASSUME NEW k \in Kind, NEW t \in Choices(k), SelectTrack(k, t)
      PROVE  ClockInv'
  <2>1. /\ sink'.shown = sink.shown /\ sink'.told = sink.told
        /\ UNCHANGED << origin, clock >> /\ clockMpu' \in {None, clockMpu}
    BY <1>1, <1>7 DEF SelectTrack
  <2> QED
    BY <2>1 DEF ClockInv
<1>8. ASSUME NEW at \in Seeks, NEW keep \in BOOLEAN, Reposition(at, keep)
      PROVE  ClockInv'
  <2>1. CASE keep
    <3>1. /\ sink'.shown = sink.shown /\ sink'.told = sink.told
          /\ origin' = origin /\ clock' = WithoutTransportClock /\ clockMpu' = None
      BY <1>1, <1>8, <2>1 DEF Reposition, Restarted
    <3> QED
      BY <3>1 DEF ClockInv, WithoutTransportClock
  <2>2. CASE ~keep
    <3>1. sink'.shown = None /\ clockMpu' = None
      BY <1>1, <1>8, <2>2 DEF Reposition, Restarted
    <3> QED
      BY <3>1 DEF ClockInv
  <2> QED
    BY <2>1, <2>2
<1>9. ASSUME NEW same \in BOOLEAN, SelectService(same)
      PROVE  ClockInv'
  <2>1. sink'.shown = None /\ clockMpu' = None
    BY <1>1, <1>9 DEF SelectService
  <2> QED
    BY <2>1 DEF ClockInv
<1> QED
  BY <1>2, <1>3, <1>4, <1>5, <1>6, <1>7, <1>8, <1>9, GateClock, StepKinds DEF AllTypes, Types

(***************************************************************************)
(* Telling the clock once per MPU is enough: no seek, switch, NTP time or  *)
(* resynchronisation leaves the sink with the clock of another timeline    *)
(* than that of the last video unit.                                       *)
(***************************************************************************)
THEOREM ClockTrue == Spec => []ClockIsTimeline
<1>1. AllTypes /\ ClockInv /\ [Next]_vars => ClockInv'
  <2> SUFFICES ASSUME AllTypes, ClockInv, [Next]_vars PROVE ClockInv'
    OBVIOUS
  <2>1. CASE UNCHANGED vars
    BY <2>1 DEF vars, timeline, ClockInv
  <2> QED
    BY <2>1, StepClock
<1>2. ClockInv => ClockIsTimeline
  BY DEF ClockInv, ClockIsTimeline
<1> QED
  BY <1>1, <1>2, InitClock, TypesHold, PTL DEF Spec


-----------------------------------------------------------------------------
(* Damage.  The units of a track come in the order of the input, and all   *)
(* after the place it was restarted from.                                  *)
Forward ==
  /\ sink.from < chunk[2]
  /\ previous \in [Track -> Nat]
  /\ \A t \in Track :
       /\ previous[t] < chunk[2]
       /\ previous[t] # None => sink.from < previous[t]
       /\ held[t] # None =>
            sink.from < held[t] /\ previous[t] < held[t] /\ held[t] < chunk[2]

Interval(t) ==
  open[t] # NoDamage =>
    sink.from < open[t].start /\ open[t].start <= open[t].end /\ open[t].end <= previous[t]

Accounted(t) ==
  /\ open[t] \in [start: Nat, end: Nat]
  /\ Interval(t)
  /\ sink.damaged[t] # {} => Covers(open[t], sink.damaged[t])

Ended == phase = "ended" => \A t \in Track : sink.damaged[t] = {} /\ open[t] = NoDamage

DamageInv ==
  /\ Forward
  /\ open \in [Track -> [start: Nat, end: Nat]]
  /\ \A t \in Track : Accounted(t)
  /\ Ended

LEMMA InitDamage == Init => DamageInv
<1> SUFFICES ASSUME Init PROVE DamageInv
  OBVIOUS
<1>1. /\ sink.damaged = [t \in Track |-> {}] /\ sink.from = 0
      /\ open = [t \in Track |-> NoDamage]
  BY DEF Init, Told
<1>2. NoDamage \in [start: Nat, end: Nat]
  BY DEF NoDamage, None
<1>3. Forward
  BY <1>1 DEF Init, Forward, None
<1>4. open \in [Track -> [start: Nat, end: Nat]] /\ \A t \in Track : open[t] = NoDamage
  BY <1>1, <1>2
<1> QED
  BY <1>1, <1>3, <1>4 DEF Init, DamageInv, Accounted, Interval, Ended

(* Where a unit put through the gate lies: after all of its track so far.  *)
Onward(p) ==
  LET t == Stream[p].track
  IN  sink.from < p /\ previous[t] < p

(* What delivering a unit does to the interval of its track.               *)
LEMMA DeliverDamage ==
  ASSUME AllTypes, DamageInv, NEW p \in Position, Onward(p), NEW f \in BOOLEAN, NEW zero,
         Deliver(p, f, zero)
  PROVE  /\ open' \in [Track -> [start: Nat, end: Nat]]
         /\ previous' = [previous EXCEPT ![Stream[p].track] = p]
         /\ sink'.from = sink.from
         /\ \A t \in Track : Accounted(t)'
<1> DEFINE t == Stream[p].track
           span == Opened(p, f)
           ends == span # NoDamage /\ Recovers(p)
           bad == IF f THEN sink.damaged[t] \cup {p} ELSE sink.damaged[t]
<1>1. /\ p \in Nat \ {0} /\ t \in Track
      /\ sink \in [first: [Kind -> How], seek: [Track -> How], told: Nat, shown: Nat,
                   damaged: [Track -> SUBSET Nat], from: Nat]
      /\ open \in [Track -> [start: Nat, end: Nat]] /\ previous \in [Track -> Nat]
  BY UnitType DEF AllTypes, Types, SinkType, DamageInv, Forward
<1>2. /\ open' = [open EXCEPT ![t] = IF ends THEN NoDamage ELSE span]
      /\ previous' = [previous EXCEPT ![t] = p]
      /\ sink'.from = sink.from
      /\ sink'.damaged = [sink.damaged EXCEPT ![t] = IF ends /\ Covers(span, bad) THEN {} ELSE bad]
  BY <1>1 DEF Deliver
<1>3. NoDamage = [start |-> 0, end |-> 0]
  BY DEF NoDamage, None
<1>4. /\ Accounted(t)
      /\ sink.from < p /\ previous[t] < p
      /\ previous[t] # None => sink.from < previous[t]
  BY <1>1 DEF DamageInv, Forward, Onward
<1>5. /\ span \in [start: Nat, end: Nat]
      /\ span # NoDamage => sink.from < span.start /\ span.start <= p /\ span.end = p
  <2>1. CASE open[t] # NoDamage
    <3>1. span = [open[t] EXCEPT !.end = p]
      BY <2>1 DEF Opened
    <3>2. open[t] \in [start: Nat, end: Nat] /\ sink.from < open[t].start /\ open[t].start <= p
      BY <1>1, <1>4, <2>1 DEF Accounted, Interval
    <3> QED
      BY <1>1, <3>1, <3>2
  <2>2. CASE open[t] = NoDamage /\ f
    <3>1. span = [start |-> IF previous[t] # None THEN previous[t] ELSE p, end |-> p]
      BY <2>2 DEF Opened
    <3> QED
      BY <1>1, <1>4, <3>1
  <2>3. CASE open[t] = NoDamage /\ ~f
    <3>1. span = NoDamage
      BY <2>3 DEF Opened
    <3> QED
      BY <1>3, <3>1
  <2> QED
    BY <2>1, <2>2, <2>3
<1>6. bad # {} => Covers(span, bad)
  <2> SUFFICES ASSUME bad # {} PROVE Covers(span, bad)
    OBVIOUS
  <2>1. CASE open[t] # NoDamage
    <3>1. span = [open[t] EXCEPT !.end = p] /\ span # NoDamage
      BY <1>1, <1>3, <2>1 DEF Opened
    <3>2. ASSUME NEW q \in bad PROVE span.start <= q /\ q <= span.end
      <4>1. CASE q \in sink.damaged[t]
        <5>1. open[t].start <= q /\ q <= open[t].end /\ open[t].end <= previous[t]
          BY <1>4, <2>1, <4>1 DEF Accounted, Interval, Covers
        <5>2. q \in Nat /\ open[t] \in [start: Nat, end: Nat] /\ previous[t] \in Nat
          BY <1>1, <4>1
        <5> QED
          BY <1>1, <1>4, <3>1, <5>1, <5>2
      <4>2. CASE q = p
        BY <1>1, <1>5, <3>1, <4>2
      <4> QED
        BY <4>1, <4>2
    <3> QED
      BY <3>1, <3>2 DEF Covers
  <2>2. CASE open[t] = NoDamage
    <3>1. sink.damaged[t] = {}
      BY <1>4, <2>2 DEF Accounted, Covers
    <3>2. f /\ bad = {p}
      BY <3>1
    <3>3. span = [start |-> IF previous[t] # None THEN previous[t] ELSE p, end |-> p]
      BY <2>2, <3>2 DEF Opened
    <3>4. span # NoDamage
      BY <1>1, <1>3, <3>3
    <3>5. span.start <= p /\ p <= span.end
      BY <1>1, <1>4, <3>3
    <3> QED
      BY <3>2, <3>4, <3>5 DEF Covers
  <2> QED
    BY <2>1, <2>2
<1> HIDE DEF span, bad, ends
<1>7. Accounted(t)'
  <2>1. CASE ends
    <3>1. open'[t] = NoDamage /\ sink'.damaged[t] = {}
      BY <1>1, <1>2, <1>6, <2>1
    <3> QED
      BY <1>3, <3>1 DEF Accounted, Interval
  <2>2. CASE ~ends
    <3>1. open'[t] = span /\ sink'.damaged[t] = bad /\ previous'[t] = p
      BY <1>1, <1>2, <2>2
    <3> QED
      BY <1>1, <1>2, <1>5, <1>6, <3>1 DEF Accounted, Interval
  <2> QED
    BY <2>1, <2>2
<1>8. ASSUME NEW s \in Track, s # t PROVE Accounted(s)'
  <2>1. /\ open'[s] = open[s] /\ sink'.damaged[s] = sink.damaged[s]
        /\ previous'[s] = previous[s] /\ sink'.from = sink.from
    BY <1>1, <1>2, <1>8
  <2>2. Accounted(s)
    BY DEF DamageInv
  <2> QED
    BY <2>1, <2>2 DEF Accounted, Interval
<1>9. open' \in [Track -> [start: Nat, end: Nat]]
  BY <1>1, <1>2, <1>3, <1>5
<1> QED
  BY <1>2, <1>7, <1>8, <1>9


(* The unit the parsers give the gate is next in order.                    *)
LEMMA HereOnward ==
  ASSUME Places, Forward, InChunk
  PROVE  Here \in Position /\ Stream[Here].track \in Track /\ Onward(Here) /\ Here = chunk[2]
<1>1. Here \in Position /\ Here = chunk[2]
  BY HereIsPosition DEF Here
<1> QED
  BY <1>1, UnitType DEF Onward, Forward

(* A step of the parsers alone that reads no further than one position.    *)
LEMMA ParserForward ==
  ASSUME AllTypes, Forward, UNCHANGED previous, sink'.from = sink.from,
         chunk'[2] \in {chunk[2], chunk[2] + 1},
         \A t \in Track : \/ held'[t] \in {None, held[t]}
                          \/ held'[t] = chunk[2] /\ chunk'[2] = chunk[2] + 1
  PROVE  Forward'
<1>1. /\ chunk[2] \in Nat /\ held \in [Track -> Nat] /\ previous \in [Track -> Nat]
      /\ sink.from \in Nat
  BY DEF AllTypes, Types, Places, SinkType, Forward
<1> QED
  BY <1>1 DEF Forward, None

(* The steps that put a unit through the gate.                             *)
LEMMA GateDamage ==
  ASSUME AllTypes, DamageInv, NEW p \in Position, Onward(p), p <= chunk[2],
         AccessUnit(p, lost[Stream[p].track]),
         phase \in {"push", "flush"}, phase' = phase,
         chunk'[2] \in {chunk[2], chunk[2] + 1}, p < chunk'[2],
         \A t \in Track :
           \/ held'[t] = None
           \/ t # Stream[p].track /\ held'[t] = held[t]
           \/ p < chunk[2] /\ held'[t] = chunk[2] /\ chunk'[2] = chunk[2] + 1
  PROVE  DamageInv'
<1> DEFINE s == Stream[p].track
           f == lost[s]
           zero == IF origin = None THEN p ELSE origin
<1>1. /\ chunk[2] \in Nat /\ held \in [Track -> Nat] /\ previous \in [Track -> Nat]
      /\ sink.from \in Nat /\ p \in Nat \ {0} /\ s \in Track /\ f \in BOOLEAN
      /\ sink \in [first: [Kind -> How], seek: [Track -> How], told: Nat, shown: Nat,
                   damaged: [Track -> SUBSET Nat], from: Nat]
  BY UnitType DEF AllTypes, Types, Places, SinkType, DamageInv, Forward
<1>2. Forward /\ open \in [Track -> [start: Nat, end: Nat]] /\ \A t \in Track : Accounted(t)
  BY DEF DamageInv
<1>3. Ended'
  BY DEF Ended
<1>4. ASSUME UNCHANGED << previous, open >>, sink'.from = sink.from,
             sink'.damaged = sink.damaged
      PROVE  DamageInv'
  <2>1. Forward'
    BY <1>1, <1>2, <1>4 DEF Forward, None
  <2>2. \A t \in Track : Accounted(t)'
    BY <1>2, <1>4 DEF Accounted, Interval
  <2> QED
    BY <1>2, <1>3, <1>4, <2>1, <2>2 DEF DamageInv
<1>5. CASE UNCHANGED << selection, timeline, emitted, damage, sink >>
  BY <1>4, <1>5 DEF damage
<1>6. CASE Refuse(p)
  <2>1. sink'.from = sink.from /\ sink'.damaged = sink.damaged
    BY <1>1, <1>6 DEF Refuse
  <2> QED
    BY <1>4, <1>6, <2>1 DEF Refuse, damage
<1>7. CASE Deliver(p, f, zero)
  <2>1. /\ open' \in [Track -> [start: Nat, end: Nat]]
        /\ previous' = [previous EXCEPT ![s] = p]
        /\ sink'.from = sink.from
        /\ \A t \in Track : Accounted(t)'
    BY <1>1, <1>7, DeliverDamage
  <2>2. previous' \in [Track -> Nat] /\ sink'.from < chunk'[2]
    BY <1>1, <1>2, <2>1 DEF Forward
  <2>3. ASSUME NEW t \in Track
        PROVE  /\ previous'[t] < chunk'[2]
               /\ previous'[t] # None => sink'.from < previous'[t]
               /\ held'[t] # None =>
                    sink'.from < held'[t] /\ previous'[t] < held'[t] /\ held'[t] < chunk'[2]
    <3>1. CASE t = s
      <4>1. previous'[t] = p /\ sink'.from < p
        BY <1>1, <2>1, <3>1 DEF Onward
      <4>2. held'[t] # None => held'[t] = chunk[2] /\ p < chunk[2] /\ chunk'[2] = chunk[2] + 1
        BY <3>1
      <4>3. p < chunk'[2] /\ chunk[2] < chunk[2] + 1
        BY <1>1
      <4>4. CASE held'[t] = None
        BY <4>1, <4>3, <4>4
      <4>5. CASE held'[t] # None
        <5>1. held'[t] = chunk[2] /\ p < chunk[2] /\ chunk'[2] = chunk[2] + 1
          BY <4>2, <4>5
        <5>2. sink'.from = sink.from /\ chunk[2] \in Nat /\ p \in Nat /\ sink.from \in Nat
          BY <1>1, <2>1
        <5>3. sink'.from < chunk[2] /\ chunk[2] < chunk'[2] /\ p < chunk'[2]
          BY <4>1, <5>1, <5>2
        <5> QED
          BY <4>1, <5>1, <5>3
      <4> QED
        BY <4>4, <4>5
    <3>2. CASE t # s
      <4>1. previous'[t] = previous[t]
        BY <1>1, <2>1, <3>2
      <4> QED
        BY <1>1, <1>2, <2>1, <4>1 DEF Forward
    <3> QED
      BY <3>1, <3>2
  <2>4. Forward'
    BY <2>2, <2>3 DEF Forward
  <2> QED
    BY <1>3, <2>1, <2>4 DEF DamageInv
<1> QED
  BY <1>5, <1>6, <1>7, AtTheGate DEF AllTypes, Types, ClockType


LEMMA StepDamage ==
  ASSUME AllTypes, DamageInv, Next
  PROVE  DamageInv'
<1>1. /\ chunk \in Nat \X Nat \X Nat /\ held \in [Track -> Nat] /\ previous \in [Track -> Nat]
      /\ 0 < chunk[2] /\ lost \in [Track -> BOOLEAN]
      /\ open \in [Track -> [start: Nat, end: Nat]]
      /\ sink \in [first: [Kind -> How], seek: [Track -> How], told: Nat, shown: Nat,
                   damaged: [Track -> SUBSET Nat], from: Nat]
  BY DEF AllTypes, Types, Places, SinkType, DamageInv, Forward
<1>2. Places /\ Forward /\ \A t \in Track : Accounted(t)
  BY DEF AllTypes, Types, DamageInv
(* Steps that only move the parsers, or tell the sink of something else.   *)
<1>3. ASSUME UNCHANGED << previous, open >>, sink'.from = sink.from,
             sink'.damaged = sink.damaged, phase' = "ended" => phase = "ended",
             chunk'[2] \in {chunk[2], chunk[2] + 1},
             \A t \in Track : \/ held'[t] \in {None, held[t]}
                              \/ held'[t] = chunk[2] /\ chunk'[2] = chunk[2] + 1
      PROVE  DamageInv'
  <2>0. UNCHANGED previous
    BY <1>3
  <2>1. Forward'
    BY <1>2, <1>3, <2>0, ParserForward
  <2>2. \A t \in Track : Accounted(t)'
    BY <1>2, <1>3 DEF Accounted, Interval
  <2>3. Ended'
    BY <1>3 DEF Ended, DamageInv
  <2> QED
    BY <1>1, <1>3, <2>1, <2>2, <2>3 DEF DamageInv
(* Steps after which no damage is pending.                                 *)
<1>4. ASSUME DamageCleared, sink'.damaged = [t \in Track |-> {}], sink'.from \in Nat,
             sink'.from < chunk'[2],
             \A t \in Track : held'[t] # None => sink'.from < held'[t] /\ held'[t] < chunk'[2],
             chunk'[2] \in Nat \ {0}, held' \in [Track -> Nat]
      PROVE  DamageInv'
  <2>1. NoDamage \in [start: Nat, end: Nat]
    BY DEF NoDamage, None
  <2>2. /\ open' = [t \in Track |-> NoDamage] /\ previous' = [t \in Track |-> None]
    BY <1>4 DEF DamageCleared
  <2>3. open' \in [Track -> [start: Nat, end: Nat]] /\ \A t \in Track : open'[t] = NoDamage
    BY <2>1, <2>2
  <2>4. \A t \in Track : previous'[t] = 0
    BY <2>2 DEF None
  <2>6. previous' \in [Track -> Nat]
    BY <2>2 DEF None
  <2>7. ASSUME NEW t \in Track
        PROVE  /\ previous'[t] < chunk'[2]
               /\ previous'[t] # None => sink'.from < previous'[t]
               /\ held'[t] # None =>
                    sink'.from < held'[t] /\ previous'[t] < held'[t] /\ held'[t] < chunk'[2]
    <3>1. previous'[t] = 0 /\ None = 0 /\ chunk'[2] \in Nat \ {0} /\ sink'.from \in Nat
      BY <1>4, <2>4 DEF None
    <3>2. previous'[t] < chunk'[2]
      BY <3>1
    <3>3. ASSUME held'[t] # None
          PROVE  sink'.from < held'[t] /\ previous'[t] < held'[t] /\ held'[t] < chunk'[2]
      <4>1. sink'.from < held'[t] /\ held'[t] < chunk'[2] /\ held'[t] \in Nat
        BY <1>4, <3>3
      <4> QED
        BY <3>1, <4>1
    <3> QED
      BY <3>1, <3>2, <3>3
  <2>8. Forward'
    BY <1>4, <2>6, <2>7 DEF Forward
  <2>5. \A t \in Track : Accounted(t)'
    BY <1>4, <2>1, <2>3 DEF Accounted, Interval
  <2> QED
    BY <1>4, <2>3, <2>5, <2>8 DEF DamageInv, Ended
<1>5. ASSUME NEW n \in 1 .. MaxChunk, PushBegin(n) PROVE DamageInv'
  BY <1>1, <1>3, <1>5 DEF PushBegin, parser, damage
<1>6. CASE Lose \/ Unrouted
  BY <1>1, <1>3, <1>6 DEF Lose, Unrouted, Next1, parser, damage
<1>7. CASE PushEnd \/ FlushBegin \/ SetSubtitlePassthrough
  BY <1>1, <1>3, <1>7 DEF PushEnd, FlushBegin, SetSubtitlePassthrough, parser, damage
<1>8. ASSUME NEW s \in Mpts, Mpt(s) PROVE DamageInv'
  <2>1. held' = [t \in Track |-> IF t \in s THEN held[t] ELSE None] /\ UNCHANGED << chunk, sink, previous, open, phase >>
    BY <1>8 DEF Mpt, damage
  <2>2. \A t \in Track : held'[t] \in {None, held[t]}
    BY <2>1
  <2> QED
    BY <1>3, <2>1, <2>2
<1>9. CASE TransportNtp
  <2>1. sink'.from = sink.from /\ sink'.damaged = sink.damaged
    BY <1>1, <1>9 DEF TransportNtp
  <2> QED
    BY <1>1, <1>3, <1>9, <2>1 DEF TransportNtp, parser, damage
<1>10. CASE TransportDiscontinuity
  BY <1>1, <1>3, <1>10 DEF TransportDiscontinuity, Next1, ParsersReset, damage
<1>11. ASSUME NEW k \in Kind, NEW t \in Choices(k), SelectTrack(k, t) PROVE DamageInv'
  <2>1. sink'.from = sink.from /\ sink'.damaged = sink.damaged
    BY <1>1, <1>11 DEF SelectTrack
  <2> QED
    BY <1>1, <1>3, <1>11, <2>1 DEF SelectTrack, parser, damage
<1>12. CASE Reset
  <2>1. /\ sink'.damaged = [t \in Track |-> {}] /\ sink'.from = 0
        /\ chunk'[2] = 1 /\ \A t \in Track : held'[t] = None
        /\ held' \in [Track -> Nat]
    BY <1>1, <1>12 DEF Reset, Restarted, ParsersReset, None
  <2> QED
    BY <1>4, <1>12, <2>1 DEF Reset
<1>13. ASSUME NEW at \in Seeks, NEW keep \in BOOLEAN, Reposition(at, keep) PROVE DamageInv'
  <2>1. at \in Nat
    BY SeekAssumption
  <2>2. sink'.damaged = [t \in Track |-> {}] /\ sink'.from = at
    BY <1>1, <1>13 DEF Reposition, Restarted
  <2>3. /\ chunk'[2] = at + 1 /\ \A t \in Track : held'[t] = None
        /\ held' \in [Track -> Nat]
    BY <1>13 DEF Reposition, ParsersReset, None
  <2>4. DamageCleared
    BY <1>13 DEF Reposition
  <2> QED
    BY <1>4, <2>1, <2>2, <2>3, <2>4
<1>14. ASSUME NEW same \in BOOLEAN, SelectService(same) PROVE DamageInv'
  <2>1. sink'.damaged = [t \in Track |-> {}] /\ sink'.from = sink.from
    BY <1>1, <1>14 DEF SelectService
  <2>2. /\ chunk' = chunk /\ DamageCleared /\ \A t \in Track : held'[t] \in {None, held[t]}
        /\ held' \in [Track -> Nat]
    BY <1>1, <1>14 DEF SelectService, ParsersReset, parser, None
  <2>3. \A t \in Track : held'[t] # None => sink.from < held'[t] /\ held'[t] < chunk[2]
    BY <1>2, <2>2 DEF Forward
  <2> QED
    BY <1>1, <1>2, <1>4, <2>1, <2>2, <2>3 DEF Forward
<1>15. CASE FlushEnd
  <2>1. /\ open' = [t \in Track |-> NoDamage]
        /\ UNCHANGED << chunk, held, previous >>
        /\ sink'.from = sink.from
        /\ sink'.damaged = [t \in Track |-> Reported(t)]
    BY <1>1, <1>15 DEF FlushEnd
  <2>2. \A t \in Track : Reported(t) = {}
    BY <1>2 DEF Reported, Accounted
  <2>3. NoDamage \in [start: Nat, end: Nat]
    BY DEF NoDamage, None
  <2>4. /\ open' \in [Track -> [start: Nat, end: Nat]]
        /\ \A t \in Track : open'[t] = NoDamage /\ sink'.damaged[t] = {}
    BY <2>1, <2>2, <2>3
  <2>5. Forward'
    BY <1>2, <2>1 DEF Forward
  <2> QED
    BY <2>3, <2>4, <2>5 DEF DamageInv, Accounted, Interval, Ended
<1>16. CASE NextPicture
  <2> DEFINE s == Stream[Here].track
  <2>1. /\ Here \in Position /\ s \in Track /\ Here = chunk[2] /\ phase = "push" /\ phase' = phase
        /\ chunk'[2] = chunk[2] + 1
        /\ held' = [held EXCEPT ![s] = chunk[2]]
    BY <1>1, <1>2, <1>16, HereOnward DEF NextPicture, Next1, InChunk
  <2>2. CASE held[s] = None
    BY <1>1, <1>3, <1>16, <2>1, <2>2 DEF NextPicture, damage
  <2>3. CASE held[s] # None
    <3> DEFINE p == held[s]
    <3>1. p \in Position /\ Stream[p].track = s /\ p < chunk[2] /\ Onward(p) /\ p \in Nat
      BY <1>1, <1>2, <2>1, <2>3 DEF Places, Forward, Onward
    <3>2. AccessUnit(p, lost[Stream[p].track])
      BY <1>16, <2>3 DEF NextPicture, Emit
    <3>3. \A t \in Track : \/ t # s /\ held'[t] = held[t]
                           \/ held'[t] = chunk[2]
      BY <1>1, <2>1
    <3>4. p <= chunk[2] /\ p < chunk'[2]
      BY <1>1, <2>1, <3>1
    <3> QED
      BY <2>1, <3>1, <3>2, <3>3, <3>4, GateDamage
  <2> QED
    BY <2>2, <2>3
<1>17. CASE WholeUnit
  <2> DEFINE p == Here
             s == Stream[Here].track
  <2>1. /\ p \in Position /\ s \in Track /\ Onward(p) /\ p = chunk[2]
        /\ phase = "push" /\ phase' = phase
        /\ chunk'[2] = chunk[2] + 1 /\ held' = held
        /\ AccessUnit(p, lost[s])
    BY <1>1, <1>2, <1>17, HereOnward DEF WholeUnit, Next1, InChunk, Emit
  <2>2. held[s] = None
    BY <1>2, <1>17, <2>1 DEF WholeUnit, Places
  <2> QED
    BY <1>1, <2>1, <2>2, GateDamage
<1>18. ASSUME NEW t \in Track, FlushTrack(t) PROVE DamageInv'
  <2> DEFINE p == held[t]
  <2>1. p \in Position /\ Stream[p].track = t /\ p < chunk[2] /\ Onward(p)
    BY <1>2, <1>18 DEF FlushTrack, Places, Forward, Onward
  <2>2. /\ AccessUnit(p, lost[Stream[p].track])
        /\ held' = [held EXCEPT ![t] = None] /\ chunk' = chunk
        /\ phase = "flush" /\ phase' = phase
    BY <1>18, <2>1 DEF FlushTrack, Emit
  <2>3. \A s \in Track : \/ held'[s] = None
                         \/ s # t /\ held'[s] = held[s]
    BY <1>1, <2>2
  <2> QED
    BY <1>1, <2>1, <2>2, <2>3, GateDamage
<1> QED
  BY <1>5, <1>6, <1>7, <1>8, <1>9, <1>10, <1>11, <1>12, <1>13, <1>14, <1>15, <1>16,
     <1>17, <1>18 DEF Next, Callback

(***************************************************************************)
(* observe_damage and finish_damage_spans cover every damaged unit, and    *)
(* clear_damage_state keeps intervals from reaching over a restart.        *)
(***************************************************************************)
THEOREM DamageReported == Spec => []DamageAccounted
<1>1. AllTypes /\ DamageInv /\ [Next]_vars => DamageInv'
  <2> SUFFICES ASSUME AllTypes, DamageInv, [Next]_vars PROVE DamageInv'
    OBVIOUS
  <2>1. CASE UNCHANGED vars
    BY <2>1 DEF vars, parser, damage, DamageInv, Forward, Accounted, Interval, Ended
  <2> QED
    BY <2>1, StepDamage
<1>2. DamageInv => DamageAccounted
  BY DEF DamageInv, DamageAccounted, Accounted, Interval, Ended
<1> QED
  BY <1>1, <1>2, InitDamage, TypesHold, PTL DEF Spec
===============================================================================
