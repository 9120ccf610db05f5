------------------------------- MODULE Demuxer -------------------------------
(***************************************************************************)
(* Demuxer::Impl, between the parsers and the sink, for the access units   *)
(* of several tracks: push, flush, reset, reposition, selectService,       *)
(* selectTrack, the gate every access unit passes (access_unit), the       *)
(* timeline and broadcast clock, and the damage intervals.                 *)
(*                                                                         *)
(* selectTrack may come from a sink callback in the middle of a push or a  *)
(* flush.  The other calls come between pushes.                            *)
(*                                                                         *)
(* The input is the constant Stream; a position in it is at once an input  *)
(* offset and an absolute time (source NTP time plus presentation offset). *)
(* Of the parsers, what the demuxer depends on is kept: the tracks routed  *)
(* by the last MPT, the picture a video track holds until the next one,    *)
(* and the discontinuity flag a loss leaves behind.                        *)
(***************************************************************************)
EXTENDS Integers, Sequences

CONSTANTS
  Track,    (* stable track ids                                            *)
  Video,    (* the tracks of kind Video                                    *)
  Subtitle, (* the tracks of kind Subtitle; the others are audio           *)
  Stream,   (* Stream[p]: the access unit at position p of the input       *)
  Mpts,     (* the sets of tracks an MPT of the input lists                *)
  Seeks,    (* the input offsets of repositions                            *)
  MaxChunk, (* bound: access units in one push                             *)
  MaxEpoch, (* bound: repositions since the last reset                     *)
  MaxChoices (* bound: calls of selectTrack and setSubtitlePassthroughEnabled *)

ASSUME TrackAssumption == Video \cap Subtitle = {} /\ (Video \cup Subtitle) \subseteq Track

(* What the checks of access_unit say of a unit: an inconsistent           *)
(* timescale, a time that normalises out of range, or neither.             *)
Verdict == {"sound", "timescale", "range"}

(* An MPU sequence number is any number; 0 stands for none here.           *)
ASSUME StreamAssumption ==
  Stream \in Seq([track: Track, rap: BOOLEAN, mpu: Nat \ {0}, verdict: Verdict])

ASSUME MptAssumption == Mpts \subseteq SUBSET Track

ASSUME SeekAssumption == Seeks \subseteq 0 .. Len(Stream)

None == 0

(* next_track_id_ starts at 1.                                             *)
ASSUME NoTrackZero == None \notin Track

KindOf(t) ==
  CASE t \in Video -> "video" [] t \in Subtitle -> "subtitle" [] OTHER -> "audio"

Kind == {KindOf(t) : t \in Track}

Position == DOMAIN Stream

VARIABLES
  phase,       (* "idle", "push", "flush" or "ended" (idle after a flush)  *)
  chunk,       (* << input_end_offset_, next position, end of the push >>  *)
  routed,      (* tracks_ of the parsers                                   *)
  held,        (* the picture a video track of the parser holds            *)
  lost,        (* discontinuity of a track of the parser                   *)
  current,     (* current_tracks_                                          *)
  selection,   (* selected_tracks_ and the three arrays beside it          *)
  passthrough, (* subtitle_passthrough_enabled_                            *)
  origin,      (* origin_: the absolute time of media time zero            *)
  clock,       (* broadcast_clock_, as the broadcast time of media time 0  *)
  clockMpu,    (* last_clock_mpu_sequence_                                 *)
  epoch,       (* reposition_epoch_                                        *)
  emitted,     (* emitted_reposition_epochs_                               *)
  previous,    (* last_access_units_                                       *)
  open,        (* pending_damage_                                          *)
  sink,        (* history: what the sink has been told                     *)
  choices      (* history: choices made by the application                 *)

parser   == << routed, held, lost >>
timeline == << origin, clock, clockMpu >>
damage   == << previous, open >>
vars == << phase, chunk, parser, current, selection, passthrough, timeline, epoch,
           emitted, damage, sink, choices >>

-----------------------------------------------------------------------------
NoClock == [base |-> None, transport |-> FALSE]

Unselected == [track |-> None, boundary |-> 0, pending |-> FALSE, rap |-> FALSE]

NoDamage == [start |-> None, end |-> None]

(***************************************************************************)
(* What the sink knows.  first[k]: how the first unit of kind k since the  *)
(* selection was armed came ("open": nothing is armed; "due": none yet;    *)
(* "refused": a check of access_unit refused it; "marked" or "unmarked").  *)
(* seek[t]: the same for the first unit of t after a reposition.  told:    *)
(* the clock last told; shown: absolute time less media time of the last   *)
(* video unit on this timeline.  damaged[t]: damaged units of t that no    *)
(* damage span has covered.  from: where the input was last restarted.     *)
(***************************************************************************)
Told == [first |-> [k \in Kind |-> "open"], seek |-> [t \in Track |-> "open"],
         told |-> None, shown |-> None, damaged |-> [t \in Track |-> {}], from |-> 0]

Init ==
  /\ phase = "idle"
  /\ chunk = << 0, 1, 1 >>
  /\ routed = {} /\ current = {}
  /\ held = [t \in Track |-> None]
  /\ lost = [t \in Track |-> FALSE]
  /\ selection = [k \in Kind |-> Unselected]
  /\ passthrough = FALSE
  /\ origin = None /\ clock = NoClock /\ clockMpu = None
  /\ epoch = 0
  /\ emitted = [t \in Track |-> 0]
  /\ previous = [t \in Track |-> None]
  /\ open = [t \in Track |-> NoDamage]
  /\ sink = Told
  /\ choices = 0

Idle == phase \in {"idle", "ended"}

-----------------------------------------------------------------------------
(* access_unit, step by step.  A unit is its position and the parser's     *)
(* discontinuity flag.                                                     *)
Bypass(t) == passthrough /\ t \in Subtitle

(* The gate: what a unit meets before its time is looked at.               *)
Wanted(t) ==
  /\ t \in current
  /\ Bypass(t) \/ selection[KindOf(t)].track \in {None, t}

Arriving(t) == ~Bypass(t) /\ selection[KindOf(t)].pending

Passes(p) ==
  LET t == Stream[p].track
      s == selection[KindOf(t)]
  IN  /\ Wanted(t)
      /\ Arriving(t) => p - 1 >= s.boundary /\ (s.rap => Stream[p].rap)

Consumed(t) ==
  IF Arriving(t)
  THEN [selection EXCEPT ![KindOf(t)].pending = FALSE, ![KindOf(t)].rap = FALSE]
  ELSE selection

(* A video unit on the timeline whose media time zero is z moves the       *)
(* clock; the sink is told once per MPU, and at a discontinuity.           *)
ClockTold(p, flagged) == clockMpu # Stream[p].mpu \/ flagged

(* observe_damage: a video interval ends at a random access unit, any      *)
(* other at its first unit.                                                *)
Opened(p, flagged) ==
  LET t == Stream[p].track
  IN  CASE open[t] # NoDamage -> [open[t] EXCEPT !.end = p]
        [] flagged /\ open[t] = NoDamage ->
             [start |-> IF previous[t] # None THEN previous[t] ELSE p, end |-> p]
        [] OTHER -> NoDamage

Recovers(p) == Stream[p].track \notin Video \/ Stream[p].rap

(* A reported span covers the damaged units it stands for.                 *)
Covers(span, units) ==
  /\ span # NoDamage
  /\ \A q \in units : span.start <= q /\ q <= span.end

-----------------------------------------------------------------------------
(* How the sink sees a unit at position p come: marked for a selection     *)
(* when it consumed one, for a reposition when its track had not met one.  *)
SawFirst(p, marked) ==
  LET t == Stream[p].track
      k == KindOf(t)
      proper == marked /\ p > selection[k].boundary /\ (t \in Video => Stream[p].rap)
  IN  IF Bypass(t) THEN sink.first
      ELSE [sink.first EXCEPT ![k] =
             CASE @ = "due" -> IF proper THEN "marked" ELSE "unmarked"
               [] @ # "due" -> IF marked THEN "unmarked" ELSE @]

SawSeek(p, marked) ==
  [sink.seek EXCEPT ![Stream[p].track] =
     CASE @ = "due" -> IF marked THEN "marked" ELSE "unmarked"
       [] @ # "due" -> IF marked THEN "unmarked" ELSE @]

Refuse(p) ==
  /\ selection' = Consumed(Stream[p].track)
  /\ sink' = IF Arriving(Stream[p].track)
             THEN [sink EXCEPT !.first[KindOf(Stream[p].track)] = "refused"]
             ELSE sink
  /\ UNCHANGED << clock, clockMpu, emitted, damage >>

Deliver(p, flagged, zero) ==
  LET t == Stream[p].track
      chosen == Arriving(t)
      sought == epoch # 0 /\ emitted[t] # epoch
      tell == t \in Video /\ ClockTold(p, flagged \/ chosen)
      span == Opened(p, flagged)
      ends == span # NoDamage /\ Recovers(p)
      bad == IF flagged THEN sink.damaged[t] \cup {p} ELSE sink.damaged[t]
  IN  /\ selection' = Consumed(t)
      /\ clock' = IF t \in Video THEN [base |-> zero, transport |-> FALSE] ELSE clock
      /\ clockMpu' = IF tell THEN Stream[p].mpu ELSE clockMpu
      /\ emitted' = IF sought THEN [emitted EXCEPT ![t] = epoch] ELSE emitted
      /\ open' = [open EXCEPT ![t] = IF ends THEN NoDamage ELSE span]
      /\ previous' = [previous EXCEPT ![t] = p]
      /\ sink' = [sink EXCEPT
           !.first = SawFirst(p, chosen),
           !.seek = SawSeek(p, sought),
           !.told = IF tell THEN zero ELSE @,
           !.shown = IF t \in Video THEN zero ELSE @,
           !.damaged[t] = IF ends /\ Covers(span, bad) THEN {} ELSE bad]

AccessUnit(p, flagged) ==
  LET v == Stream[p].verdict
      zero == IF origin = None THEN p ELSE origin
  IN  IF ~Passes(p) THEN UNCHANGED << selection, timeline, emitted, damage, sink >>
      ELSE /\ origin' = IF v = "timescale" THEN origin ELSE zero
           /\ IF v = "sound" THEN Deliver(p, flagged, zero) ELSE Refuse(p)

-----------------------------------------------------------------------------
(* push: the parser turns the bytes of the chunk into access units.        *)
PushBegin(n) ==
  /\ Idle
  /\ phase' = "push"
  /\ chunk' = [chunk EXCEPT ![3] = @ + n]
  /\ UNCHANGED << parser, current, selection, passthrough, timeline, epoch, emitted,
                  damage, sink, choices >>

(* input_end_offset_ moves once the whole chunk has been parsed.           *)
PushEnd ==
  /\ phase = "push" /\ chunk[2] = chunk[3]
  /\ phase' = "idle"
  /\ chunk' = [chunk EXCEPT ![1] = chunk[3] - 1]
  /\ UNCHANGED << parser, current, selection, passthrough, timeline, epoch, emitted,
                  damage, sink, choices >>

Next1 == chunk' = [chunk EXCEPT ![2] = @ + 1]

InChunk == phase = "push" /\ chunk[2] < chunk[3]

Here == chunk[2]

(* The unit was damaged on the way: its track remembers.                   *)
Lose ==
  /\ InChunk /\ Stream[Here].track \in routed
  /\ Next1
  /\ lost' = [lost EXCEPT ![Stream[Here].track] = TRUE]
  /\ UNCHANGED << phase, routed, held, current, selection, passthrough, timeline,
                  epoch, emitted, damage, sink, choices >>

(* No MPT routes the packet id of the unit.                                *)
Unrouted ==
  /\ InChunk /\ Stream[Here].track \notin routed
  /\ Next1
  /\ UNCHANGED << phase, parser, current, selection, passthrough, timeline, epoch,
                  emitted, damage, sink, choices >>

(* emit_access_unit takes the flag of the track with the unit.             *)
Emit(p) ==
  /\ AccessUnit(p, lost[Stream[p].track])
  /\ UNCHANGED << current, passthrough, epoch, choices >>

(* A picture is complete when the next one of its track begins.            *)
NextPicture ==
  LET t == Stream[Here].track
  IN  /\ InChunk /\ t \in routed /\ t \in Video
      /\ Next1
      /\ held' = [held EXCEPT ![t] = Here]
      /\ IF held[t] = None
         THEN /\ lost' = lost
              /\ UNCHANGED << current, selection, passthrough, timeline, epoch,
                              emitted, damage, sink, choices >>
         ELSE /\ lost' = [lost EXCEPT ![t] = FALSE]
              /\ Emit(held[t])
      /\ UNCHANGED << phase, routed >>

WholeUnit ==
  LET t == Stream[Here].track
  IN  /\ InChunk /\ t \in routed /\ t \notin Video
      /\ Next1
      /\ lost' = [lost EXCEPT ![t] = FALSE]
      /\ Emit(Here)
      /\ UNCHANGED << phase, routed, held >>

(* mpt_snapshot: the parsers route, and the demuxer lists, the tracks of   *)
(* the MPT; the parser of a track that goes drops its picture.             *)
Mpt(s) ==
  /\ phase = "push"
  /\ s # routed \/ s # current
  /\ routed' = s /\ current' = s
  /\ held' = [t \in Track |-> IF t \in s THEN held[t] ELSE None]
  /\ lost' = [t \in Track |-> t \in s /\ lost[t]]
  /\ UNCHANGED << phase, chunk, selection, passthrough, timeline, epoch, emitted,
                  damage, sink, choices >>

ParsersReset ==
  /\ routed' = {}
  /\ held' = [t \in Track |-> None]
  /\ lost' = [t \in Track |-> FALSE]

(* transport_ntp: a full NTP time in the transport gives a clock to those  *)
(* who have none.                                                          *)
TransportNtp ==
  /\ phase = "push" /\ clock.base = None
  /\ clock' = [base |-> Here, transport |-> TRUE]
  /\ sink' = [sink EXCEPT !.told = Here]
  /\ UNCHANGED << phase, chunk, parser, current, selection, passthrough, origin,
                  clockMpu, epoch, emitted, damage, choices >>

WithoutTransportClock == IF clock.transport THEN NoClock ELSE clock

(* transport_discontinuity, at a resynchronisation of the TLV framing.     *)
TransportDiscontinuity ==
  /\ InChunk
  /\ Next1
  /\ ParsersReset
  /\ clock' = WithoutTransportClock
  /\ UNCHANGED << phase, current, selection, passthrough, origin, clockMpu, epoch,
                  emitted, damage, sink, choices >>

-----------------------------------------------------------------------------
(* flush: the parsers give up the pictures they hold, then the intervals   *)
(* that are still open are reported.                                       *)
FlushBegin ==
  /\ Idle
  /\ phase' = "flush"
  /\ UNCHANGED << chunk, parser, current, selection, passthrough, timeline, epoch,
                  emitted, damage, sink, choices >>

FlushTrack(t) ==
  /\ phase = "flush" /\ t \in routed /\ held[t] # None
  /\ held' = [held EXCEPT ![t] = None]
  /\ lost' = [lost EXCEPT ![t] = TRUE]
  /\ Emit(held[t])
  /\ UNCHANGED << phase, chunk, routed >>

Reported(t) ==
  IF Covers(open[t], sink.damaged[t]) THEN {} ELSE sink.damaged[t]

(* finish_damage_spans.                                                    *)
FlushEnd ==
  /\ phase = "flush" /\ \A t \in routed : held[t] = None
  /\ phase' = "ended"
  /\ lost' = [t \in Track |-> t \in routed]
  /\ open' = [t \in Track |-> NoDamage]
  /\ sink' = [sink EXCEPT !.damaged = [t \in Track |-> Reported(t)]]
  /\ UNCHANGED << chunk, routed, held, current, selection, passthrough, timeline,
                  epoch, emitted, previous, choices >>

-----------------------------------------------------------------------------
(* A choice that is armed: its first unit is marked, video waits for a     *)
(* random access unit.                                                     *)
Armed(k, t, b) ==
  [track |-> t, boundary |-> b, pending |-> t # None, rap |-> k = "video" /\ t # None]

(* arm_track_selections.                                                   *)
ArmAll(b) == selection' = [k \in Kind |-> Armed(k, selection[k].track, b)]

Expect(k, t, first) == [first EXCEPT ![k] = IF t = None THEN "open" ELSE "due"]

ExpectAll == [k \in Kind |-> IF selection[k].track = None THEN "open" ELSE "due"]

Choose == choices < MaxChoices /\ choices' = choices + 1

Bug_SelectTrack(k, t) ==
  /\ t # selection[k].track
  /\ Choose
  /\ selection' = [selection EXCEPT ![k].track = t]
  /\ clockMpu' = IF k = "video" THEN None ELSE clockMpu
  /\ sink' = [sink EXCEPT !.first = Expect(k, t, @)]
  /\ UNCHANGED << phase, chunk, parser, current, passthrough, origin, clock, epoch,
                  emitted, damage >>

(* From the application, or from a callback of a push or a flush.          *)
SelectTrack(k, t) ==
  /\ t # selection[k].track
  /\ Choose
  /\ selection' = [selection EXCEPT ![k] = Armed(k, t, chunk[1])]
  /\ clockMpu' = IF k = "video" THEN None ELSE clockMpu
  /\ sink' = [sink EXCEPT !.first = Expect(k, t, @)]
  /\ UNCHANGED << phase, chunk, parser, current, passthrough, origin, clock, epoch,
                  emitted, damage >>

SetSubtitlePassthrough ==
  /\ passthrough' = ~passthrough
  /\ Choose
  /\ UNCHANGED << phase, chunk, parser, current, selection, timeline, epoch, emitted,
                  damage, sink >>

Bug_DamageCleared ==
  /\ open' = [t \in Track |-> NoDamage]
  /\ UNCHANGED previous

DamageCleared ==
  /\ previous' = [t \in Track |-> None]
  /\ open' = [t \in Track |-> NoDamage]

Restarted(at) ==
  [sink EXCEPT !.damaged = [t \in Track |-> {}], !.from = at]

(* reset, for another source: everything but the selections goes.          *)
Bug_Reset ==
  /\ Idle
  /\ phase' = "idle" /\ chunk' = << 0, 1, 1 >>
  /\ ParsersReset /\ current' = {}
  /\ origin' = None /\ clock' = NoClock /\ clockMpu' = None
  /\ DamageCleared
  /\ epoch' = 0
  /\ ArmAll(0)
  /\ sink' = [Restarted(0) EXCEPT
       !.first = ExpectAll, !.seek = [t \in Track |-> "open"],
       !.told = None, !.shown = None]
  /\ UNCHANGED << passthrough, emitted, choices >>

Reset ==
  /\ Idle
  /\ phase' = "idle" /\ chunk' = << 0, 1, 1 >>
  /\ ParsersReset /\ current' = {}
  /\ origin' = None /\ clock' = NoClock /\ clockMpu' = None
  /\ DamageCleared
  /\ epoch' = 0 /\ emitted' = [t \in Track |-> 0]
  /\ ArmAll(0)
  /\ sink' = [Restarted(0) EXCEPT
       !.first = ExpectAll, !.seek = [t \in Track |-> "open"],
       !.told = None, !.shown = None]
  /\ UNCHANGED << passthrough, choices >>

(* reposition, for a seek in the same source.                              *)
Bug_Reposition(at, keep) ==
  /\ Idle /\ epoch < MaxEpoch
  /\ phase' = "idle" /\ chunk' = << at, at + 1, at + 1 >>
  /\ ParsersReset
  /\ clock' = IF keep THEN WithoutTransportClock ELSE NoClock
  /\ origin' = IF keep THEN origin ELSE None
  /\ DamageCleared
  /\ epoch' = epoch + 1
  /\ ArmAll(at)
  /\ sink' = [Restarted(at) EXCEPT
       !.first = ExpectAll, !.seek = [t \in Track |-> "due"],
       !.told = IF keep THEN @ ELSE None, !.shown = IF keep THEN @ ELSE None]
  /\ UNCHANGED << clockMpu, current, passthrough, emitted, choices >>

Reposition(at, keep) ==
  /\ Idle /\ epoch < MaxEpoch
  /\ phase' = "idle" /\ chunk' = << at, at + 1, at + 1 >>
  /\ ParsersReset
  /\ clock' = IF keep THEN WithoutTransportClock ELSE NoClock
  /\ origin' = IF keep THEN origin ELSE None
  /\ clockMpu' = None
  /\ DamageCleared
  /\ epoch' = epoch + 1
  /\ ArmAll(at)
  /\ sink' = [Restarted(at) EXCEPT
       !.first = ExpectAll, !.seek = [t \in Track |-> "due"],
       !.told = IF keep THEN @ ELSE None, !.shown = IF keep THEN @ ELSE None]
  /\ UNCHANGED << current, passthrough, emitted, choices >>

(* selectService: the parsers keep their contexts when the service stays   *)
(* the same.                                                               *)
SelectService(same) ==
  /\ Idle
  /\ phase' = "idle"
  /\ IF same THEN UNCHANGED parser ELSE ParsersReset
  /\ current' = {}
  /\ origin' = None /\ clock' = NoClock /\ clockMpu' = None
  /\ DamageCleared
  /\ sink' = [sink EXCEPT !.damaged = [t \in Track |-> {}],
                          !.told = None, !.shown = None]
  /\ UNCHANGED << chunk, selection, passthrough, epoch, emitted, choices >>

Choices(k) == {None} \cup {t \in Track : KindOf(t) = k}

Callback == \E k \in Kind : \E t \in Choices(k) : SelectTrack(k, t)

Next ==
  \/ \E n \in 1 .. MaxChunk : chunk[3] + n <= Len(Stream) + 1 /\ PushBegin(n)
  \/ Lose \/ Unrouted \/ NextPicture \/ WholeUnit
  \/ \E s \in Mpts : Mpt(s)
  \/ TransportNtp \/ TransportDiscontinuity
  \/ PushEnd
  \/ FlushBegin \/ (\E t \in Track : FlushTrack(t)) \/ FlushEnd
  \/ Callback \/ SetSubtitlePassthrough
  \/ Reset
  \/ \E at \in Seeks, keep \in BOOLEAN : Reposition(at, keep)
  \/ \E same \in BOOLEAN : SelectService(same)

Spec == Init /\ [][Next]_vars

-----------------------------------------------------------------------------
(* Switching is clean.  Of a selected kind, the first unit the sink gets   *)
(* after the selection was armed (by selectTrack, a reset or a reposition) *)
(* is marked TrackSelection, begins no earlier than the input that was     *)
(* still to come, and is a random access unit if it is video; the later    *)
(* ones are not marked.  The one exception is a first unit that was        *)
(* refused: it takes the mark with it.                                     *)
SwitchIsClean == \A k \in Kind : sink.first[k] # "unmarked"

(* Every seek is marked once on every track, however many units were       *)
(* dropped or refused after it, and a reset starts the count afresh.       *)
SeekMarkedOnce == \A t \in Track : sink.seek[t] # "unmarked"

(* The clock the sink holds is the timeline it is shown: the broadcast     *)
(* time last told belongs to the media time of the last video unit,        *)
(* whatever NTP times, seeks and switches came in between.                 *)
ClockIsTimeline == sink.shown # None => sink.told = sink.shown /\ clock.base = sink.shown

(* What types.hpp says of a BroadcastClock: any media position can be      *)
(* projected from it, so what is told names the time of the media time     *)
(* zero in use.  The clock of transport_ntp does not when a timeline is    *)
(* already running (MCDemuxerClock).                                       *)
ToldClockProjects ==
  [][sink'.told # sink.told /\ sink'.told # None /\ origin # None
       => sink'.told = origin]_vars

(* Damage is accounted for.  A damaged unit the sink got is in a damage    *)
(* span it got, or in the interval that is open; an interval never reaches *)
(* back over a restart of the input; a flush leaves nothing open.          *)
DamageAccounted ==
  /\ \A t \in Track :
       /\ sink.damaged[t] # {} => Covers(open[t], sink.damaged[t])
       /\ open[t] # NoDamage => sink.from < open[t].start /\ open[t].start <= open[t].end
  /\ phase = "ended" => \A t \in Track : sink.damaged[t] = {} /\ open[t] = NoDamage

TypeOK ==
  /\ phase \in {"idle", "push", "flush", "ended"}
  /\ chunk[1] < chunk[2] /\ chunk[2] <= chunk[3]
  /\ routed \in SUBSET Track /\ current \in SUBSET Track
  /\ held \in [Track -> {None} \cup Position]
  /\ lost \in [Track -> BOOLEAN]
  /\ selection \in [Kind -> [track: {None} \cup Track, boundary: 0 .. Len(Stream),
                             pending: BOOLEAN, rap: BOOLEAN]]
  /\ origin \in {None} \cup Position
  /\ epoch \in 0 .. MaxEpoch /\ emitted \in [Track -> 0 .. MaxEpoch]
  /\ previous \in [Track -> {None} \cup Position]
=============================================================================
