------------------------------ MODULE VideoTrack ------------------------------
(***************************************************************************)
(* An HEVC video track, from the MMTP packets of its packet id to the      *)
(* access units and damage spans the application sees: TrackState of       *)
(* MmtpParser (parse_mpu, consume_mfu_piece, consume_complete_mfu,         *)
(* finalize_hevc, emit_access_unit) and Demuxer's observe_damage.          *)
(*                                                                         *)
(* A picture is several NAL units, one per MFU; nothing says that a NAL    *)
(* unit is the last of its picture, so a picture is emitted when the first *)
(* unit of the next one, or another MPU, arrives.                          *)
(*                                                                         *)
(* As in DataAsset, the channel is a walk over the constant Stream.        *)
(***************************************************************************)
EXTENDS MfuAssembler, SequencesExt

CONSTANTS
  Stream,      (* the MMTP packets sent for the track, in order            *)
  AccessUnits, (* AccessUnits[m]: access units the descriptors of MPU m list *)
  MaxJump,     (* how far apart two consecutive deliveries are             *)
  MaxBack      (* how far back the channel goes                            *)

MPU == DOMAIN AccessUnits

(***************************************************************************)
(* A NAL unit by its part in a picture: an access unit delimiter (type     *)
(* 35), a parameter set or prefix SEI (32, 33, 34, 39), the slice with     *)
(* first_slice_segment_in_pic_flag, another slice, or anything else.       *)
(***************************************************************************)
NalKind == {"delimiter", "prefix", "first", "slice", "other"}

(***************************************************************************)
(* A packet: the MPU sequence number, the aggregation and fragmentation    *)
(* flags, the MMTP RAP flag, whether the last aggregated length is cut     *)
(* off, and its units.  A unit: sample_number, the NAL unit it begins      *)
(* (irap: IRAP slice type; valid: its length prefix fits), whether it is   *)
(* shorter than its MFU header, and its payload bytes.                     *)
(***************************************************************************)
UnitRecord ==
  [sample: Nat, nal: NalKind, irap: BOOLEAN, valid: BOOLEAN, short: BOOLEAN, size: Nat]

Packet ==
  [mpu: MPU, aggregation: BOOLEAN, fragmentation: Fragmentation, rap: BOOLEAN,
   cut: BOOLEAN, units: Seq(UnitRecord)]

ASSUME StreamAssumption ==
  /\ Stream \in Seq(Packet)
  /\ \A i \in DOMAIN Stream : Stream[i].aggregation \/ Len(Stream[i].units) = 1

(* The sequence numbers of MPUs and the numbers of their access units.     *)
ASSUME AccessUnitsAssumption ==
  MPU \subseteq Nat /\ \A m \in MPU : AccessUnits[m] \in Nat

(* A sender finishes a NAL unit it has begun before it begins another, and *)
(* the length prefix that makes a NAL unit valid is in its first part.     *)
Carries(i, frag) ==
  i \in DOMAIN Stream /\ ~Stream[i].aggregation /\ Stream[i].fragmentation = frag

ASSUME SenderAssumption ==
  \A i \in DOMAIN Stream :
    /\ Carries(i, 1) \/ Carries(i, 2) => ~Carries(i + 1, 1)
    /\ \A k \in DOMAIN Stream[i].units :
         Stream[i].units[k].valid => Stream[i].units[k].size > 0

(* A jump never spans a whole turn of the sequence number.                 *)
ASSUME MaxJumpAssumption ==
  MaxJump \in 0 .. (SequenceModulus - 2) /\ MaxBack \in 0 .. MaxJump

VARIABLES
  track,     (* TrackState, and the access units the latest packet emitted *)
  described, (* MPUs whose timestamp descriptors the track knows           *)
  damage,    (* pending_damage_ of the track                               *)
  at,        (* history: the packet whose sequence number the track holds  *)
  since,     (* history: first packet of the in-order run ending in at     *)
  seen       (* history: the latest unit emitted since the track joined    *)

vars == << track, described, damage, at, since, seen >>

-----------------------------------------------------------------------------
Position == UNION {{i} \X DOMAIN Stream[i].units : i \in DOMAIN Stream}

UnitAt(x) == Stream[x[1]].units[x[2]]

Piece(i, k) ==
  [seq  |-> i % SequenceModulus,
   tag  |-> << Stream[i].mpu, Stream[i].units[k].sample >>,
   frag |-> Stream[i].fragmentation,
   agg  |-> Stream[i].aggregation,
   part |-> << i, k >>,
   size |-> Stream[i].units[k].size]

IsVcl(u) == u.nal \in {"first", "slice"}

Bug_StartsAccessUnit(u) == u.nal \in {"delimiter", "prefix"}

StartsAccessUnit(u) == u.nal \in {"delimiter", "prefix", "first"}

None == -1

(* PendingHevc.                                                            *)
NoPicture ==
  [active |-> FALSE, parts |-> << >>, size |-> 0, vcl |-> FALSE, rap |-> FALSE,
   mpu |-> 0, sample |-> 0]

NewTrack ==
  [media |-> FreshAssembler(<< 0, 0 >>), pending |-> NoPicture, skipping |-> FALSE,
   wait |-> TRUE, discontinuity |-> FALSE, mpu |-> None, index |-> 0,
   lastDts |-> None, out |-> << >>]

Marked(t) == [t EXCEPT !.discontinuity = TRUE]

(* emit_access_unit: the descriptor's fixed-interval decode times grow     *)
(* with the index of the unit, which is its sample number less one.        *)
AuIndex(t, sample) == IF sample # 0 THEN sample - 1 ELSE t.index

Counted(t, sample) ==
  [t EXCEPT !.index = IF sample = 0 THEN @ + 1
                      ELSE IF @ <= sample - 1 THEN sample ELSE @]

Delivered(t, pic, n) ==
  [t EXCEPT !.lastDts = n,
            !.discontinuity = FALSE,
            !.out = Append(@, [parts |-> pic.parts, rap |-> pic.rap,
                               flagged |-> t.discontinuity])]

Emit(t, pic, known) ==
  LET n == AuIndex(t, pic.sample)
      c == Counted(t, pic.sample)
  IN  IF pic.mpu \in known /\ n < AccessUnits[pic.mpu] /\ n >= t.lastDts
      THEN Delivered(c, pic, n)
      ELSE Marked(c)

(* finalize_hevc.                                                          *)
Cleared(t) == [t EXCEPT !.pending = NoPicture]

Bug_Finalized(t, known) ==
  LET pic == t.pending
  IN  IF ~pic.active THEN t
      ELSE IF ~pic.vcl THEN Cleared(Marked(t))
      ELSE Cleared(Emit([t EXCEPT !.wait = @ /\ ~pic.rap], pic, known))

Finalized(t, known) ==
  LET pic == t.pending
  IN  IF ~pic.active THEN t
      ELSE IF ~pic.vcl THEN Cleared(Marked(t))
      ELSE IF t.wait /\ ~pic.rap THEN Cleared(t)
      ELSE Cleared(Emit([t EXCEPT !.wait = @ /\ ~pic.rap], pic, known))

(* consume_complete_mfu for HEVC.  parts: the fragments of the NAL unit.   *)
NalSize(parts) ==
  LET bytes[n \in 0 .. Len(parts)] ==
        IF n = 0 THEN 0 ELSE bytes[n - 1] + UnitAt(parts[n]).size
  IN  bytes[Len(parts)] - 1

Bug_BeginsAccessUnit(pic, u) ==
  u.nal = "delimiter" \/ (u.nal \in {"prefix", "first"} /\ pic.vcl)

BeginsAccessUnit(pic, u) ==
  \/ u.nal = "delimiter"
  \/ u.nal \in {"prefix", "first"} /\ pic.vcl
  \/ u.sample # 0 /\ pic.active /\ pic.sample # u.sample

AddNal(t, parts, rap, mpu) ==
  LET u    == UnitAt(parts[1])
      size == NalSize(parts)
      pic  == IF t.pending.active THEN t.pending
              ELSE [NoPicture EXCEPT !.active = TRUE, !.mpu = mpu, !.sample = u.sample]
  IN  IF size > MaxAccessUnit - pic.size
      THEN Cleared(Marked(t))
      ELSE [t EXCEPT !.pending =
             [pic EXCEPT !.parts = @ \o parts,
                         !.size = @ + size,
                         !.vcl = @ \/ IsVcl(u),
                         !.rap = @ \/ rap \/ u.irap]]

CompleteMfu(t, parts, rap, mpu, known) ==
  LET u == UnitAt(parts[1])
      s == [t EXCEPT !.skipping = FALSE]
  IN  IF ~u.valid THEN Marked(t)
      ELSE IF t.skipping /\ ~StartsAccessUnit(u) THEN t
      ELSE IF IsVcl(u) /\ u.nal # "first" /\ ~s.pending.vcl
      THEN Cleared(Marked([t EXCEPT !.skipping = TRUE]))
      ELSE AddNal(IF s.pending.active /\ BeginsAccessUnit(s.pending, u)
                  THEN Finalized(s, known) ELSE s, parts, rap, mpu)

(* consume_mfu_piece.                                                      *)
ConsumeMfu(t, i, k, known) ==
  LET p == Piece(i, k)
      r == ConsumePiece(t.media, p)
      s == [t EXCEPT !.media = r.asm, !.discontinuity = @ \/ r.lost]
  IN  IF UnitAt(p.part).short THEN Marked(t)
      ELSE IF Duplicate(t.media, p) THEN t
      ELSE IF r.unit = << >> THEN s
      ELSE CompleteMfu(s, r.unit,
                       \E j \in DOMAIN r.unit : Stream[r.unit[j][1]].rap,
                       Stream[i].mpu, known)

(* The MPU change of parse_mpu.                                            *)
CountDisagrees(t, known) ==
  ~t.wait /\ t.mpu \in known /\ t.index # AccessUnits[t.mpu]

EnterMpu(t, m, known) ==
  LET f == Finalized(t, known)
      g == IF CountDisagrees(f, known) \/ m # t.mpu + 1 THEN Marked(f) ELSE f
  IN  IF t.mpu = m THEN t
      ELSE [(IF t.mpu = None THEN t ELSE g) EXCEPT !.mpu = m, !.index = 0, !.lastDts = None]

(* The track after each unit of a packet.                                  *)
AfterUnits(t, i, known) ==
  LET after[k \in 0 .. Len(Stream[i].units)] ==
        IF k = 0 THEN t ELSE ConsumeMfu(after[k - 1], i, k, known)
  IN  after

(* The whole packet.                                                       *)
ConsumePacket(t, i, known) ==
  LET all == AfterUnits(EnterMpu(t, Stream[i].mpu, known), i, known)[Len(Stream[i].units)]
  IN  IF Stream[i].aggregation /\ Stream[i].cut THEN Marked(all) ELSE all

-----------------------------------------------------------------------------
(***************************************************************************)
(* observe_damage, for one emitted unit.  d.open: the track has an entry   *)
(* in pending_damage_; a random access unit closes it with a DamageSpan    *)
(* whose times are left out here.  d.heard: the units delivered by the     *)
(* latest step, and whether each lies in a damaged interval.               *)
(***************************************************************************)
Calm == [open |-> FALSE, heard |-> << >>]

Bug_Observed(d, au) ==
  [open  |-> au.flagged /\ ~au.rap,
   heard |-> Append(d.heard, [parts |-> au.parts, damaged |-> au.flagged])]

Observed(d, au) ==
  LET in == d.open \/ au.flagged
  IN  [open  |-> in /\ ~au.rap,
       heard |-> Append(d.heard, [parts |-> au.parts, damaged |-> in])]

ObserveAll(d, units) ==
  LET after[n \in 0 .. Len(units)] ==
        IF n = 0 THEN [open |-> d.open, heard |-> << >>] ELSE Observed(after[n - 1], units[n])
  IN  after[Len(units)]

(* finish_damage_spans: a damage without recovery is reported as it is.    *)
Finished(d) == [d EXCEPT !.open = FALSE]

-----------------------------------------------------------------------------
Init ==
  /\ track = NewTrack
  /\ described = {}
  /\ damage = Calm
  /\ at = 0
  /\ since = 0
  /\ seen = << >>

(* A repeated aggregated packet is consumed twice: see DataAsset.          *)
Deliverable(i) ==
  /\ at # 0 => i <= at + MaxJump /\ at <= i + MaxBack
  /\ i = at => ~Stream[i].aggregation

Rejected(pkt) == pkt.aggregation /\ pkt.fragmentation # 0

Latest(before, units) == IF units = << >> THEN before ELSE << units[Len(units)] >>

Hands(t) ==
  /\ track' = t
  /\ damage' = ObserveAll(damage, t.out)
  /\ seen' = Latest(seen, t.out)

Silence == [track EXCEPT !.out = << >>]

(* parse_mpu of a packet of the track.                                     *)
ReceiveMpu(i) ==
  /\ Deliverable(i)
  /\ ~Rejected(Stream[i])
  /\ Hands(ConsumePacket(Silence, i, described))
  /\ IF Stream[i].units = << >> \/ \A k \in DOMAIN Stream[i].units : Stream[i].units[k].short
     THEN UNCHANGED at /\ since' = 0
     ELSE /\ at' = i
          /\ since' = IF i = at + 1 /\ at # 0 /\ since # 0 THEN since
                      ELSE IF i = at THEN since ELSE i
  /\ UNCHANGED described

RejectMpu(i) ==
  /\ Deliverable(i)
  /\ Rejected(Stream[i])
  /\ Hands(Marked(Silence))
  /\ since' = 0
  /\ UNCHANGED << described, at >>

(* parse_mpt: install_track of a track it knows, with the descriptors of   *)
(* one more MPU.                                                           *)
InstallTimestamps(m) ==
  /\ m \notin described
  /\ described' = described \union {m}
  /\ Hands(Silence)
  /\ UNCHANGED << at, since >>

(* MmtpParser::flush, then finish_damage_spans.                            *)
Flush ==
  /\ LET t == Finalized(Silence, described)
     IN  /\ track' = [NewTrack EXCEPT !.discontinuity = TRUE, !.out = t.out]
         /\ damage' = Finished(ObserveAll(damage, t.out))
         /\ seen' = Latest(seen, t.out)
  /\ at' = 0
  /\ since' = 0
  /\ UNCHANGED described

(* The context is reset (transport_discontinuity) and the MPT installs the *)
(* track again: all of TrackState is new, the damage state is not.         *)
Reinstall ==
  /\ track' = NewTrack
  /\ described' = {}
  /\ damage' = ObserveAll(damage, << >>)
  /\ at' = 0
  /\ since' = 0
  /\ seen' = << >>

Next ==
  \/ \E i \in DOMAIN Stream : ReceiveMpu(i)
  \/ \E i \in DOMAIN Stream : RejectMpu(i)
  \/ \E m \in MPU : InstallTimestamps(m)
  \/ Flush
  \/ Reinstall

Spec == Init /\ [][Next]_vars

-----------------------------------------------------------------------------
Pictures ==
  [active: BOOLEAN, parts: Seq(Position), size: 0 .. MaxAccessUnit, vcl: BOOLEAN,
   rap: BOOLEAN, mpu: Nat, sample: Nat]

Units == [parts: Seq(Position), rap: BOOLEAN, flagged: BOOLEAN]

Tracks ==
  [media: Assemblers(Position, Nat \X Nat), pending: Pictures, skipping: BOOLEAN,
   wait: BOOLEAN, discontinuity: BOOLEAN, mpu: MPU \union {None}, index: Nat,
   lastDts: Nat \union {None}, out: Seq(Units)]

Damages == [open: BOOLEAN, heard: Seq([parts: Seq(Position), damaged: BOOLEAN])]

(* Neither the assembler nor the pending picture outgrows the limit.       *)
TypeOK ==
  /\ track \in Tracks
  /\ described \subseteq MPU
  /\ damage \in Damages
  /\ at \in 0 .. Len(Stream) /\ since \in 0 .. at
  /\ seen \in Seq(Units) /\ Len(seen) <= 1

MpuOf(x)     == Stream[x[1]].mpu
SampleOf(x)  == UnitAt(x).sample
PictureOf(x) == << MpuOf(x), SampleOf(x) >>

(* Parts of picture n of MPU m; sample number 0 says nothing.              *)
OfPicture(parts, m, n) ==
  \A j \in DOMAIN parts : MpuOf(parts[j]) = m /\ SampleOf(parts[j]) \in {0, n}

(***************************************************************************)
(* An access unit is never put together from NAL units of two pictures,    *)
(* whatever was lost or reordered between them.                            *)
(***************************************************************************)
OnePicture ==
  \A k \in DOMAIN track.out :
    LET parts == track.out[k].parts
    IN  OfPicture(parts, MpuOf(parts[1]), SampleOf(parts[1]))

(* The next place of the stream that carries a unit.                       *)
Before(x, y) == x[1] < y[1] \/ (x[1] = y[1] /\ x[2] < y[2])

Following ==
  [x \in Position |->
     {y \in Position : Before(x, y) /\ ~\E z \in Position : Before(x, z) /\ Before(z, y)}]

Contiguous(parts) ==
  \A j \in 1 .. (Len(parts) - 1) : parts[j + 1] \in Following[parts[j]]

LossShows(units) ==
  \A k \in 1 .. (Len(units) - 1) :
    \/ units[k].flagged
    \/ units[k + 1].flagged
    \/ Contiguous(units[k].parts \o units[k + 1].parts)

(* Units emitted one after the other by this step, the one before it first. *)
Emitted == seen \o track'.out

(***************************************************************************)
(* A loss shows: of two access units emitted one after the other, one is   *)
(* flagged (AccessUnit::discontinuity) unless nothing of the stream is     *)
(* missing from the first to the second.                                   *)
(***************************************************************************)
LossFlagged == [][LossShows(Emitted)]_vars

(* Every unit has a sample number the descriptors of its MPU cover.        *)
TimesKnown(known) ==
  \A x \in Position : MpuOf(x) \in known /\ SampleOf(x) \in 1 .. AccessUnits[MpuOf(x)]

(***************************************************************************)
(* A decoder can start: the first access unit after the track is installed *)
(* or flushed is a random access point (wait_for_rap).  The wait is over   *)
(* even when that picture is then dropped for want of a timestamp, and the *)
(* first unit may be any other; but it is flagged.                         *)
(***************************************************************************)
JoinsAtRandomAccess ==
  [][track'.out # << >> =>
       /\ track.wait /\ TimesKnown(described) => track'.out[1].rap
       /\ seen = << >> => track'.out[1].rap \/ track'.out[1].flagged]_vars

(***************************************************************************)
(* The inductive invariant, of the track t when the units before are those *)
(* emitted last (none or one), a is the packet whose sequence number the   *)
(* assembler holds and e the place of the stream consumed last.            *)
(***************************************************************************)
EndsAt(parts, e) == parts # << >> /\ parts[Len(parts)] = e /\ Contiguous(parts)

(* What is collected is the head of one NAL unit, up to packet a.          *)
HeadCollected(t, a) ==
  LET data == t.media.data
  IN  /\ t.media.state = "Initial" <=> a = 0
      /\ a # 0 => t.media.last = a % SequenceModulus
      /\ t.media.state # "Collecting" => data = << >>
      /\ data # << >> => EndsAt(data, << a, 1 >>) /\ (Carries(a, 1) \/ Carries(a, 2))
      /\ \A j \in DOMAIN data : PictureOf(data[j]) = t.media.tag

(* What is pending is one picture of the current MPU; none is pending while *)
(* the rest of a truncated one is skipped, and that is a marked loss.      *)
OnePending(t) ==
  LET pic == t.pending
  IN  /\ pic.active <=> pic.parts # << >>
      /\ pic.active => pic.mpu = t.mpu /\ SampleOf(pic.parts[1]) = pic.sample
      /\ OfPicture(pic.parts, pic.mpu, pic.sample)
      /\ t.skipping => ~pic.active /\ t.discontinuity

(* A track that waits has emitted nothing that is not marked as over.      *)
Waits(t, before) ==
  /\ t.wait => t.lastDts = None /\ (t.discontinuity \/ before = << >>)
  /\ before = << >> => t.wait \/ t.discontinuity

(* As long as no loss is marked, nothing of the stream is missing from the *)
(* pending picture to the unit in hand, nor from the unit emitted last if  *)
(* that was not flagged.                                                   *)
NothingMissing(t, before, hand, e) ==
  ~t.discontinuity =>
    LET held == t.pending.parts \o hand
    IN  /\ held # << >> => EndsAt(held, e)
        /\ before # << >> =>
             \/ before[1].flagged
             \/ EndsAt(before[1].parts \o held, e)

(* Fragments are skipped only after a flagged unit, or under a mark.       *)
SkipsMarked(t, before) ==
  t.media.state = "Skipping" /\ ~t.discontinuity =>
    ~t.pending.active /\ before # << >> /\ before[1].flagged

(* An open damage: the flagged unit emitted last was no recovery point.    *)
DamageKept(t, d, before) ==
  before # << >> /\ before[1].flagged /\ ~before[1].rap => d.open \/ t.discontinuity

End(a) == << a, Len(Stream[a].units) >>

Consistent(t, before, a, e) ==
  /\ HeadCollected(t, a)
  /\ OnePending(t)
  /\ Waits(t, before)
  /\ NothingMissing(t, before, t.media.data, e)
  /\ SkipsMarked(t, before)

IInv ==
  /\ TypeOK
  /\ Consistent(track, seen, at, End(at))
  /\ DamageKept(track, damage, seen)
  /\ OnePicture

(* The places of each picture of the stream, in their order.               *)
WholePictures ==
  [pic \in {PictureOf(x) : x \in Position} |->
     LET places == {x \in Position : PictureOf(x) = pic}
     IN  CHOOSE parts \in [1 .. Cardinality(places) -> places] :
           /\ Range(parts) = places
           /\ \A j, k \in DOMAIN parts : j < k => Before(parts[j], parts[k])]

PartsOf(pic) == WholePictures[pic]

(* A picture the code has no reason to refuse.                             *)
Sound(parts) ==
  /\ UnitAt(parts[1]).nal \in {"delimiter", "prefix", "first"}
  /\ \E j \in DOMAIN parts : IsVcl(UnitAt(parts[j]))
  /\ \A j \in DOMAIN parts : UnitAt(parts[j]).valid /\ ~UnitAt(parts[j]).short
  /\ NalSize(parts) + 1 <= MaxAccessUnit

RandomAccess(parts) ==
  \E j \in DOMAIN parts : UnitAt(parts[j]).irap \/ Stream[parts[j][1]].rap

(* Packet at' follows the one before it, and its first unit can be used.   *)
ArrivesInOrder ==
  /\ at' # at
  /\ since' # 0 /\ since' < at'
  /\ Stream[at'].fragmentation = 0
  /\ UnitAt(<< at', 1 >>).valid /\ ~UnitAt(<< at', 1 >>).short

PictureBefore(i) == PictureOf(<< i - 1, Len(Stream[i - 1].units) >>)

(***************************************************************************)
(* Recovery: once all packets of a picture have come in order, the next    *)
(* unit of the stream brings the picture out whole, whatever state earlier *)
(* losses had left the track in, unless the track still waits for a random *)
(* access point, lacks the descriptor or has emitted a later picture.      *)
(***************************************************************************)
PictureSurvives ==
  [][ArrivesInOrder =>
       LET pic   == PictureBefore(at')
           parts == PartsOf(pic)
       IN  /\ pic # PictureOf(<< at', 1 >>)
           /\ since' <= parts[1][1]
           /\ Sound(parts)
           /\ track.wait => RandomAccess(parts)
           /\ pic[1] \in described /\ pic[2] <= AccessUnits[pic[1]]
           /\ track.mpu = pic[1] => track.lastDts < pic[2]
           => \E k \in DOMAIN track'.out : track'.out[k].parts = parts]_vars

(***************************************************************************)
(* What makes this hold for a stream: the units of a picture are sent one  *)
(* after the other, its first slice before the other slices and parameter  *)
(* sets before both, its NAL units are whole, and it has a sample number.  *)
(* A picture that is more than slices begins with a delimiter: without one *)
(* a parameter set that comes again, out of order, joins the picture twice. *)
(***************************************************************************)
BeginsNal(x) == Stream[x[1]].fragmentation \in {0, 1}

EndsNal(x) == Stream[x[1]].fragmentation \in {0, 3}

SameNal(x, y) == UnitAt(x).nal = UnitAt(y).nal /\ UnitAt(x).irap = UnitAt(y).irap

(* u may follow in a picture that has a slice, or not.                     *)
InPlace(u, vcl) ==
  CASE u.nal = "delimiter"           -> FALSE
    [] u.nal \in {"prefix", "first"} -> ~vcl
    [] u.nal = "slice"               -> vcl
    [] OTHER                         -> TRUE

HasVcl(parts, n) == \E j \in 1 .. n : IsVcl(UnitAt(parts[j]))

Orderly(parts) ==
  /\ Contiguous(parts)
  /\ BeginsNal(parts[1]) /\ EndsNal(parts[Len(parts)])
  /\ UnitAt(parts[1]).nal = "delimiter" \/ \A j \in DOMAIN parts : IsVcl(UnitAt(parts[j]))
  /\ \A n \in 1 .. (Len(parts) - 1) :
       IF EndsNal(parts[n])
       THEN BeginsNal(parts[n + 1]) /\ InPlace(UnitAt(parts[n + 1]), HasVcl(parts, n))
       ELSE ~BeginsNal(parts[n + 1]) /\ SameNal(parts[n], parts[n + 1])

OrderlySender ==
  \A x \in Position :
    /\ SampleOf(x) # 0
    /\ Sound(PartsOf(PictureOf(x))) => Orderly(PartsOf(PictureOf(x)))

(* Pairs of units delivered one after the other, with a loss between.      *)
LossBetween(k) ==
  /\ Len(seen) + k > 1
  /\ ~Contiguous(Emitted[Len(seen) + k - 1].parts \o damage'.heard[k].parts)

UnitBefore(k) == Emitted[Len(seen) + k - 1]

IsWholePicture(parts) == parts = PartsOf(PictureOf(parts[1]))

(***************************************************************************)
(* DamageSpan: "a damaged media interval begins after the last emitted     *)
(* access unit and ends at a decoder recovery point", so when something is *)
(* lost after a whole picture, the next unit is in a damaged interval.     *)
(***************************************************************************)
LossInDamage ==
  [][\A k \in DOMAIN damage'.heard :
       LossBetween(k) /\ IsWholePicture(UnitBefore(k).parts) =>
         damage'.heard[k].damaged]_vars

(***************************************************************************)
(* The only losses outside the damaged intervals are those whose mark went *)
(* to the random access unit before them, which closed its interval.       *)
(***************************************************************************)
LossInDamageOrEarly ==
  [][\A k \in DOMAIN damage'.heard :
       LossBetween(k) =>
         \/ damage'.heard[k].damaged
         \/ UnitBefore(k).flagged /\ UnitBefore(k).rap]_vars

(***************************************************************************)
(* "An IRAP NAL type (or the MMTP RAP flag) on a continuation slice does   *)
(* not make that truncated picture a random-access point."                 *)
(***************************************************************************)
RandomAccessHasHead ==
  \A k \in DOMAIN track.out :
    track.out[k].rap =>
      \E j \in DOMAIN track.out[k].parts : UnitAt(track.out[k].parts[j]).nal = "first"

=============================================================================
