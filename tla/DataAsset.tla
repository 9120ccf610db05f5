------------------------------ MODULE DataAsset ------------------------------
(***************************************************************************)
(* Reassembly of one data asset (DataAssetState of MmtpParser): parse_mpu's *)
(* data branch, consume_data_piece and emit_data_unit, fed by a channel    *)
(* that loses, repeats and reorders MMTP packets.                          *)
(*                                                                         *)
(* The sender's packets are the constant Stream.  The channel is a walk    *)
(* over it: each step delivers any packet less than one turn of the        *)
(* sequence number away from the packet consumed last.  Stepping over      *)
(* packets is loss, staying is duplication, going back is reordering.      *)
(***************************************************************************)
EXTENDS MfuAssembler

CONSTANTS
  Stream,          (* the MMTP packets sent for the asset, in order        *)
  Tag,             (* the (mpu_sequence, item_id) pairs in use             *)
  MaxJump,         (* how far apart two consecutive deliveries are         *)
  RepeatAggregates (* may an aggregated packet come twice in a row?        *)

(***************************************************************************)
(* A packet: the timed, aggregation and fragmentation flags of its MPU     *)
(* header, whether its fragment unit is shorter than its header, whether   *)
(* the last unit of an aggregated body is cut short, and the units it      *)
(* carries whole ([tag, size]): one, or any number when aggregated.        *)
(***************************************************************************)
Packet ==
  [timed: BOOLEAN, aggregation: BOOLEAN, fragmentation: Fragmentation,
   short: BOOLEAN, cut: BOOLEAN, units: Seq([tag: Tag, size: Nat])]

ASSUME StreamAssumption ==
  /\ Stream \in Seq(Packet)
  /\ \A i \in DOMAIN Stream :
       \/ Stream[i].aggregation
       \/ ~Stream[i].cut /\ Len(Stream[i].units) = 1

(* No body is cut.                                                         *)
WholePackets == \A i \in DOMAIN Stream : ~Stream[i].cut

(* A jump never spans a whole turn of the sequence number.                 *)
ASSUME MaxJumpAssumption == MaxJump \in 0 .. (SequenceModulus - 2)

ASSUME RepeatAssumption == RepeatAggregates \in BOOLEAN
ASSUME TagAssumption    == Tag # {}

VARIABLES
  asm,           (* asset.media                                            *)
  discontinuity, (* asset.discontinuity                                    *)
  out,           (* units given to onDataUnit by the latest packet         *)
  at,            (* history: the packet whose sequence number asm holds    *)
  due,           (* history: where the next unmarked unit has to start     *)
  since,         (* history: first packet of the in-order run ending in at *)
  accepted       (* history: how often in a row packet at was consumed     *)

vars == << asm, discontinuity, out, at, due, since, accepted >>

-----------------------------------------------------------------------------
(* Positions: unit k of packet i, one unit past those it carries whole if  *)
(* its body is cut.                                                        *)
Position == (DOMAIN Stream) \X (Nat \ {0})

NextPosition(x) ==
  IF x[2] < Len(Stream[x[1]].units) \/ Stream[x[1]].cut
  THEN << x[1], x[2] + 1 >>
  ELSE << x[1] + 1, 1 >>

Rejected(pkt) ==
  \/ pkt.timed
  \/ pkt.aggregation /\ pkt.fragmentation # 0
  \/ pkt.short

Carries(i, frag) ==
  /\ i \in DOMAIN Stream
  /\ ~Rejected(Stream[i])
  /\ ~Stream[i].aggregation
  /\ Stream[i].fragmentation = frag

(* A sender finishes a unit it has begun before it begins another.         *)
ASSUME NoAbandonedUnit ==
  \A i \in DOMAIN Stream :
    Carries(i, 1) \/ Carries(i, 2) => ~Carries(i + 1, 1)

TagOf(i) == Stream[i].units[1].tag

(* Packets f .. l hold exactly one fragmented unit.                        *)
Spans(f, l) ==
  /\ f < l
  /\ Carries(f, 1)
  /\ Carries(l, 3)
  /\ \A m \in (f + 1) .. (l - 1) : Carries(m, 2)
  /\ \A m \in f .. l : TagOf(m) = TagOf(f)

Run(f, l) == [k \in 1 .. (l + 1 - f) |-> << f + k - 1, 1 >>]

(* parts is one whole unit of the stream.                                  *)
IsWhole(parts) ==
  \/ \E i \in DOMAIN Stream :
       /\ ~Rejected(Stream[i])
       /\ Stream[i].fragmentation = 0
       /\ \E k \in DOMAIN Stream[i].units : parts = << << i, k >> >>
  \/ \E f, l \in DOMAIN Stream : Spans(f, l) /\ parts = Run(f, l)

-----------------------------------------------------------------------------
FreshAsset == FreshAssembler(CHOOSE t \in Tag : TRUE)

Init ==
  /\ asm = FreshAsset
  /\ discontinuity = FALSE
  /\ out = << >>
  /\ at = 0
  /\ due = {}
  /\ since = 0
  /\ accepted = 0

Piece(i, k) ==
  [seq  |-> i % SequenceModulus,
   tag  |-> Stream[i].units[k].tag,
   frag |-> Stream[i].fragmentation,
   agg  |-> Stream[i].aggregation,
   part |-> << i, k >>,
   size |-> Stream[i].units[k].size]

(* The channel.                                                            *)
Deliverable(i) ==
  /\ at # 0 => /\ i <= at + MaxJump
               /\ at <= i + MaxJump
  /\ i = at /\ Stream[i].aggregation => RepeatAggregates

DataUnit(parts, mark) == [parts |-> parts, discontinuity |-> mark]

(* History kept when packet i is consumed.                                 *)
Consumed(i) ==
  /\ at' = i
  /\ since' = IF at # 0 /\ i = at + 1 /\ since # 0 THEN since ELSE i
  /\ accepted' = IF i = at THEN 2 ELSE 1

Joined(i) == IF due = {} THEN {<< i, 1 >>} ELSE due

(* parse_mpu refuses the packet, or consume_data_piece its header: nothing *)
(* is read of it but the loss is noted.                                    *)
RejectPacket(i) ==
  /\ Deliverable(i)
  /\ Rejected(Stream[i])
  /\ discontinuity' = TRUE
  /\ out' = << >>
  /\ due' = Joined(i)
  /\ since' = 0
  /\ UNCHANGED << asm, at, accepted >>

(* A data unit fragment unit that is not aggregated.                       *)
ConsumeDataPiece(i) ==
  /\ Deliverable(i)
  /\ ~Rejected(Stream[i])
  /\ ~Stream[i].aggregation
  /\ ~Duplicate(asm, Piece(i, 1))
  /\ LET r == ConsumePiece(asm, Piece(i, 1))
     IN  /\ asm' = r.asm
         /\ IF r.unit = << >>
            THEN /\ discontinuity' = (discontinuity \/ r.lost)
                 /\ out' = << >>
                 /\ due' = Joined(i)
            ELSE /\ discontinuity' = FALSE
                 /\ out' = << DataUnit(r.unit, discontinuity \/ r.lost) >>
                 /\ due' = {NextPosition(r.unit[Len(r.unit)])}
  /\ Consumed(i)

(* The loop over an aggregated packet.  All its pieces are complete units  *)
(* with one sequence number, so only the first can reveal a loss and every *)
(* later one leaves the assembler as it is.  Where the body is cut the     *)
(* loop returns and marks nothing.                                         *)
ConsumeAggregate(i) ==
  LET units == Stream[i].units
  IN  /\ Deliverable(i)
      /\ ~Rejected(Stream[i])
      /\ Stream[i].aggregation
      /\ units # << >>
      /\ LET r == ConsumePiece(asm, Piece(i, 1))
             mark == discontinuity \/ r.lost
         IN  /\ asm' = r.asm
             /\ out' = [k \in DOMAIN units |->
                          DataUnit(<< << i, k >> >>, k = 1 /\ mark)]
      /\ discontinuity' = FALSE
      /\ due' = {NextPosition(<< i, Len(units) >>)}
      /\ Consumed(i)

(* An aggregated packet without units changes nothing the code keeps.      *)
ConsumeEmptyAggregate(i) ==
  /\ Deliverable(i)
  /\ ~Rejected(Stream[i])
  /\ Stream[i].aggregation
  /\ Stream[i].units = << >>
  /\ out' = << >>
  /\ since' = 0
  /\ UNCHANGED << asm, discontinuity, at, due, accepted >>

(* MmtpParser::flush.                                                      *)
Flush ==
  /\ asm' = FreshAsset
  /\ discontinuity' = TRUE
  /\ out' = << >>
  /\ at' = 0
  /\ since' = 0
  /\ accepted' = 0
  /\ UNCHANGED due

(* The asset leaves the MPT, or the parser is reset, and is installed      *)
(* again later with a DataAssetState of its own.                           *)
Reinstall ==
  /\ asm' = FreshAsset
  /\ discontinuity' = FALSE
  /\ out' = << >>
  /\ at' = 0
  /\ due' = {}
  /\ since' = 0
  /\ accepted' = 0

Next ==
  \/ \E i \in DOMAIN Stream : RejectPacket(i)
  \/ \E i \in DOMAIN Stream : ConsumeDataPiece(i)
  \/ \E i \in DOMAIN Stream : ConsumeAggregate(i)
  \/ \E i \in DOMAIN Stream : ConsumeEmptyAggregate(i)
  \/ Flush
  \/ Reinstall

Spec == Init /\ [][Next]_vars

-----------------------------------------------------------------------------
(* The fields stay in their types, and what is collected never exceeds     *)
(* Limits::max_access_unit (the size check of consume_data_piece).         *)
TypeOK ==
  /\ asm \in [state: FragmentState, last: 0 .. (SequenceModulus - 1), tag: Tag,
              data: Seq(Position), size: 0 .. MaxAccessUnit]
  /\ discontinuity \in BOOLEAN
  /\ out \in Seq([parts: Seq(Position), discontinuity: BOOLEAN])
  /\ at \in 0 .. Len(Stream)
  /\ since \in 0 .. Len(Stream)
  /\ accepted \in 0 .. 2

(***************************************************************************)
(* No splice: whatever the channel did, the bytes of a DataUnit are those  *)
(* of one whole unit the sender sent, never the head of one and the tail   *)
(* of another (emit_data_unit after consume_data_piece).                   *)
(***************************************************************************)
NoSplice == \A k \in DOMAIN out : IsWhole(out[k].parts)

(***************************************************************************)
(* Loss is marked: a DataUnit without DataUnit::discontinuity starts where *)
(* the previous one ended, so a consumer that trusts the flag never misses *)
(* that a unit was lost, dropped, refused or reordered in between.         *)
(***************************************************************************)
LossMarkedStep ==
  \A k \in DOMAIN out' :
    \/ out'[k].discontinuity
    \/ k = 1 /\ due = {}
    \/ k = 1 /\ out'[1].parts[1] \in due
    \/ k > 1 /\ out'[k].parts[1] =
                 NextPosition(out'[k - 1].parts[Len(out'[k - 1].parts)])

LossMarked == [][LossMarkedStep]_vars

(* Bytes of the first unit of packets f .. l.                              *)
SizeOf(i) == IF Stream[i].units = << >> THEN 0 ELSE Stream[i].units[1].size

Bytes(f, l) ==
  LET total[m \in 0 .. Len(Stream)] ==
        IF m < f THEN 0 ELSE total[m - 1] + SizeOf(m)
  IN  total[l]

(***************************************************************************)
(* Resynchronization is immediate: when every packet of a unit that fits   *)
(* max_access_unit has come in order, its last packet hands the unit over, *)
(* whatever state earlier losses had left the assembler in; a unit put     *)
(* together from fragments that exceeds the limit is never handed over.    *)
(***************************************************************************)
UnitsSurvive ==
  at # 0 /\ since # 0 =>
    \A f \in since .. at : Spans(f, at) =>
      IF Bytes(f, at) <= MaxAccessUnit THEN Len(out) = 1 /\ out[1].parts = Run(f, at)
      ELSE f < at => out = << >>

(***************************************************************************)
(* A packet that is repeated by the channel is consumed once: the comment  *)
(* "duplicate MMTP packet" on the early return of the sequence check.      *)
(***************************************************************************)
DuplicatesIgnored == accepted <= 1

(***************************************************************************)
(* The inductive invariant.  What is collected is the head of one unit of  *)
(* the stream, up to the packet consumed last; and as long as nothing is   *)
(* marked and no body was cut, the next unit handed over is the one due.   *)
(***************************************************************************)
Begin == at + 1 - Len(asm.data)

Sync ==
  /\ asm.state = "Initial" <=> at = 0
  /\ at # 0 => asm.last = at % SequenceModulus
  /\ asm.state # "Collecting" => asm.data = << >> /\ asm.size = 0

Collected ==
  asm.state = "Collecting" =>
    /\ Begin \in 1 .. at
    /\ asm.data = Run(Begin, at)
    /\ Carries(Begin, 1)
    /\ \A m \in (Begin + 1) .. at : Carries(m, 2)
    /\ \A m \in Begin .. at : TagOf(m) = asm.tag

Unmarked ==
  ~discontinuity =>
    /\ asm.state # "Skipping"
    /\ WholePackets =>
         /\ asm.state = "Initial" => due = {}
         /\ asm.state = "Idle" => due = {<< at + 1, 1 >>}
         /\ asm.state = "Collecting" => due = {<< Begin, 1 >>}

IInv == TypeOK /\ Sync /\ Collected /\ Unmarked /\ NoSplice

(* Packets f .. l are the head of a fragmented unit.                       *)
Heads(f, l) ==
  /\ f <= l
  /\ Carries(f, 1)
  /\ \A m \in (f + 1) .. l : Carries(m, 2)
  /\ \A m \in f .. l : TagOf(m) = TagOf(f)

(* A head that has come in order is what is collected, all of it, unless   *)
(* it is too long.                                                         *)
HeadsSurvive ==
  at # 0 /\ since # 0 =>
    \A f \in since .. at : Heads(f, at) =>
      IF Bytes(f, at) <= MaxAccessUnit
      THEN asm.state = "Collecting" /\ Begin = f /\ asm.size = Bytes(f, at)
      ELSE asm.state = "Skipping"

SurvivalInv == IInv /\ HeadsSurvive /\ UnitsSurvive

Abstract ==
  INSTANCE MarkedUnits WITH
    Positions <- Position,
    WholeUnits <- {parts \in Seq(Position) : IsWhole(parts)},
    NextPosition <- NextPosition

(* The asset implements the promise of MarkedUnits.                        *)
Refinement == Abstract!Spec

=============================================================================
