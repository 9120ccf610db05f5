---------------------------- MODULE MfuAssembler ----------------------------
(***************************************************************************)
(* The fragment assembler of one MMTP packet id: the part that             *)
(* consume_mfu_piece (timed media) and consume_data_piece (data assets)    *)
(* have in common.  A pure step: what one media fragment unit does to the  *)
(* assembler, whether it reveals a loss, and the unit it completes.        *)
(*                                                                         *)
(* Payload bytes are abstracted to the piece that carries them, so the     *)
(* contents of a unit is the sequence of pieces it was put together from.  *)
(***************************************************************************)
EXTENDS Naturals, Sequences

CONSTANTS
  SequenceModulus, (* packet_sequence_number wraps at this value (2^32)    *)
  MaxAccessUnit    (* Limits::max_access_unit                              *)

ASSUME SequenceModulusAssumption == SequenceModulus \in Nat \ {0, 1, 2}
ASSUME MaxAccessUnitAssumption   == MaxAccessUnit \in Nat

FragmentState == {"Initial", "Idle", "Collecting", "Skipping"}

(* fragmentation_indicator: 0 complete, 1 first, 2 middle, 3 last.         *)
Fragmentation == 0 .. 3

(***************************************************************************)
(* An assembler: last is last_packet_sequence, tag stands for the pair     *)
(* (mpu_sequence, sample_number or item_id) of the unit being collected,   *)
(* data is its pieces and size its bytes.                                  *)
(* A piece: [seq, tag, frag, agg, part, size].                             *)
(***************************************************************************)
Assembler(state, last, tag, data, size) ==
  [state |-> state, last |-> last, tag |-> tag, data |-> data, size |-> size]

Assemblers(Parts, Tags) ==
  [state: FragmentState, last: 0 .. (SequenceModulus - 1), tag: Tags,
   data: Seq(Parts), size: 0 .. MaxAccessUnit]

FreshAssembler(tag) == Assembler("Initial", 0, tag, << >>, 0)

(***************************************************************************)
(* The Bug_ operators of this project are plausible slips in the code that *)
(* follows them; each is what some property is able to tell from the code. *)
(***************************************************************************)
Follows(a, p) == p.seq = (a.last + 1) % SequenceModulus
Repeats(a, p) == p.seq = a.last

(* A packet already consumed; the pieces of one aggregated packet share    *)
(* its sequence number and are exempt.                                     *)
Duplicate(a, p) ==
  /\ a.state # "Initial"
  /\ ~Follows(a, p)
  /\ Repeats(a, p)
  /\ ~(p.agg /\ p.frag = 0)

Jumped(a, p) ==
  /\ a.state # "Initial"
  /\ ~Follows(a, p)
  /\ ~Repeats(a, p)

Emptied(a, state) == Assembler(state, a.last, a.tag, << >>, 0)

(* The assembler once the sequence number is checked and recorded.         *)
Sequenced(a, p) ==
  IF Jumped(a, p)
  THEN Assembler("Skipping", p.seq, a.tag, << >>, 0)
  ELSE Assembler(a.state, p.seq, a.tag, a.data, a.size)

Fits(a, p) == p.size <= MaxAccessUnit - a.size

Appended(a, p) ==
  Assembler(a.state, a.last, a.tag, Append(a.data, p.part), a.size + p.size)

Continues(a, p) == a.state = "Collecting" /\ a.tag = p.tag

Outcome(asm, lost, unit) == [asm |-> asm, lost |-> lost, unit |-> unit]

CompletePiece(b, p) ==
  Outcome(Emptied(b, "Idle"), b.state = "Collecting", << p.part >>)

Begun(b, p) == Assembler("Collecting", b.last, p.tag, << >>, 0)

Bug_FirstPiece(b, p) ==
  IF b.state = "Skipping" THEN Outcome(b, FALSE, << >>)
  ELSE Outcome(Appended(Begun(b, p), p), FALSE, << >>)

FirstPiece(b, p) ==
  IF Fits(Begun(b, p), p)
  THEN Outcome(Appended(Begun(b, p), p), FALSE, << >>)
  ELSE Outcome(Emptied(Begun(b, p), "Skipping"), TRUE, << >>)

MiddlePiece(b, p) ==
  IF b.state = "Skipping" THEN Outcome(b, FALSE, << >>)
  ELSE IF Continues(b, p) /\ Fits(b, p) THEN Outcome(Appended(b, p), FALSE, << >>)
  ELSE Outcome(Emptied(b, "Skipping"), TRUE, << >>)

Bug_LastPiece(b, p) ==
  IF b.state = "Skipping" THEN Outcome(Emptied(b, "Idle"), FALSE, << >>)
  ELSE Outcome(Emptied(b, "Idle"), FALSE, Appended(b, p).data)

LastPiece(b, p) ==
  IF b.state = "Skipping" THEN Outcome(Emptied(b, "Idle"), FALSE, << >>)
  ELSE IF Continues(b, p) /\ Fits(b, p)
       THEN Outcome(Emptied(b, "Idle"), FALSE, Appended(b, p).data)
  ELSE Outcome(Emptied(b, "Idle"), TRUE, << >>)

ByFragmentation(b, p) ==
  CASE p.frag = 0 -> CompletePiece(b, p)
    [] p.frag = 1 -> FirstPiece(b, p)
    [] p.frag = 2 -> MiddlePiece(b, p)
    [] p.frag = 3 -> LastPiece(b, p)

Bug_ConsumePiece(a, p) == ByFragmentation(Sequenced(a, p), p)

(* One call that is not a duplicate: the new assembler, whether the track  *)
(* or asset is marked discontinuous, the completed unit (<< >> for none).  *)
ConsumePiece(a, p) ==
  LET r == ByFragmentation(Sequenced(a, p), p)
  IN  Outcome(r.asm, r.lost \/ Jumped(a, p), r.unit)

=============================================================================
