--------------------------- MODULE DataAsset_proofs ---------------------------
(***************************************************************************)
(* Proofs about DataAsset, for every stream, every limit and every walk of *)
(* the channel over the stream.                                            *)
(***************************************************************************)
EXTENDS DataAsset, MfuAssembler_proofs

(* What a packet of the stream is made of.                                 *)
LEMMA PacketFacts ==
  ASSUME NEW i \in DOMAIN Stream
  PROVE  /\ i \in Nat /\ i >= 1 /\ i <= Len(Stream)
         /\ Stream[i] \in Packet
         /\ Stream[i].units \in Seq([tag: Tag, size: Nat])
         /\ ~Stream[i].aggregation => ~Stream[i].cut /\ Len(Stream[i].units) = 1
<1>1. Stream \in Seq(Packet)
  BY StreamAssumption
<1>2. i \in Nat /\ i >= 1 /\ i <= Len(Stream) /\ Stream[i] \in Packet
  BY <1>1
<1>3. Stream[i].units \in Seq([tag: Tag, size: Nat])
  BY <1>2 DEF Packet
<1>4. ~Stream[i].aggregation => ~Stream[i].cut /\ Len(Stream[i].units) = 1
  BY StreamAssumption, Zenon
<1> QED
  BY <1>2, <1>3, <1>4

(* The fields of the first piece of a packet are those of the packet.      *)
LEMMA PieceFacts ==
  ASSUME NEW i \in DOMAIN Stream, Stream[i].units # << >>
  PROVE  /\ Piece(i, 1).seq = i % SequenceModulus
         /\ Piece(i, 1).seq \in 0 .. (SequenceModulus - 1)
         /\ Piece(i, 1).tag = TagOf(i)
         /\ Piece(i, 1).tag \in Tag
         /\ Piece(i, 1).frag = Stream[i].fragmentation
         /\ Piece(i, 1).frag \in Fragmentation
         /\ Piece(i, 1).agg = Stream[i].aggregation
         /\ Piece(i, 1).part = << i, 1 >>
         /\ Piece(i, 1).part \in Position
         /\ Piece(i, 1).size \in Nat
<1>1. 1 \in DOMAIN Stream[i].units /\ Stream[i].units[1] \in [tag: Tag, size: Nat]
  <2>1. Stream[i].units \in Seq([tag: Tag, size: Nat])
    BY PacketFacts
  <2>2. Len(Stream[i].units) \in Nat \ {0}
    BY <2>1, EmptySeq
  <2>3. DOMAIN Stream[i].units = 1 .. Len(Stream[i].units)
    BY <2>1, LenProperties
  <2>4. 1 \in 1 .. Len(Stream[i].units)
    BY <2>2
  <2> QED
    BY <2>1, <2>3, <2>4, ElementOfSeq
<1>2. i % SequenceModulus \in 0 .. (SequenceModulus - 1)
  <2>1. i \in Nat /\ SequenceModulus \in Nat /\ SequenceModulus > 2
    BY PacketFacts, SequenceModulusAssumption
  <2> QED
    BY <2>1, Remainder
<1>3. Stream[i].fragmentation \in Fragmentation
  BY PacketFacts DEF Packet
<1> QED
  BY <1>1, <1>2, <1>3, PacketFacts DEF Piece, TagOf, Position

(* What checking and recording the sequence number leaves.                 *)
LEMMA SequencedFacts ==
  ASSUME IInv, NEW i \in DOMAIN Stream, Stream[i].units # << >>,
         Deliverable(i), ~Duplicate(asm, Piece(i, 1)),
         Stream[i].aggregation => Stream[i].fragmentation = 0
  PROVE  LET p == Piece(i, 1)
             b == Sequenced(asm, p)
         IN  /\ b \in Assemblers(Position, Tag)
             /\ b.last = i % SequenceModulus
             /\ b.tag = asm.tag
             /\ b.state # "Collecting" => b.data = << >> /\ b.size = 0
             /\ Jumped(asm, p) \in BOOLEAN
             /\ Jumped(asm, p) => b.state = "Skipping"
             /\ ~Jumped(asm, p) =>
                  /\ b.state = asm.state /\ b.data = asm.data /\ b.size = asm.size
                  /\ \/ at = 0 /\ asm.state = "Initial"
                     \/ i = at + 1
                     \/ i = at /\ Stream[i].aggregation /\ RepeatAggregates
<1> DEFINE p == Piece(i, 1)
<1>1. asm \in Assemblers(Position, Tag) /\ at \in 0 .. Len(Stream) /\ Len(Stream) \in Nat
  BY StreamAssumption DEF IInv, TypeOK, Assemblers
<1>2. p.seq = i % SequenceModulus /\ p.seq \in 0 .. (SequenceModulus - 1)
      /\ p.frag = Stream[i].fragmentation /\ p.agg = Stream[i].aggregation
  BY PieceFacts
<1>3. ASSUME at # 0
      PROVE  /\ Repeats(asm, p) <=> i = at
             /\ Follows(asm, p) <=> i = at + 1
  <2>1. asm.last = at % SequenceModulus
    BY <1>3 DEF IInv, Sync
  <2>2. i \in Nat /\ at \in Nat /\ i <= at + (SequenceModulus - 2)
        /\ at <= i + (SequenceModulus - 2)
    BY <1>1, <1>3, PacketFacts, MaxJumpAssumption, SequenceModulusAssumption
    DEF Deliverable
  <2>3. SequenceModulus \in Nat /\ SequenceModulus > 2
    BY SequenceModulusAssumption
  <2>4. ASSUME i % SequenceModulus = at % SequenceModulus
        PROVE  i = at
    <3>1. i - at < SequenceModulus /\ at - i < SequenceModulus
      BY <2>2, <2>3
    <3> QED
      BY <2>2, <2>3, <2>4, <3>1, SameSequence
  <2>5. ASSUME i % SequenceModulus = ((at % SequenceModulus) + 1) % SequenceModulus
        PROVE  i = at + 1
    <3>1. i - (at + 1) < SequenceModulus /\ (at + 1) - i < SequenceModulus
      BY <2>2, <2>3
    <3> QED
      BY <2>2, <2>3, <2>5, <3>1, NextSequence
  <2>6. i = at + 1 => i % SequenceModulus = ((at % SequenceModulus) + 1) % SequenceModulus
    BY <2>2, <2>3, Successor
  <2>7. i = at => i % SequenceModulus = at % SequenceModulus
    OBVIOUS
  <2> QED
    BY <2>1, <2>4, <2>5, <2>6, <2>7, <1>2, Zenon DEF Repeats, Follows
<1>4. Jumped(asm, p) \in BOOLEAN
  BY DEF Jumped
<1>5. asm.state = "Initial" <=> at = 0
  BY DEF IInv, Sync
<1>6. asm.state # "Collecting" => asm.data = << >> /\ asm.size = 0
  BY DEF IInv, Sync
<1>7. CASE Jumped(asm, p)
  <2>1. Sequenced(asm, p) = Assembler("Skipping", p.seq, asm.tag, << >>, 0)
    BY <1>7 DEF Sequenced
  <2>2. << >> \in Seq(Position) /\ 0 \in 0 .. MaxAccessUnit
    BY MaxAccessUnitAssumption
  <2> DEFINE b == Assembler("Skipping", p.seq, asm.tag, << >>, 0)
  <2>3. asm.tag \in Tag /\ "Skipping" \in FragmentState
    BY <1>1 DEF Assemblers, FragmentState
  <2>4. b \in Assemblers(Position, Tag)
    BY <2>2, <2>3, <1>2 DEF Assembler, Assemblers
  <2>5. b.last = p.seq /\ b.tag = asm.tag /\ b.state = "Skipping"
        /\ b.data = << >> /\ b.size = 0
    BY DEF Assembler
  <2> HIDE DEF b
  <2>6. Sequenced(asm, p) = b
    BY <2>1 DEF b
  <2> QED
    BY <2>4, <2>5, <2>6, <1>2, <1>4, <1>7
<1>8. CASE ~Jumped(asm, p)
  <2>1. Sequenced(asm, p) = Assembler(asm.state, p.seq, asm.tag, asm.data, asm.size)
    BY <1>8 DEF Sequenced
  <2>2. \/ at = 0 /\ asm.state = "Initial"
        \/ i = at + 1
        \/ i = at /\ Stream[i].aggregation /\ RepeatAggregates
    BY <1>8, <1>3, <1>5, <1>2 DEF Jumped, Duplicate, Deliverable
  <2> QED
    BY <2>1, <2>2, <1>1, <1>2, <1>4, <1>6, <1>8 DEF Assembler, Assemblers
<1> QED
  BY <1>7, <1>8, Zenon

(***************************************************************************)
(* One packet either hands a whole unit over, or drops what it has and     *)
(* marks the asset, or goes on collecting the head of a unit.              *)
(***************************************************************************)
Handed(i) ==
  /\ asm'.state = "Idle" /\ asm'.data = << >> /\ asm'.size = 0
  /\ discontinuity' = FALSE
  /\ due' = {<< i + 1, 1 >>}
  /\ NextPosition(<< i, 1 >>) = << i + 1, 1 >>
  /\ \E parts \in Seq(Position), mark \in BOOLEAN :
       /\ out' = << DataUnit(parts, mark) >>
       /\ IsWhole(parts)
       /\ Len(parts) \in Nat \ {0}
       /\ parts[Len(parts)] = << i, 1 >>
       /\ WholePackets => mark \/ due = {} \/ parts[1] \in due

Dropped ==
  /\ asm'.state \in {"Idle", "Skipping"} /\ asm'.data = << >> /\ asm'.size = 0
  /\ discontinuity' = TRUE
  /\ out' = << >>

Held ==
  /\ asm'.state = "Collecting"
  /\ discontinuity' \in BOOLEAN
  /\ out' = << >>
  /\ Collected'
  /\ WholePackets /\ ~discontinuity' => due' = {<< Begin', 1 >>}

(* Lengthening a run by the next packet.                                   *)
LEMMA RunAppend ==
  ASSUME NEW f \in DOMAIN Stream, NEW l \in DOMAIN Stream, f <= l, l + 1 \in DOMAIN Stream
  PROVE  /\ Run(f, l) \in Seq(Position)
         /\ Len(Run(f, l)) = l + 1 - f
         /\ Append(Run(f, l), << l + 1, 1 >>) = Run(f, l + 1)
         /\ Run(f, l + 1) \in Seq(Position)
         /\ Len(Run(f, l + 1)) = l + 2 - f
<1>1. f \in Nat /\ l \in Nat /\ f >= 1 /\ DOMAIN Stream = 1 .. Len(Stream) /\ Len(Stream) \in Nat
  BY PacketFacts, StreamAssumption
<1>2. ASSUME NEW m \in DOMAIN Stream, f <= m
      PROVE  /\ Run(f, m) \in [1 .. (m + 1 - f) -> Position]
             /\ m + 1 - f \in Nat
             /\ Run(f, m) \in Seq(Position)
             /\ Len(Run(f, m)) = m + 1 - f
  <2>1. \A k \in 1 .. (m + 1 - f) : << f + k - 1, 1 >> \in Position
    BY <1>1, <1>2 DEF Position
  <2>2. Run(f, m) \in [1 .. (m + 1 - f) -> Position] /\ m + 1 - f \in Nat
    BY <1>1, <1>2, <2>1 DEF Run
  <2>3. Run(f, m) \in Seq(Position)
    BY <2>2, SeqDef
  <2>4. DOMAIN Run(f, m) = 1 .. (m + 1 - f)
    BY DEF Run
  <2>5. Len(Run(f, m)) = m + 1 - f
    BY <2>2, <2>3, <2>4, LenProperties
  <2> QED
    BY <2>2, <2>3, <2>5
<1>3. << l + 1, 1 >> \in Position
  BY DEF Position
<1>4. DEFINE s == Append(Run(f, l), << l + 1, 1 >>)
<1>5. /\ s \in Seq(Position)
      /\ Len(s) = l + 2 - f
      /\ \A k \in 1 .. (l + 1 - f) : s[k] = Run(f, l)[k]
      /\ s[l + 2 - f] = << l + 1, 1 >>
  BY <1>1, <1>2, <1>3, AppendProperties
<1>6. \A k \in 1 .. (l + 1 - f) : Run(f, l)[k] = << f + k - 1, 1 >>
  BY DEF Run
<1>7. \A k \in 1 .. (l + 2 - f) : Run(f, l + 1)[k] = << f + k - 1, 1 >>
  <2>1. (l + 1) + 1 - f = l + 2 - f
    BY <1>1
  <2> QED
    BY <2>1 DEF Run
<1>8. \A k \in 1 .. (l + 2 - f) : s[k] = Run(f, l + 1)[k]
  <2> HIDE DEF s
  <2> TAKE k \in 1 .. (l + 2 - f)
  <2>3. Run(f, l + 1)[k] = << f + k - 1, 1 >>
    BY <1>7
  <2>1. CASE k = l + 2 - f
    <3>1. f + k - 1 = l + 1
      BY <1>1, <2>1
    <3> QED
      BY <1>5, <2>1, <2>3, <3>1
  <2>2. CASE k \in 1 .. (l + 1 - f)
    BY <1>5, <1>6, <2>2, <2>3
  <2> QED
    BY <1>1, <2>1, <2>2
<1>9. Run(f, l + 1) \in Seq(Position) /\ Len(Run(f, l + 1)) = l + 2 - f
  BY <1>1, <1>2
<1>10. s = Run(f, l + 1)
  <2>1. Len(s) = Len(Run(f, l + 1)) /\ \A k \in 1 .. Len(s) : s[k] = Run(f, l + 1)[k]
    BY <1>5, <1>8, <1>9
  <2> HIDE DEF s
  <2> QED
    BY <1>5, <1>9, <2>1, SeqEqual
<1> QED
  BY <1>2, <1>9, <1>10

(* A run of one packet.                                                    *)
LEMMA RunOne ==
  ASSUME NEW i \in DOMAIN Stream
  PROVE  Append(<< >>, << i, 1 >>) = Run(i, i)
<1>1. i \in Nat
  BY PacketFacts
<1>2. i + 1 - i = 1 /\ i + 1 - 1 = i
  BY <1>1
<1>3. Run(i, i) = [k \in 1 .. 1 |-> << i + k - 1, 1 >>]
  BY <1>2 DEF Run
<1>4. Run(i, i) = << << i, 1 >> >>
  BY <1>1, <1>3
<1> QED
  BY <1>4

(* What the packet before leaves when the next one follows it unmarked.    *)
LEMMA DueFacts ==
  ASSUME IInv, ~discontinuity
  PROVE  /\ asm.state \in {"Initial", "Idle", "Collecting"}
         /\ WholePackets =>
              /\ asm.state = "Initial" => due = {}
              /\ asm.state = "Idle" => due = {<< at + 1, 1 >>}
              /\ asm.state = "Collecting" => due = {<< Begin, 1 >>}
BY DEF IInv, TypeOK, Unmarked, FragmentState

(* After a packet of one unit comes the packet behind it.                  *)
LEMMA NextOfSingle ==
  ASSUME NEW i, Len(Stream[i].units) = 1, ~Stream[i].cut
  PROVE  NextPosition(<< i, 1 >>) = << i + 1, 1 >>
<1>1. << i, 1 >>[1] = i /\ << i, 1 >>[2] = 1
  OBVIOUS
<1>2. ~(1 < 1)
  OBVIOUS
<1> QED
  BY <1>1, <1>2, Zenon DEF NextPosition

(* consume_data_piece of a packet that is not aggregated, case by case.    *)
LEMMA DataPieceOutcome ==
  ASSUME IInv, NEW i \in DOMAIN Stream, ConsumeDataPiece(i)
  PROVE  /\ asm' \in Assemblers(Position, Tag)
         /\ asm'.last = i % SequenceModulus
         /\ at' = i
         /\ out' = << >> => due' = Joined(i)
         /\ Handed(i) \/ Dropped \/ Held
<1> DEFINE p == Piece(i, 1)
           b == Sequenced(asm, p)
           j == Jumped(asm, p)
           r == ConsumePiece(asm, p)
           mark == discontinuity \/ r.lost
<1>1. /\ Deliverable(i) /\ ~Rejected(Stream[i]) /\ ~Stream[i].aggregation
      /\ ~Duplicate(asm, p) /\ at' = i
  BY DEF ConsumeDataPiece, Consumed
<1>2. /\ asm' = r.asm
      /\ r.unit = << >> => /\ discontinuity' = mark
                           /\ out' = << >>
                           /\ due' = Joined(i)
      /\ r.unit # << >> => /\ discontinuity' = FALSE
                           /\ out' = << DataUnit(r.unit, mark) >>
                           /\ due' = {NextPosition(r.unit[Len(r.unit)])}
  BY DEF ConsumeDataPiece
<1>3. Len(Stream[i].units) = 1 /\ ~Stream[i].cut /\ Stream[i].units # << >>
  <2>1. Len(Stream[i].units) = 1 /\ ~Stream[i].cut
    BY <1>1, PacketFacts, Zenon
  <2>2. Len(<< >>) = 0
    OBVIOUS
  <2> QED
    BY <2>1, <2>2
<1>4. /\ p.tag = TagOf(i) /\ p.tag \in Tag
      /\ p.frag = Stream[i].fragmentation /\ p.frag \in 0 .. 3
      /\ p.part = << i, 1 >> /\ p.part \in Position /\ p.size \in Nat
  BY <1>3, PieceFacts DEF Fragmentation
<1>5. /\ b \in Assemblers(Position, Tag)
      /\ b.last = i % SequenceModulus
      /\ b.tag = asm.tag
      /\ b.state # "Collecting" => b.data = << >> /\ b.size = 0
      /\ j \in BOOLEAN
      /\ j => b.state = "Skipping"
      /\ ~j => /\ b.state = asm.state /\ b.data = asm.data /\ b.size = asm.size
               /\ (at = 0 /\ asm.state = "Initial") \/ i = at + 1
  BY <1>1, <1>3, SequencedFacts
<1>6. NextPosition(<< i, 1 >>) = << i + 1, 1 >>
  BY <1>3, NextOfSingle
<1>7. i \in Nat /\ i >= 1 /\ i <= Len(Stream) /\ DOMAIN Stream = 1 .. Len(Stream)
      /\ Len(Stream) \in Nat
  BY PacketFacts, StreamAssumption
<1>8. r = Outcome(ByFragmentation(b, p).asm, ByFragmentation(b, p).lost \/ j,
                  ByFragmentation(b, p).unit)
  BY DEF ConsumePiece
<1>9. Carries(i, p.frag)
  BY <1>1, <1>4, <1>7 DEF Carries
<1>10. discontinuity \in BOOLEAN /\ at \in 0 .. Len(Stream)
  BY DEF IInv, TypeOK
<1>11. WholePackets /\ asm.state # "Collecting" /\ ~j /\ ~discontinuity =>
         due = {} \/ due = {<< i, 1 >>}
  BY <1>5, DueFacts DEF IInv, Sync
<1>12. asm.state = "Collecting" => at # 0
  BY DEF IInv, Sync
<1>13. b.state = "Skipping" => j \/ discontinuity
  BY <1>5, <1>10, DueFacts
<1>18. mark \in BOOLEAN
  OBVIOUS
<1>19. mark = (discontinuity \/ r.lost)
  OBVIOUS
<1> HIDE DEF p, b, j, r, mark
<1>21. out' = << >> => due' = Joined(i)
  BY <1>2
<1> SUFFICES /\ asm' \in Assemblers(Position, Tag)
             /\ asm'.last = i % SequenceModulus
             /\ at' = i
             /\ Handed(i) \/ Dropped \/ Held
  BY <1>21
<1>20. ASSUME b.state = "Collecting"
       PROVE  /\ ~j /\ i = at + 1 /\ at \in DOMAIN Stream /\ Begin \in DOMAIN Stream
              /\ Begin \in Nat /\ Begin <= at
              /\ b.data = Run(Begin, at)
              /\ Carries(Begin, 1)
              /\ \A m \in (Begin + 1) .. at : Carries(m, 2)
              /\ \A m \in Begin .. at : TagOf(m) = b.tag
              /\ Append(b.data, << i, 1 >>) = Run(Begin, i)
              /\ Run(Begin, i) \in Seq(Position)
              /\ Len(Run(Begin, i)) = i + 1 - Begin
              /\ Run(Begin, i)[1] = << Begin, 1 >>
              /\ Run(Begin, i)[i + 1 - Begin] = << i, 1 >>
  <2>1. ~j /\ asm.state = "Collecting" /\ i = at + 1 /\ b.data = asm.data
    BY <1>5, <1>12, <1>20
  <2>2. /\ Begin \in 1 .. at /\ asm.data = Run(Begin, at) /\ Carries(Begin, 1)
        /\ \A m \in (Begin + 1) .. at : Carries(m, 2)
        /\ \A m \in Begin .. at : TagOf(m) = asm.tag
    BY <2>1 DEF IInv, Collected
  <2>3. Begin \in Int /\ Begin >= 1 /\ Begin <= at /\ Begin \in DOMAIN Stream
    BY <2>2, <1>7, <1>10 DEF Carries
  <2>4. at \in DOMAIN Stream /\ at + 1 \in DOMAIN Stream
    BY <2>1, <2>3, <1>7, <1>10
  <2>5. /\ Append(Run(Begin, at), << at + 1, 1 >>) = Run(Begin, at + 1)
        /\ Run(Begin, at + 1) \in Seq(Position)
        /\ Len(Run(Begin, at + 1)) = at + 2 - Begin
    BY <2>3, <2>4, RunAppend
  <2>6. Run(Begin, i)[1] = << Begin, 1 >> /\ Run(Begin, i)[i + 1 - Begin] = << i, 1 >>
    <3> DEFINE f == Begin
    <3>1. f \in Nat /\ f <= i
      BY <2>1, <2>3, <2>4, <1>7
    <3> HIDE DEF f
    <3>2. 1 \in 1 .. (i + 1 - f) /\ (i + 1 - f) \in 1 .. (i + 1 - f)
          /\ f + 1 - 1 = f /\ f + (i + 1 - f) - 1 = i
      BY <3>1, <1>7
    <3>3. Run(f, i)[1] = << f, 1 >> /\ Run(f, i)[i + 1 - f] = << i, 1 >>
      BY <3>2 DEF Run
    <3> QED
      BY <3>3 DEF f
  <2> QED
    <3>1. /\ Append(b.data, << i, 1 >>) = Run(Begin, i)
          /\ Run(Begin, i) \in Seq(Position)
          /\ Len(Run(Begin, i)) = i + 1 - Begin
      <4>1. at + 2 - Begin = i + 1 - Begin /\ at + 1 = i
        BY <2>1, <2>3, <1>10
      <4> QED
        BY <4>1, <2>1, <2>2, <2>5
    <3>2. Begin \in Nat
      BY <2>3
    <3>3. b.tag = asm.tag /\ b.data = Run(Begin, at)
      BY <1>5, <2>1, <2>2
    <3> QED
      BY <2>1, <2>2, <2>3, <2>4, <2>6, <3>1, <3>2, <3>3
<1>14. CASE p.frag = 0
  <2>1. ByFragmentation(b, p) =
          Outcome(Emptied(b, "Idle"), b.state = "Collecting", << << i, 1 >> >>)
    BY <1>14, <1>4 DEF ByFragmentation, CompletePiece
  <2>2. /\ r.asm = Emptied(b, "Idle")
        /\ r.lost = (b.state = "Collecting" \/ j)
        /\ r.unit = << << i, 1 >> >>
    <3> DEFINE x == Emptied(b, "Idle")
               lost == b.state = "Collecting"
               unit == << << i, 1 >> >>
    <3> HIDE DEF x, lost, unit
    <3>1. ByFragmentation(Sequenced(asm, p), p) = Outcome(x, lost, unit)
      BY <2>1 DEF b, x, lost, unit
    <3>2. r.asm = x /\ r.lost = (lost \/ j) /\ r.unit = unit
      BY <3>1, PieceFields DEF r, j
    <3> QED
      BY <3>2 DEF x, lost, unit
  <2>3. "Idle" \in FragmentState
    BY DEF FragmentState
  <2>4. /\ asm' \in Assemblers(Position, Tag) /\ asm'.last = i % SequenceModulus
        /\ asm'.state = "Idle" /\ asm'.data = << >> /\ asm'.size = 0
    BY <1>2, <1>5, <2>2, <2>3, EmptiedFacts
  <2>5. /\ r.unit \in Seq(Position) /\ r.unit # << >> /\ Len(r.unit) = 1
        /\ r.unit[1] = << i, 1 >>
    BY <2>2, <1>4
  <2>6. IsWhole(r.unit)
    <3>1. 1 \in DOMAIN Stream[i].units
      BY <1>3, PacketFacts, LenProperties
    <3> QED
      BY <1>1, <1>4, <1>14, <2>2, <3>1 DEF IsWhole
  <2>7. WholePackets => mark \/ due = {} \/ r.unit[1] \in due
    BY <1>5, <1>11, <1>19, <2>2, <2>5
  <2>9. Handed(i)
    BY <1>2, <1>6, <1>18, <2>4, <2>5, <2>6, <2>7 DEF Handed
  <2> QED
    BY <1>1, <2>4, <2>9
<1>15. CASE p.frag = 1
  <2>1. ByFragmentation(b, p) = FirstPiece(b, p)
    BY <1>15 DEF ByFragmentation
  <2> DEFINE c == Begun(b, p)
  <2>2. /\ c \in Assemblers(Position, Tag) /\ c.state = "Collecting" /\ c.last = b.last
        /\ c.tag = p.tag /\ c.data = << >>
    BY <1>4, <1>5, BegunFacts
  <2> HIDE DEF c
  <2>3. CASE Fits(c, p)
    <3> DEFINE x == Appended(c, p)
    <3>1. /\ x \in Assemblers(Position, Tag) /\ x.state = "Collecting" /\ x.last = b.last
          /\ x.tag = p.tag /\ x.data = Append(<< >>, << i, 1 >>)
      BY <1>4, <2>2, <2>3, AppendedFacts
    <3> HIDE DEF x
    <3>2. ByFragmentation(b, p) = Outcome(x, FALSE, << >>)
      BY <2>1, <2>3 DEF FirstPiece, c, x
    <3>3. r.asm = x /\ r.lost = (FALSE \/ j) /\ r.unit = << >>
      BY <3>2, PieceFields DEF r, j, b
    <3>4. /\ asm' = x /\ discontinuity' = mark /\ out' = << >> /\ due' = Joined(i)
      BY <1>2, <3>3
    <3>5. x.data = Run(i, i) /\ Len(x.data) = 1
      BY <3>1, RunOne
    <3>6. Begin' = i
      BY <1>1, <1>7, <3>4, <3>5 DEF Begin
    <3>7. Collected'
      BY <1>1, <1>4, <1>7, <1>9, <1>15, <3>1, <3>4, <3>5, <3>6 DEF Collected
    <3>8. asm.state = "Collecting" /\ ~j => FALSE
      <4> SUFFICES ASSUME asm.state = "Collecting", ~j
                   PROVE  FALSE
        OBVIOUS
      <4>1. i = at + 1 /\ at # 0
        BY <1>5, <1>12
      <4>2. Carries(at, 1) \/ Carries(at, 2)
        BY <4>1, <1>10 DEF IInv, Collected
      <4>3. at \in DOMAIN Stream
        BY <4>1, <1>7, <1>10
      <4> QED
        BY <4>1, <4>2, <4>3, <1>9, <1>15, NoAbandonedUnit
    <3>9. WholePackets /\ ~mark => due' = {<< i, 1 >>}
      BY <1>11, <1>19, <3>3, <3>4, <3>8 DEF Joined
    <3> QED
      BY <1>1, <1>5, <1>18, <3>1, <3>4, <3>6, <3>7, <3>9 DEF Held
  <2>4. CASE ~Fits(c, p)
    <3> DEFINE x == Emptied(c, "Skipping")
    <3>1. "Skipping" \in FragmentState
      BY DEF FragmentState
    <3>2. /\ x \in Assemblers(Position, Tag) /\ x.state = "Skipping" /\ x.last = b.last
          /\ x.data = << >> /\ x.size = 0
      BY <2>2, <3>1, EmptiedFacts
    <3> HIDE DEF x
    <3>3. ByFragmentation(b, p) = Outcome(x, TRUE, << >>)
      BY <2>1, <2>4 DEF FirstPiece, c, x
    <3>4. r.asm = x /\ r.lost = (TRUE \/ j) /\ r.unit = << >>
      BY <3>3, PieceFields DEF r, j, b
    <3> QED
      BY <1>1, <1>2, <1>5, <1>19, <3>2, <3>4 DEF Dropped
  <2> QED
    BY <2>3, <2>4
<1>16. CASE p.frag = 2
  <2>1. ByFragmentation(b, p) = MiddlePiece(b, p)
    BY <1>16 DEF ByFragmentation
  <2>2. CASE b.state = "Skipping"
    <3>1. ByFragmentation(b, p) = Outcome(b, FALSE, << >>)
      BY <2>1, <2>2 DEF MiddlePiece
    <3>2. r.asm = b /\ r.lost = (FALSE \/ j) /\ r.unit = << >>
      BY <3>1, PieceFields DEF r, j, b
    <3> QED
      BY <1>1, <1>2, <1>5, <1>13, <1>18, <1>19, <2>2, <3>2 DEF Dropped
  <2>3. CASE b.state # "Skipping" /\ Continues(b, p) /\ Fits(b, p)
    <3> DEFINE x == Appended(b, p)
    <3>1. b.state = "Collecting" /\ b.tag = p.tag
      BY <2>3 DEF Continues
    <3>2. /\ x \in Assemblers(Position, Tag) /\ x.state = "Collecting" /\ x.last = b.last
          /\ x.tag = b.tag /\ x.data = Append(b.data, << i, 1 >>)
      BY <1>4, <1>5, <2>3, <3>1, AppendedFacts
    <3> HIDE DEF x
    <3>3. ByFragmentation(b, p) = Outcome(x, FALSE, << >>)
      BY <2>1, <2>3 DEF MiddlePiece, x
    <3>4. r.asm = x /\ r.lost = (FALSE \/ j) /\ r.unit = << >>
      BY <3>3, PieceFields DEF r, j, b
    <3>5. /\ asm' = x /\ discontinuity' = mark /\ out' = << >> /\ due' = Joined(i)
      BY <1>2, <3>4
    <3>6. x.data = Run(Begin, i) /\ Len(x.data) = i + 1 - Begin
      BY <3>1, <3>2, <1>20
    <3>7. Begin' = Begin
      <4>1. Begin \in Int
        BY <3>1, <1>20, <1>7
      <4>2. i + 1 - (i + 1 - Begin) = Begin
        BY <4>1, <1>7
      <4> QED
        BY <1>1, <3>5, <3>6, <4>2 DEF Begin
    <3>8. Collected'
      <4>1. asm'.data = Run(Begin', at') /\ Begin' \in 1 .. at' /\ Carries(Begin', 1)
        BY <1>1, <1>7, <1>20, <3>1, <3>5, <3>6, <3>7
      <4>2. \A m \in (Begin' + 1) .. at' : Carries(m, 2)
        BY <1>1, <1>7, <1>9, <1>16, <1>20, <3>1, <3>7
      <4>3. \A m \in Begin' .. at' : TagOf(m) = asm'.tag
        BY <1>1, <1>4, <1>7, <1>20, <3>1, <3>2, <3>5, <3>7
      <4> QED
        BY <4>1, <4>2, <4>3, Zenon DEF Collected
    <3>9. WholePackets /\ ~mark => due' = {<< Begin, 1 >>}
      BY <1>5, <1>10, <1>19, <1>20, <3>1, <3>5, DueFacts DEF Joined
    <3> QED
      BY <1>1, <1>5, <1>18, <3>2, <3>5, <3>7, <3>8, <3>9 DEF Held
  <2>4. CASE b.state # "Skipping" /\ ~(Continues(b, p) /\ Fits(b, p))
    <3> DEFINE x == Emptied(b, "Skipping")
    <3>1. "Skipping" \in FragmentState
      BY DEF FragmentState
    <3>2. /\ x \in Assemblers(Position, Tag) /\ x.state = "Skipping" /\ x.last = b.last
          /\ x.data = << >> /\ x.size = 0
      BY <1>5, <3>1, EmptiedFacts
    <3> HIDE DEF x
    <3>3. ByFragmentation(b, p) = Outcome(x, TRUE, << >>)
      BY <2>1, <2>4 DEF MiddlePiece, x
    <3>4. r.asm = x /\ r.lost = (TRUE \/ j) /\ r.unit = << >>
      BY <3>3, PieceFields DEF r, j, b
    <3> QED
      BY <1>1, <1>2, <1>5, <1>19, <3>2, <3>4 DEF Dropped
  <2> QED
    BY <2>2, <2>3, <2>4
<1>17. CASE p.frag = 3
  <2>1. ByFragmentation(b, p) = LastPiece(b, p)
    BY <1>17 DEF ByFragmentation
  <2> DEFINE x == Emptied(b, "Idle")
  <2>2. "Idle" \in FragmentState
    BY DEF FragmentState
  <2>3. /\ x \in Assemblers(Position, Tag) /\ x.state = "Idle" /\ x.last = b.last
        /\ x.data = << >> /\ x.size = 0
    BY <1>5, <2>2, EmptiedFacts
  <2>4. CASE b.state = "Skipping"
    <3>1. ByFragmentation(b, p) = Outcome(x, FALSE, << >>)
      BY <2>1, <2>4 DEF LastPiece
    <3> HIDE DEF x
    <3>2. r.asm = x /\ r.lost = (FALSE \/ j) /\ r.unit = << >>
      BY <3>1, PieceFields DEF r, j, b
    <3> QED
      BY <1>1, <1>2, <1>5, <1>13, <1>18, <1>19, <2>3, <2>4, <3>2 DEF Dropped
  <2>5. CASE b.state # "Skipping" /\ Continues(b, p) /\ Fits(b, p)
    <3> DEFINE u == Appended(b, p).data
    <3>1. b.state = "Collecting" /\ b.tag = p.tag
      BY <2>5 DEF Continues
    <3>2. u = Run(Begin, i)
      <4>1. u = Append(b.data, p.part)
        BY <1>4, <1>5, <2>5, AppendedFacts
      <4> QED
        BY <4>1, <1>4, <1>20, <3>1
    <3>3. ByFragmentation(b, p) = Outcome(x, FALSE, u)
      BY <2>1, <2>5 DEF LastPiece
    <3> HIDE DEF x, u
    <3>4. r.asm = x /\ r.lost = (FALSE \/ j) /\ r.unit = u
      BY <3>3, PieceFields DEF r, j, b
    <3>5. /\ u \in Seq(Position) /\ Len(u) = i + 1 - Begin /\ i + 1 - Begin \in Nat \ {0}
          /\ u[1] = << Begin, 1 >> /\ u[Len(u)] = << i, 1 >>
      <4>1. i = at + 1 /\ Begin \in Nat /\ Begin <= at
        BY <1>20, <3>1
      <4>2. i + 1 - Begin \in Nat \ {0}
        BY <4>1, <1>7, <1>10
      <4>3. Len(u) = i + 1 - Begin
        BY <1>20, <3>1, <3>2
      <4> QED
        BY <4>2, <4>3, <1>20, <3>1, <3>2
    <3>6. u # << >>
      BY <3>5
    <3>7. /\ asm' = x /\ discontinuity' = FALSE /\ out' = << DataUnit(u, mark) >>
          /\ due' = {<< i + 1, 1 >>}
      BY <1>2, <1>6, <3>4, <3>5, <3>6
    <3>8. Spans(Begin, i)
      <4>1. Begin < i /\ Carries(Begin, 1) /\ Carries(i, 3)
        BY <1>7, <1>9, <1>17, <1>20, <3>1
      <4>2. \A m \in (Begin + 1) .. (i - 1) : Carries(m, 2)
        BY <1>7, <1>20, <3>1
      <4>3. \A m \in Begin .. i : TagOf(m) = b.tag
        BY <1>4, <1>7, <1>20, <3>1
      <4>4. Begin \in Begin .. i
        <5>1. Begin \in Nat
          BY <1>20, <3>1
        <5> QED
          BY <4>1, <5>1, <1>7
      <4> QED
        BY <4>1, <4>2, <4>3, <4>4 DEF Spans
    <3>9. IsWhole(u)
      BY <1>20, <3>1, <3>2, <3>8 DEF IsWhole
    <3>10. WholePackets => mark \/ due = {} \/ u[1] \in due
      BY <1>5, <1>10, <1>19, <1>20, <3>1, <3>5, DueFacts
    <3> QED
      BY <1>1, <1>5, <1>6, <1>18, <2>3, <3>5, <3>7, <3>9, <3>10 DEF Handed
  <2>6. CASE b.state # "Skipping" /\ ~(Continues(b, p) /\ Fits(b, p))
    <3>1. ByFragmentation(b, p) = Outcome(x, TRUE, << >>)
      BY <2>1, <2>6 DEF LastPiece
    <3> HIDE DEF x
    <3>2. r.asm = x /\ r.lost = (TRUE \/ j) /\ r.unit = << >>
      BY <3>1, PieceFields DEF r, j, b
    <3> QED
      BY <1>1, <1>2, <1>5, <1>19, <2>3, <3>2 DEF Dropped
  <2> QED
    BY <2>4, <2>5, <2>6
<1> QED
  BY <1>4, <1>14, <1>15, <1>16, <1>17

(* The same for an aggregated packet: its units one after the other.       *)
LEMMA AggregateOutcome ==
  ASSUME IInv, NEW i \in DOMAIN Stream, ConsumeAggregate(i)
  PROVE  LET units == Stream[i].units
         IN  /\ asm' \in Assemblers(Position, Tag)
             /\ asm'.last = i % SequenceModulus
             /\ asm'.state = "Idle" /\ asm'.data = << >> /\ asm'.size = 0
             /\ at' = i
             /\ discontinuity' = FALSE
             /\ due' = {NextPosition(<< i, Len(units) >>)}
             /\ WholePackets => due' = {<< i + 1, 1 >>}
             /\ Len(units) \in Nat \ {0}
             /\ \E mark \in BOOLEAN :
                  /\ WholePackets /\ ~RepeatAggregates /\ due # {} /\ << i, 1 >> \notin due
                       => mark
                  /\ out' = [k \in 1 .. Len(units) |->
                               DataUnit(<< << i, k >> >>, k = 1 /\ mark)]
             /\ \A k \in 1 .. Len(units) :
                  << << i, k >> >> \in Seq(Position) /\ IsWhole(<< << i, k >> >>)
<1> DEFINE p == Piece(i, 1)
           b == Sequenced(asm, p)
           j == Jumped(asm, p)
           r == ConsumePiece(asm, p)
           units == Stream[i].units
           mark == discontinuity \/ r.lost
<1>1. /\ Deliverable(i) /\ ~Rejected(Stream[i]) /\ Stream[i].aggregation
      /\ units # << >> /\ at' = i /\ asm' = r.asm
      /\ out' = [k \in DOMAIN units |-> DataUnit(<< << i, k >> >>, k = 1 /\ mark)]
      /\ discontinuity' = FALSE /\ due' = {NextPosition(<< i, Len(units) >>)}
  BY DEF ConsumeAggregate, Consumed
<1>2. Stream[i].fragmentation = 0
  BY <1>1 DEF Rejected
<1>3. p.frag = 0 /\ p.agg /\ p.part = << i, 1 >>
  BY <1>1, <1>2, PieceFacts
<1>4. ~Duplicate(asm, p)
  BY <1>3 DEF Duplicate
<1>5. /\ b \in Assemblers(Position, Tag)
      /\ b.last = i % SequenceModulus
      /\ j \in BOOLEAN
      /\ ~j => /\ b.state = asm.state
               /\ \/ at = 0 /\ asm.state = "Initial"
                  \/ i = at + 1
                  \/ i = at /\ RepeatAggregates
  BY <1>1, <1>2, <1>4, SequencedFacts
<1>6. units \in Seq([tag: Tag, size: Nat]) /\ i \in Nat
  BY PacketFacts
<1>7. Len(units) \in Nat \ {0} /\ DOMAIN units = 1 .. Len(units)
  BY <1>1, <1>6, EmptySeq, LenProperties
<1>8. \A k \in 1 .. Len(units) : << << i, k >> >> \in Seq(Position) /\ IsWhole(<< << i, k >> >>)
  BY <1>1, <1>2, <1>7 DEF Position, IsWhole
<1>9. mark \in BOOLEAN
  OBVIOUS
<1>10. mark = (discontinuity \/ r.lost)
  OBVIOUS
<1> HIDE DEF p, b, j, r, mark
<1>11. ByFragmentation(b, p) =
         Outcome(Emptied(b, "Idle"), b.state = "Collecting", << << i, 1 >> >>)
  BY <1>3 DEF ByFragmentation, CompletePiece
<1>12. r.asm = Emptied(b, "Idle") /\ r.lost = (b.state = "Collecting" \/ j)
  <2> DEFINE x == Emptied(b, "Idle")
             lost == b.state = "Collecting"
             unit == << << i, 1 >> >>
  <2> HIDE DEF x, lost, unit
  <2>1. ByFragmentation(Sequenced(asm, p), p) = Outcome(x, lost, unit)
    BY <1>11 DEF b, x, lost, unit
  <2>2. r.asm = x /\ r.lost = (lost \/ j)
    BY <2>1, PieceFields DEF r, j
  <2> QED
    BY <2>2 DEF x, lost
<1>13. "Idle" \in FragmentState
  BY DEF FragmentState
<1>14. /\ asm' \in Assemblers(Position, Tag) /\ asm'.last = i % SequenceModulus
       /\ asm'.state = "Idle" /\ asm'.data = << >> /\ asm'.size = 0
  BY <1>1, <1>5, <1>12, <1>13, EmptiedFacts
<1>15. WholePackets /\ ~RepeatAggregates /\ due # {} /\ << i, 1 >> \notin due => mark
  BY <1>5, <1>10, <1>12, DueFacts
<1>16. out' = [k \in 1 .. Len(units) |-> DataUnit(<< << i, k >> >>, k = 1 /\ mark)]
  BY <1>1, <1>7
<1>17. WholePackets => NextPosition(<< i, Len(units) >>) = << i + 1, 1 >>
  <2> DEFINE n == Len(units)
  <2>1. << i, n >>[1] = i /\ << i, n >>[2] = n /\ ~(n < n)
    BY <1>7
  <2>2. WholePackets => ~Stream[i].cut
    BY DEF WholePackets
  <2> QED
    BY <2>1, <2>2, Zenon DEF NextPosition
<1> QED
  BY <1>1, <1>7, <1>8, <1>9, <1>14, <1>15, <1>16, <1>17

(* The assembler of an asset that has just been installed.                 *)
LEMMA FreshFacts ==
  /\ FreshAsset \in Assemblers(Position, Tag)
  /\ FreshAsset.state = "Initial" /\ FreshAsset.data = << >> /\ FreshAsset.size = 0
<1>1. (CHOOSE t \in Tag : TRUE) \in Tag
  BY TagAssumption
<1>2. 0 \in 0 .. (SequenceModulus - 1) /\ 0 \in 0 .. MaxAccessUnit /\ << >> \in Seq(Position)
  BY SequenceModulusAssumption, MaxAccessUnitAssumption
<1> QED
  BY <1>1, <1>2 DEF FreshAsset, FreshAssembler, Assembler, Assemblers, FragmentState

(* The inductive invariant holds of an asset just installed.               *)
LEMMA InitInvariant == Init => IInv
<1> SUFFICES ASSUME Init PROVE IInv
  OBVIOUS
<1>1. TypeOK
  <2>1. discontinuity \in BOOLEAN
    BY DEF Init
  <2> QED
    BY <2>1, FreshFacts, StreamAssumption DEF Init, TypeOK, Assemblers
<1>2. Sync /\ Collected /\ Unmarked /\ NoSplice
  BY FreshFacts DEF Init, Sync, Collected, Unmarked, NoSplice
<1> QED
  BY <1>1, <1>2 DEF IInv

(* Consuming a packet keeps the bookkeeping of the history in range.       *)
LEMMA ConsumedFacts ==
  ASSUME IInv, NEW i \in DOMAIN Stream, Consumed(i)
  PROVE  at' \in 0 .. Len(Stream) /\ at' # 0 /\ since' \in 0 .. Len(Stream)
         /\ accepted' \in 0 .. 2
BY PacketFacts, StreamAssumption DEF IInv, TypeOK, Consumed

(* Every step keeps the inductive invariant.                               *)
LEMMA StepInvariant == IInv /\ [Next]_vars => IInv'
<1> SUFFICES ASSUME IInv, [Next]_vars PROVE IInv'
  OBVIOUS
<1> USE DEF Assemblers
<1>1. ASSUME NEW i \in DOMAIN Stream, RejectPacket(i)
      PROVE  IInv'
  <2>1. TypeOK'
    BY <1>1, StreamAssumption DEF RejectPacket, IInv, TypeOK
  <2>2. Sync' /\ Collected'
    BY <1>1 DEF RejectPacket, IInv, Sync, Collected, Begin
  <2>3. Unmarked' /\ NoSplice'
    BY <1>1 DEF RejectPacket, Unmarked, NoSplice
  <2> QED
    BY <2>1, <2>2, <2>3 DEF IInv
<1>2. ASSUME NEW i \in DOMAIN Stream, ConsumeDataPiece(i)
      PROVE  IInv'
  <2>1. /\ asm' \in Assemblers(Position, Tag) /\ asm'.last = i % SequenceModulus /\ at' = i
        /\ Handed(i) \/ Dropped \/ Held
    BY <1>2, DataPieceOutcome
  <2>2. /\ at' \in 0 .. Len(Stream) /\ at' # 0 /\ since' \in 0 .. Len(Stream)
        /\ accepted' \in 0 .. 2
    BY <1>2, ConsumedFacts DEF ConsumeDataPiece
  <2>3. CASE Handed(i)
    <3>1. PICK parts \in Seq(Position), mark \in BOOLEAN :
            /\ out' = << DataUnit(parts, mark) >>
            /\ IsWhole(parts)
      BY <2>3 DEF Handed
    <3>2. DataUnit(parts, mark) \in [parts: Seq(Position), discontinuity: BOOLEAN]
          /\ DataUnit(parts, mark).parts = parts
      BY DEF DataUnit
    <3> DEFINE unit == DataUnit(parts, mark)
    <3> HIDE DEF unit
    <3>3. out' = << unit >> /\ out' \in Seq([parts: Seq(Position), discontinuity: BOOLEAN])
          /\ IsWhole(unit.parts)
      BY <3>1, <3>2 DEF unit
    <3>4. NoSplice'
      BY <3>3 DEF NoSplice
    <3>5. TypeOK'
      BY <2>1, <2>2, <2>3, <3>3 DEF TypeOK, Handed
    <3>6. Sync' /\ Collected' /\ Unmarked'
      BY <2>1, <2>2, <2>3 DEF Handed, Sync, Collected, Unmarked
    <3> QED
      BY <3>4, <3>5, <3>6 DEF IInv
  <2>4. CASE Dropped
    <3>1. TypeOK'
      BY <2>1, <2>2, <2>4 DEF TypeOK, Dropped
    <3>2. Sync' /\ Collected' /\ Unmarked' /\ NoSplice'
      BY <2>1, <2>2, <2>4 DEF Dropped, Sync, Collected, Unmarked, NoSplice
    <3> QED
      BY <3>1, <3>2 DEF IInv
  <2>5. CASE Held
    <3>1. TypeOK'
      BY <2>1, <2>2, <2>5 DEF TypeOK, Held
    <3>2. Sync' /\ Collected' /\ Unmarked' /\ NoSplice'
      BY <2>1, <2>2, <2>5 DEF Held, Sync, Unmarked, NoSplice
    <3> QED
      BY <3>1, <3>2 DEF IInv
  <2> QED
    BY <2>1, <2>3, <2>4, <2>5
<1>3. ASSUME NEW i \in DOMAIN Stream, ConsumeAggregate(i)
      PROVE  IInv'
  <2> DEFINE n == Len(Stream[i].units)
  <2>1. /\ asm' \in Assemblers(Position, Tag) /\ asm'.last = i % SequenceModulus
        /\ asm'.state = "Idle" /\ asm'.data = << >> /\ asm'.size = 0
        /\ at' = i /\ discontinuity' = FALSE
        /\ WholePackets => due' = {<< i + 1, 1 >>}
        /\ n \in Nat \ {0}
        /\ \A k \in 1 .. n : << << i, k >> >> \in Seq(Position) /\ IsWhole(<< << i, k >> >>)
    BY <1>3, AggregateOutcome
  <2>2. /\ at' \in 0 .. Len(Stream) /\ at' # 0 /\ since' \in 0 .. Len(Stream)
        /\ accepted' \in 0 .. 2
    BY <1>3, ConsumedFacts DEF ConsumeAggregate
  <2>3. PICK mark \in BOOLEAN :
          out' = [k \in 1 .. n |-> DataUnit(<< << i, k >> >>, k = 1 /\ mark)]
    BY <1>3, AggregateOutcome
  <2> HIDE DEF n
  <2>4. \A k \in 1 .. n :
          /\ DataUnit(<< << i, k >> >>, k = 1 /\ mark)
               \in [parts: Seq(Position), discontinuity: BOOLEAN]
          /\ DataUnit(<< << i, k >> >>, k = 1 /\ mark).parts = << << i, k >> >>
    <3> TAKE k \in 1 .. n
    <3> DEFINE m == k = 1 /\ mark
    <3>1. m \in BOOLEAN
      OBVIOUS
    <3>2. << << i, k >> >> \in Seq(Position)
      BY <2>1
    <3> HIDE DEF m
    <3>3. /\ DataUnit(<< << i, k >> >>, m) \in [parts: Seq(Position), discontinuity: BOOLEAN]
          /\ DataUnit(<< << i, k >> >>, m).parts = << << i, k >> >>
      BY <3>1, <3>2 DEF DataUnit
    <3> QED
      BY <3>3 DEF m
  <2>5. NoSplice'
    <3>1. DOMAIN out' = 1 .. n
      BY <2>3
    <3>2. ASSUME NEW k \in DOMAIN out'
          PROVE  IsWhole(out'[k].parts)
      <4>1. k \in 1 .. n
        BY <3>1
      <4>2. out'[k] = DataUnit(<< << i, k >> >>, k = 1 /\ mark)
        BY <2>3, <4>1
      <4>3. out'[k].parts = << << i, k >> >>
        BY <2>4, <4>1, <4>2
      <4> QED
        BY <2>1, <4>1, <4>3
    <3> QED
      BY <3>2 DEF NoSplice
  <2>6. out' \in Seq([parts: Seq(Position), discontinuity: BOOLEAN])
    BY <2>1, <2>3, <2>4, SeqDef
  <2>7. TypeOK'
    BY <2>1, <2>2, <2>6 DEF TypeOK
  <2>8. Sync' /\ Collected' /\ Unmarked'
    BY <2>1, <2>2 DEF Sync, Collected, Unmarked
  <2> QED
    BY <2>5, <2>7, <2>8 DEF IInv
<1>4. ASSUME NEW i \in DOMAIN Stream, ConsumeEmptyAggregate(i)
      PROVE  IInv'
  <2>1. TypeOK'
    BY <1>4, StreamAssumption DEF ConsumeEmptyAggregate, IInv, TypeOK
  <2>2. Sync' /\ Collected' /\ Unmarked'
    BY <1>4 DEF ConsumeEmptyAggregate, IInv, Sync, Collected, Unmarked, Begin
  <2>3. NoSplice'
    BY <1>4 DEF ConsumeEmptyAggregate, NoSplice
  <2> QED
    BY <2>1, <2>2, <2>3 DEF IInv
<1>5. CASE Flush
  <2>1. TypeOK'
    BY <1>5, FreshFacts, StreamAssumption DEF Flush, TypeOK
  <2>2. Sync' /\ Collected' /\ Unmarked' /\ NoSplice'
    BY <1>5, FreshFacts DEF Flush, Sync, Collected, Unmarked, NoSplice
  <2> QED
    BY <2>1, <2>2 DEF IInv
<1>6. CASE Reinstall
  <2>1. TypeOK'
    <3>1. discontinuity' \in BOOLEAN
      BY <1>6 DEF Reinstall
    <3> QED
      BY <1>6, <3>1, FreshFacts, StreamAssumption DEF Reinstall, TypeOK
  <2>2. Sync' /\ Collected' /\ Unmarked' /\ NoSplice'
    BY <1>6, FreshFacts DEF Reinstall, Sync, Collected, Unmarked, NoSplice
  <2> QED
    BY <2>1, <2>2 DEF IInv
<1>7. CASE UNCHANGED vars
  BY <1>7 DEF vars, IInv, TypeOK, Sync, Collected, Unmarked, NoSplice, Begin
<1> QED
  BY <1>1, <1>2, <1>3, <1>4, <1>5, <1>6, <1>7 DEF Next

(* The assembler, the mark and the units handed over are always in step    *)
(* with the stream, whatever the channel does to it.                       *)
THEOREM Invariance == Spec => []IInv
BY InitInvariant, StepInvariant, PTL DEF Spec

(* A DataAssetState never holds more than Limits::max_access_unit bytes,   *)
(* and its fields stay in their types.                                     *)
THEOREM TypeCorrect == Spec => []TypeOK
<1>1. IInv => TypeOK
  BY DEF IInv
<1> QED
  BY <1>1, Invariance, PTL

(* A DataUnit never mixes bytes of different units of the sender.          *)
THEOREM NeverSpliced == Spec => []NoSplice
<1>1. IInv => NoSplice
  BY DEF IInv
<1> QED
  BY <1>1, Invariance, PTL

-----------------------------------------------------------------------------
(* Refinement: every packet is a HandOver or Silent step of MarkedUnits.   *)
LEMMA PieceHandsOver ==
  ASSUME WholePackets, NEW i \in DOMAIN Stream, Handed(i)
  PROVE  Abstract!HandOver
<1>1. PICK parts \in Seq(Position), mark \in BOOLEAN :
        /\ out' = << DataUnit(parts, mark) >>
        /\ IsWhole(parts)
        /\ Len(parts) \in Nat \ {0}
        /\ parts[Len(parts)] = << i, 1 >>
        /\ mark \/ due = {} \/ parts[1] \in due
  BY DEF Handed
<1> DEFINE unit == DataUnit(parts, mark)
<1>2. /\ unit.parts = parts /\ unit.discontinuity = mark
      /\ unit \in Abstract!Unit
  BY <1>1 DEF DataUnit, Abstract!Unit
<1> HIDE DEF unit
<1>3. out' = << unit >> /\ Len(out') = 1 /\ out'[1] = unit /\ DOMAIN out' = 1 .. 1
  BY <1>1 DEF unit
<1>4. out' \in Seq(Abstract!Unit) \ {<< >>}
  BY <1>2, <1>3
<1>5. Abstract!Marked(due, out')
  BY <1>1, <1>2, <1>3 DEF Abstract!Marked, Abstract!StartsAt
<1>6. due' = Abstract!After(out'[Len(out')])
  <2>1. due' = {<< i + 1, 1 >>} /\ NextPosition(<< i, 1 >>) = << i + 1, 1 >>
    BY DEF Handed
  <2> QED
    BY <2>1, <1>1, <1>2, <1>3 DEF Abstract!After
<1> QED
  BY <1>4, <1>5, <1>6 DEF Abstract!HandOver

(* An aggregated packet is one HandOver of all its units.                  *)
LEMMA AggregateHandsOver ==
  ASSUME IInv, ~RepeatAggregates, WholePackets, NEW i \in DOMAIN Stream, ConsumeAggregate(i)
  PROVE  Abstract!HandOver
<1> DEFINE n == Len(Stream[i].units)
<1>1. /\ due' = {NextPosition(<< i, n >>)}
      /\ n \in Nat \ {0}
      /\ \A k \in 1 .. n : << << i, k >> >> \in Seq(Position) /\ IsWhole(<< << i, k >> >>)
  BY AggregateOutcome
<1>2. PICK mark \in BOOLEAN :
        /\ due # {} /\ << i, 1 >> \notin due => mark
        /\ out' = [k \in 1 .. n |-> DataUnit(<< << i, k >> >>, k = 1 /\ mark)]
  BY AggregateOutcome
<1>3. \A k \in 1 .. n : k < n => NextPosition(<< i, k >>) = << i, k + 1 >>
  BY DEF NextPosition
<1> HIDE DEF n
<1>4. ASSUME NEW k \in 1 .. n
      PROVE  /\ out'[k] \in Abstract!Unit
             /\ out'[k].parts = << << i, k >> >>
             /\ out'[k].discontinuity = (k = 1 /\ mark)
             /\ out'[k].parts[1] = << i, k >>
             /\ Len(out'[k].parts) = 1
  <2> DEFINE m == k = 1 /\ mark
             parts == << << i, k >> >>
  <2>1. m \in BOOLEAN /\ out'[k] = DataUnit(parts, m)
    BY <1>2
  <2>2. parts \in Seq(Position) /\ IsWhole(parts) /\ parts[1] = << i, k >> /\ Len(parts) = 1
    BY <1>1
  <2>3. m = (k = 1 /\ mark)
    OBVIOUS
  <2> HIDE DEF m, parts
  <2>4. /\ out'[k] \in Abstract!Unit
        /\ out'[k].parts = parts
        /\ out'[k].discontinuity = m
    BY <2>1, <2>2 DEF DataUnit, Abstract!Unit
  <2> QED
    BY <2>2, <2>3, <2>4 DEF parts
<1>5. out' \in [1 .. n -> Abstract!Unit] /\ DOMAIN out' = 1 .. n
  BY <1>2, <1>4
<1>6. out' \in Seq(Abstract!Unit) /\ Len(out') = n /\ out' # << >>
  BY <1>1, <1>5, SeqDef, LenProperties, EmptySeq
<1>7. Abstract!Marked(due, out')
  <2> SUFFICES ASSUME NEW k \in 1 .. n
               PROVE  \/ out'[k].discontinuity
                      \/ Abstract!StartsAt(IF k = 1 THEN due
                                           ELSE Abstract!After(out'[k - 1]), out'[k])
    BY <1>5 DEF Abstract!Marked
  <2>1. CASE k = 1
    <3>1. out'[1].discontinuity = mark /\ out'[1].parts[1] = << i, 1 >>
      BY <1>4, <2>1
    <3> QED
      BY <1>2, <2>1, <3>1 DEF Abstract!StartsAt
  <2>2. CASE k # 1
    <3>1. k - 1 \in 1 .. n /\ k - 1 < n /\ (k - 1) + 1 = k
      BY <1>1, <2>2
    <3>2. NextPosition(<< i, k - 1 >>) = << i, k >>
      BY <1>3, <3>1
    <3>3. Abstract!After(out'[k - 1]) = {<< i, k >>}
      BY <1>4, <3>1, <3>2 DEF Abstract!After
    <3> QED
      BY <1>4, <2>2, <3>3 DEF Abstract!StartsAt
  <2> QED
    BY <2>1, <2>2
<1>8. due' = Abstract!After(out'[Len(out')])
  <2>1. n \in 1 .. n
    BY <1>1
  <2> QED
    BY <1>1, <1>4, <1>6, <2>1 DEF Abstract!After
<1> QED
  BY <1>6, <1>7, <1>8 DEF Abstract!HandOver

(* A packet that completes no unit is a Silent step.                       *)
LEMMA JoinedIsSilent ==
  ASSUME NEW i \in DOMAIN Stream, out' = << >>, due' = Joined(i)
  PROVE  Abstract!Silent
<1>1. << i, 1 >> \in Position
  BY DEF Position
<1> QED
  BY <1>1 DEF Joined, Abstract!Silent

(* Every step of the asset is a step of MarkedUnits or a stutter.          *)
LEMMA AbstractStep ==
  ASSUME IInv, ~RepeatAggregates, WholePackets, [Next]_vars
  PROVE  [Abstract!Next]_(Abstract!absvars)
<1>1. ASSUME NEW i \in DOMAIN Stream, RejectPacket(i)
      PROVE  Abstract!Next
  BY <1>1, JoinedIsSilent DEF RejectPacket, Abstract!Next
<1>2. ASSUME NEW i \in DOMAIN Stream, ConsumeDataPiece(i)
      PROVE  Abstract!Next
  <2>1. /\ out' = << >> => due' = Joined(i)
        /\ Handed(i) \/ Dropped \/ Held
    BY <1>2, DataPieceOutcome
  <2>2. CASE Handed(i)
    BY <2>2, PieceHandsOver DEF Abstract!Next
  <2>3. CASE Dropped \/ Held
    <3>1. out' = << >>
      BY <2>3 DEF Dropped, Held
    <3> QED
      BY <2>1, <3>1, JoinedIsSilent DEF Abstract!Next
  <2> QED
    BY <2>1, <2>2, <2>3
<1>3. ASSUME NEW i \in DOMAIN Stream, ConsumeAggregate(i)
      PROVE  Abstract!Next
  BY <1>3, AggregateHandsOver DEF Abstract!Next
<1>4. ASSUME NEW i \in DOMAIN Stream, ConsumeEmptyAggregate(i)
      PROVE  Abstract!Next
  BY <1>4 DEF ConsumeEmptyAggregate, Abstract!Next, Abstract!Silent
<1>5. ASSUME Flush
      PROVE  Abstract!Next
  BY <1>5 DEF Flush, Abstract!Next, Abstract!Silent
<1>6. ASSUME Reinstall
      PROVE  Abstract!Next
  BY <1>6 DEF Reinstall, Abstract!Next, Abstract!Restart
<1>7. ASSUME UNCHANGED vars
      PROVE  UNCHANGED Abstract!absvars
  BY <1>7 DEF vars, Abstract!absvars
<1> QED
  BY <1>1, <1>2, <1>3, <1>4, <1>5, <1>6, <1>7 DEF Next

(* Unless the channel repeats aggregated packets or a body is cut, a data  *)
(* asset keeps the promise of MarkedUnits: whole units, every loss marked. *)
THEOREM ImplementsMarkedUnits ==
  ~RepeatAggregates /\ WholePackets => (Spec => Refinement)
<1> SUFFICES ASSUME ~RepeatAggregates, WholePackets
             PROVE  Spec => Refinement
  OBVIOUS
<1>1. Init => Abstract!Init
  BY DEF Init, Abstract!Init
<1>2. IInv /\ [Next]_vars => [Abstract!Next]_(Abstract!absvars)
  BY AbstractStep
<1> QED
  BY <1>1, <1>2, Invariance, PTL DEF Spec, Refinement, Abstract!Spec

(* One step of it.                                                         *)
LEMMA MarkedStep ==
  ASSUME IInv, ~RepeatAggregates, WholePackets, [Next]_vars
  PROVE  LossMarkedStep \/ UNCHANGED vars
<1>1. CASE Abstract!HandOver
  <2>1. Abstract!Marked(due, out')
    BY <1>1 DEF Abstract!HandOver
  <2>2. out' \in Seq(Abstract!Unit)
    BY <1>1 DEF Abstract!HandOver
  <2>3. ASSUME NEW k \in DOMAIN out', ~out'[k].discontinuity
        PROVE  \/ k = 1 /\ due = {}
               \/ k = 1 /\ out'[1].parts[1] \in due
               \/ k > 1 /\ out'[k].parts[1] =
                            NextPosition(out'[k - 1].parts[Len(out'[k - 1].parts)])
    <3>1. k \in Nat /\ k >= 1
      BY <2>2, LenProperties
    <3>2. Abstract!StartsAt(IF k = 1 THEN due ELSE Abstract!After(out'[k - 1]), out'[k])
      BY <2>1, <2>3 DEF Abstract!Marked
    <3>3. CASE k = 1
      BY <3>2, <3>3 DEF Abstract!StartsAt
    <3>4. CASE k > 1
      <4>1. k # 1
        BY <3>1, <3>4
      <4> QED
        BY <3>2, <3>4, <4>1 DEF Abstract!StartsAt, Abstract!After
    <3> QED
      BY <3>1, <3>3, <3>4
  <2>4. LossMarkedStep
    BY <2>3, Zenon DEF LossMarkedStep
  <2> QED
    BY <2>4
<1>2. CASE out' = << >>
  BY <1>2 DEF LossMarkedStep
<1>3. CASE UNCHANGED vars
  BY <1>3
<1>4. Abstract!HandOver \/ out' = << >> \/ UNCHANGED vars
  <2>1. Next \/ UNCHANGED vars
    OBVIOUS
  <2>2. ASSUME NEW i \in DOMAIN Stream, ConsumeDataPiece(i)
        PROVE  Abstract!HandOver \/ out' = << >>
    BY <2>2, DataPieceOutcome, PieceHandsOver DEF Dropped, Held
  <2> QED
    BY <2>1, <2>2, AggregateHandsOver
    DEF Next, RejectPacket, ConsumeEmptyAggregate, Flush, Reinstall
<1> QED
  BY <1>1, <1>2, <1>3, <1>4

(* DataUnit::discontinuity never hides a loss: a unit that is handed over  *)
(* without it starts where the one before it ended.                        *)
THEOREM LossIsMarked == ~RepeatAggregates /\ WholePackets => (Spec => LossMarked)
<1> SUFFICES ASSUME ~RepeatAggregates, WholePackets
             PROVE  Spec => LossMarked
  OBVIOUS
<1>1. IInv /\ [Next]_vars => [LossMarkedStep]_vars
  BY MarkedStep
<1> QED
  BY <1>1, Invariance, PTL DEF Spec, LossMarked


-----------------------------------------------------------------------------
(* The bytes of packets f .. l, one packet after the other.                *)
LEMMA BytesFacts ==
  ASSUME NEW f \in DOMAIN Stream
  PROVE  /\ \A l \in DOMAIN Stream : SizeOf(l) \in Nat /\ Bytes(f, l) \in Nat
         /\ Bytes(f, f) = SizeOf(f)
         /\ \A l \in DOMAIN Stream :
              f <= l /\ l + 1 \in DOMAIN Stream => Bytes(f, l + 1) = Bytes(f, l) + SizeOf(l + 1)
<1> DEFINE N == Len(Stream)
           step == [x \in Nat \X (1 .. N) |-> IF x[2] < f THEN 0 ELSE x[1] + SizeOf(x[2])]
           Loop(t) == t = [m \in 0 .. N |-> IF m < f THEN 0 ELSE t[m - 1] + SizeOf(m)]
           total == CHOOSE t : Loop(t)
<1>1. N \in Nat /\ DOMAIN Stream = 1 .. N /\ f \in 1 .. N
  BY PacketFacts, StreamAssumption
<1>2. \A l \in DOMAIN Stream : SizeOf(l) \in Nat
  <2> TAKE l \in DOMAIN Stream
  <2>1. CASE Stream[l].units = << >>
    BY <2>1 DEF SizeOf
  <2>2. CASE Stream[l].units # << >>
    <3>1. Piece(l, 1).size \in Nat
      BY <2>2, PieceFacts
    <3> QED
      BY <2>2, <3>1 DEF SizeOf, Piece
  <2> QED
    BY <2>1, <2>2
<1>3. \A l : Bytes(f, l) = total[l]
  BY DEF Bytes
<1> HIDE DEF N
<1>4. step \in [Nat \X (1 .. N) -> Nat]
  BY <1>1, <1>2
<1>5. \A s \in Nat, m \in 1 .. N : step[<< s, m >>] = IF m < f THEN 0 ELSE s + SizeOf(m)
  OBVIOUS
<1> HIDE DEF step
<1>6. PICK t \in [0 .. N -> Nat] : IsLoop(t, N, 0, step)
  BY <1>1, <1>4, LoopExists
<1>7. t = [m \in 0 .. N |-> IF m = 0 THEN 0 ELSE step[<< t[m - 1], m >>]]
  BY <1>6 DEF IsLoop
<1>8. Loop(t)
  <2>1. ASSUME NEW m \in 0 .. N
        PROVE  (IF m = 0 THEN 0 ELSE step[<< t[m - 1], m >>])
                 = IF m < f THEN 0 ELSE t[m - 1] + SizeOf(m)
    <3>1. CASE m = 0
      BY <1>1, <3>1
    <3>2. CASE m # 0
      <4>1. m \in 1 .. N /\ m - 1 \in 0 .. N
        BY <1>1, <3>2
      <4>2. t[m - 1] \in Nat
        BY <4>1
      <4> QED
        BY <1>5, <3>2, <4>1, <4>2
    <3> QED
      BY <3>1, <3>2
  <2>2. [m \in 0 .. N |-> IF m = 0 THEN 0 ELSE step[<< t[m - 1], m >>]]
          = [m \in 0 .. N |-> IF m < f THEN 0 ELSE t[m - 1] + SizeOf(m)]
    BY <2>1
  <2> QED
    BY <1>7, <2>2
<1>9. Loop(total)
  <2> HIDE DEF Loop
  <2> QED
    BY <1>8, Zenon
<1> HIDE DEF total
<1>10. \A m \in 0 .. N : total[m] = IF m < f THEN 0 ELSE total[m - 1] + SizeOf(m)
  BY <1>9
<1> HIDE DEF Loop
<1>11. \A m \in 0 .. N : total[m] \in Nat
  <2> DEFINE I == [m \in 0 .. N |-> Nat]
  <2>1. total[0] \in I[0]
    BY <1>1, <1>10
  <2>2. ASSUME NEW m \in 1 .. N, total[m - 1] \in I[m - 1]
        PROVE  total[m] \in I[m]
    <3>1. m \in 0 .. N /\ m - 1 \in 0 .. N /\ m \in DOMAIN Stream
      BY <1>1
    <3>2. total[m - 1] \in Nat /\ SizeOf(m) \in Nat
      BY <1>2, <2>2, <3>1
    <3> QED
      BY <1>10, <3>1, <3>2
  <2> HIDE DEF I
  <2>3. \A m \in 0 .. N : total[m] \in I[m]
    BY <1>1, <2>1, <2>2, LoopInvariant
  <2> QED
    BY <2>3 DEF I
<1>12. Bytes(f, f) = SizeOf(f)
  <2>1. f \in 0 .. N /\ f - 1 \in 0 .. N /\ f - 1 < f /\ ~(f < f)
    BY <1>1
  <2>2. total[f - 1] = 0 /\ total[f] = total[f - 1] + SizeOf(f) /\ SizeOf(f) \in Nat
    BY <1>2, <1>10, <2>1
  <2> QED
    BY <1>3, <2>2
<1>13. ASSUME NEW l \in DOMAIN Stream, f <= l, l + 1 \in DOMAIN Stream
       PROVE  Bytes(f, l + 1) = Bytes(f, l) + SizeOf(l + 1)
  <2>1. l + 1 \in 0 .. N /\ ~(l + 1 < f) /\ (l + 1) - 1 = l
    BY <1>1, <1>13
  <2>2. total[l + 1] = total[(l + 1) - 1] + SizeOf(l + 1)
    BY <1>10, <2>1
  <2>3. Bytes(f, l + 1) = total[l + 1] /\ Bytes(f, l) = total[l]
    BY <1>3
  <2> QED
    BY <2>1, <2>2, <2>3
<1>14. \A l \in DOMAIN Stream : Bytes(f, l) \in Nat
  BY <1>1, <1>3, <1>11
<1> QED
  BY <1>2, <1>12, <1>13, <1>14

(* A packet that carries a fragment, and the piece it is consumed as.      *)
LEMMA FragmentFacts ==
  ASSUME NEW i \in DOMAIN Stream, NEW frag \in 1 .. 3, Carries(i, frag)
  PROVE  /\ Stream[i].units # << >> /\ ~Stream[i].aggregation
         /\ Piece(i, 1).tag = TagOf(i) /\ Piece(i, 1).part = << i, 1 >>
         /\ Piece(i, 1).frag = frag
         /\ Piece(i, 1).size = SizeOf(i) /\ SizeOf(i) \in Nat
<1>1. ~Stream[i].aggregation /\ Stream[i].fragmentation = frag
  BY DEF Carries
<1>2. Len(Stream[i].units) = 1
  BY <1>1, PacketFacts, Zenon
<1>3. Stream[i].units # << >>
  <2>1. Len(<< >>) = 0
    OBVIOUS
  <2> QED
    BY <1>2, <2>1
<1>4. /\ Piece(i, 1).tag = TagOf(i) /\ Piece(i, 1).part = << i, 1 >>
      /\ Piece(i, 1).frag = frag /\ Piece(i, 1).size \in Nat
  BY <1>1, <1>3, PieceFacts
<1>5. Piece(i, 1).size = SizeOf(i)
  BY <1>3 DEF Piece, SizeOf
<1> QED
  BY <1>1, <1>3, <1>4, <1>5

(* The packet behind the one consumed last reveals no jump.                *)
LEMMA NextInOrder ==
  ASSUME IInv, NEW i \in DOMAIN Stream, Stream[i].units # << >>, at # 0, i = at + 1
  PROVE  LET p == Piece(i, 1)
         IN  Sequenced(asm, p) = Assembler(asm.state, p.seq, asm.tag, asm.data, asm.size)
<1> DEFINE p == Piece(i, 1)
<1>1. p.seq = i % SequenceModulus
  BY PieceFacts
<1>2. asm.last = at % SequenceModulus /\ at \in Nat
  <2>1. Len(Stream) \in Nat
    BY StreamAssumption
  <2> QED
    BY <2>1 DEF IInv, Sync, TypeOK
<1>3. i % SequenceModulus = ((at % SequenceModulus) + 1) % SequenceModulus
  <2>1. SequenceModulus \in Nat /\ SequenceModulus > 2
    BY SequenceModulusAssumption
  <2> QED
    BY <1>2, <2>1, Successor
<1>4. Follows(asm, p)
  BY <1>1, <1>2, <1>3 DEF Follows
<1> HIDE DEF p
<1>5. Sequenced(asm, p) = Assembler(asm.state, p.seq, asm.tag, asm.data, asm.size)
  BY <1>4 DEF Sequenced, Jumped
<1> QED
  BY <1>5 DEF p


(* The first fragment of a unit is collected, if it is not too long, in    *)
(* whatever state the assembler was.                                       *)
LEMMA FirstBegins ==
  ASSUME IInv, NEW i \in DOMAIN Stream, Carries(i, 1), ConsumeDataPiece(i)
  PROVE  IF SizeOf(i) <= MaxAccessUnit
         THEN asm'.state = "Collecting" /\ Len(asm'.data) = 1 /\ asm'.size = SizeOf(i)
         ELSE asm'.state = "Skipping"
<1> DEFINE p == Piece(i, 1)
           b == Sequenced(asm, p)
           c == Begun(b, p)
<1>1. p.frag = 1 /\ p.size = SizeOf(i) /\ SizeOf(i) \in Nat
  BY FragmentFacts
<1>2. asm' = ConsumePiece(asm, p).asm
  BY DEF ConsumeDataPiece
<1>3. ByFragmentation(b, p) = FirstPiece(b, p)
  BY <1>1 DEF ByFragmentation
<1>4. ASSUME NEW o, NEW lost, FirstPiece(b, p) = Outcome(o, lost, << >>)
      PROVE  asm' = o
  <2>1. ByFragmentation(b, p) = Outcome(o, lost, << >>)
    BY <1>3, <1>4
  <2> HIDE DEF p
  <2>2. ConsumePiece(asm, p).asm = o
    BY <2>1, PieceFields DEF b
  <2> QED
    BY <1>2, <2>2
<1>5. c.state = "Collecting" /\ c.data = << >> /\ c.size = 0
  BY DEF Begun, Assembler
<1> HIDE DEF b, c, p
<1>6. Fits(c, p) <=> SizeOf(i) <= MaxAccessUnit
  BY <1>1, <1>5, MaxAccessUnitAssumption DEF Fits
<1>7. CASE Fits(c, p)
  <2> DEFINE x == Appended(c, p)
  <2>1. x.state = "Collecting" /\ x.data = Append(<< >>, p.part) /\ x.size = SizeOf(i)
    BY <1>1, <1>5 DEF Appended, Assembler
  <2>2. Len(x.data) = 1
    BY <2>1
  <2> HIDE DEF x
  <2>3. FirstPiece(b, p) = Outcome(x, FALSE, << >>)
    BY <1>7 DEF FirstPiece, c, x
  <2>4. asm' = x
    BY <1>4, <2>3
  <2> QED
    BY <1>6, <1>7, <2>1, <2>2, <2>4
<1>8. CASE ~Fits(c, p)
  <2> DEFINE x == Emptied(c, "Skipping")
  <2>1. x.state = "Skipping"
    BY DEF Emptied, Assembler
  <2> HIDE DEF x
  <2>2. FirstPiece(b, p) = Outcome(x, TRUE, << >>)
    BY <1>8 DEF FirstPiece, c, x
  <2>3. asm' = x
    BY <1>4, <2>2
  <2> QED
    BY <1>6, <1>8, <2>1, <2>3
<1> QED
  BY <1>7, <1>8

(* A later fragment that comes in order joins what is collected of its     *)
(* unit, unless the unit becomes too long or is skipped.                   *)
LEMMA LaterJoins ==
  ASSUME IInv, NEW i \in DOMAIN Stream, NEW frag \in 2 .. 3, Carries(i, frag),
         ConsumeDataPiece(i), at # 0, i = at + 1,
         asm.state = "Skipping" \/ (asm.state = "Collecting" /\ asm.tag = TagOf(i))
  PROVE  IF asm.state = "Collecting" /\ asm.size + SizeOf(i) <= MaxAccessUnit
         THEN /\ frag = 2 => /\ asm'.state = "Collecting"
                             /\ asm'.data = Append(asm.data, << i, 1 >>)
                             /\ asm'.size = asm.size + SizeOf(i)
              /\ frag = 3 => /\ Len(out') = 1
                             /\ out'[1].parts = Append(asm.data, << i, 1 >>)
         ELSE /\ frag = 2 => asm'.state = "Skipping"
              /\ frag = 3 => out' = << >>
<1> DEFINE p == Piece(i, 1)
           b == Sequenced(asm, p)
           r == ConsumePiece(asm, p)
           joined == Append(asm.data, << i, 1 >>)
<1>1. /\ p.frag = frag /\ p.tag = TagOf(i) /\ p.part = << i, 1 >>
      /\ p.size = SizeOf(i) /\ SizeOf(i) \in Nat
      /\ Stream[i].units # << >>
  BY FragmentFacts
<1>2. b = Assembler(asm.state, p.seq, asm.tag, asm.data, asm.size)
  BY <1>1, NextInOrder
<1>3. b.state = asm.state /\ b.tag = asm.tag /\ b.data = asm.data /\ b.size = asm.size
  BY <1>2 DEF Assembler
<1>4. /\ asm' = r.asm
      /\ r.unit = << >> => out' = << >>
      /\ r.unit # << >> => \E mark : out' = << DataUnit(r.unit, mark) >>
  BY DEF ConsumeDataPiece
<1>5. asm.size \in Nat /\ asm.data \in Seq(Position) /\ MaxAccessUnit \in Nat
  BY MaxAccessUnitAssumption DEF IInv, TypeOK
<1>6. joined # << >>
  <2>1. << i, 1 >> \in Position
    BY <1>1, PieceFacts
  <2>2. Len(joined) = Len(asm.data) + 1 /\ Len(asm.data) \in Nat
    BY <1>5, <2>1, AppendProperties, LenProperties
  <2> HIDE DEF joined
  <2>3. Len(joined) # 0
    BY <2>2
  <2> QED
    BY <2>3
<1> DEFINE x == Appended(b, p)
<1>7. x.state = asm.state /\ x.data = joined /\ x.size = asm.size + SizeOf(i)
  BY <1>1, <1>3 DEF Appended, Assembler
<1>8. \A s : Emptied(b, s).state = s
  BY DEF Emptied, Assembler
<1> HIDE DEF p, joined, x
<1>9. ASSUME NEW o, NEW lost, NEW unit, ByFragmentation(b, p) = Outcome(o, lost, unit)
      PROVE  asm' = o /\ r.unit = unit
  BY <1>4, <1>9, PieceFields
<1> HIDE DEF b, r
<1>11. Fits(b, p) <=> asm.size + SizeOf(i) <= MaxAccessUnit
  BY <1>1, <1>3, <1>5 DEF Fits
<1>12. asm.state = "Collecting" => Continues(b, p)
  BY <1>1, <1>3 DEF Continues
<1>13. CASE frag = 2
  <2>1. ByFragmentation(b, p) = MiddlePiece(b, p)
    BY <1>1, <1>13 DEF ByFragmentation
  <2>2. CASE asm.state = "Skipping"
    <3>1. MiddlePiece(b, p) = Outcome(b, FALSE, << >>)
      BY <1>3, <2>2 DEF MiddlePiece
    <3>2. asm' = b
      BY <1>4, <1>9, <2>1, <3>1
    <3> QED
      BY <1>3, <1>13, <2>2, <3>2
  <2>3. CASE asm.state = "Collecting" /\ Fits(b, p)
    <3>1. MiddlePiece(b, p) = Outcome(x, FALSE, << >>)
      BY <1>3, <1>12, <2>3 DEF MiddlePiece, x
    <3>2. asm' = x
      BY <1>4, <1>9, <2>1, <3>1
    <3> QED
      BY <1>7, <1>11, <1>13, <2>3, <3>2 DEF joined
  <2>4. CASE asm.state = "Collecting" /\ ~Fits(b, p)
    <3>1. MiddlePiece(b, p) = Outcome(Emptied(b, "Skipping"), TRUE, << >>)
      BY <1>3, <2>4 DEF MiddlePiece
    <3>2. asm' = Emptied(b, "Skipping")
      BY <1>4, <1>9, <2>1, <3>1
    <3> QED
      BY <1>8, <1>11, <1>13, <2>4, <3>2
  <2> QED
    BY <2>2, <2>3, <2>4
<1>14. CASE frag = 3
  <2>1. ByFragmentation(b, p) = LastPiece(b, p)
    BY <1>1, <1>14 DEF ByFragmentation
  <2>2. CASE asm.state = "Skipping"
    <3>1. LastPiece(b, p) = Outcome(Emptied(b, "Idle"), FALSE, << >>)
      BY <1>3, <2>2 DEF LastPiece
    <3>2. out' = << >>
      BY <1>4, <1>9, <2>1, <3>1
    <3> QED
      BY <1>14, <2>2, <3>2
  <2>3. CASE asm.state = "Collecting" /\ Fits(b, p)
    <3>1. LastPiece(b, p) = Outcome(Emptied(b, "Idle"), FALSE, joined)
      BY <1>3, <1>7, <1>12, <2>3 DEF LastPiece, x
    <3>2. r.unit = joined
      BY <1>9, <2>1, <3>1
    <3>3. PICK mark : out' = << DataUnit(joined, mark) >>
      BY <1>4, <1>6, <3>2
    <3>4. DataUnit(joined, mark).parts = joined
      BY DEF DataUnit
    <3>5. Len(out') = 1 /\ out'[1].parts = joined
      BY <3>3, <3>4
    <3> QED
      BY <1>11, <1>14, <2>3, <3>5 DEF joined
  <2>4. CASE asm.state = "Collecting" /\ ~Fits(b, p)
    <3>1. LastPiece(b, p) = Outcome(Emptied(b, "Idle"), TRUE, << >>)
      BY <1>3, <2>4 DEF LastPiece
    <3>2. out' = << >>
      BY <1>4, <1>9, <2>1, <3>1
    <3> QED
      BY <1>11, <1>14, <2>4, <3>2
  <2> QED
    BY <2>2, <2>3, <2>4
<1>15. frag = 2 \/ frag = 3
  OBVIOUS
<1> QED
  BY <1>13, <1>14, <1>15


(* A head that reached the packet before, told as the next packet needs it. *)
LEMMA HeadHeld ==
  ASSUME SurvivalInv, at # 0, since # 0, NEW f \in since .. at, Heads(f, at)
  PROVE  /\ f \in DOMAIN Stream /\ at \in DOMAIN Stream /\ Bytes(f, at) \in Nat
         /\ \/ Bytes(f, at) > MaxAccessUnit /\ asm.state = "Skipping"
            \/ /\ Bytes(f, at) <= MaxAccessUnit /\ asm.state = "Collecting"
               /\ asm.data = Run(f, at) /\ asm.size = Bytes(f, at) /\ asm.tag = TagOf(f)
<1>1. f \in DOMAIN Stream /\ at \in DOMAIN Stream
  <2>1. Len(Stream) \in Nat /\ DOMAIN Stream = 1 .. Len(Stream)
    BY StreamAssumption
  <2> QED
    BY <2>1 DEF Heads, Carries, SurvivalInv, IInv, TypeOK
<1>2. Bytes(f, at) \in Nat /\ MaxAccessUnit \in Nat /\ at \in Nat
  BY <1>1, BytesFacts, PacketFacts, MaxAccessUnitAssumption
<1>3. IF Bytes(f, at) <= MaxAccessUnit
      THEN asm.state = "Collecting" /\ Begin = f /\ asm.size = Bytes(f, at)
      ELSE asm.state = "Skipping"
  BY DEF SurvivalInv, HeadsSurvive
<1>4. CASE Bytes(f, at) <= MaxAccessUnit
  <2>1. asm.data = Run(Begin, at) /\ \A m \in Begin .. at : TagOf(m) = asm.tag
    BY <1>3, <1>4 DEF SurvivalInv, IInv, Collected
  <2>2. f \in f .. at
    OBVIOUS
  <2> QED
    BY <1>1, <1>2, <1>3, <1>4, <2>1, <2>2
<1>5. CASE ~(Bytes(f, at) <= MaxAccessUnit)
  BY <1>1, <1>2, <1>3, <1>5
<1> QED
  BY <1>4, <1>5

(* The head a later fragment belongs to, when both have come in order.     *)
LEMMA HeadBefore ==
  ASSUME SurvivalInv, NEW i \in DOMAIN Stream, Consumed(i), Deliverable(i),
         NEW f \in since' .. i, f < i, Carries(f, 1),
         \A m \in (f + 1) .. (i - 1) : Carries(m, 2), \A m \in f .. i : TagOf(m) = TagOf(f)
  PROVE  /\ at # 0 /\ i = at + 1 /\ since # 0 /\ f \in since .. at /\ Heads(f, at)
         /\ TagOf(i) = TagOf(f)
<1>1. i \in Nat /\ f \in DOMAIN Stream /\ f \in Nat /\ at \in Nat /\ since \in Nat
  <2>1. Len(Stream) \in Nat
    BY StreamAssumption
  <2> QED
    BY <2>1, PacketFacts DEF Carries, SurvivalInv, IInv, TypeOK
<1>2. since' # i
  BY <1>1
<1>3. at # 0 /\ i = at + 1 /\ since # 0 /\ since' = since
  BY <1>2 DEF Consumed
<1>4. f \in since .. at /\ i - 1 = at /\ f <= at
  BY <1>1, <1>3
<1>5. Heads(f, at)
  <2>1. \A m \in f .. at : m \in f .. i
    BY <1>1, <1>3
  <2> QED
    BY <1>4, <2>1 DEF Heads
<1>6. TagOf(i) = TagOf(f)
  <2>1. i \in f .. i
    BY <1>1
  <2> QED
    BY <2>1
<1> QED
  BY <1>3, <1>4, <1>5, <1>6

LEMMA PieceSurvives ==
  ASSUME SurvivalInv, NEW i \in DOMAIN Stream, ConsumeDataPiece(i)
  PROVE  HeadsSurvive' /\ UnitsSurvive'
<1>1. at' = i /\ Consumed(i) /\ Deliverable(i) /\ IInv /\ i \in Nat
  BY PacketFacts DEF ConsumeDataPiece, Consumed, SurvivalInv
<1>2. MaxAccessUnit \in Nat
  BY MaxAccessUnitAssumption
<1>3. ASSUME NEW f \in since' .. i, f < i, NEW frag \in 2 .. 3, Carries(i, frag),
             Carries(f, 1), \A m \in (f + 1) .. (i - 1) : Carries(m, 2),
             \A m \in f .. i : TagOf(m) = TagOf(f)
      PROVE  /\ frag = 2 /\ Bytes(f, i) <= MaxAccessUnit =>
                  asm'.state = "Collecting" /\ asm'.data = Run(f, i) /\ asm'.size = Bytes(f, i)
             /\ frag = 2 /\ ~(Bytes(f, i) <= MaxAccessUnit) => asm'.state = "Skipping"
             /\ frag = 3 /\ Bytes(f, i) <= MaxAccessUnit =>
                  Len(out') = 1 /\ out'[1].parts = Run(f, i)
             /\ frag = 3 /\ ~(Bytes(f, i) <= MaxAccessUnit) => out' = << >>
  <2>1. /\ at # 0 /\ i = at + 1 /\ since # 0 /\ f \in since .. at /\ Heads(f, at)
        /\ TagOf(i) = TagOf(f)
    BY <1>1, <1>3, HeadBefore
  <2>2. /\ f \in DOMAIN Stream /\ at \in DOMAIN Stream /\ Bytes(f, at) \in Nat
        /\ \/ Bytes(f, at) > MaxAccessUnit /\ asm.state = "Skipping"
           \/ /\ Bytes(f, at) <= MaxAccessUnit /\ asm.state = "Collecting"
              /\ asm.data = Run(f, at) /\ asm.size = Bytes(f, at) /\ asm.tag = TagOf(f)
    BY <2>1, HeadHeld
  <2>3. Bytes(f, i) = Bytes(f, at) + SizeOf(i) /\ SizeOf(i) \in Nat
    BY <2>1, <2>2, BytesFacts DEF Heads
  <2>4. Append(Run(f, at), << i, 1 >>) = Run(f, i)
    BY <2>1, <2>2, RunAppend DEF Heads
  <2>5. asm.state = "Skipping" \/ (asm.state = "Collecting" /\ asm.tag = TagOf(i))
    BY <2>1, <2>2
  <2>6. IF asm.state = "Collecting" /\ asm.size + SizeOf(i) <= MaxAccessUnit
        THEN /\ frag = 2 => /\ asm'.state = "Collecting"
                            /\ asm'.data = Append(asm.data, << i, 1 >>)
                            /\ asm'.size = asm.size + SizeOf(i)
             /\ frag = 3 => /\ Len(out') = 1
                            /\ out'[1].parts = Append(asm.data, << i, 1 >>)
        ELSE /\ frag = 2 => asm'.state = "Skipping"
             /\ frag = 3 => out' = << >>
    BY <1>1, <1>3, <2>1, <2>5, LaterJoins
  <2>7. CASE Bytes(f, at) > MaxAccessUnit /\ asm.state = "Skipping"
    BY <1>2, <2>2, <2>3, <2>6, <2>7
  <2>8. CASE /\ Bytes(f, at) <= MaxAccessUnit /\ asm.state = "Collecting"
             /\ asm.data = Run(f, at) /\ asm.size = Bytes(f, at)
    BY <2>3, <2>4, <2>6, <2>8
  <2> QED
    BY <2>2, <2>7, <2>8
<1>4. HeadsSurvive'
  <2> SUFFICES ASSUME NEW f \in since' .. i, Heads(f, i)
               PROVE  IF Bytes(f, i) <= MaxAccessUnit
                      THEN asm'.state = "Collecting" /\ Begin' = f /\ asm'.size = Bytes(f, i)
                      ELSE asm'.state = "Skipping"
    BY <1>1 DEF HeadsSurvive, Heads, Carries, Rejected, TagOf, Bytes, SizeOf
  <2>1. f \in DOMAIN Stream /\ f \in Nat /\ f <= i
    BY PacketFacts DEF Heads, Carries
  <2>2. CASE f = i
    <3>1. Carries(i, 1) /\ Bytes(f, i) = SizeOf(i)
      BY <2>1, <2>2, BytesFacts DEF Heads
    <3>2. IF SizeOf(i) <= MaxAccessUnit
          THEN asm'.state = "Collecting" /\ Len(asm'.data) = 1 /\ asm'.size = SizeOf(i)
          ELSE asm'.state = "Skipping"
      BY <1>1, <3>1, FirstBegins
    <3>3. Len(asm'.data) = 1 => Begin' = i
      BY <1>1 DEF Begin
    <3> QED
      BY <2>2, <3>1, <3>2, <3>3
  <2>3. CASE f < i
    <3>1. /\ Carries(f, 1) /\ Carries(i, 2) /\ \A m \in (f + 1) .. (i - 1) : Carries(m, 2)
          /\ \A m \in f .. i : TagOf(m) = TagOf(f)
      <4>1. i \in (f + 1) .. i /\ \A m \in (f + 1) .. (i - 1) : m \in (f + 1) .. i
        BY <1>1, <2>1, <2>3
      <4> QED
        BY <4>1 DEF Heads
    <3>2. /\ Bytes(f, i) <= MaxAccessUnit =>
               asm'.state = "Collecting" /\ asm'.data = Run(f, i) /\ asm'.size = Bytes(f, i)
          /\ ~(Bytes(f, i) <= MaxAccessUnit) => asm'.state = "Skipping"
      <4>1. 2 \in 2 .. 3
        OBVIOUS
      <4> QED
        BY <1>3, <2>3, <3>1, <4>1
    <3>3. Len(Run(f, i)) = i + 1 - f
      <4>1. i - 1 \in DOMAIN Stream /\ (i - 1) + 1 = i /\ f <= i - 1
        BY <1>1, <2>1, <2>3, StreamAssumption
      <4>2. (i - 1) + 2 - f = i + 1 - f
        BY <1>1, <2>1
      <4> QED
        BY <2>1, <4>1, <4>2, RunAppend
    <3>4. asm'.data = Run(f, i) => Begin' = f
      BY <1>1, <2>1, <3>3 DEF Begin
    <3> QED
      BY <3>2, <3>4
  <2> QED
    BY <1>1, <2>1, <2>2, <2>3
<1>5. UnitsSurvive'
  <2> SUFFICES ASSUME NEW f \in since' .. i, Spans(f, i)
               PROVE  IF Bytes(f, i) <= MaxAccessUnit
                      THEN Len(out') = 1 /\ out'[1].parts = Run(f, i)
                      ELSE f < i => out' = << >>
    BY <1>1 DEF UnitsSurvive, Spans, Carries, Rejected, TagOf, Bytes, SizeOf, Run
  <2>1. /\ f < i /\ Carries(f, 1) /\ Carries(i, 3)
        /\ \A m \in (f + 1) .. (i - 1) : Carries(m, 2)
        /\ \A m \in f .. i : TagOf(m) = TagOf(f)
    BY DEF Spans
  <2>2. 3 \in 2 .. 3
    OBVIOUS
  <2> QED
    BY <1>3, <2>1, <2>2
<1> QED
  BY <1>4, <1>5

LEMMA StepSurvival == SurvivalInv /\ [Next]_vars => SurvivalInv'
<1> SUFFICES ASSUME SurvivalInv, [Next]_vars PROVE HeadsSurvive' /\ UnitsSurvive'
  BY StepInvariant DEF SurvivalInv
<1>1. ASSUME since' = 0 \/ at' = 0
      PROVE  HeadsSurvive' /\ UnitsSurvive'
  BY <1>1 DEF HeadsSurvive, UnitsSurvive
<1>2. ASSUME NEW i \in DOMAIN Stream, ConsumeAggregate(i)
      PROVE  HeadsSurvive' /\ UnitsSurvive'
  <2>1. at' = i /\ Stream[i].aggregation /\ i \in Nat
    BY <1>2, PacketFacts DEF ConsumeAggregate, Consumed
  <2>2. ASSUME NEW f, Heads(f, i) \/ Spans(f, i) PROVE FALSE
    <3>1. Carries(i, 1) \/ Carries(i, 2) \/ Carries(i, 3)
      <4>1. CASE Heads(f, i) /\ f = i
        BY <4>1 DEF Heads
      <4>2. CASE Heads(f, i) /\ f # i
        <5>1. f \in Nat
          BY <4>2, PacketFacts DEF Heads, Carries
        <5>2. i \in (f + 1) .. i
          BY <2>1, <4>2, <5>1 DEF Heads
        <5> QED
          BY <4>2, <5>2 DEF Heads
      <4>3. CASE Spans(f, i)
        BY <4>3 DEF Spans
      <4> QED
        BY <2>2, <4>1, <4>2, <4>3
    <3> QED
      BY <2>1, <3>1 DEF Carries
  <2> QED
    BY <2>1, <2>2 DEF HeadsSurvive, UnitsSurvive, Heads, Spans, Carries, Rejected, TagOf
<1>3. CASE UNCHANGED vars
  BY <1>3 DEF vars, SurvivalInv, HeadsSurvive, UnitsSurvive, Begin
<1>4. ASSUME NEW i \in DOMAIN Stream, RejectPacket(i) \/ ConsumeEmptyAggregate(i)
      PROVE  since' = 0
  BY <1>4 DEF RejectPacket, ConsumeEmptyAggregate
<1>5. Flush \/ Reinstall => at' = 0
  BY DEF Flush, Reinstall
<1> QED
  BY <1>1, <1>2, <1>3, <1>4, <1>5, PieceSurvives DEF Next

(* Resynchronization is immediate: a unit within the limit is handed over  *)
(* whenever all its packets come in order, whatever came before, and one   *)
(* put together beyond the limit never is.                                 *)
THEOREM Resynchronizes == Spec => []UnitsSurvive
<1>1. Init => SurvivalInv
  BY InitInvariant DEF Init, SurvivalInv, HeadsSurvive, UnitsSurvive
<1>2. SurvivalInv => UnitsSurvive
  BY DEF SurvivalInv
<1> QED
  BY <1>1, <1>2, StepSurvival, PTL DEF Spec
===============================================================================
