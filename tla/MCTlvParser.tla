---------------------------- MODULE MCTlvParser ----------------------------
(* Inputs with headers inside payloads, lengths beyond the limit and the   *)
(* input, unknown types, and packets that follow them; one whose longest   *)
(* packets in a row take a search to its limit; and one whose payloads     *)
(* look like packets that lead from one payload to the next, so that a     *)
(* parser that starts in the first of them finds no true packet for long.  *)
EXTENDS TlvParser, SequencesExt

Packet(type, payload) == << 127, type, 0, Len(payload) >> \o payload

With(garbage, clean) ==
  [bytes  |-> garbage \o FlattenSeq(clean),
   clean  |-> Len(garbage),
   starts |-> {Len(garbage) + Len(FlattenSeq(SubSeq(clean, 1, n - 1))) : n \in DOMAIN clean}]

Clean ==
  << Packet(3, << 9 >>), Packet(2, << 8, 9, 8 >>), Packet(3, << 7 >>), Packet(255, << >>) >>

Longest == << Packet(3, << 9, 8, 9, 8 >>), Packet(2, << 8, 9, 8, 9 >>), Packet(255, << >>) >>

Misleading ==
  << Packet(3, << 127, 2, 0, 4 >>), Packet(2, << 127, 1, 0, 4 >>), Packet(3, << 127, 1, 0, 2 >>),
     Packet(1, << 127, 2, 0, 0 >>), Packet(2, << >>) >>

MCStreams ==
  { With(<< 5, 127, 3, 0, 3, 127 >>, Clean),
    With(<< 127, 3, 0, 1, 127, 1, 0, 2, 127 >>, Clean),
    With(Packet(2, << >>) \o Packet(2, << 127, 254, 0 >>)
         \o << 127, 5, 0, 2, 127, 1, 0, 0, 5 >>, Clean),
    With(Packet(3, << 1 >>) \o << 127, 127, 3, 1, 0, 127, 3, 0, 0, 127 >>, Clean),
    With([i \in 1 .. 13 |-> 5], Longest),
    With(<< 127 >>, Misleading) }
=============================================================================
