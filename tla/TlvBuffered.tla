------------------------------ MODULE TlvBuffered ------------------------------
(***************************************************************************)
(* What TlvParser promises of its zero-copy paths: packets and resyncs     *)
(* come out as if every push were appended to the buffer and processed     *)
(* there.                                                                  *)
(***************************************************************************)
EXTENDS TlvProcess

CONSTANT Streams (* the inputs: records with a field bytes                 *)

VARIABLES stream, parser, pushed

bufvars == << stream, parser, pushed >>

Fed(n) == SubSeq(stream.bytes, pushed + 1, pushed + n)

Quiet == [parser EXCEPT !.out = << >>]

Init ==
  /\ stream \in Streams
  /\ parser = Parser(<< >>, 0, FALSE, << >>)
  /\ pushed = 0

Push(n) ==
  /\ pushed + n <= Len(stream.bytes)
  /\ parser' = Process(Joined(Quiet, Fed(n)), FALSE)
  /\ pushed' = pushed + n
  /\ UNCHANGED stream

Flush ==
  /\ parser' = [Process(Quiet, TRUE) EXCEPT !.sync = FALSE]
  /\ UNCHANGED << stream, pushed >>

Reset(o) ==
  /\ parser' = Parser(<< >>, o, FALSE, << >>)
  /\ pushed' = o
  /\ UNCHANGED stream

Next ==
  \/ \E n \in 1 .. Len(stream.bytes) : Push(n)
  \/ Flush
  \/ \E o \in 0 .. Len(stream.bytes) : Reset(o)

Spec == Init /\ [][Next]_bufvars

=============================================================================
