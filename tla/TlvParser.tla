------------------------------ MODULE TlvParser ------------------------------
(***************************************************************************)
(* The TLV framing layer: TlvParser of tlv_parser.cpp behind Demuxer's     *)
(* push, flush and reposition.  push completes the packet that crossed the *)
(* previous push boundary in the buffer and hands the following complete   *)
(* packets over straight from the caller's input.                          *)
(***************************************************************************)
EXTENDS TlvProcess

CONSTANT
  Streams (* the inputs: bytes, the offset from which on they are nothing  *)
          (* but TLV packets (clean), and the offsets at which those start *)
          (* (starts)                                                      *)

VARIABLES
  stream,  (* the input                                                    *)
  parser,  (* TlvParser, and the callbacks of the latest call              *)
  pushed,  (* input_end_offset_: bytes given to push                       *)
  origin,  (* history: offset of the latest reset or flush                 *)
  packets, (* history: offsets of the packets emitted since origin         *)
  latest   (* history: the latest callback since origin                    *)

framingVars == << stream, parser, pushed, origin, packets, latest >>

-----------------------------------------------------------------------------
Rest(data, n) == SubSeq(data, n + 1, Len(data))

Buffered(p, data) == Process(Joined(p, data), FALSE)

Bug_Required(b) ==
  IF Len(b) < HeaderSize THEN HeaderSize - Len(b)
  ELSE PayloadSize(b, 1)

(* How many bytes the packet in the buffer still lacks.                    *)
Required(b) ==
  IF Len(b) < HeaderSize THEN HeaderSize - Len(b)
  ELSE IF HeaderSize + PayloadSize(b, 1) > Len(b)
       THEN HeaderSize + PayloadSize(b, 1) - Len(b)
  ELSE 0

BadHeader(b) ==
  /\ Len(b) >= HeaderSize
  /\ ~Plausible(b, 1) \/ PayloadSize(b, 1) > MaxTlvPayload

(* A parser, and how many bytes of the input it has been given.            *)
Turned(p, done) == [parser |-> p, done |-> done]

(* The first loop of push completes the packet in the buffer: it copies    *)
(* what the packet lacks, and processes it once it is there.               *)
Completes(t, data) ==
  /\ t.done < Len(data)
  /\ t.parser.sync /\ t.parser.buffer # << >>
  /\ ~BadHeader(t.parser.buffer)

Copied(t, data) ==
  LET need == Required(t.parser.buffer)
  IN  IF Len(data) - t.done < need
      THEN Turned(Joined(t.parser, Rest(data, t.done)), Len(data))
      ELSE Turned(Buffered(t.parser, SubSeq(data, t.done + 1, t.done + need)), t.done + need)

Completed(p, data) ==
  LET turns[n \in 0 .. Len(data)] ==
        IF n = 0 THEN Turned(p, 0)
        ELSE LET t == turns[n - 1] IN IF Completes(t, data) THEN Copied(t, data) ELSE t
  IN  turns[Len(data)]

(* The second loop hands over the packets the caller's input holds whole:  *)
(* the buffer is empty, and the offset stays that of the first byte.       *)
Borrowable(data, n) ==
  /\ Plausible(data, n + 1)
  /\ PayloadSize(data, n + 1) <= MaxTlvPayload
  /\ n + HeaderSize + PayloadSize(data, n + 1) <= Len(data)

Direct(t, data) ==
  LET size == PayloadSize(data, t.done + 1)
  IN  Turned([t.parser EXCEPT !.out =
                Append(@, PacketEvent(data[t.done + 2], size, t.parser.offset + t.done))],
             t.done + HeaderSize + size)

Borrowed(p, data) ==
  LET turns[n \in 0 .. Len(data)] ==
        IF n = 0 THEN Turned(p, 0)
        ELSE LET t == turns[n - 1] IN IF Borrowable(data, t.done) THEN Direct(t, data) ELSE t
  IN  turns[Len(data)]

Advance(t) == [t.parser EXCEPT !.offset = @ + t.done]

(* What neither loop took is buffered and processed.                       *)
Finished(p, rest) == IF rest = << >> THEN p ELSE Buffered(p, rest)

Lent(p, data) ==
  LET t == Borrowed(p, data) IN Finished(Advance(t), Rest(data, t.done))

(* push.                                                                   *)
Pushed(p, data) ==
  LET t == Completed(p, data)
      rest == Rest(data, t.done)
  IN  IF ~p.sync THEN Buffered(p, data)
      ELSE IF rest # << >> /\ t.parser.sync /\ t.parser.buffer = << >>
           THEN Lent(t.parser, rest)
      ELSE Finished(t.parser, rest)

-----------------------------------------------------------------------------
Quiet == [parser EXCEPT !.out = << >>]

Emits(p) == {k \in DOMAIN p.out : p.out[k].kind = "packet"}

NoEvent == [kind |-> "none", type |-> 0, size |-> 0, offset |-> 0]

FramingInit ==
  /\ stream \in Streams
  /\ parser = Parser(<< >>, 0, FALSE, << >>)
  /\ pushed = 0
  /\ origin = 0
  /\ packets = {}
  /\ latest = NoEvent

Push(n) ==
  /\ pushed + n <= Len(stream.bytes)
  /\ parser' = Pushed(Quiet, SubSeq(stream.bytes, pushed + 1, pushed + n))
  /\ pushed' = pushed + n
  /\ packets' = packets \union {parser'.out[k].offset : k \in Emits(parser')}
  /\ latest' = IF parser'.out = << >> THEN latest ELSE parser'.out[Len(parser'.out)]
  /\ UNCHANGED << stream, origin >>

Flush ==
  /\ parser' = [Process(Quiet, TRUE) EXCEPT !.sync = FALSE]
  /\ origin' = pushed
  /\ packets' = {}
  /\ latest' = NoEvent
  /\ UNCHANGED << stream, pushed >>

(* reset, with the offset that Demuxer::reposition passes on.              *)
ParserReset(o) ==
  /\ parser' = Parser(<< >>, o, FALSE, << >>)
  /\ pushed' = o
  /\ origin' = o
  /\ packets' = {}
  /\ latest' = NoEvent
  /\ UNCHANGED stream

FramingNext ==
  \/ \E n \in 1 .. Len(stream.bytes) : Push(n)
  \/ Flush
  \/ \E o \in 0 .. Len(stream.bytes) : ParserReset(o)

FramingSpec == FramingInit /\ [][FramingNext]_framingVars

-----------------------------------------------------------------------------
(***************************************************************************)
(* The buffer is the part of the input that was not consumed yet, and its  *)
(* offset is right: every input_offset the layers above report (restart    *)
(* and seek offsets among them) comes from this sum.  It stays below its   *)
(* limit however the input is cut and corrupted.                           *)
(***************************************************************************)
Accounted ==
  /\ parser.offset + Len(parser.buffer) = pushed
  /\ parser.buffer = SubSeq(stream.bytes, parser.offset + 1, pushed)
  /\ Len(parser.buffer) <=
       IF parser.sync THEN HeaderSize + MaxTlvPayload - 1
       ELSE Max({MaxResyncBuffer, HeaderSize - 1})

Before(k) == IF k = 1 THEN latest ELSE parser'.out[k - 1]

EndOf(event) ==
  CASE event.kind = "packet" -> event.offset + HeaderSize + event.size
    [] event.kind = "resync" -> event.offset + 1
    [] event.kind = "none"   -> 0

(***************************************************************************)
(* Packets are true to the input and never overlap: each is a header of    *)
(* the input with its payload, and starts at or after the end of the one   *)
(* before it.  Input is skipped in silence only before the first packet: a *)
(* packet that does not start where the one before it ended comes after a  *)
(* resync, on which Demuxer drops the state of the layers above.           *)
(***************************************************************************)
PacketsInOrder ==
  [][\A k \in Emits(parser') :
       LET e == parser'.out[k]
       IN  /\ stream.bytes[e.offset + 1] = SyncByte
           /\ stream.bytes[e.offset + 2] = e.type
           /\ e.size = PayloadSize(stream.bytes, e.offset + 1)
           /\ e.size <= MaxTlvPayload
           /\ EndOf(e) <= pushed'
           /\ e.offset >= EndOf(Before(k))
           /\ Before(k).kind = "packet" => e.offset = EndOf(Before(k))]_framingVars

(* A TLV packet that starts at offset o ends where the next one starts.    *)
PacketEnd(bytes, o) == o + HeaderSize + PayloadSize(bytes, o + 1)

(* The packets of a stream from clean on.  Whatever else is in it may look *)
(* like a header: garbage before them, a payload, a length.                *)
Starts(s) == s.starts

(* They follow each other without a gap, up to the end.                    *)
ASSUME StreamsAssumption ==
  \A s \in Streams :
    /\ s.bytes \in Seq(Byte) /\ s.clean \in Nat
    /\ Starts(s) \subseteq s.clean .. (Len(s.bytes) - 1)
    /\ \A o \in Starts(s) :
         /\ Plausible(s.bytes, o + 1)
         /\ PayloadSize(s.bytes, o + 1) <= MaxTlvPayload
         /\ PacketEnd(s.bytes, o) \in Starts(s) \cup {Len(s.bytes)}
         /\ \A later \in Starts(s) : o < later => PacketEnd(s.bytes, o) <= later
         /\ o # s.clean => \E earlier \in Starts(s) : PacketEnd(s.bytes, earlier) = o

(* What a search keeps has room for two packets and the header after       *)
(* them: the default limits are 65535 and 1 MiB.                           *)
ASSUME ResyncAssumption == MaxResyncBuffer >= 2 * (HeaderSize + MaxTlvPayload) + 2

(* What looks like a packet and is none, in garbage or in a payload.       *)
FalsePackets(s) ==
  {o \in 0 .. (Len(s.bytes) - HeaderSize) :
     s.bytes[o + 1] = SyncByte /\ PayloadSize(s.bytes, o + 1) <= MaxTlvPayload} \ Starts(s)

(* What the parser takes for packets: those it emitted, and the one it is  *)
(* waiting for.                                                            *)
Taken == packets \cup IF parser.sync THEN {parser.offset} ELSE {}

Overlap(bytes, a, b) == a < PacketEnd(bytes, b) /\ b < PacketEnd(bytes, a)

(***************************************************************************)
(* Garbage costs no packet but the first behind it, unless something false *)
(* that the parser took for a packet overlaps that packet; and once a true *)
(* packet has been emitted, every later one is.  As soon as a packet and   *)
(* the header of its successor are in, it has been emitted or is lost that *)
(* way.                                                                    *)
(***************************************************************************)
LosesOnlyToFalsePackets ==
  \A o \in Starts(stream) :
    /\ o > stream.clean /\ o >= origin
    /\ PacketEnd(stream.bytes, o) + HeaderSize <= pushed
    => \/ o \in packets
       \/ /\ \E f \in Taken \cap FalsePackets(stream) : Overlap(stream.bytes, f, o)
          /\ \A found \in packets \cap Starts(stream) : o < found

(* Recovery is bounded, in what it buffers and in what it loses, however   *)
(* the input is cut and corrupted.                                         *)
BoundedRecovery == Accounted /\ LosesOnlyToFalsePackets

Reference == INSTANCE TlvBuffered

(* The zero-copy paths change nothing.                                     *)
Refinement == Reference!Spec

=============================================================================
