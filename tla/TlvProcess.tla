------------------------------ MODULE TlvProcess ------------------------------
(***************************************************************************)
(* TlvParser::process and find_boundary: what the TLV parser does with the *)
(* bytes it has buffered.  A parser is a record: the buffer, the absolute  *)
(* offset of its first byte, whether the parser is synchronized, and the   *)
(* callbacks it has made (out).  Consumed bytes leave the buffer at once,  *)
(* so cursor_ and compact do not appear.                                   *)
(***************************************************************************)
EXTENDS Naturals, Sequences, FiniteSetsExt

CONSTANTS
  MaxTlvPayload,  (* Limits::max_tlv_payload                               *)
  MaxResyncBuffer (* Limits::max_resync_buffer                             *)

ASSUME LimitsAssumption == MaxTlvPayload \in Nat /\ MaxResyncBuffer \in Nat

Byte == 0 .. 255
HeaderSize == 4
SyncByte == 127

(* candidate_type.                                                         *)
CandidateType == {1, 2, 3, 254, 255}

Parser(buffer, offset, sync, out) ==
  [buffer |-> buffer, offset |-> offset, sync |-> sync, out |-> out]

(* TlvPacketView; the payload is the size bytes after the header.          *)
PacketEvent(type, size, offset) ==
  [kind |-> "packet", type |-> type, size |-> size, offset |-> offset]

ResyncEvent(offset) == [kind |-> "resync", type |-> 0, size |-> 0, offset |-> offset]

(* A header at index i of a sequence of bytes.                             *)
PayloadSize(b, i) == b[i + 2] * 256 + b[i + 3]

Plausible(b, i) ==
  i + 3 <= Len(b) /\ b[i] = SyncByte /\ b[i + 1] \in CandidateType

Consume(p, n) ==
  [p EXCEPT !.buffer = SubSeq(@, n + 1, Len(@)), !.offset = @ + n]

Drained(p) == Consume(p, Len(p.buffer))

(* Where a search may stop: a complete packet that another header follows, *)
(* or that ends the input.                                                 *)
Bug_Boundaries(b, end) ==
  {i \in DOMAIN b :
     LET next == i + HeaderSize + PayloadSize(b, i)
     IN  /\ Plausible(b, i)
         /\ PayloadSize(b, i) <= MaxTlvPayload
         /\ \A j \in 1 .. (i - 1) :
              Plausible(b, j) => j + HeaderSize + PayloadSize(b, j) <= Len(b) + 1
         /\ \/ end /\ next = Len(b) + 1
            \/ Plausible(b, next)}

Boundaries(b, end) ==
  {i \in DOMAIN b :
     LET next == i + HeaderSize + PayloadSize(b, i)
     IN  /\ Plausible(b, i)
         /\ PayloadSize(b, i) <= MaxTlvPayload
         /\ \/ end /\ next = Len(b) + 1
            \/ Plausible(b, next)}

(* An incomplete header at the end survives the limit.                     *)
PartialHeader == HeaderSize - 1

(* find_boundary.                                                          *)
Searched(p, end) ==
  LET found == Boundaries(p.buffer, end)
  IN  IF found # {} THEN [Consume(p, Min(found) - 1) EXCEPT !.sync = TRUE]
      ELSE IF end THEN Drained(p)
      ELSE IF Len(p.buffer) > MaxResyncBuffer
           THEN Consume(p, Len(p.buffer) - Min({PartialHeader, Len(p.buffer)}))
      ELSE p

Bug_LostSync(p) == [Consume(p, 1) EXCEPT !.sync = FALSE]

LostSync(p) ==
  [Consume(p, 1) EXCEPT !.sync = FALSE, !.out = Append(@, ResyncEvent(p.offset))]

FirstHeaderBad(p) ==
  p.buffer[1] # SyncByte \/ PayloadSize(p.buffer, 1) > MaxTlvPayload

FirstPacketSize(p) == HeaderSize + PayloadSize(p.buffer, 1)

Emitted(p) ==
  Consume([p EXCEPT !.out =
             Append(@, PacketEvent(p.buffer[2], PayloadSize(p.buffer, 1), p.offset))],
          FirstPacketSize(p))

(* The loop of process looks for a boundary first, unless synchronized.    *)
Found(p, end) == IF p.sync THEN p ELSE Searched(p, end)

(* It returns without a boundary, or with an incomplete packet in front.   *)
Waits(p) ==
  \/ ~p.sync
  \/ Len(p.buffer) < HeaderSize
  \/ ~FirstHeaderBad(p) /\ Len(p.buffer) < FirstPacketSize(p)

Turn(p) == IF FirstHeaderBad(p) THEN LostSync(p) ELSE Emitted(p)

(* Every turn of the loop consumes a byte.  At the end of the input, what  *)
(* is left is dropped.                                                     *)
Process(p, end) ==
  LET turns[n \in 0 .. Len(p.buffer)] ==
        IF n = 0 THEN Found(p, end)
        ELSE LET q == turns[n - 1] IN IF Waits(q) THEN q ELSE Found(Turn(q), end)
      last == turns[Len(p.buffer)]
  IN  IF end THEN Drained(last) ELSE last

Joined(p, data) == [p EXCEPT !.buffer = @ \o data]

=============================================================================
