------------------------ MODULE SignallingReassembly ------------------------
(***************************************************************************)
(* The signalling messages of one MMTP packet id: parse_signalling and its *)
(* assembler, and the length check every message that carries tables must  *)
(* pass before its tables are read (accept_signalling_unit).               *)
(*                                                                         *)
(* This is not the assembler of media fragments (MfuAssembler): here a     *)
(* packet whose payload is refused has already been counted, and leaves    *)
(* what was collected as it was.                                           *)
(*                                                                         *)
(* As in DataAsset, the channel is a walk over the constant Stream, and    *)
(* payload bytes are abstracted to the part of the stream that they are.   *)
(***************************************************************************)
EXTENDS Integers, Sequences, FiniteSets

CONSTANTS
  Message,         (* the messages sent                                    *)
  Format,          (* Format[m]: how its length field is checked           *)
  Stream,          (* the signalling packets sent, in order                *)
  SequenceModulus, (* packet_sequence_number wraps at this value (2^32)    *)
  MaxMessage,      (* Limits::max_signalling_message                       *)
  MaxJump,         (* bound: how far apart two deliveries are              *)
  MaxRefused       (* bound: packets in a row with a refused payload       *)

(* "pa" messages may be longer than their length says; "m2" (also the      *)
(* short form and data transmission messages) may not; "raw" messages are  *)
(* handed to the application as they are.                                  *)
ASSUME FormatAssumption == Format \in [Message -> {"pa", "m2", "raw"}]

Packet ==
  [aggregation: BOOLEAN, fragmentation: 0 .. 3,
   units: Seq([message: Message, size: Nat \ {0}])]

ASSUME StreamAssumption ==
  /\ Stream \in Seq(Packet)
  /\ \A i \in DOMAIN Stream :
       /\ Stream[i].aggregation => Stream[i].fragmentation = 0
       /\ ~Stream[i].aggregation => Len(Stream[i].units) = 1

ASSUME JumpAssumption ==
  /\ SequenceModulus \in Nat /\ SequenceModulus > 2
  /\ MaxJump \in Nat /\ MaxJump < SequenceModulus - 1

ASSUME LimitsAssumption == MaxMessage \in Nat /\ MaxRefused \in Nat

VARIABLES
  asm,     (* SignallingAssembler: state, last_sequence, data, bytes of it *)
  out,     (* the messages accepted from the latest packet                 *)
  at,      (* history: the packet whose sequence number is recorded        *)
  since,   (* history: first packet of the in-order run ending in at       *)
  refused  (* history: packets in a row whose payload was refused          *)

reassemblyVars == << asm, out, at, since, refused >>

-----------------------------------------------------------------------------
(* The sender neither interleaves messages nor abandons one: a message is  *)
(* whole in one packet, or its fragments are packets in a row.             *)
Holds(i, m) == \E k \in DOMAIN Stream[i].units : Stream[i].units[k].message = m

Packets(m) == {i \in DOMAIN Stream : Holds(i, m)}

FirstPacket(m) == CHOOSE i \in Packets(m) : \A j \in Packets(m) : i <= j
LastPacket(m)  == CHOOSE i \in Packets(m) : \A j \in Packets(m) : j <= i

Place(i, m) == CHOOSE k \in DOMAIN Stream[i].units : Stream[i].units[k].message = m

ASSUME SenderAssumption ==
  \A m \in Message : \E f, l \in DOMAIN Stream :
    /\ f <= l /\ Packets(m) = f .. l
    /\ \A j, k \in DOMAIN Stream[f].units :
         Stream[f].units[j].message = m /\ Stream[f].units[k].message = m => j = k
    /\ f = l => Stream[f].fragmentation = 0
    /\ f < l => /\ Stream[f].fragmentation = 1
                /\ Stream[l].fragmentation = 3
                /\ \A i \in (f + 1) .. (l - 1) : Stream[i].fragmentation = 2

(* The parts of message m, in order.                                       *)
PartsOf ==
  [m \in Message |->
     [n \in 1 .. (LastPacket(m) + 1 - FirstPacket(m)) |->
        << FirstPacket(m) + n - 1, Place(FirstPacket(m) + n - 1, m) >>]]

SizeAt(x) == Stream[x[1]].units[x[2]].size
MessageAt(x) == Stream[x[1]].units[x[2]].message

Bytes(m) ==
  LET total[n \in 0 .. Len(PartsOf[m])] ==
        IF n = 0 THEN 0 ELSE total[n - 1] + SizeAt(PartsOf[m][n])
  IN  total[Len(PartsOf[m])]

(* The length field of a message is written in its first part.             *)
Declared == [m \in Message |-> Bytes(m)]

-----------------------------------------------------------------------------
Assembler(state, last, data, size) ==
  [state |-> state, last |-> last, data |-> data, size |-> size]

Fresh == Assembler("Initial", 0, << >>, 0)

Emptied(a, state) == Assembler(state, a.last, << >>, 0)

Sequence(i) == i % SequenceModulus

Bug_Valid(parts, size) == TRUE

(* The length checks of parse_pa_message, parse_m2_message,                *)
(* parse_m2_short_message and parse_data_transmission_message.             *)
Valid(parts, size) ==
  LET m == MessageAt(parts[1])
  IN  CASE Format[m] = "pa"  -> Declared[m] <= size
        [] Format[m] = "m2"  -> Declared[m] = size
        [] Format[m] = "raw" -> TRUE

(* accept_signalling_unit.                                                 *)
Accepted(parts, size) ==
  IF size >= 2 /\ Valid(parts, size) THEN << parts >> ELSE << >>

Repeats(i) == asm.state # "Initial" /\ Sequence(i) = asm.last

Jumps(i) ==
  asm.state # "Initial" /\ Sequence(i) # (asm.last + 1) % SequenceModulus

(* The assembler once the sequence number is checked and recorded.         *)
Recorded(i) ==
  IF Jumps(i) THEN Assembler("Skipping", Sequence(i), << >>, 0)
  ELSE [asm EXCEPT !.last = Sequence(i)]

Fits(a, size) == size <= MaxMessage - a.size

Appended(a, i) ==
  [a EXCEPT !.data = Append(@, << i, 1 >>), !.size = @ + SizeAt(<< i, 1 >>)]

Outcome(a, units) == [asm |-> a, units |-> units]

CompleteMessage(a, i) ==
  Outcome(Emptied(a, "Idle"), Accepted(<< << i, 1 >> >>, SizeAt(<< i, 1 >>)))

(* append, which gives up on a message that grows past the limit.          *)
Collect(a, i) ==
  Outcome(IF Fits(a, SizeAt(<< i, 1 >>)) THEN Appended(a, i) ELSE Emptied(a, "Skipping"),
          << >>)

Bug_FirstFragment(a, i) ==
  IF a.state = "Skipping" THEN Outcome(a, << >>)
  ELSE Collect(Emptied(a, "Collecting"), i)

FirstFragment(a, i) == Collect(Emptied(a, "Collecting"), i)

MiddleFragment(a, i) ==
  CASE a.state = "Skipping"   -> Outcome(a, << >>)
    [] a.state = "Collecting" -> Collect(a, i)
    [] OTHER                  -> Outcome([a EXCEPT !.state = "Skipping"], << >>)

LastFragment(a, i) ==
  CASE a.state = "Skipping" -> Outcome(Emptied(a, "Idle"), << >>)
    [] a.state = "Collecting" ->
         Outcome(Emptied(a, "Idle"),
                 IF Fits(a, SizeAt(<< i, 1 >>))
                 THEN Accepted(Appended(a, i).data, Appended(a, i).size)
                 ELSE << >>)
    [] OTHER -> Outcome(a, << >>)

ByFragmentation(a, i) ==
  CASE Stream[i].fragmentation = 0 -> CompleteMessage(a, i)
    [] Stream[i].fragmentation = 1 -> FirstFragment(a, i)
    [] Stream[i].fragmentation = 2 -> MiddleFragment(a, i)
    [] Stream[i].fragmentation = 3 -> LastFragment(a, i)

(* The first n units of an aggregated packet.                              *)
AcceptedUnits(i, n) ==
  LET accepted[k \in 0 .. n] ==
        IF k = 0 THEN << >>
        ELSE accepted[k - 1] \o Accepted(<< << i, k >> >>, SizeAt(<< i, k >>))
  IN  accepted[n]

(* A unit larger than the limit ends the loop.                             *)
Whole(i, n) == \A k \in 1 .. n : SizeAt(<< i, k >>) <= MaxMessage

-----------------------------------------------------------------------------
ReassemblyInit ==
  /\ asm = Fresh
  /\ out = << >>
  /\ at = 0 /\ since = 0 /\ refused = 0

Deliverable(i) == at # 0 => i <= at + MaxJump /\ at <= i + MaxJump

InOrder(i) == at # 0 /\ since # 0 /\ i = at + 1

(* A payload shorter than its header, or a packet id for which there is no *)
(* state to be had: nothing is read, nothing is counted.                   *)
Unread(i) ==
  /\ Deliverable(i)
  /\ out' = << >>
  /\ since' = 0
  /\ UNCHANGED << asm, at, refused >>

Repeat(i) ==
  /\ Deliverable(i) /\ Repeats(i)
  /\ out' = << >>
  /\ UNCHANGED << asm, at, since, refused >>

Read(i) ==
  /\ at' = i
  /\ since' = IF InOrder(i) THEN since ELSE i
  /\ refused' = 0

Unaggregated(i) ==
  /\ Deliverable(i) /\ ~Repeats(i)
  /\ ~Stream[i].aggregation
  /\ LET r == ByFragmentation(Recorded(i), i)
     IN  asm' = r.asm /\ out' = r.units
  /\ Read(i)

Aggregated(i) ==
  /\ Deliverable(i) /\ ~Repeats(i)
  /\ Stream[i].aggregation /\ Whole(i, Len(Stream[i].units))
  /\ out' = AcceptedUnits(i, Len(Stream[i].units))
  /\ asm' = [Recorded(i) EXCEPT !.state = "Idle"]
  /\ Read(i)

(* The payload was damaged: flags that say aggregated and fragmented, or   *)
(* an aggregated length that does not fit, after n units that did.  The    *)
(* packet is counted, and the collected data stays.                        *)
RefusePayload(i, n) ==
  /\ Deliverable(i) /\ ~Repeats(i)
  /\ refused < MaxRefused
  /\ Stream[i].aggregation => Whole(i, n)
  /\ out' = IF Stream[i].aggregation THEN AcceptedUnits(i, n) ELSE << >>
  /\ asm' = Recorded(i)
  /\ at' = i /\ since' = 0 /\ refused' = refused + 1

(* MmtpParser::flush and reset: the assembler goes.                        *)
FlushMessages ==
  /\ asm' = Fresh
  /\ out' = << >>
  /\ at' = 0 /\ since' = 0 /\ refused' = 0

ReassemblyNext ==
  \/ \E i \in DOMAIN Stream :
       \/ Unread(i) \/ Repeat(i) \/ Unaggregated(i) \/ Aggregated(i)
       \/ \E n \in 0 .. (Len(Stream[i].units) - 1) : RefusePayload(i, n)
  \/ FlushMessages

ReassemblySpec == ReassemblyInit /\ [][ReassemblyNext]_reassemblyVars

-----------------------------------------------------------------------------
ReassemblyTypeOK ==
  /\ asm.state \in {"Initial", "Idle", "Collecting", "Skipping"}
  /\ asm.last \in 0 .. (SequenceModulus - 1)
  /\ asm.data \in Seq((DOMAIN Stream) \X Nat)
  /\ asm.size \in 0 .. MaxMessage
  /\ at \in 0 .. Len(Stream) /\ since \in 0 .. Len(Stream)
  /\ refused \in 0 .. MaxRefused

(* Tables are read from whole messages only.  A packet whose payload was   *)
(* refused leaves the assembler collecting, so a message can be completed  *)
(* with a part missing; the length check keeps it from the table parsers,  *)
(* as long as no two payloads in a row are refused.                        *)
WholeTables ==
  /\ ReassemblyTypeOK
  /\ \A k \in DOMAIN out :
       Format[MessageAt(out[k][1])] # "raw" => \E m \in Message : out[k] = PartsOf[m]

Arrived(m) ==
  /\ PartsOf[m][Len(PartsOf[m])][1] = at
  /\ since # 0 /\ since <= PartsOf[m][1][1]
  /\ Declared[m] \in 2 .. MaxMessage

Delivers(m) == \E k \in DOMAIN out' : out'[k] = PartsOf[m]

(* Messages are delivered once.  A message whose packets all came in order *)
(* is accepted when the last of them is read, whatever was lost, refused   *)
(* or left over before; and a repeated packet delivers nothing again       *)
(* ("duplicate signalling packet"), be it one that carried several         *)
(* messages or one that ended a message.  The first packet of an assembler *)
(* is the exception when its payload was refused half way, for then no     *)
(* state was recorded.                                                     *)
MessagesOnce ==
  [][/\ at' # at => \A m \in Message : Arrived(m)' => Delivers(m)
     /\ at' = at /\ refused = 0 => out' = << >>]_reassemblyVars
=============================================================================
