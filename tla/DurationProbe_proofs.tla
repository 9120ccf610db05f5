------------------------ MODULE DurationProbe_proofs -------------------------
(***************************************************************************)
(* The range protocol of the duration probe, for recordings of any length, *)
(* any options and any number of begins and cancels: late answers are told *)
(* from the present one, and requests stay in the recording and, in sum,   *)
(* within what the options allow.  What the bytes say is left open: the    *)
(* arguments do not look at the timestamps heard.                          *)
(***************************************************************************)
EXTENDS DurationProbe, TLAPS

Quiet == UNCHANGED << nextId, issued >>

(* A request that is issued has a number of its own.                       *)
Requested ==
  \E gen, offset, length : Issue(gen, nextId, offset, length)

(***************************************************************************)
(* The numbers of requests: none is given twice, and the open request has  *)
(* the last one.                                                           *)
(***************************************************************************)
Numbered ==
  /\ nextId \in Nat
  /\ \A r \in issued : r.id \in 1 .. nextId
  /\ \A r, s \in issued : r.id = s.id => r = s
  /\ state = "NeedRange" => request \in issued

LEMMA InitNumbered == Init => Numbered
BY DEF Init, Numbered

LEMMA RequestedNumbered == Numbered /\ Requested => Numbered'
<1> SUFFICES ASSUME Numbered, NEW gen, NEW offset, NEW length,
                    Issue(gen, nextId, offset, length)
             PROVE  Numbered'
  BY DEF Requested
<1>1. /\ nextId \in Nat /\ nextId' = nextId + 1
      /\ issued' = issued \cup {request'} /\ request'.id = nextId + 1
  BY DEF Issue, Numbered
<1>2. \A r \in issued : r.id \in 1 .. nextId
  BY DEF Numbered
<1>3. \A r \in issued' : r.id \in 1 .. nextId'
  BY <1>1, <1>2
<1>4. \A r, s \in issued' : r.id = s.id => r = s
  BY <1>1, <1>2 DEF Numbered
<1> QED
  BY <1>1, <1>3, <1>4 DEF Numbered

(* A step that asks for nothing ends the probe or leaves the request.      *)
LEMMA QuietNumbered ==
  ASSUME Numbered, Quiet,
         state' = "NeedRange" => state = "NeedRange" /\ request' = request
  PROVE  Numbered'
BY DEF Numbered, Quiet

Stops == Quiet /\ state' # "NeedRange"

LEMMA StopStops == \A st, why : st # "NeedRange" /\ Stop(st, why) => Stops
BY DEF Stop, Stops, Quiet

LEMMA ConcludeStops == \A cands, tail : Conclude(cands, tail) => Stops
<1> SUFFICES ASSUME NEW cands, NEW tail, Conclude(cands, tail) PROVE Stops
  OBVIOUS
<1>1. CASE Ended(cands, tail) # {} /\ HasRange(cands, tail)
  BY <1>1 DEF Conclude, Stops, Quiet
<1>2. CASE ~(Ended(cands, tail) # {} /\ HasRange(cands, tail))
  BY <1>2, StopStops DEF Conclude
<1> QED
  BY <1>1, <1>2

LEMMA FinishNumbered == \A r : Numbered /\ Finish(r) => Numbered'
<1> SUFFICES ASSUME NEW r, Numbered, Finish(r) PROVE Numbered'
  OBVIOUS
<1>1. ASSUME NEW h,
             \/ FinishHeadNearEnd(h) \/ FinishHead(h) \/ WidenHead(h) \/ WidenTail(h)
      PROVE  Requested
  BY <1>1 DEF FinishHeadNearEnd, FinishHead, WidenHead, WidenTail, AskTail, Requested
<1>2. ASSUME NEW h,
             \/ FinishWholeHead(h) \/ GiveUpHead(h) \/ FinishSequentialTail(h)
             \/ FinishTail(h) \/ GiveUpTail(h)
      PROVE  Stops
  BY <1>2, StopStops, ConcludeStops
     DEF FinishWholeHead, GiveUpHead, FinishSequentialTail, FinishTail, GiveUpTail
<1>3. Requested \/ Stops
  BY <1>1, <1>2 DEF Finish
<1> QED
  BY <1>3, RequestedNumbered, QuietNumbered DEF Stops

LEMMA StepNumbered == Numbered /\ [Next]_vars => Numbered'
<1> SUFFICES ASSUME Numbered, [Next]_vars PROVE Numbered'
  OBVIOUS
<1>1. CASE UNCHANGED vars
  BY <1>1 DEF vars, Numbered
<1>2. ASSUME NEW s \in Sources, NEW o \in OptionSets, Begin(s, o) PROVE Numbered'
  <2>1. CASE Valid(s, o)
    BY <1>2, <2>1, RequestedNumbered DEF Begin, KeptId, Requested
  <2>2. CASE ~Valid(s, o)
    BY <1>2, <2>2, StopStops, QuietNumbered DEF Begin, Stops
  <2> QED
    BY <2>1, <2>2
<1>3. ASSUME NEW r \in issued, NEW n \in 1 .. MaxPiece, PushPiece(r, n) PROVE Numbered'
  BY <1>3, QuietNumbered DEF PushPiece, Quiet
<1>4. ASSUME NEW r \in issued, NEW n \in 0 .. MaxPiece, PushShort(r, n) PROVE Numbered'
  BY <1>4, StopStops, QuietNumbered DEF PushShort, Stops
<1>5. ASSUME NEW r \in issued, PushWrong(r) PROVE Numbered'
  BY <1>5, StopStops, QuietNumbered DEF PushWrong, Stops
<1>6. ASSUME NEW r \in issued, FailRange(r) PROVE Numbered'
  BY <1>6, StopStops, QuietNumbered DEF FailRange, Stops
<1>7. CASE Cancel
  BY <1>7, QuietNumbered DEF Cancel, Quiet
<1> QED
  BY <1>1, <1>2, <1>3, <1>4, <1>5, <1>6, <1>7, FinishNumbered DEF Next

(***************************************************************************)
(* pushRange and failRange take an answer by its id alone: an answer to    *)
(* any other request, of an earlier begin or from before a cancel, has     *)
(* another id.                                                             *)
(***************************************************************************)
THEOREM LateAnswersAreTold == Spec => []LateAnswersMiss
<1>1. Numbered => LateAnswersMiss
  BY DEF Numbered, LateAnswersMiss
<1> QED
  BY <1>1, InitNumbered, StepNumbered, PTL DEF Spec


-----------------------------------------------------------------------------
(* What was transferred before the open request.                           *)
Before == transferred - received

InHead == phase = "Head" /\ HeadEnd <= options.max /\ Before = request.offset

InSequence == phase = "SequentialTail" /\ Before <= options.max

(* A window smaller than the largest one was reached by doubling, so that  *)
(* the windows before it are not more than it, taken together.             *)
InTail ==
  /\ phase = "Tail"
  /\ tailWindow \in 1 .. options.max
  /\ request.length = AtMost(Size, tailWindow)
  /\ IF tailWindow = options.max
     THEN Before <= 3 * options.max
     ELSE Before <= options.max + tailWindow

(* The open request.                                                       *)
Open ==
  /\ options.initial \in 1 .. options.max
  /\ request.length \in 1 .. options.max
  /\ request.offset \in Nat
  /\ HeadEnd <= Size
  /\ received \in 0 .. request.length
  /\ fed = request.offset + received
  /\ received <= transferred
  /\ InHead \/ InSequence \/ InTail

Sums ==
  /\ options.max \in Nat
  /\ Size \in Nat
  /\ transferred \in Nat
  /\ transferred <= 4 * options.max

Bounded == Sums /\ (state = "NeedRange" => Open)

LEMMA DoubledWindow ==
  ASSUME options.max \in Nat, NEW w \in 1 .. options.max
  PROVE  /\ Doubled(w) \in w .. options.max
         /\ Doubled(w) = options.max \/ Doubled(w) = 2 * w
BY DEF Doubled

(* At every moment the open request could be answered in full.             *)
LEMMA OpenFits ==
  ASSUME Sums, Open
  PROVE  /\ Remaining \in Nat
         /\ transferred + Remaining = Before + request.length
         /\ transferred + Remaining \in Nat
         /\ transferred + Remaining <= 4 * options.max
         /\ fed + Remaining = HeadEnd
<1>1. /\ Remaining \in Nat
      /\ transferred + Remaining = Before + request.length
      /\ transferred + Remaining \in Nat
      /\ fed + Remaining = HeadEnd
  BY DEF Sums, Open, Remaining, Before, HeadEnd
<1>2. CASE InHead
  BY <1>1, <1>2 DEF Sums, Open, InHead, HeadEnd, Before
<1>3. CASE InSequence
  BY <1>1, <1>3 DEF Sums, Open, InSequence, Before
<1>4. CASE InTail
  <2>1. request.length <= tailWindow
    BY <1>4 DEF InTail, AtMost, Sums
  <2> QED
    BY <1>1, <1>4, <2>1 DEF Sums, Open, InTail, Before
<1> QED
  BY <1>1, <1>2, <1>3, <1>4 DEF Open

LEMMA InitBounded == Init => Bounded
BY DEF Init, Bounded, Sums, Size

(* The part of Finish that is the same for all its outcomes.               *)
LEMMA FinishSums ==
  ASSUME Bounded, NEW p, Finishes(p), state = "NeedRange"
  PROVE  /\ Sums'
         /\ options' = options /\ Size' = Size
         /\ transferred' = Before + request.length
<1>1. Sums /\ Open
  BY DEF Bounded
<1>2. options' = options /\ Size' = Size /\ transferred' = transferred + Remaining
  BY DEF Finishes, Size
<1> QED
  BY <1>1, <1>2, OpenFits DEF Sums

LEMMA NearEndBounded ==
  ASSUME Bounded, state = "NeedRange", NEW h, FinishHeadNearEnd(h)
  PROVE  Bounded'
<1>1. Finishes("Head") /\ phase = "Head"
  BY DEF FinishHeadNearEnd, Finishes
<1>2. Sums /\ Open /\ InHead
  BY <1>1 DEF Bounded, Open, InSequence, InTail
<1>3. /\ Sums' /\ options' = options /\ Size' = Size
      /\ transferred' = HeadEnd
  BY <1>1, <1>2, FinishSums DEF InHead, HeadEnd
<1>4. /\ phase' = "SequentialTail" /\ received' = 0 /\ fed' = HeadEnd
      /\ request'.offset = HeadEnd /\ request'.length = Size - HeadEnd
      /\ HeadEnd # Size /\ Size - HeadEnd <= options.initial
  BY <1>2, OpenFits DEF FinishHeadNearEnd, Issue
<1>5. HeadEnd \in Nat /\ HeadEnd <= Size /\ HeadEnd <= options.max
  BY <1>2 DEF Open, InHead, HeadEnd
<1>6. /\ request'.length \in 1 .. options'.max
      /\ HeadEnd' <= Size'
  BY <1>2, <1>3, <1>4, <1>5 DEF Sums, Open, HeadEnd
<1>7. InSequence'
  BY <1>2, <1>3, <1>4, <1>5 DEF InSequence, Before, Sums
<1> QED
  BY <1>2, <1>3, <1>4, <1>5, <1>6, <1>7 DEF Bounded, Open, Sums

LEMMA WidenHeadBounded ==
  ASSUME Bounded, state = "NeedRange", NEW h, WidenHead(h)
  PROVE  Bounded'
<1>1. Finishes("Head") /\ phase = "Head"
  BY DEF WidenHead, Finishes
<1>2. Sums /\ Open /\ InHead
  BY <1>1 DEF Bounded, Open, InSequence, InTail
<1>3. /\ Sums' /\ options' = options /\ Size' = Size
      /\ transferred' = HeadEnd
  BY <1>1, <1>2, FinishSums DEF InHead, HeadEnd
<1>4. /\ phase' = "Head" /\ received' = 0 /\ fed' = HeadEnd
      /\ request'.offset = HeadEnd /\ request'.length = NextHeadEnd - HeadEnd
      /\ NextHeadEnd > HeadEnd
  BY <1>1, <1>2, OpenFits DEF WidenHead, Issue
<1>5. HeadEnd \in 1 .. options.max
  BY <1>2 DEF Open, InHead, HeadEnd, Sums
<1>6. Doubled(HeadEnd) \in 1 .. options.max
  BY <1>2, <1>5, DoubledWindow DEF Sums
<1>7. NextHeadEnd \in Nat /\ NextHeadEnd <= Size /\ NextHeadEnd <= options.max
  BY <1>2, <1>6 DEF NextHeadEnd, AtMost, Sums
<1>8. /\ request'.length \in 1 .. options'.max
      /\ HeadEnd' = NextHeadEnd
  <2>1. options'.max = options.max /\ options.max \in Nat
    BY <1>2, <1>3 DEF Sums
  <2>2. HeadEnd' = request'.offset + request'.length
    BY DEF HeadEnd
  <2>3. request'.offset + request'.length = NextHeadEnd
    BY <1>4, <1>5, <1>7
  <2> QED
    BY <1>4, <1>5, <1>7, <2>1, <2>2, <2>3
<1>9. InHead'
  BY <1>3, <1>4, <1>5, <1>7, <1>8 DEF InHead, Before
<1> QED
  BY <1>2, <1>3, <1>4, <1>5, <1>7, <1>8, <1>9 DEF Bounded, Open, Sums

(* The request of a tail window.                                           *)
LEMMA TailBounded ==
  ASSUME Sums, Sums', Open, options' = options, Size' = Size, Size > 0,
         NEW h, NEW window \in 1 .. options.max, AskTail(h, window),
         IF window = options.max THEN transferred' <= 3 * options.max
                                 ELSE transferred' <= options.max + window
  PROVE  Bounded'
<1>1. /\ phase' = "Tail" /\ tailWindow' = window /\ received' = 0
      /\ fed' = Size - AtMost(Size, window)
      /\ request'.offset = Size - AtMost(Size, window)
      /\ request'.length = Size - (Size - AtMost(Size, window))
  BY DEF AskTail, Issue, Repositioned, TailOffset
<1>2. AtMost(Size, window) \in 1 .. Size /\ AtMost(Size, window) <= window
  BY DEF AtMost, Sums
<1>3. /\ request'.length = AtMost(Size', tailWindow')
      /\ request'.length \in 1 .. options'.max
      /\ request'.offset \in Nat
      /\ request'.offset + request'.length <= Size'
  <2>1. Size \in Nat /\ options.max \in Nat
    BY DEF Sums
  <2>2. request'.length = AtMost(Size, window)
    BY <1>1, <1>2, <2>1
  <2>3. AtMost(Size', tailWindow') = AtMost(Size, window)
    BY <1>1 DEF AtMost
  <2>4. request'.length \in 1 .. options'.max
    BY <1>2, <2>1, <2>2
  <2>5. /\ request'.offset \in Nat
        /\ request'.offset + request'.length <= Size'
    BY <1>1, <1>2, <2>1, <2>2
  <2> QED
    BY <2>2, <2>3, <2>4, <2>5
<1>4. HeadEnd' <= Size'
  BY <1>3 DEF HeadEnd
<1>5. /\ transferred' \in Nat /\ Before' = transferred'
      /\ options'.max = options.max
  <2>1. transferred' \in Nat
    BY DEF Sums
  <2>2. Before' = transferred' - 0
    BY <1>1 DEF Before
  <2>3. \A t \in Nat : t - 0 = t
    OBVIOUS
  <2>4. Before' = transferred'
    BY <2>1, <2>2, <2>3, Zenon
  <2>5. options'.max = options.max
    OBVIOUS
  <2> QED
    BY <2>1, <2>4, <2>5
<1>6. InTail'
  <2>1. IF tailWindow' = options'.max
        THEN Before' <= 3 * options'.max
        ELSE Before' <= options'.max + tailWindow'
    BY <1>1, <1>5
  <2> QED
    BY <1>1, <1>3, <1>5, <2>1 DEF InTail
<1>7. received' \in 0 .. request'.length /\ fed' = request'.offset + received'
      /\ received' <= transferred'
  BY <1>1, <1>3, <1>5
<1>8. options'.initial \in 1 .. options'.max
  BY DEF Open
<1> QED
  BY <1>3, <1>4, <1>6, <1>7, <1>8 DEF Bounded, Open

LEMMA FinishHeadBounded ==
  ASSUME Bounded, state = "NeedRange", NEW h, FinishHead(h)
  PROVE  Bounded'
<1>1. Finishes("Head") /\ phase = "Head"
  BY DEF FinishHead, Finishes
<1>2. Sums /\ Open /\ InHead
  BY <1>1 DEF Bounded, Open, InSequence, InTail
<1>3. /\ Sums' /\ options' = options /\ Size' = Size
      /\ transferred' = HeadEnd /\ HeadEnd <= options.max
  BY <1>1, <1>2, FinishSums DEF InHead, HeadEnd
<1>4. Size > 0 /\ AtMost(options.initial, Size) \in 1 .. options.max
  BY <1>2 DEF Open, Sums, AtMost, HeadEnd
<1>5. transferred' \in Nat /\ transferred' <= options.max
  BY <1>3 DEF Sums
<1>6. AskTail(h, AtMost(options.initial, Size))
  BY DEF FinishHead
<1> DEFINE window == AtMost(options.initial, Size)
<1>7. IF window = options.max THEN transferred' <= 3 * options.max
                              ELSE transferred' <= options.max + window
  BY <1>2, <1>4, <1>5 DEF Sums
<1> QED
  BY <1>2, <1>3, <1>4, <1>6, <1>7, TailBounded

LEMMA WidenTailBounded ==
  ASSUME Bounded, state = "NeedRange", NEW h, WidenTail(h)
  PROVE  Bounded'
<1>1. Finishes("Tail") /\ phase = "Tail"
  BY DEF WidenTail, Finishes
<1>2. Sums /\ Open /\ InTail
  BY <1>1 DEF Bounded, Open, InSequence, InHead
<1>3. /\ Sums' /\ options' = options /\ Size' = Size
      /\ transferred' = Before + request.length
  BY <1>1, <1>2, FinishSums
<1>4. tailWindow < options.max /\ tailWindow < Size
  BY <1>2 DEF WidenTail, WindowExhausted, InTail, Sums
<1>5. request.length = tailWindow
  BY <1>2, <1>4 DEF InTail, AtMost, Sums
<1>6. transferred' \in Nat /\ transferred' <= options.max + 2 * tailWindow
  BY <1>2, <1>3, <1>4, <1>5 DEF InTail, Sums, Open, Before
<1> DEFINE window == AtMost(options.max, Doubled(tailWindow))
<1>7. /\ window \in 1 .. options.max
      /\ window = options.max \/ window = 2 * tailWindow
  BY <1>2, DoubledWindow DEF InTail, AtMost, Sums
<1>8. IF window = options.max THEN transferred' <= 3 * options.max
                              ELSE transferred' <= options.max + window
  BY <1>2, <1>4, <1>6, <1>7 DEF InTail, Sums
<1>9. AskTail(h, window)
  BY DEF WidenTail
<1>10. Size > 0
  BY <1>2, <1>4 DEF InTail, Sums
<1> QED
  BY <1>2, <1>3, <1>7, <1>8, <1>9, <1>10, TailBounded

LEMMA FinishBounded == \A r : Bounded /\ Finish(r) => Bounded'
<1> SUFFICES ASSUME NEW r, Bounded, Finish(r) PROVE Bounded'
  OBVIOUS
<1>1. state = "NeedRange"
  BY DEF Finish, Answers
<1>2. ASSUME NEW h,
             \/ FinishWholeHead(h) \/ GiveUpHead(h) \/ FinishSequentialTail(h)
             \/ FinishTail(h) \/ GiveUpTail(h)
      PROVE  Bounded'
  <2>1. \E p : Finishes(p)
    BY <1>2 DEF FinishWholeHead, GiveUpHead, FinishSequentialTail, FinishTail, GiveUpTail
  <2>2. state' # "NeedRange"
    BY <1>2, StopStops, ConcludeStops
       DEF FinishWholeHead, GiveUpHead, FinishSequentialTail, FinishTail, GiveUpTail, Stops
  <2> QED
    BY <1>1, <2>1, <2>2, FinishSums DEF Bounded
<1>3. ASSUME NEW h,
             \/ FinishHeadNearEnd(h) \/ FinishHead(h) \/ WidenHead(h) \/ WidenTail(h)
      PROVE  Bounded'
  BY <1>1, <1>3, NearEndBounded, FinishHeadBounded, WidenHeadBounded, WidenTailBounded
<1> QED
  BY <1>2, <1>3 DEF Finish

LEMMA PieceBounded ==
  ASSUME Bounded, NEW r, NEW n \in Nat, PushPiece(r, n)
  PROVE  Bounded'
<1>1. Sums /\ Open
  BY DEF Bounded, PushPiece, Answers
<1>2. /\ transferred' = transferred + n /\ received' = received + n /\ fed' = fed + n
      /\ n <= Remaining
      /\ UNCHANGED << state, phase, request, tailWindow, options, source >>
  BY DEF PushPiece, Takes
<1>3. Size' = Size /\ HeadEnd' = HeadEnd
  BY <1>2 DEF Size, HeadEnd
<1>4. Sums'
  BY <1>1, <1>2, <1>3, OpenFits DEF Sums
<1>5. Before' = Before
  BY <1>1, <1>2 DEF Before, Sums, Open
<1>6. (InHead \/ InSequence \/ InTail)'
  BY <1>1, <1>2, <1>3, <1>5 DEF Open, InHead, InSequence, InTail, AtMost
<1>7. /\ received' \in 0 .. request'.length /\ fed' = request'.offset + received'
      /\ received' <= transferred'
  BY <1>1, <1>2 DEF Open, Sums, Remaining
<1> QED
  BY <1>1, <1>2, <1>3, <1>4, <1>6, <1>7 DEF Bounded, Open

LEMMA BeginBounded ==
  ASSUME NEW s \in Sources, NEW o \in OptionSets, Begin(s, o)
  PROVE  Bounded'
<1>1. /\ transferred' = 0 /\ source' = s /\ options' = o /\ fed' = 0
      /\ o.initial \in Nat /\ o.max \in Nat /\ Len(s) \in Nat
  BY SourcesAssumption, OptionsAssumption DEF Begin
<1>2. Size' = Len(s)
  BY <1>1 DEF Size
<1>3. Sums'
  BY <1>1, <1>2 DEF Sums
<1>4. CASE Valid(s, o)
  <2>1. /\ phase' = "Head" /\ received' = 0 /\ request'.offset = 0
        /\ request'.length = AtMost(Len(s), o.initial)
    BY <1>4 DEF Begin, Issue
  <2>2. AtMost(Len(s), o.initial) \in 1 .. o.max /\ AtMost(Len(s), o.initial) <= Len(s)
    BY <1>1, <1>4 DEF Valid, AtMost
  <2>3. HeadEnd' <= Size' /\ HeadEnd' <= options'.max
    BY <1>1, <1>2, <2>1, <2>2 DEF HeadEnd
  <2>4. InHead'
    BY <1>1, <2>1, <2>3 DEF InHead, Before
  <2>5. o.initial \in 1 .. o.max
    BY <1>1, <1>4 DEF Valid
  <2>6. received' \in 0 .. request'.length /\ fed' = request'.offset + received'
    BY <1>1, <2>1, <2>2
  <2> QED
    BY <1>1, <1>3, <2>1, <2>2, <2>3, <2>4, <2>5, <2>6 DEF Bounded, Open
<1>5. CASE ~Valid(s, o)
  BY <1>3, <1>5 DEF Begin, Stop, Bounded
<1> QED
  BY <1>4, <1>5

LEMMA StepBounded == Bounded /\ [Next]_vars => Bounded'
<1> SUFFICES ASSUME Bounded, [Next]_vars PROVE Bounded'
  OBVIOUS
<1>1. CASE UNCHANGED vars
  BY <1>1 DEF vars, Bounded, Sums, Open, InHead, InSequence, InTail, Before, HeadEnd, Size,
              AtMost
<1>2. ASSUME NEW r \in issued, NEW n \in 1 .. MaxPiece, PushPiece(r, n) PROVE Bounded'
  BY <1>2, PieceBounded, BoundsAssumption
<1>3. ASSUME NEW r \in issued, NEW n \in 0 .. MaxPiece, PushShort(r, n) PROVE Bounded'
  <2>1. Sums /\ Open
    BY <1>3 DEF PushShort, Answers, Bounded
  <2>2. /\ transferred' = transferred + n /\ n < Remaining /\ n \in Nat
        /\ state' = "Failed" /\ UNCHANGED << options, source >>
    BY <1>3, BoundsAssumption DEF PushShort, Takes, Stop
  <2> QED
    BY <2>1, <2>2, OpenFits DEF Bounded, Sums, Size
<1>4. ASSUME NEW r \in issued, PushWrong(r) \/ FailRange(r) PROVE Bounded'
  BY <1>4 DEF PushWrong, FailRange, Stop, Bounded, Sums, Size
<1>5. CASE Cancel
  BY <1>5 DEF Cancel, Bounded, Sums, Size
<1> QED
  BY <1>1, <1>2, <1>3, <1>4, <1>5, FinishBounded, BeginBounded DEF Next

(***************************************************************************)
(* issue_request and issue_tail_request ask for a part of the recording    *)
(* that is not empty and not more than max_range_size; the Demuxer is fed  *)
(* from the place the bytes have; a probe never transfers more than four   *)
(* times max_range_size, however long the recording is.                    *)
(***************************************************************************)
THEOREM RequestsStayBounded == Spec => []RequestsBounded
<1>1. Bounded => RequestsBounded
  BY DEF Bounded, Sums, Open, RequestsBounded, HeadEnd
<1> QED
  BY <1>1, InitBounded, StepBounded, PTL DEF Spec
===============================================================================
