---------------------------- MODULE DurationProbe ----------------------------
(***************************************************************************)
(* DurationProbe: finds where the video of a recording begins and ends     *)
(* from a few byte ranges.  The probe asks for a range (nextRange), the    *)
(* caller answers with pushRange, as many times as it likes and as late as *)
(* it likes; the bytes go through a Demuxer of the probe's own, whose      *)
(* callbacks collect the timestamps of the video tracks.                   *)
(***************************************************************************)
EXTENDS Integers, Sequences, SequencesExt

CONSTANTS
  Sources,       (* recordings                                             *)
  Tracks,        (* the HEVC tracks of the MPT, in its order               *)
  OptionSets,    (* DurationProbeOptions                                   *)
  MaxPiece,      (* bound: bytes the caller pushes at once                 *)
  MaxGeneration  (* bound: calls of begin and cancel that count            *)

None == -1

(***************************************************************************)
(* A recording is a sequence of cells, one per byte: nothing of interest,  *)
(* the MPT, or a video picture with its track and PTS, which a decoder can *)
(* start at (a picture that comes before one is a cell of no interest).  A *)
(* track is named by its packet id and has asset groups, each with its     *)
(* selection level.                                                        *)
(***************************************************************************)
Cell == [kind: {"none", "mpt", "unit"}, packet: Nat, pts: Nat]

ASSUME SourcesAssumption == \A s \in Sources : s \in Seq(Cell)

ASSUME TracksAssumption ==
  Tracks \in Seq([packet: Nat, groups: Seq([group: Nat, level: Nat])])

ASSUME OptionsAssumption ==
  OptionSets \subseteq [initial: Nat, max: Nat, packet: Nat \union {None}]

ASSUME BoundsAssumption == MaxPiece \in Nat \ {0} /\ MaxGeneration \in Nat

VARIABLES
  state, failure, phase,
  generation,  (* generation_                                              *)
  nextId,      (* next_request_id_                                         *)
  request,     (* request_                                                 *)
  received,    (* request_received_                                        *)
  transferred, (* transferred_bytes_                                       *)
  headEnd,     (* head_end_                                                *)
  tailWindow,  (* tail_window_                                             *)
  options,     (* options_                                                 *)
  source,      (* the recording; its length is source_size_                *)
  result,      (* duration_ and the presentation range                     *)
  fed,         (* offset in the recording up to which demuxer_ was fed     *)
  heard,       (* demuxer_, and candidates_ that its callbacks fill        *)
  issued       (* history: every request nextRange could return            *)

vars == << state, failure, phase, generation, nextId, request, received, transferred,
           headEnd, tailWindow, options, source, result, fed, heard, issued >>

States == {"Idle", "NeedRange", "Complete", "Unknown", "Failed", "Cancelled"}

Size == Len(source)

AtMost(a, b) == IF a <= b THEN a ELSE b

AtLeast(a, b) == IF a >= b THEN a ELSE b

-----------------------------------------------------------------------------
(* The timestamps of one candidate in one part of the recording.           *)
NoStats == [count |-> 0, first |-> None, previous |-> None, maximum |-> None, frame |-> 0]

Distance(a, b) == IF a >= b THEN a - b ELSE b - a

(* observe_timestamp; equal timestamps have no distance.                   *)
Observed(s, pts) ==
  [count    |-> s.count + 1,
   first    |-> IF s.first = None THEN pts ELSE s.first,
   previous |-> pts,
   maximum  |-> AtLeast(s.maximum, pts),
   frame    |-> IF s.previous \in {None, pts} THEN s.frame
                ELSE IF s.frame = 0 THEN Distance(pts, s.previous)
                ELSE AtMost(s.frame, Distance(pts, s.previous))]

Candidate(track) == [track |-> track, head |-> NoStats, tail |-> NoStats]

(***************************************************************************)
(* The Demuxer as the probe uses it.  known: the MPT was seen since the    *)
(* last reset or reposition; pending: pictures that wait for the next one  *)
(* of their track (finalize_hevc); selected: the video track chosen with   *)
(* selectTrack, which no reset clears.                                     *)
(***************************************************************************)
NoPending == [k \in DOMAIN Tracks |-> None]

Silent(selected, cands) ==
  [known |-> FALSE, pending |-> NoPending, selected |-> selected, cands |-> cands]

(* onTrack.                                                                *)
Welcomed(h, k) ==
  IF options.packet \notin {None, Tracks[k].packet} \/ \E c \in DOMAIN h.cands : h.cands[c].track = k
  THEN h
  ELSE [h EXCEPT !.cands = Append(@, Candidate(k)),
                 !.selected = IF options.packet # None THEN k ELSE @]

MptHeard(h) ==
  [FoldLeft(Welcomed, h, [k \in DOMAIN Tracks |-> k]) EXCEPT !.known = TRUE]

(* access_unit's track selection, then onAccessUnit.                       *)
Heard(h, k, part) ==
  IF h.pending[k] = None \/ h.selected \notin {None, k} THEN h
  ELSE [h EXCEPT !.cands =
          [c \in DOMAIN @ |->
             IF @[c].track # k THEN @[c]
             ELSE IF part = "Tail" THEN [@[c] EXCEPT !.tail = Observed(@, h.pending[k])]
             ELSE [@[c] EXCEPT !.head = Observed(@, h.pending[k])]]]

CellHeard(h, cell, part) ==
  CASE cell.kind = "none" -> h
    [] cell.kind = "mpt"  -> MptHeard(h)
    [] cell.kind = "unit" ->
         IF ~h.known THEN h
         ELSE LET k == CHOOSE i \in DOMAIN Tracks : Tracks[i].packet = cell.packet
              IN  [Heard(h, k, part) EXCEPT !.pending[k] = cell.pts]

(* Demuxer::push of n bytes.                                               *)
Listened(n) ==
  FoldLeft(LAMBDA h, cell : CellHeard(h, cell, phase), heard, SubSeq(source, fed + 1, fed + n))

(* Demuxer::flush.                                                         *)
Flushed(h) ==
  [FoldLeft(LAMBDA g, k : Heard(g, k, phase), h, [k \in DOMAIN Tracks |-> k])
     EXCEPT !.pending = NoPending]

-----------------------------------------------------------------------------
(* belongs_to_selected_video_range.                                        *)
GroupsOf(c) == Tracks[c.track].groups

Belongs(cands, i) ==
  LET grouped == {j \in DOMAIN cands : GroupsOf(cands[j]) # << >>}
      leader  == CHOOSE j \in grouped : \A k \in grouped : j <= k
      group   == GroupsOf(cands[leader])[1].group
  IN  IF options.packet # None THEN Tracks[cands[i].track].packet = options.packet
      ELSE IF grouped = {} THEN i = 1
      ELSE \/ GroupsOf(cands[i]) = << >>
           \/ \E g \in DOMAIN GroupsOf(cands[i]) : GroupsOf(cands[i])[g].group = group

Selected(cands) == {i \in DOMAIN cands : Belongs(cands, i)}

(* assetSelectionLevel.                                                    *)
Level(c) ==
  LET levels == {GroupsOf(c)[g].level : g \in DOMAIN GroupsOf(c)}
  IN  IF levels = {} THEN 0 ELSE CHOOSE l \in levels : \A m \in levels : l <= m

Part(c, tail) == IF tail THEN c.tail ELSE c.head

HasEnd(c, tail) == Part(c, tail).count >= 2 /\ Part(c, tail).frame > 0

EndOf(c, tail) == Part(c, tail).maximum + Part(c, tail).frame

(* The candidates choose_candidate chooses from.                           *)
Ended(cands, tail) == {i \in Selected(cands) : HasEnd(cands[i], tail)}

(* choose_candidate: the latest end, then the lowest level, then the first. *)
Latest(cands, tail) ==
  CHOOSE i \in Ended(cands, tail) :
    \A j \in Ended(cands, tail) :
      LET a == << -EndOf(cands[i], tail), Level(cands[i]), i >>
          b == << -EndOf(cands[j], tail), Level(cands[j]), j >>
      IN  \/ a[1] < b[1]
          \/ a[1] = b[1] /\ a[2] < b[2]
          \/ a[1] = b[1] /\ a[2] = b[2] /\ a[3] <= b[3]

Started(cands) == {i \in Selected(cands) : cands[i].head.first # None}

(* choose_start_candidate.                                                 *)
Earliest(cands) ==
  CHOOSE i \in Started(cands) :
    \A j \in Started(cands) :
      LET a == << cands[i].head.first, Level(cands[i]), i >>
          b == << cands[j].head.first, Level(cands[j]), j >>
      IN  \/ a[1] < b[1]
          \/ a[1] = b[1] /\ a[2] < b[2]
          \/ a[1] = b[1] /\ a[2] = b[2] /\ a[3] <= b[3]

(* union_video_presentation_ranges has a range.                            *)
HasRange(cands, tail) ==
  /\ Started(cands) # {}
  /\ EndOf(cands[Latest(cands, tail)], tail) >= cands[Earliest(cands)].head.first

Bug_UnionRange(cands, tail) ==
  LET i == Earliest(cands)
  IN  [start |-> cands[i].head.first, end |-> EndOf(cands[i], tail),
       startTrack |-> cands[i].track, endTrack |-> cands[i].track]

UnionRange(cands, tail) ==
  LET i == Earliest(cands)
      j == Latest(cands, tail)
  IN  [start |-> cands[i].head.first, end |-> EndOf(cands[j], tail),
       startTrack |-> cands[i].track, endTrack |-> cands[j].track]

HasHeadVideo(cands) == \E i \in DOMAIN cands : cands[i].head.count # 0

HasTailVideo(cands) == \E i \in DOMAIN cands : cands[i].tail.count # 0

-----------------------------------------------------------------------------
NoRequest == [generation |-> 0, id |-> 0, offset |-> 0, length |-> 0]

NoResult == [start |-> None, end |-> None, startTrack |-> None, endTrack |-> None]

(* issue_request; id is next_request_id_.                                  *)
Issue(gen, id, offset, length) ==
  /\ nextId' = id + 1
  /\ request' = [generation |-> gen, id |-> id + 1, offset |-> offset, length |-> length]
  /\ received' = 0
  /\ state' = "NeedRange"
  /\ issued' = issued \union {request'}

(* unknown, fail.                                                          *)
Stop(st, why) ==
  /\ state' = st
  /\ failure' = why
  /\ request' = NoRequest
  /\ result' = NoResult
  /\ UNCHANGED << nextId, issued >>

Bug_Conclude(cands, tail) ==
  /\ request' = NoRequest
  /\ IF Ended(cands, tail) # {} /\ HasRange(cands, tail)
     THEN state' = "Complete" /\ failure' = "None" /\ result' = UnionRange(cands, tail)
     ELSE UNCHANGED << state, failure, result >>
  /\ UNCHANGED << nextId, issued >>

(* complete_from_candidates.                                               *)
Conclude(cands, tail) ==
  IF Ended(cands, tail) # {} /\ HasRange(cands, tail)
  THEN /\ state' = "Complete"
       /\ failure' = "None"
       /\ result' = UnionRange(cands, tail)
       /\ request' = NoRequest
       /\ UNCHANGED << nextId, issued >>
  ELSE Stop("Unknown", IF tail \/ Ended(cands, tail) # {} THEN "NoTailTimestamp" ELSE "NoVideo")

-----------------------------------------------------------------------------
Init ==
  /\ state = "Idle" /\ failure = "None" /\ phase = "Head"
  /\ generation = 0 /\ nextId = 0
  /\ request = NoRequest /\ received = 0 /\ transferred = 0
  /\ headEnd = 0 /\ tailWindow = 0
  /\ options = [initial |-> 0, max |-> 0, packet |-> None]
  /\ source = << >>
  /\ result = NoResult
  /\ fed = 0
  /\ heard = Silent(None, << >>)
  /\ issued = {}

Valid(s, o) == Len(s) # 0 /\ o.initial # 0 /\ o.max >= o.initial

Bug_KeptId == 0

(* begin does not restart the numbering of requests.                       *)
KeptId == nextId

Begin(s, o) ==
  /\ generation < MaxGeneration
  /\ generation' = generation + 1
  /\ source' = s
  /\ options' = o
  /\ result' = NoResult
  /\ transferred' = 0
  /\ headEnd' = 0
  /\ tailWindow' = 0
  /\ fed' = 0
  /\ heard' = Silent(heard.selected, << >>)
  /\ IF Valid(s, o)
     THEN /\ phase' = "Head"
          /\ failure' = "None"
          /\ Issue(generation + 1, KeptId, 0, AtMost(Len(s), o.initial))
     ELSE /\ received' = 0
          /\ Stop("Unknown", "InvalidSource")
          /\ UNCHANGED phase

(* The caller answers a request it holds; late answers have another id and *)
(* change nothing.                                                         *)
Answers(r) == state = "NeedRange" /\ r.id = request.id

Remaining == request.length - received

(* n bytes of the requested range reach the Demuxer.                       *)
Takes(n) ==
  /\ fed' = fed + n
  /\ received' = received + n
  /\ transferred' = transferred + n

PushPiece(r, n) ==
  /\ Answers(r)
  /\ n <= Remaining
  /\ Takes(n)
  /\ heard' = Listened(n)
  /\ UNCHANGED << state, failure, phase, generation, nextId, request, headEnd, tailWindow,
                  options, source, result, issued >>

(* end_of_range too early.                                                 *)
PushShort(r, n) ==
  /\ Answers(r)
  /\ n < Remaining
  /\ Takes(n)
  /\ heard' = Listened(n)
  /\ Stop("Failed", "InvalidResponse")
  /\ UNCHANGED << phase, generation, headEnd, tailWindow, options, source >>

(* Another offset than the expected one, or too much; nothing of it is     *)
(* read.                                                                   *)
PushWrong(r) ==
  /\ Answers(r)
  /\ Stop("Failed", "InvalidResponse")
  /\ UNCHANGED << phase, generation, received, transferred, headEnd, tailWindow, options,
                  source, fed, heard >>

FailRange(r) ==
  /\ Answers(r)
  /\ Stop("Failed", "SourceError")
  /\ UNCHANGED << phase, generation, received, transferred, headEnd, tailWindow, options,
                  source, fed, heard >>

Cancel ==
  /\ state \notin {"Complete", "Unknown", "Failed"}
  /\ generation < MaxGeneration
  /\ generation' = generation + 1
  /\ state' = "Cancelled"
  /\ failure' = "None"
  /\ request' = NoRequest
  /\ UNCHANGED << phase, nextId, received, transferred, headEnd, tailWindow, options,
                  source, result, fed, heard, issued >>

-----------------------------------------------------------------------------
(* The answer that completes the request, in part p of the probe.  h: the  *)
(* Demuxer after its bytes.                                                *)
Finishes(p) ==
  /\ phase = p
  /\ transferred' = transferred + Remaining
  /\ UNCHANGED << generation, options, source >>

HeadEnd == request.offset + request.length

(* The head holds the whole recording.                                     *)
FinishWholeHead(h) ==
  /\ Finishes("Head")
  /\ HasHeadVideo(h.cands)
  /\ HeadEnd = Size
  /\ headEnd' = HeadEnd
  /\ fed' = fed + Remaining
  /\ received' = received + Remaining
  /\ heard' = Flushed(h)
  /\ Conclude(heard'.cands, FALSE)
  /\ UNCHANGED << phase, tailWindow >>

(* The rest is small: go on in sequence.                                   *)
FinishHeadNearEnd(h) ==
  /\ Finishes("Head")
  /\ HasHeadVideo(h.cands)
  /\ HeadEnd # Size
  /\ Size - HeadEnd <= options.initial
  /\ headEnd' = HeadEnd
  /\ phase' = "SequentialTail"
  /\ fed' = fed + Remaining
  /\ heard' = h
  /\ Issue(generation, nextId, HeadEnd, Size - HeadEnd)
  /\ UNCHANGED << failure, result, tailWindow >>

Bug_TailOffset(window) == Size - window

TailOffset(window) == Size - AtMost(Size, window)

Repositioned(offset) == fed' = offset

(* issue_tail_request; reposition drops what the Demuxer had pending.      *)
AskTail(h, window) ==
  /\ phase' = "Tail"
  /\ tailWindow' = window
  /\ Repositioned(TailOffset(window))
  /\ heard' = Silent(h.selected,
                     [c \in DOMAIN h.cands |-> [h.cands[c] EXCEPT !.tail = NoStats]])
  /\ Issue(generation, nextId, TailOffset(window), Size - TailOffset(window))
  /\ UNCHANGED << failure, result >>

FinishHead(h) ==
  /\ Finishes("Head")
  /\ HasHeadVideo(h.cands)
  /\ HeadEnd # Size
  /\ Size - HeadEnd > options.initial
  /\ headEnd' = HeadEnd
  /\ AskTail(h, AtMost(options.initial, Size))

(* A window grows to its double, no further than max_range_size.           *)
Doubled(w) == IF w > options.max \div 2 THEN options.max ELSE 2 * w

NextHeadEnd == AtMost(Size, AtMost(options.max, Doubled(HeadEnd)))

(* No video yet.                                                           *)
WidenHead(h) ==
  /\ Finishes("Head")
  /\ ~HasHeadVideo(h.cands)
  /\ NextHeadEnd > HeadEnd
  /\ headEnd' = HeadEnd
  /\ fed' = fed + Remaining
  /\ heard' = h
  /\ Issue(generation, nextId, HeadEnd, NextHeadEnd - HeadEnd)
  /\ UNCHANGED << failure, result, phase, tailWindow >>

GiveUpHead(h) ==
  /\ Finishes("Head")
  /\ ~HasHeadVideo(h.cands)
  /\ NextHeadEnd <= HeadEnd
  /\ headEnd' = HeadEnd
  /\ fed' = fed + Remaining
  /\ received' = received + Remaining
  /\ heard' = h
  /\ Stop("Unknown", "NoVideo")
  /\ UNCHANGED << phase, tailWindow >>

FinishSequentialTail(h) ==
  /\ Finishes("SequentialTail")
  /\ fed' = fed + Remaining
  /\ received' = received + Remaining
  /\ heard' = h
  /\ Conclude(h.cands, FALSE)
  /\ UNCHANGED << phase, headEnd, tailWindow >>

FinishTail(h) ==
  /\ Finishes("Tail")
  /\ Ended(h.cands, TRUE) # {}
  /\ fed' = fed + Remaining
  /\ received' = received + Remaining
  /\ heard' = h
  /\ Conclude(h.cands, TRUE)
  /\ UNCHANGED << phase, headEnd, tailWindow >>

WindowExhausted == tailWindow >= options.max \/ tailWindow >= Size

WidenTail(h) ==
  /\ Finishes("Tail")
  /\ Ended(h.cands, TRUE) = {}
  /\ ~WindowExhausted
  /\ AskTail(h, AtMost(options.max, Doubled(tailWindow)))
  /\ UNCHANGED headEnd

GiveUpTail(h) ==
  /\ Finishes("Tail")
  /\ Ended(h.cands, TRUE) = {}
  /\ WindowExhausted
  /\ fed' = fed + Remaining
  /\ received' = received + Remaining
  /\ heard' = h
  /\ Stop("Unknown", IF HasTailVideo(h.cands) THEN "RangeLimit" ELSE "NoTailTimestamp")
  /\ UNCHANGED << phase, headEnd, tailWindow >>

(* After the head the Demuxer is flushed before anything is decided.       *)
Finish(r) ==
  /\ Answers(r)
  /\ Remaining <= MaxPiece
  /\ \/ \E h \in {Listened(Remaining)} :
          \/ FinishWholeHead(h)
          \/ FinishHeadNearEnd(h)
          \/ FinishHead(h)
          \/ WidenHead(h)
          \/ GiveUpHead(h)
     \/ \E h \in {Flushed(Listened(Remaining))} :
          \/ FinishSequentialTail(h)
          \/ FinishTail(h)
          \/ WidenTail(h)
          \/ GiveUpTail(h)

Next ==
  \/ \E s \in Sources, o \in OptionSets : Begin(s, o)
  \/ \E r \in issued, n \in 1 .. MaxPiece : PushPiece(r, n)
  \/ \E r \in issued, n \in 0 .. MaxPiece : PushShort(r, n)
  \/ \E r \in issued : PushWrong(r)
  \/ \E r \in issued : FailRange(r)
  \/ \E r \in issued : Finish(r)
  \/ Cancel

Spec == Init /\ [][Next]_vars

(* The caller goes on answering the request it was given last.             *)
Answer == \E r \in issued : Finish(r) \/ \E n \in 1 .. MaxPiece : PushPiece(r, n)

FairSpec == Spec /\ WF_vars(Answer)

-----------------------------------------------------------------------------
(***************************************************************************)
(* What is asked for lies in the recording and is never empty, never more  *)
(* than max_range_size, and no more is received than was asked for; the    *)
(* Demuxer sees its bytes where they are, through every widening.  The     *)
(* whole transfer is bounded by the options, not by the recording: once    *)
(* the head and less than three times the largest window for the tail.     *)
(***************************************************************************)
RequestsBounded ==
  /\ transferred <= 4 * options.max
  /\ state = "NeedRange" =>
       /\ request.length \in 1 .. options.max
       /\ request.offset \in 0 .. (Size - request.length)
       /\ received \in 0 .. request.length
       /\ fed = request.offset + received

(***************************************************************************)
(* An answer to a request of the past, of an earlier begin too, is never   *)
(* taken for an answer to the present one.                                 *)
(***************************************************************************)
LateAnswersMiss ==
  state = "NeedRange" => \A r \in issued : r.id = request.id => r = request

(* What the recording holds of the track at place k of Tracks.             *)
PtsOf(s, k) ==
  LET mpt   == CHOOSE i \in DOMAIN s : s[i].kind = "mpt" /\ \A j \in 1 .. (i - 1) : s[j].kind # "mpt"
      units == SelectSeq(SubSeq(s, mpt, Len(s)),
                         LAMBDA c : c.kind = "unit" /\ c.packet = Tracks[k].packet)
  IN  [i \in DOMAIN units |-> units[i].pts]

HasTable(s) == \E i \in DOMAIN s : s[i].kind = "mpt"

Whole(s, k) == FoldLeft(Observed, NoStats, PtsOf(s, k))

(* The layers the options select: candidates as if all tracks were heard.  *)
Layers == Selected([k \in DOMAIN Tracks |-> Candidate(k)])

(* The union of their presentation ranges.                                 *)
TrueRange(s) ==
  LET heads == {Whole(s, k).first : k \in Layers} \ {None}
      ends  == {Whole(s, k).maximum + Whole(s, k).frame : k \in {k \in Layers : Whole(s, k).frame > 0}}
  IN  [start |-> CHOOSE a \in heads : \A b \in heads : a <= b,
       end   |-> CHOOSE a \in ends : \A b \in ends : a >= b]

(* Every selected layer showed where it starts and where it ends.          *)
AllLayersHeard ==
  \A i \in Selected(heard.cands) :
    /\ heard.cands[i].head.first # None
    /\ HasEnd(heard.cands[i], phase = "Tail")

(***************************************************************************)
(* A completed probe has found the union of the presentation ranges of the *)
(* selected layers, although it saw only the two ends of the recording,    *)
(* provided that the ranges read showed both ends of every layer.          *)
(***************************************************************************)
FindsTheRangeHeard ==
  state = "Complete" /\ AllLayersHeard =>
    /\ result.start = TrueRange(source).start
    /\ result.end = TrueRange(source).end

(***************************************************************************)
(* A caller that goes on answering brings every probe to an end.           *)
(***************************************************************************)
ProbeEnds == [](state = "NeedRange" => <>(state # "NeedRange"))

=============================================================================
