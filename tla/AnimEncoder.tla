---------------------------- MODULE AnimEncoder ----------------------------
(***************************************************************************)
(* The animation encoder kwebp carries (anim_encode.c): it turns a series  *)
(* of full canvases into key frames and sub-frames, merges repeated        *)
(* canvases, and holds back a window of encoded frames until it knows      *)
(* which of them becomes the key frame.                                    *)
(*                                                                         *)
(* A client adds canvases, then the NULL frame, then assembles, and stops  *)
(* at the first canvas that cannot be added, as gif2webp does.  Pixels are *)
(* abstracted: a canvas is a value, Similar says when the change rectangle *)
(* between two canvases is empty, and the rectangle a frame covers is      *)
(* named by the frame and the variant it belongs to.  What a sub-frame     *)
(* was encoded against is recorded in its field over.                      *)
(***************************************************************************)
EXTENDS Integers, Sequences, SequencesExt

CONSTANTS
  Canvases,        (* contents of a canvas                                   *)
  Similar,         (* pairs of canvases with no change worth encoding        *)
  Durations,       (* milliseconds between two additions                     *)
  Penalties,       (* sizes by which a key frame may exceed its sub-frame    *)
  MAX_DURATION,
  MAX_CACHED_FRAMES,
  INT_MAX,
  DELTA_INFINITY,
  OptionSet,       (* options [minimize_size, kmin, kmax] a client asks for  *)
  MaxFrames        (* bound: canvases added                                  *)

KEYFRAME_NONE == -1

ASSUME EncoderAssumption ==
  /\ KEYFRAME_NONE \notin Canvases
  /\ Similar \subseteq Canvases \X Canvases
  /\ \A c \in Canvases : <<c, c>> \in Similar
  /\ Durations \subseteq Nat
  /\ Penalties \subseteq Int
  /\ DELTA_INFINITY \in Int /\ \A p \in Penalties : p < DELTA_INFINITY
  /\ MAX_DURATION \in Nat \ {0}
  /\ MAX_CACHED_FRAMES \in Nat \ {0}
  /\ INT_MAX \in Nat /\ INT_MAX > 1
  /\ OptionSet \subseteq [minimize_size : BOOLEAN, kmin : 0..INT_MAX,
                          kmax : Int]
  /\ \A o \in OptionSet : o.kmax <= INT_MAX
  /\ MaxFrames \in Nat

VARIABLES
  phase,    (* adding, ended, assembled, failed or overrun                   *)
  options,  (* enc->options_, sanitized                                      *)
  enc,      (* the WebPAnimEncoder                                           *)
  mux,      (* frames pushed to enc->mux_                                    *)
  input     (* history: canvases added, each with the duration it is to have *)

vars == <<phase, options, enc, mux, input>>

-----------------------------------------------------------------------------
(* Options and window *)

DisableKeyframes(o) == [o EXCEPT !.kmax = INT_MAX, !.kmin = INT_MAX - 1]

RaisedKmin(o) ==
  IF o.kmin >= o.kmax THEN o.kmax - 1
  ELSE IF o.kmin < o.kmax \div 2 + 1 /\ o.kmax \div 2 + 1 < o.kmax
       THEN o.kmax \div 2 + 1
       ELSE o.kmin

LimitedKmin(o) ==
  IF o.kmax - RaisedKmin(o) > MAX_CACHED_FRAMES
  THEN o.kmax - MAX_CACHED_FRAMES
  ELSE RaisedKmin(o)

SanitizeEncoderOptions(asked) ==
  LET o == IF asked.minimize_size \/ asked.kmax <= 0
           THEN DisableKeyframes(asked) ELSE asked
  IN  IF o.kmax = 1 THEN [o EXCEPT !.kmin = 0, !.kmax = 0]
                    ELSE [o EXCEPT !.kmin = LimitedKmin(o)]

(* enc->size_: the window keeps one slot for the previous frame *)
size == LET n == options.kmax - options.kmin + 1 IN IF n < 2 THEN 2 ELSE n

NewEncoder ==
  [start |-> 0, frames |-> <<>>, flush_count |-> 0,
   best_delta |-> DELTA_INFINITY, keyframe |-> KEYFRAME_NONE,
   prev_canvas |-> KEYFRAME_NONE, prev_rect |-> <<>>,
   count_since_key_frame |-> 0, prev_candidate_undecided |-> FALSE,
   is_first_frame |-> TRUE, got_null_frame |-> FALSE,
   in_frame_count |-> 0, out_frame_count |-> 0, elapsed |-> 0]

-----------------------------------------------------------------------------
(* Frames of the window *)

count(e) == Len(e.frames)

(* the assertion of GetFrame for the first slot behind the window *)
HasSlot(e) == e.start + count(e) < size

Info == [dispose |-> "none", duration |-> 0]

(* the next frame of e, encoded as sub-frame over the previous one *)
SubFrame(e, canvas, dispose) ==
  [id |-> e.out_frame_count + count(e) + 1, is_key_frame |-> FALSE,
   padding |-> FALSE, canvas |-> canvas, sub_frame |-> Info,
   key_frame |-> Info,
   over |-> [dispose |-> dispose, rect |-> e.prev_rect,
             canvas |-> e.prev_canvas]]

Rect(f, kind) == <<f.id, kind>>

(* the variant of a cached frame that is pushed to the mux *)
Chosen(f) ==
  LET info == IF f.is_key_frame THEN f.key_frame ELSE f.sub_frame
  IN  [is_key_frame |-> f.is_key_frame, padding |-> f.padding,
       canvas |-> f.canvas, over |-> f.over, dispose |-> info.dispose,
       duration |-> info.duration,
       rect |-> Rect(f, IF f.is_key_frame THEN "key" ELSE "sub")]

(* for the previous frame, the last one cached *)
SetPreviousDisposeMethod(e, dispose) ==
  LET n == count(e)
      f == e.frames[n]
      both == e.prev_candidate_undecided
      Set(info, chosen) ==
        IF both \/ chosen THEN [info EXCEPT !.dispose = dispose] ELSE info
  IN  [e EXCEPT !.frames[n] =
        [f EXCEPT !.sub_frame = Set(@, ~f.is_key_frame),
                  !.key_frame = Set(@, f.is_key_frame)]]

(* The duration of the previous frame reaches MAX_DURATION: its last part  *)
(* becomes a transparent 1x1 frame of its own.                             *)
WithPaddingFrame(e, duration) ==
  LET f == [SubFrame(e, e.prev_canvas, "none") EXCEPT
              !.padding = TRUE, !.sub_frame.duration = duration]
  IN  [e EXCEPT !.frames = Append(@, f),
                !.count_since_key_frame = @ + 1,
                !.flush_count = count(e),
                !.prev_candidate_undecided = FALSE,
                !.prev_rect = Rect(f, "sub")]

(* Mutant of Overflows: a duration may reach MAX_DURATION. *)
OverflowsLate(e, duration) ==
  Last(e.frames).sub_frame.duration + duration > MAX_DURATION

Overflows(e, duration) ==
  Last(e.frames).sub_frame.duration + duration >= MAX_DURATION

IncreasePreviousDuration(e, duration) ==
  LET n == count(e)
      f == e.frames[n]
      new == f.sub_frame.duration + duration
  IN  IF Overflows(e, duration)
      THEN WithPaddingFrame(e, duration)
      ELSE [e EXCEPT !.frames[n] = [f EXCEPT !.sub_frame.duration = new,
                                             !.key_frame.duration = new]]

-----------------------------------------------------------------------------
(* CacheFrame: what becomes of the encoder when a canvas is added *)

(* prev_canvas and the counters of an addition that took a frame *)
Took(e, canvas) ==
  [e EXCEPT !.prev_canvas = canvas, !.is_first_frame = FALSE,
            !.in_frame_count = @ + 1]

Skipped(e) == [e EXCEPT !.in_frame_count = @ + 1]

CachedFirst(e, canvas) ==
  LET f == [SubFrame(e, canvas, "none") EXCEPT !.is_key_frame = TRUE]
  IN  Took([e EXCEPT !.frames = <<f>>, !.flush_count = 0,
                     !.count_since_key_frame = 0,
                     !.prev_candidate_undecided = FALSE,
                     !.prev_rect = Rect(f, "key")], canvas)

(* only as a sub-frame, which flushes everything before it *)
CachedSub(e, canvas, dispose) ==
  LET f == SubFrame(e, canvas, dispose)
      d == SetPreviousDisposeMethod(e, dispose)
  IN  Took([d EXCEPT !.frames = Append(@, f), !.flush_count = count(e),
                     !.count_since_key_frame = @ + 1,
                     !.prev_candidate_undecided = FALSE,
                     !.prev_rect = Rect(f, "sub")], canvas)

(* the new frame takes the place of the key frame chosen so far *)
PickedKeyframe(d, f, penalty) ==
  LET old == d.keyframe + 1
      fs == IF d.keyframe = KEYFRAME_NONE THEN d.frames
            ELSE [d.frames EXCEPT ![old].is_key_frame = FALSE]
  IN  [d EXCEPT !.frames = Append(fs, [f EXCEPT !.is_key_frame = TRUE]),
                !.prev_candidate_undecided = TRUE,
                !.keyframe = count(d), !.best_delta = penalty,
                !.flush_count = count(d), !.prev_rect = Rect(f, "key")]

NotPickedKeyframe(d, f) ==
  [d EXCEPT !.frames = Append(@, f), !.prev_candidate_undecided = FALSE,
            !.prev_rect = Rect(f, "sub")]

(* Mutants of ClosedAtKmax: the choice is final one frame late; the next   *)
(* choice starts from the best penalty of this one.                        *)
ClosedAfterKmax(e) ==
  IF e.count_since_key_frame <= options.kmax THEN e
  ELSE [e EXCEPT !.flush_count = count(e) - 1, !.count_since_key_frame = 0,
                 !.keyframe = KEYFRAME_NONE, !.best_delta = DELTA_INFINITY]
ClosedKeepingDelta(e) ==
  IF e.count_since_key_frame < options.kmax THEN e
  ELSE [e EXCEPT !.flush_count = count(e) - 1, !.count_since_key_frame = 0,
                 !.keyframe = KEYFRAME_NONE]

(* with kmax frames since the last key frame, the choice is final *)
ClosedAtKmax(e) ==
  IF e.count_since_key_frame < options.kmax THEN e
  ELSE [e EXCEPT !.flush_count = count(e) - 1, !.count_since_key_frame = 0,
                 !.keyframe = KEYFRAME_NONE, !.best_delta = DELTA_INFINITY]

(* as a sub-frame and as a key frame *)
CachedBoth(e, canvas, dispose, penalty) ==
  LET f == SubFrame(e, canvas, dispose)
      d == [SetPreviousDisposeMethod(e, dispose) EXCEPT
              !.count_since_key_frame = @ + 1]
      picked == IF penalty <= d.best_delta THEN PickedKeyframe(d, f, penalty)
                                           ELSE NotPickedKeyframe(d, f)
  IN  Took(ClosedAtKmax(picked), canvas)

(* Mutant of Flushed: the key frame's index does not move with the window. *)
FlushedKeepingIndex(e) ==
  LET n == e.flush_count
      left == SubSeq(e.frames, n + 1, count(e))
  IN  [e EXCEPT !.frames = left, !.flush_count = 0,
                !.out_frame_count = @ + n,
                !.start = IF Len(left) = 1 THEN 0 ELSE @ + n]

(* FlushFrames without its pushes: n frames leave the window *)
Flushed(e) ==
  LET n == e.flush_count
      left == SubSeq(e.frames, n + 1, count(e))
  IN  [e EXCEPT !.frames = left, !.flush_count = 0,
                !.out_frame_count = @ + n,
                !.keyframe = IF @ < n THEN KEYFRAME_NONE ELSE @ - n,
                !.start = IF Len(left) = 1 THEN 0 ELSE @ + n]

FlushFrames(e) ==
  /\ enc' = Flushed(e)
  /\ mux' = mux \o [i \in 1..e.flush_count |-> Chosen(e.frames[i])]

-----------------------------------------------------------------------------
(* WebPAnimEncoderAdd *)

Init ==
  /\ phase = "adding"
  /\ options \in {SanitizeEncoderOptions(o) : o \in OptionSet}
  /\ enc = NewEncoder
  /\ mux = <<>>
  /\ input = <<>>

(* duration is the time since the last canvas; none has passed before the first *)
Accepts(duration) == enc.is_first_frame \/ duration < MAX_DURATION

(* the encoder after IncreasePreviousDuration, at the new timestamp *)
Advanced(duration) ==
  IF enc.is_first_frame THEN enc
  ELSE [IncreasePreviousDuration(enc, duration) EXCEPT !.elapsed = @ + duration]

Timed(duration) ==
  IF input = <<>> THEN input
  ELSE [input EXCEPT ![Len(input)].duration = duration]

(* both uses of the slot behind the window are inside encoded_frames_ *)
SlotsSuffice(duration) ==
  /\ ~enc.is_first_frame /\ Overflows(enc, duration) => HasSlot(enc)
  /\ HasSlot(Advanced(duration))

BeginAdd(canvas, duration) ==
  /\ phase = "adding"
  /\ Len(input) < MaxFrames
  /\ Accepts(duration)
  /\ SlotsSuffice(duration)
  /\ input' = Append(Timed(duration), [canvas |-> canvas, duration |-> 0])
  /\ UNCHANGED <<phase, options>>

IsSkipped(e, canvas) == <<e.prev_canvas, canvas>> \in Similar

(* Mutant of DisposalOf: an undecided previous frame may be disposed, too. *)
DisposalOfAny(e) == {"none", "background"}

(* the disposal of the previous frame a sub-frame may be encoded for *)
DisposalOf(e) ==
  IF e.prev_candidate_undecided THEN {"none"} ELSE {"none", "background"}

AddFirst(canvas) ==
  /\ enc.is_first_frame
  /\ BeginAdd(canvas, 0)
  /\ FlushFrames(CachedFirst(enc, canvas))

(* Mutant of AddSkipped: the skipped canvas becomes the previous one. *)
AddSkippedAsPrevious(canvas, duration) ==
  LET e == Advanced(duration) IN
  /\ ~enc.is_first_frame
  /\ BeginAdd(canvas, duration)
  /\ IsSkipped(e, canvas)
  /\ FlushFrames([Skipped(e) EXCEPT !.prev_canvas = canvas])

AddSkipped(canvas, duration) ==
  LET e == Advanced(duration) IN
  /\ ~enc.is_first_frame
  /\ BeginAdd(canvas, duration)
  /\ IsSkipped(e, canvas)
  /\ FlushFrames(Skipped(e))

AddSub(canvas, duration) ==
  LET e == Advanced(duration) IN
  /\ ~enc.is_first_frame
  /\ BeginAdd(canvas, duration)
  /\ ~IsSkipped(e, canvas)
  /\ e.count_since_key_frame + 1 <= options.kmin
  /\ \E dispose \in DisposalOf(e) : FlushFrames(CachedSub(e, canvas, dispose))

AddBoth(canvas, duration) ==
  LET e == Advanced(duration) IN
  /\ ~enc.is_first_frame
  /\ BeginAdd(canvas, duration)
  /\ ~IsSkipped(e, canvas)
  /\ e.count_since_key_frame + 1 > options.kmin
  /\ \E dispose \in DisposalOf(e), penalty \in Penalties :
       FlushFrames(CachedBoth(e, canvas, dispose, penalty))

(* GetFrame's assertion stops the program *)
Overrun(duration) ==
  /\ phase = "adding"
  /\ Len(input) < MaxFrames
  /\ Accepts(duration)
  /\ ~SlotsSuffice(duration)
  /\ phase' = "overrun"
  /\ UNCHANGED <<options, enc, mux, input>>

(* A timestamp too far ahead, an encoder error, no memory, or a failed     *)
(* push; the client deletes the encoder.                                   *)
AddFails ==
  /\ phase = "adding"
  /\ phase' = "failed"
  /\ UNCHANGED <<options, enc, mux, input>>

-----------------------------------------------------------------------------
(* The NULL frame and WebPAnimEncoderAssemble *)

AddNull(duration) ==
  /\ phase = "adding"
  /\ Accepts(duration)
  /\ phase' = "ended"
  /\ enc' = [Advanced(duration) EXCEPT !.got_null_frame = TRUE]
  /\ input' = Timed(duration)
  /\ UNCHANGED <<options, mux>>

(* the client assembles all the same *)
AddNullFails(duration) ==
  /\ phase = "adding"
  /\ ~enc.is_first_frame
  /\ ~Accepts(duration) \/ Overflows(enc, duration)
  /\ phase' = "ended"
  /\ UNCHANGED <<options, enc, mux, input>>

(* without the NULL frame the last canvas lasts as long as the average one *)
average == enc.elapsed \div (enc.in_frame_count - 1)

NeedsAverage == ~enc.got_null_frame /\ enc.in_frame_count > 1

WebPAnimEncoderAssemble ==
  LET e == IF NeedsAverage THEN IncreasePreviousDuration(enc, average) ELSE enc
  IN  /\ phase = "ended"
      /\ enc.in_frame_count > 0
      /\ FlushFrames([e EXCEPT !.flush_count = count(e)])
      /\ phase' = "assembled"
      /\ input' = IF NeedsAverage THEN Timed(average) ELSE input
      /\ UNCHANGED options

AssembleFails ==
  /\ phase = "ended"
  /\ phase' = "failed"
  /\ UNCHANGED <<options, enc, mux, input>>

Next ==
  \/ \E canvas \in Canvases : AddFirst(canvas)
  \/ \E canvas \in Canvases, duration \in Durations :
       AddSkipped(canvas, duration) \/ AddSub(canvas, duration)
         \/ AddBoth(canvas, duration)
  \/ \E duration \in Durations :
       Overrun(duration) \/ AddNull(duration) \/ AddNullFails(duration)
  \/ AddFails
  \/ WebPAnimEncoderAssemble
  \/ AssembleFails

Spec == Init /\ [][Next]_vars

-----------------------------------------------------------------------------
(* Properties *)

Phases == {"adding", "ended", "assembled", "failed", "overrun"}
InfoSet == [dispose : {"none", "background"}, duration : 0..(MAX_DURATION - 1)]
Rects == Nat \X {"key", "sub"}

FrameSet ==
  [id : Nat, is_key_frame : BOOLEAN, padding : BOOLEAN, canvas : Canvases,
   sub_frame : InfoSet, key_frame : InfoSet,
   over : [dispose : {"none", "background"}, rect : Rects \cup {<<>>},
           canvas : Canvases \cup {KEYFRAME_NONE}]]

(* Every field keeps its type; durations stay below MAX_DURATION, as the   *)
(* assertions of IncreasePreviousDuration and the container require.       *)
TypeOK ==
  /\ phase \in Phases
  /\ options.kmin \in 0..INT_MAX /\ options.kmax \in 0..INT_MAX
  /\ enc.frames \in Seq(FrameSet)
  /\ enc.start \in Nat /\ enc.flush_count \in 0..count(enc)
  /\ enc.best_delta \in Penalties \cup {DELTA_INFINITY}
  /\ enc.keyframe \in Int
  /\ enc.prev_canvas \in Canvases \cup {KEYFRAME_NONE}
  /\ enc.prev_rect \in Rects \cup {<<>>}
  /\ enc.count_since_key_frame \in Nat
  /\ enc.prev_candidate_undecided \in BOOLEAN
  /\ enc.is_first_frame \in BOOLEAN /\ enc.got_null_frame \in BOOLEAN
  /\ enc.in_frame_count \in Nat /\ enc.out_frame_count = Len(mux)
  /\ enc.elapsed \in Nat
  /\ input \in Seq([canvas : Canvases, duration : Nat])

(* the animation as a player would get it if the window were flushed now *)
Shown == mux \o [i \in 1..count(enc) |-> Chosen(enc.frames[i])]

(* what is on screen in each millisecond of a series of frames *)
Timeline(frames) ==
  FlattenSeq([i \in 1..Len(frames) |->
               [t \in 1..frames[i].duration |-> frames[i].canvas]])

NoPadding == \A i \in 1..Len(Shown) : ~Shown[i].padding

(* Merged, padded, flushed and still cached frames together show every     *)
(* canvas for exactly the time it was given, up to changes too small to    *)
(* encode, and end on the last canvas: skipping never lets the picture     *)
(* drift, and no duration is lost or counted twice.                        *)
TimelineKept ==
  phase \in {"adding", "ended", "assembled"} /\ input # <<>> =>
    LET shown == Timeline(Shown)
        given == Timeline(input)
    IN  /\ Len(shown) = Len(given)
        /\ \A t \in 1..Len(given) : <<shown[t], given[t]>> \in Similar
        /\ <<Last(Shown).canvas, Last(input).canvas>> \in Similar

(* Every sub-frame is shown over exactly what it was encoded against: the  *)
(* canvas, the disposal and, for a disposed frame, the rectangle of the    *)
(* frame before it, whichever of its variants was chosen in the end.       *)
SubFramesDecodable ==
  \A i \in 1..Len(Shown) :
    ~Shown[i].is_key_frame =>
      /\ i > 1
      /\ Shown[i].over.canvas = Shown[i - 1].canvas
      /\ Shown[i].over.dispose = Shown[i - 1].dispose
      /\ Shown[i].over.dispose = "background" =>
           Shown[i].over.rect = Shown[i - 1].rect

(* Between two additions the window has a slot for the next frame, however *)
(* the key frame moves in it, and only a window without a second candidate *)
(* can be overrun at all, by a split duration and the frame after it.      *)
RoomForNext ==
  /\ phase \in {"adding", "ended"} /\ ~enc.got_null_frame => HasSlot(enc)
  /\ phase = "overrun" => size = 2

(* keyframe_ always points at a cached frame that is the chosen key frame  *)
(* (the assertion before it is demoted), and at most the oldest cached     *)
(* frame is another key frame.                                             *)
KeyframeIndexed ==
  /\ enc.keyframe # KEYFRAME_NONE =>
       /\ enc.keyframe + 1 \in 1..count(enc)
       /\ enc.frames[enc.keyframe + 1].is_key_frame
  /\ \A i \in 2..count(enc) :
       enc.frames[i].is_key_frame => i = enc.keyframe + 1

KeyPositions == {i \in 1..Len(Shown) : Shown[i].is_key_frame}

Neighbours(i, j) == i < j /\ KeyPositions \cap (i + 1)..(j - 1) = {}

(* Unless padding shifts them, neighbouring key frames of the animation    *)
(* are more than kmin and fewer than 2 * kmax - kmin frames apart, and one *)
(* of the kmax newest frames is a key frame, so that key frames never stop *)
(* coming: closing a round at kmax, whichever of its frames was the best   *)
(* candidate, never makes the next one miss its key frame.                 *)
KeyFramesRecur ==
  NoPadding /\ Shown # <<>> =>
    /\ \A i, j \in KeyPositions : Neighbours(i, j) =>
         /\ j - i > options.kmin
         /\ options.kmax > 0 => j - i < 2 * options.kmax - options.kmin
         /\ options.kmax = 0 => j = i + 1
    /\ \E i \in KeyPositions :
         Len(Shown) - i < IF options.kmax = 0 THEN 1 ELSE options.kmax

(* The assertion of GetFrame (anim_encode.c:343): the slot that an added   *)
(* frame is encoded into is always within encoded_frames_.                 *)
GetFrameInBounds == phase # "overrun"
=============================================================================
