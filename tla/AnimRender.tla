----------------------------- MODULE AnimRender -----------------------------
(***************************************************************************)
(* Pixels in the animation encoder (anim_encode.c): which rectangle of a   *)
(* canvas is encoded, over which disposal of the frame before it, blended  *)
(* or not, and what of it is made transparent; and what a player makes of  *)
(* the result.  The options are those of gif2webp, which leaves key frames *)
(* switched off: after the first, every frame is a sub-frame or skipped.   *)
(*                                                                         *)
(* The module has no variables: Added gives the possible outcomes of one   *)
(* addition to an encoder.  A pixel is CLEAR or an opaque colour; the      *)
(* bitstream of a frame reproduces its picture.                            *)
(***************************************************************************)
EXTENDS Integers, FiniteSetsExt

CONSTANTS
  Width, Height,   (* of the canvas                                          *)
  Colors,          (* opaque colours                                         *)
  CLEAR,           (* TRANSPARENT_COLOR, and GIF_TRANSPARENT_COLOR           *)
  Alike,           (* pairs of colours lossy encoding takes for the same     *)
  BlockSize        (* block_size of FlattenSimilarBlocks, a power of two     *)

ASSUME RenderAssumption ==
  /\ Width \in Nat \ {0} /\ Height \in Nat \ {0}
  /\ CLEAR \notin Colors
  /\ Alike \subseteq Colors \X Colors
  /\ \A c \in Colors : <<c, c>> \in Alike
  /\ BlockSize \in Nat \ {0}

Pixels == (0..(Width - 1)) \X (0..(Height - 1))
Canvases == [Pixels -> Colors \cup {CLEAR}]
ClearCanvas == [p \in Pixels |-> CLEAR]

(* FrameRectangle, GIFFrameRect *)
Rect(x, y, w, h) == [x |-> x, y |-> y, w |-> w, h |-> h]
FullRect == Rect(0, 0, Width, Height)
EmptyRect == Rect(0, 0, 0, 0)

IsEmptyRect(r) == r.w = 0 \/ r.h = 0
RectArea(r) == r.w * r.h

Area(r) == {p \in Pixels : /\ r.x <= p[1] /\ p[1] < r.x + r.w
                           /\ r.y <= p[2] /\ p[2] < r.y + r.h}

(* WebPUtilClearPic, GIFClearPic *)
Cleared(canvas, r) ==
  [p \in Pixels |-> IF p \in Area(r) THEN CLEAR ELSE canvas[p]]

-----------------------------------------------------------------------------
(* The rectangle that changed *)

PixelsAreSimilar(src, dst) == src = dst \/ <<src, dst>> \in Alike

ComparePixels(lossless, src, dst) ==
  IF lossless THEN src = dst ELSE PixelsAreSimilar(src, dst)

BoundingRect(ps) ==
  LET xs == {p[1] : p \in ps}
      ys == {p[2] : p \in ps}
  IN  Rect(Min(xs), Min(ys), Max(xs) - Min(xs) + 1, Max(ys) - Min(ys) + 1)

MinimizeChangeRectangle(src, dst, rect, lossless) ==
  LET changed == {p \in Area(rect) : ~ComparePixels(lossless, src[p], dst[p])}
  IN  IF changed = {} THEN EmptyRect ELSE BoundingRect(changed)

Even(n) == n - (n % 2)

(* Mutant of SnapToEvenOffsets: nothing is done. *)
SnapNothing(r) == r

SnapToEvenOffsets(r) ==
  Rect(Even(r.x), Even(r.y), r.w + (r.x % 2), r.h + (r.y % 2))

(* GetSubRect of a first frame or a sub-frame *)
GetSubRect(prev, curr, may_be_empty, lossless, rect) ==
  LET r == MinimizeChangeRectangle(prev, curr, rect, lossless)
  IN  IF ~IsEmptyRect(r) THEN SnapToEvenOffsets(r)
      ELSE IF may_be_empty THEN r ELSE Rect(0, 0, 1, 1)

(* the lossy rectangle is searched inside the lossless one *)
GetSubRects(prev, curr, may_be_empty) ==
  LET ll == GetSubRect(prev, curr, may_be_empty, TRUE, FullRect)
  IN  [ll |-> ll, lossy |-> GetSubRect(prev, curr, may_be_empty, FALSE, ll)]

-----------------------------------------------------------------------------
(* Blending *)

(* Mutant of IsBlendingPossible: transparent pixels are not looked at. *)
IsBlendingAlwaysPossible(lossless, src, dst, r) == TRUE

(* IsLosslessBlendingPossible, IsLossyBlendingPossible *)
IsBlendingPossible(lossless, src, dst, r) ==
  \A p \in Area(r) :
    dst[p] = CLEAR => ComparePixels(lossless, src[p], dst[p])

IncreaseTransparency(src, r, dst) ==
  [p \in Pixels |-> IF p \in Area(r) /\ src[p] = dst[p] THEN CLEAR ELSE dst[p]]

(* The blocks FlattenSimilarBlocks looks at: it begins behind the first    *)
(* block boundary even when the rectangle starts on one.                   *)
Aligned(n) == n - (n % BlockSize)
BlockOf(p) == <<p[1] \div BlockSize, p[2] \div BlockSize>>
InBlocks(r) ==
  {p \in Pixels :
     /\ Aligned(r.x + BlockSize) <= p[1] /\ p[1] < Aligned(r.x + r.w)
     /\ Aligned(r.y + BlockSize) <= p[2] /\ p[2] < Aligned(r.y + r.h)}

FlattenSimilarBlocks(src, r, dst) ==
  LET flat(p) == \A q \in InBlocks(r) : BlockOf(q) = BlockOf(p) =>
                   src[q] # CLEAR /\ PixelsAreSimilar(src[q], dst[q])
  IN  [p \in Pixels |-> IF p \in InBlocks(r) /\ flat(p) THEN CLEAR ELSE dst[p]]

-----------------------------------------------------------------------------
(* Candidates *)

Candidate(rect, picture, blend, dispose) ==
  [rect |-> rect, picture |-> picture, blend |-> blend, dispose |-> dispose]

(* The picture that is encoded for curr over prev; a frame that is not a   *)
(* key frame is blended whenever that is possible.                         *)
Blended(prev, curr, rect, lossless, dispose) ==
  LET transparent == IF lossless THEN IncreaseTransparency(prev, rect, curr)
                                 ELSE FlattenSimilarBlocks(prev, rect, curr)
  IN  IF IsBlendingPossible(lossless, prev, curr, rect)
      THEN Candidate(rect, transparent, TRUE, dispose)
      ELSE Candidate(rect, curr, FALSE, dispose)

(* The codecs SetFrame considers *)
consider_lossless(o) == o.lossless \/ o.allow_mixed
consider_lossy(o) == ~o.lossless \/ o.allow_mixed

(* GenerateCandidates of a sub-frame; with allow_mixed either codec may    *)
(* turn out smaller.                                                       *)
GenerateCandidates(o, prev, curr, rects, dispose) ==
  (IF consider_lossless(o)
   THEN {Blended(prev, curr, rects.ll, TRUE, dispose)} ELSE {})
  \cup
  (IF consider_lossy(o)
   THEN {Blended(prev, curr, rects.lossy, FALSE, dispose)} ELSE {})

(* The rectangle whose size decides between the two disposals *)
Deciding(o, rects) == IF o.lossless THEN rects.ll ELSE rects.lossy

Skips(o, rects) ==
  \/ consider_lossless(o) /\ IsEmptyRect(rects.ll)
  \/ consider_lossy(o) /\ IsEmptyRect(rects.lossy)

(* prev_canvas_disposed_ *)
Disposed(e) == Cleared(e.prev_canvas, e.prev_rect)

(* SetFrame, for any canvas but the first: the candidates of which         *)
(* PickBestCandidate takes the smallest                                    *)
SubFrames(o, e, curr) ==
  LET none == GetSubRects(e.prev_canvas, curr, TRUE)
      bg == GetSubRects(Disposed(e), curr, FALSE)
      smaller == RectArea(Deciding(o, bg)) < RectArea(Deciding(o, none))
  IN  (IF o.minimize_size \/ ~smaller
       THEN GenerateCandidates(o, e.prev_canvas, curr, none, "none") ELSE {})
      \cup
      (IF o.minimize_size \/ smaller
       THEN GenerateCandidates(o, Disposed(e), curr, bg, "background") ELSE {})

(* the first frame, a key frame that needs no more than its own rectangle *)
FirstFrames(o, e, curr) ==
  LET rects == GetSubRects(e.prev_canvas, curr, FALSE)
  IN  {Candidate(r, curr, FALSE, "none") :
         r \in (IF consider_lossless(o) THEN {rects.ll} ELSE {})
               \cup (IF consider_lossy(o) THEN {rects.lossy} ELSE {})}

-----------------------------------------------------------------------------
(* A player of the finished animation: the frame before is disposed, then  *)
(* the new one is drawn.                                                   *)
Drawn(canvas, c) ==
  [p \in Pixels |-> IF \/ p \notin Area(c.rect)
                       \/ c.blend /\ c.picture[p] = CLEAR
                    THEN canvas[p] ELSE c.picture[p]]

Played(shown, prev_rect, c) ==
  Drawn(IF c.dispose = "background" THEN Cleared(shown, prev_rect) ELSE shown, c)

(* The encoder between two additions, with what its output shows so far *)
NewEncoder ==
  [is_first_frame |-> TRUE, prev_canvas |-> ClearCanvas,
   prev_rect |-> EmptyRect, out_frame_count |-> 0, shown |-> ClearCanvas]

Took(e, curr, c) ==
  [is_first_frame |-> FALSE, prev_canvas |-> curr, prev_rect |-> c.rect,
   out_frame_count |-> e.out_frame_count + 1,
   shown |-> Played(e.shown, e.prev_rect, c)]

(* CacheFrame: what may become of the encoder when curr is added to it *)
Added(o, e, curr) ==
  IF e.is_first_frame THEN {Took(e, curr, c) : c \in FirstFrames(o, e, curr)}
  ELSE IF Skips(o, GetSubRects(e.prev_canvas, curr, TRUE)) THEN {e}
  ELSE {Took(e, curr, c) : c \in SubFrames(o, e, curr)}
=============================================================================
