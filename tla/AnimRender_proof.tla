-------------------------- MODULE AnimRender_proof --------------------------
(***************************************************************************)
(* Proofs about AnimRender, for every size of the canvas and every set of  *)
(* colours: the rectangles an encoder chooses are legal and leave out no   *)
(* change, and a player of its frames shows the canvases it was given, but *)
(* for changes too small to be sent.                                       *)
(***************************************************************************)
EXTENDS AnimRender, WellFoundedInduction, TLAPS

-----------------------------------------------------------------------------
(* Rectangles *)

LEMMA LeastNatural ==
  ASSUME NEW S \in SUBSET Nat, S # {}
  PROVE  \E x \in S : \A y \in S : x <= y
  <1>. DEFINE R == OpToRel(<, Nat)
  <1>1. IsWellFoundedOn(R, Nat)
    BY NatLessThanWellFounded
  <1>2. PICK x \in S : \A y \in S : ~ (<<y, x>> \in R)
    <2>. HIDE DEF R
    <2>. QED BY <1>1, WFMin
  <1>3. \A y \in S : x <= y
    <2>. TAKE y \in S
    <2>1. ~ (y < x)
      BY <1>2 DEF OpToRel
    <2>. QED BY <2>1
  <1>. QED BY <1>3

LEMMA MinLeast ==
  ASSUME NEW S \in SUBSET Nat, S # {}
  PROVE  Min(S) \in S /\ \A y \in S : Min(S) <= y
  BY LeastNatural DEF Min

LEMMA MaxGreatest ==
  ASSUME NEW n \in Nat, NEW S \in SUBSET (0..n), S # {}
  PROVE  Max(S) \in S /\ \A y \in S : Max(S) >= y
  <1>. DEFINE T == {n - x : x \in S}
  <1>1. T \in SUBSET Nat /\ T # {}
    <2>1. \A x \in S : n - x \in Nat
      OBVIOUS
    <2>. QED BY <2>1
  <1>2. PICK m \in T : \A k \in T : m <= k
    BY <1>1, LeastNatural
  <1>3. PICK x \in S : m = n - x
    OBVIOUS
  <1>4. \A y \in S : x >= y
    <2>. TAKE y \in S
    <2>1. m <= n - y
      BY <1>2
    <2>. QED BY <1>3, <2>1
  <1>. QED BY <1>3, <1>4 DEF Max

(* a rectangle inside the canvas with at least one pixel *)
Inside(r) ==
  /\ r.x \in Nat /\ r.y \in Nat /\ r.w \in Nat \ {0} /\ r.h \in Nat \ {0}
  /\ r.x + r.w <= Width /\ r.y + r.h <= Height

(* a rectangle a frame of a WebP animation may have *)
Legal(r) ==
  /\ r \in [x : Int, y : Int, w : Int, h : Int]
  /\ Inside(r) /\ r.x % 2 = 0 /\ r.y % 2 = 0

LEMMA FullArea == Area(FullRect) = Pixels
  BY RenderAssumption DEF Area, FullRect, Rect, Pixels

LEMMA EmptyArea == Area(EmptyRect) = {}
  BY RenderAssumption DEF Area, EmptyRect, Rect, Pixels

(* The bounding rectangle lies in the canvas and covers its pixels. *)
LEMMA BoundingRectCovers ==
  ASSUME NEW ps \in SUBSET Pixels, ps # {}
  PROVE  Inside(BoundingRect(ps)) /\ ps \subseteq Area(BoundingRect(ps))
  <1>. DEFINE xs == {p[1] : p \in ps}
              ys == {p[2] : p \in ps}
              r == BoundingRect(ps)
  <1>1. Width - 1 \in Nat /\ Height - 1 \in Nat
    BY RenderAssumption
  <1>2. /\ xs \in SUBSET (0..(Width - 1)) /\ xs # {}
        /\ ys \in SUBSET (0..(Height - 1)) /\ ys # {}
    BY DEF Pixels
  <1>3. /\ xs \in SUBSET Nat /\ ys \in SUBSET Nat
    BY <1>1, <1>2
  <1>4. /\ Min(xs) \in xs /\ \A a \in xs : Min(xs) <= a
        /\ Min(ys) \in ys /\ \A a \in ys : Min(ys) <= a
    BY <1>2, <1>3, MinLeast
  <1>5. /\ Max(xs) \in xs /\ \A a \in xs : Max(xs) >= a
        /\ Max(ys) \in ys /\ \A a \in ys : Max(ys) >= a
    BY <1>1, <1>2, MaxGreatest
  <1>6. /\ r.x = Min(xs) /\ r.w = Max(xs) - Min(xs) + 1
        /\ r.y = Min(ys) /\ r.h = Max(ys) - Min(ys) + 1
    BY DEF BoundingRect, Rect
  <1>7. /\ Min(xs) \in 0..(Width - 1) /\ Max(xs) \in 0..(Width - 1)
        /\ Min(ys) \in 0..(Height - 1) /\ Max(ys) \in 0..(Height - 1)
        /\ Min(xs) <= Max(xs) /\ Min(ys) <= Max(ys)
    BY <1>2, <1>4, <1>5
  <1>8. Inside(r)
    BY <1>1, <1>6, <1>7, RenderAssumption DEF Inside
  <1>9. ASSUME NEW p \in ps PROVE p \in Area(r)
    <2>1. p[1] \in xs /\ p[2] \in ys /\ p \in Pixels
      OBVIOUS
    <2>2. /\ Min(xs) <= p[1] /\ p[1] <= Max(xs)
          /\ Min(ys) <= p[2] /\ p[2] <= Max(ys)
          /\ p[1] \in Int /\ p[2] \in Int
      BY <1>2, <1>4, <1>5, <2>1
    <2>. HIDE DEF xs, ys, r
    <2>3. /\ r.x <= p[1] /\ p[1] < r.x + r.w
          /\ r.y <= p[2] /\ p[2] < r.y + r.h
      BY <2>2, <1>6, <1>7
    <2>. QED BY <2>1, <2>3 DEF Area
  <1>. QED BY <1>8, <1>9

(* Growing a rectangle to even offsets keeps it in the canvas. *)
LEMMA SnappedCovers ==
  ASSUME NEW r, Inside(r)
  PROVE  /\ Legal(SnapToEvenOffsets(r))
         /\ Area(r) \subseteq Area(SnapToEvenOffsets(r))
  <1>. DEFINE s == SnapToEvenOffsets(r)
  <1>1. /\ s.x = r.x - (r.x % 2) /\ s.w = r.w + (r.x % 2)
        /\ s.y = r.y - (r.y % 2) /\ s.h = r.h + (r.y % 2)
        /\ DOMAIN s = {"x", "y", "w", "h"}
        /\ s = [x |-> s.x, y |-> s.y, w |-> s.w, h |-> s.h]
    BY DEF SnapToEvenOffsets, Rect, Even
  <1>2. /\ r.x % 2 \in 0..1 /\ r.y % 2 \in 0..1
        /\ r.x % 2 <= r.x /\ r.y % 2 <= r.y
        /\ (r.x - (r.x % 2)) % 2 = 0 /\ (r.y - (r.y % 2)) % 2 = 0
    BY DEF Inside
  <1>3. /\ s.x \in Nat /\ s.y \in Nat /\ s.w \in Nat \ {0} /\ s.h \in Nat \ {0}
        /\ s.x + s.w = r.x + r.w /\ s.y + s.h = r.y + r.h
        /\ s.x <= r.x /\ s.y <= r.y
    BY <1>1, <1>2 DEF Inside
  <1>4. Legal(s)
    <2>1. s \in [x : Int, y : Int, w : Int, h : Int]
      BY <1>1, <1>3
    <2>2. Inside(s)
      BY <1>3 DEF Inside
    <2>3. s.x % 2 = 0 /\ s.y % 2 = 0
      BY <1>1, <1>2
    <2>. QED BY <2>1, <2>2, <2>3 DEF Legal
  <1>5. ASSUME NEW p \in Area(r) PROVE p \in Area(s)
    <2>1. p \in Pixels /\ p[1] \in Int /\ p[2] \in Int
      BY DEF Area, Pixels
    <2>2. /\ r.x <= p[1] /\ p[1] < r.x + r.w
          /\ r.y <= p[2] /\ p[2] < r.y + r.h
      BY DEF Area
    <2>. HIDE DEF s
    <2>3. /\ s.x <= p[1] /\ p[1] < s.x + s.w
          /\ s.y <= p[2] /\ p[2] < s.y + s.h
      BY <1>3, <2>1, <2>2 DEF Inside
    <2>. QED BY <2>1, <2>3 DEF Area
  <1>. QED BY <1>4, <1>5

LEMMA OnePixelLegal == Legal(Rect(0, 0, 1, 1))
  <1>1. 0 % 2 = 0
    OBVIOUS
  <1>. QED BY <1>1, RenderAssumption DEF Legal, Inside, Rect

-----------------------------------------------------------------------------
(* Pixels that are sent and pixels that are not *)

(* The pixels of a canvas, new, drawn over what a player shows: each is    *)
(* the one of curr, or it stays as it was, since the change from prev to   *)
(* curr is too small for the codec l to be sent.                           *)
Kept(l, shown, prev, curr, new) ==
  \A p \in Pixels :
    \/ new[p] = curr[p]
    \/ new[p] = shown[p] /\ ComparePixels(l, prev[p], curr[p])

(* What counts as the same for one codec does for a less strict one. *)
LEMMA CompareWeaker ==
  ASSUME NEW l \in BOOLEAN, NEW m \in BOOLEAN, m => l, NEW a, NEW b,
         ComparePixels(l, a, b)
  PROVE  ComparePixels(m, a, b)
  BY DEF ComparePixels, PixelsAreSimilar

(* Nothing but CLEAR counts as the same as CLEAR. *)
LEMMA FromClear ==
  ASSUME NEW l \in BOOLEAN, NEW a, ComparePixels(l, CLEAR, a)
  PROVE  a = CLEAR
  BY RenderAssumption DEF ComparePixels, PixelsAreSimilar

LEMMA KeptWeaker ==
  ASSUME NEW l \in BOOLEAN, NEW m \in BOOLEAN, m => l, NEW shown, NEW prev,
         NEW curr, NEW new, Kept(l, shown, prev, curr, new)
  PROVE  Kept(m, shown, prev, curr, new)
  BY CompareWeaker DEF Kept

LEMMA ClearedCanvas ==
  ASSUME NEW c \in Canvases, NEW r
  PROVE  Cleared(c, r) \in Canvases
  BY DEF Cleared, Canvases

(* What is drawn after a disposal is kept with respect to the canvases     *)
(* before it: a disposed pixel that is not sent is CLEAR in curr, too.     *)
LEMMA KeptAfterDisposal ==
  ASSUME NEW l \in BOOLEAN, NEW shown, NEW prev, NEW curr, NEW new, NEW r,
         Kept(l, Cleared(shown, r), Cleared(prev, r), curr, new)
  PROVE  Kept(l, shown, prev, curr, new)
  <1>. SUFFICES ASSUME NEW p \in Pixels, new[p] # curr[p]
                PROVE  new[p] = shown[p] /\ ComparePixels(l, prev[p], curr[p])
    BY DEF Kept
  <1>1. /\ new[p] = Cleared(shown, r)[p]
        /\ ComparePixels(l, Cleared(prev, r)[p], curr[p])
    BY DEF Kept
  <1>2. CASE p \in Area(r)
    <2>1. new[p] = CLEAR /\ ComparePixels(l, CLEAR, curr[p])
      BY <1>1, <1>2 DEF Cleared
    <2>2. curr[p] = CLEAR
      BY <2>1, FromClear
    <2>. QED BY <2>1, <2>2
  <1>3. CASE p \notin Area(r)
    BY <1>1, <1>3 DEF Cleared
  <1>. QED BY <1>2, <1>3

-----------------------------------------------------------------------------
(* The rectangles that are encoded leave out no change *)

(* outside r, curr counts as the same as prev *)
Covers(l, prev, curr, r) ==
  \A p \in Pixels : p \notin Area(r) => ComparePixels(l, prev[p], curr[p])

LEMMA SubRectCovers ==
  ASSUME NEW l \in BOOLEAN, NEW prev, NEW curr, NEW may \in BOOLEAN, NEW rect,
         Covers(l, prev, curr, rect)
  PROVE  LET r == GetSubRect(prev, curr, may, l, rect)
         IN  /\ Covers(l, prev, curr, r)
             /\ IF IsEmptyRect(r) THEN may /\ r = EmptyRect ELSE Legal(r)
  <1>. DEFINE r == GetSubRect(prev, curr, may, l, rect)
              changed == {p \in Area(rect) : ~ComparePixels(l, prev[p], curr[p])}
              m == MinimizeChangeRectangle(prev, curr, rect, l)
  <1>1. /\ changed \in SUBSET Pixels
        /\ \A p \in Pixels \ changed : ComparePixels(l, prev[p], curr[p])
    BY DEF Area, Covers
  <1>2. IsEmptyRect(EmptyRect) /\ ~IsEmptyRect(Rect(0, 0, 1, 1))
    BY DEF IsEmptyRect, EmptyRect, Rect
  <1>3. m = IF changed = {} THEN EmptyRect ELSE BoundingRect(changed)
    BY DEF MinimizeChangeRectangle
  <1>4. r = IF ~IsEmptyRect(m) THEN SnapToEvenOffsets(m)
            ELSE IF may THEN m ELSE Rect(0, 0, 1, 1)
    BY DEF GetSubRect
  <1>. HIDE DEF r, changed, m
  <1>5. CASE changed = {}
    <2>1. Covers(l, prev, curr, r)
      BY <1>1, <1>5 DEF Covers
    <2>2. r = IF may THEN EmptyRect ELSE Rect(0, 0, 1, 1)
      BY <1>2, <1>3, <1>4, <1>5
    <2>3. IF IsEmptyRect(r) THEN may /\ r = EmptyRect ELSE Legal(r)
      BY <1>2, <2>2, OnePixelLegal
    <2>. QED BY <2>1, <2>3 DEF r
  <1>6. CASE changed # {}
    <2>1. m = BoundingRect(changed)
      BY <1>3, <1>6
    <2>2. Inside(m) /\ changed \subseteq Area(m)
      BY <1>1, <1>6, <2>1, BoundingRectCovers
    <2>3. ~IsEmptyRect(m)
      BY <2>2 DEF Inside, IsEmptyRect
    <2>4. r = SnapToEvenOffsets(m)
      BY <1>4, <2>3
    <2>5. Legal(r) /\ changed \subseteq Area(r)
      BY <2>2, <2>4, SnappedCovers
    <2>6. Covers(l, prev, curr, r)
      BY <1>1, <2>5 DEF Covers
    <2>7. ~IsEmptyRect(r)
      BY <2>5 DEF Legal, Inside, IsEmptyRect
    <2>. QED BY <2>5, <2>6, <2>7 DEF r
  <1>. QED BY <1>5, <1>6

(* the rectangle a codec encodes *)
RectOf(l, rects) == IF l THEN rects.ll ELSE rects.lossy

LEMMA SubRectsCover ==
  ASSUME NEW l \in BOOLEAN, NEW prev, NEW curr, NEW may \in BOOLEAN
  PROVE  LET r == RectOf(l, GetSubRects(prev, curr, may))
         IN  /\ Covers(l, prev, curr, r)
             /\ IF IsEmptyRect(r) THEN may /\ r = EmptyRect ELSE Legal(r)
  <1>. DEFINE rects == GetSubRects(prev, curr, may)
  <1>1. Covers(TRUE, prev, curr, FullRect)
    BY FullArea DEF Covers
  <1>2. rects.ll = GetSubRect(prev, curr, may, TRUE, FullRect)
    BY DEF GetSubRects
  <1>3. rects.lossy = GetSubRect(prev, curr, may, FALSE, rects.ll)
    BY DEF GetSubRects
  <1>. HIDE DEF rects
  <1>4. /\ Covers(TRUE, prev, curr, rects.ll)
        /\ IF IsEmptyRect(rects.ll) THEN may /\ rects.ll = EmptyRect ELSE Legal(rects.ll)
    BY <1>1, <1>2, SubRectCovers
  <1>5. Covers(FALSE, prev, curr, rects.ll)
    BY <1>4 DEF Covers, ComparePixels, PixelsAreSimilar
  <1>6. /\ Covers(FALSE, prev, curr, rects.lossy)
        /\ IF IsEmptyRect(rects.lossy) THEN may /\ rects.lossy = EmptyRect ELSE Legal(rects.lossy)
    BY <1>3, <1>5, SubRectCovers
  <1>. QED BY <1>4, <1>6 DEF RectOf, rects

-----------------------------------------------------------------------------
(* Frames *)

LEMMA BlendedPicture ==
  ASSUME NEW prev \in Canvases, NEW curr \in Canvases, NEW r,
         NEW l \in BOOLEAN, NEW d
  PROVE  LET c == Blended(prev, curr, r, l, d)
         IN  /\ c.picture \in Canvases /\ c.rect = r /\ c.dispose = d
  <1>. DEFINE t == IF l THEN IncreaseTransparency(prev, r, curr)
                        ELSE FlattenSimilarBlocks(prev, r, curr)
  <1>1. IncreaseTransparency(prev, r, curr) \in Canvases
    BY DEF IncreaseTransparency, Canvases
  <1>2. FlattenSimilarBlocks(prev, r, curr) \in Canvases
    BY DEF FlattenSimilarBlocks, Canvases
  <1>3. t \in Canvases
    BY <1>1, <1>2
  <1>. QED BY <1>3 DEF Blended, Candidate

(* Drawing a blended frame shows curr, or leaves pixels as they were. *)
LEMMA BlendedKept ==
  ASSUME NEW l \in BOOLEAN, NEW prev \in Canvases, NEW curr \in Canvases,
         NEW shown \in Canvases, NEW r, NEW d, Covers(l, prev, curr, r)
  PROVE  Kept(l, shown, prev, curr,
              Drawn(shown, Blended(prev, curr, r, l, d)))
  <1>. DEFINE c == Blended(prev, curr, r, l, d)
              t == IF l THEN IncreaseTransparency(prev, r, curr)
                        ELSE FlattenSimilarBlocks(prev, r, curr)
  <1>. SUFFICES ASSUME NEW p \in Pixels
                PROVE  \/ Drawn(shown, c)[p] = curr[p]
                       \/ /\ Drawn(shown, c)[p] = shown[p]
                          /\ ComparePixels(l, prev[p], curr[p])
    BY DEF Kept
  <1>1. c = IF IsBlendingPossible(l, prev, curr, r)
            THEN Candidate(r, t, TRUE, d) ELSE Candidate(r, curr, FALSE, d)
    BY DEF Blended
  <1>2. Drawn(shown, c)[p] = IF \/ p \notin Area(c.rect)
                                \/ c.blend /\ c.picture[p] = CLEAR
                             THEN shown[p] ELSE c.picture[p]
    BY DEF Drawn
  <1>. HIDE DEF c
  <1>5. CASE p \notin Area(r)
    <2>1. Drawn(shown, c)[p] = shown[p]
      BY <1>1, <1>2, <1>5 DEF Candidate
    <2>2. ComparePixels(l, prev[p], curr[p])
      BY <1>5 DEF Covers
    <2>. QED BY <2>1, <2>2
  <1>6. CASE p \in Area(r) /\ ~IsBlendingPossible(l, prev, curr, r)
    <2>1. Drawn(shown, c)[p] = curr[p]
      BY <1>1, <1>2, <1>6 DEF Candidate
    <2>. QED BY <2>1
  <1>7. CASE p \in Area(r) /\ IsBlendingPossible(l, prev, curr, r)
    <2>1. Drawn(shown, c)[p] = IF t[p] = CLEAR THEN shown[p] ELSE t[p]
      BY <1>1, <1>2, <1>7 DEF Candidate
    <2>2. curr[p] = CLEAR => ComparePixels(l, prev[p], curr[p])
      BY <1>7 DEF IsBlendingPossible
    <2>3. \/ t[p] = curr[p]
          \/ t[p] = CLEAR /\ ComparePixels(l, prev[p], curr[p])
      <3>1. CASE l
        BY <3>1 DEF IncreaseTransparency, ComparePixels
      <3>2. CASE ~l
        <4>. DEFINE flat == \A q \in InBlocks(r) : BlockOf(q) = BlockOf(p) =>
                              prev[q] # CLEAR /\ PixelsAreSimilar(prev[q], curr[q])
        <4>1. t[p] = IF p \in InBlocks(r) /\ flat THEN CLEAR ELSE curr[p]
          BY <3>2 DEF FlattenSimilarBlocks
        <4>2. p \in InBlocks(r) /\ flat => PixelsAreSimilar(prev[p], curr[p])
          OBVIOUS
        <4>. QED BY <3>2, <4>1, <4>2 DEF ComparePixels
      <3>. QED BY <3>1, <3>2
    <2>. HIDE DEF t
    <2>4. CASE t[p] = CLEAR
      BY <2>1, <2>2, <2>3, <2>4
    <2>5. CASE t[p] # CLEAR
      BY <2>1, <2>3, <2>5
    <2>. QED BY <2>4, <2>5
  <1>. QED BY <1>5, <1>6, <1>7 DEF c

-----------------------------------------------------------------------------
(* The encoder *)

Encoders ==
  [is_first_frame : BOOLEAN, prev_canvas : Canvases,
   prev_rect : [x : Int, y : Int, w : Int, h : Int], out_frame_count : Nat,
   shown : Canvases]

OptionRecords ==
  [lossless : BOOLEAN, allow_mixed : BOOLEAN, minimize_size : BOOLEAN]

(* what is known of an encoder between two additions *)
EncoderSound(e) ==
  /\ e \in Encoders
  /\ e.is_first_frame => e = NewEncoder
  /\ ~e.is_first_frame => Legal(e.prev_rect) /\ e.out_frame_count > 0

LEMMA ClearCanvasType == ClearCanvas \in Canvases
  BY DEF ClearCanvas, Canvases

LEMMA NewEncoderSound == EncoderSound(NewEncoder)
  <1>1. NewEncoder \in Encoders
    BY ClearCanvasType DEF NewEncoder, Encoders, EmptyRect, Rect
  <1>. QED BY <1>1 DEF EncoderSound, NewEncoder

(* without lossy frames every change is sent *)
Exact(o) == ~consider_lossy(o)

LEMMA CodecsConsidered ==
  ASSUME NEW o \in OptionRecords
  PROVE  /\ Exact(o) \in BOOLEAN
         /\ consider_lossless(o) \in BOOLEAN /\ consider_lossy(o) \in BOOLEAN
  BY DEF Exact, consider_lossless, consider_lossy, OptionRecords

(* The candidate c can be shown, and shows curr or leaves pixels alone.    *)
Shows(o, e, curr, c) ==
  /\ Legal(c.rect)
  /\ Played(e.shown, e.prev_rect, c) \in Canvases
  /\ Kept(Exact(o), e.shown, e.prev_canvas, curr,
          Played(e.shown, e.prev_rect, c))

LEMMA DrawnCanvas ==
  ASSUME NEW shown \in Canvases, NEW c, c.picture \in Canvases
  PROVE  Drawn(shown, c) \in Canvases
  BY DEF Drawn, Canvases

(* an unblended first frame *)
LEMMA FirstFramesShow ==
  ASSUME NEW o \in OptionRecords, NEW curr \in Canvases,
         NEW c \in FirstFrames(o, NewEncoder, curr)
  PROVE  Shows(o, NewEncoder, curr, c)
  <1>. DEFINE rects == GetSubRects(ClearCanvas, curr, FALSE)
  <1>1. NewEncoder.prev_canvas = ClearCanvas /\ NewEncoder.shown = ClearCanvas
    BY DEF NewEncoder
  <1>2. Exact(o) \in BOOLEAN
    BY CodecsConsidered
  <1>3. PICK l \in BOOLEAN :
          /\ Exact(o) => l
          /\ c = Candidate(RectOf(l, rects), curr, FALSE, "none")
    <2>1. FirstFrames(o, NewEncoder, curr) =
            {Candidate(r, curr, FALSE, "none") :
               r \in (IF consider_lossless(o) THEN {rects.ll} ELSE {})
                     \cup (IF consider_lossy(o) THEN {rects.lossy} ELSE {})}
      BY <1>1 DEF FirstFrames
    <2>. HIDE DEF rects
    <2>2. PICK r \in (IF consider_lossless(o) THEN {rects.ll} ELSE {})
                     \cup (IF consider_lossy(o) THEN {rects.lossy} ELSE {}) :
            c = Candidate(r, curr, FALSE, "none")
      BY <2>1
    <2>3. CASE r = rects.ll
      <3>1. r = RectOf(TRUE, rects)
        BY <2>3 DEF RectOf
      <3>. QED BY <2>2, <3>1
    <2>4. CASE r = rects.lossy /\ consider_lossy(o)
      <3>1. r = RectOf(FALSE, rects)
        BY <2>4 DEF RectOf
      <3>. QED BY <2>2, <2>4, <3>1 DEF Exact
    <2>5. r = rects.ll \/ (r = rects.lossy /\ consider_lossy(o))
      BY <2>2
    <2>. QED BY <2>3, <2>4, <2>5
  <1>. DEFINE r == RectOf(l, rects)
  <1>4. Covers(l, ClearCanvas, curr, r) /\ Legal(r)
    <2>1. /\ Covers(l, ClearCanvas, curr, r)
          /\ IF IsEmptyRect(r) THEN FALSE /\ r = EmptyRect ELSE Legal(r)
      BY SubRectsCover
    <2>. QED BY <2>1
  <1>. HIDE DEF r
  <1>5. /\ c.rect = r /\ c.picture = curr /\ c.blend = FALSE
        /\ c.dispose = "none"
    BY <1>3 DEF Candidate, r
  <1>6. Played(NewEncoder.shown, NewEncoder.prev_rect, c) = Drawn(ClearCanvas, c)
    BY <1>1, <1>5 DEF Played
  <1>7. Drawn(ClearCanvas, c) \in Canvases
    BY <1>5, ClearCanvasType, DrawnCanvas
  <1>8. Kept(l, ClearCanvas, ClearCanvas, curr, Drawn(ClearCanvas, c))
    BY <1>4, <1>5 DEF Kept, Drawn, Covers
  <1>9. Kept(Exact(o), ClearCanvas, ClearCanvas, curr, Drawn(ClearCanvas, c))
    BY <1>2, <1>3, <1>8, KeptWeaker
  <1>. QED BY <1>1, <1>4, <1>5, <1>6, <1>7, <1>9 DEF Shows

(* A sub-frame is one of a codec l that is allowed, over one disposal. *)
LEMMA CandidateOfCodec ==
  ASSUME NEW o \in OptionRecords, NEW prev, NEW curr, NEW rects, NEW d,
         NEW c \in GenerateCandidates(o, prev, curr, rects, d)
  PROVE  \E l \in BOOLEAN :
           /\ Exact(o) => l
           /\ IF l THEN consider_lossless(o) ELSE consider_lossy(o)
           /\ c = Blended(prev, curr, RectOf(l, rects), l, d)
  <1>1. \/ consider_lossless(o) /\ c = Blended(prev, curr, rects.ll, TRUE, d)
        \/ consider_lossy(o) /\ c = Blended(prev, curr, rects.lossy, FALSE, d)
    BY DEF GenerateCandidates
  <1>2. CASE /\ consider_lossless(o)
             /\ c = Blended(prev, curr, rects.ll, TRUE, d)
    <2>1. rects.ll = RectOf(TRUE, rects)
      BY DEF RectOf
    <2>. QED BY <1>2, <2>1
  <1>3. CASE /\ consider_lossy(o)
             /\ c = Blended(prev, curr, rects.lossy, FALSE, d)
    <2>1. rects.lossy = RectOf(FALSE, rects)
      BY DEF RectOf
    <2>. QED BY <1>3, <2>1 DEF Exact
  <1>. QED BY <1>1, <1>2, <1>3

LEMMA SubFramesShow ==
  ASSUME NEW o \in OptionRecords, NEW e, EncoderSound(e),
         NEW curr \in Canvases,
         ~Skips(o, GetSubRects(e.prev_canvas, curr, TRUE)),
         NEW c \in SubFrames(o, e, curr)
  PROVE  Shows(o, e, curr, c)
  <1>. DEFINE none == GetSubRects(e.prev_canvas, curr, TRUE)
              bg == GetSubRects(Disposed(e), curr, FALSE)
  <1>1. e.prev_canvas \in Canvases /\ e.shown \in Canvases
    BY DEF EncoderSound, Encoders
  <1>2. Exact(o) \in BOOLEAN
    BY CodecsConsidered
  <1>3. \/ c \in GenerateCandidates(o, e.prev_canvas, curr, none, "none")
        \/ c \in GenerateCandidates(o, Disposed(e), curr, bg, "background")
    BY DEF SubFrames
  (* over any canvas of the encoder and what a player shows instead of it *)
  <1>4. ASSUME NEW prev \in Canvases, NEW shown \in Canvases, NEW r,
               NEW l \in BOOLEAN, Exact(o) => l,
               Covers(l, prev, curr, r), NEW d,
               c = Blended(prev, curr, r, l, d)
        PROVE  /\ c.rect = r /\ c.dispose = d
               /\ Drawn(shown, c) \in Canvases
               /\ Kept(Exact(o), shown, prev, curr, Drawn(shown, c))
    <2>1. c.picture \in Canvases /\ c.rect = r /\ c.dispose = d
      BY <1>4, BlendedPicture
    <2>2. Drawn(shown, c) \in Canvases
      BY <1>4, <2>1, DrawnCanvas
    <2>3. Kept(l, shown, prev, curr, Drawn(shown, c))
      BY <1>4, BlendedKept
    <2>4. Kept(Exact(o), shown, prev, curr, Drawn(shown, c))
      BY <1>2, <1>4, <2>3, KeptWeaker
    <2>. QED BY <2>1, <2>2, <2>4
  <1>5. CASE c \in GenerateCandidates(o, e.prev_canvas, curr, none, "none")
    <2>. HIDE DEF none
    <2>1. PICK l \in BOOLEAN :
            /\ Exact(o) => l
            /\ IF l THEN consider_lossless(o) ELSE consider_lossy(o)
            /\ c = Blended(e.prev_canvas, curr, RectOf(l, none), l, "none")
      BY <1>5, CandidateOfCodec
    <2>. DEFINE r == RectOf(l, none)
    <2>2. /\ Covers(l, e.prev_canvas, curr, r)
          /\ IsEmptyRect(r) \/ Legal(r)
      <3>1. /\ Covers(l, e.prev_canvas, curr, r)
            /\ IF IsEmptyRect(r) THEN TRUE /\ r = EmptyRect ELSE Legal(r)
        BY SubRectsCover DEF none
      <3>. QED BY <3>1
    <2>3. ~IsEmptyRect(r)
      BY <2>1 DEF Skips, RectOf, none
    <2>. HIDE DEF r
    <2>4. /\ c.rect = r /\ c.dispose = "none"
          /\ Drawn(e.shown, c) \in Canvases
          /\ Kept(Exact(o), e.shown, e.prev_canvas, curr, Drawn(e.shown, c))
      BY <1>1, <1>4, <2>1, <2>2 DEF r
    <2>5. Played(e.shown, e.prev_rect, c) = Drawn(e.shown, c)
      BY <2>4 DEF Played
    <2>. QED BY <2>2, <2>3, <2>4, <2>5 DEF Shows
  <1>6. CASE c \in GenerateCandidates(o, Disposed(e), curr, bg, "background")
    <2>. HIDE DEF bg
    <2>1. PICK l \in BOOLEAN :
            /\ Exact(o) => l
            /\ IF l THEN consider_lossless(o) ELSE consider_lossy(o)
            /\ c = Blended(Disposed(e), curr, RectOf(l, bg), l, "background")
      BY <1>6, CandidateOfCodec
    <2>. DEFINE r == RectOf(l, bg)
                shown == Cleared(e.shown, e.prev_rect)
    <2>2. Covers(l, Disposed(e), curr, r) /\ Legal(r)
      <3>1. /\ Covers(l, Disposed(e), curr, r)
            /\ IF IsEmptyRect(r) THEN FALSE /\ r = EmptyRect ELSE Legal(r)
        BY SubRectsCover DEF bg
      <3>. QED BY <3>1
    <2>3. Disposed(e) \in Canvases /\ shown \in Canvases
      BY <1>1, ClearedCanvas DEF Disposed
    <2>. HIDE DEF r, shown
    <2>4. /\ c.rect = r /\ c.dispose = "background"
          /\ Drawn(shown, c) \in Canvases
          /\ Kept(Exact(o), shown, Disposed(e), curr, Drawn(shown, c))
      BY <1>4, <2>1, <2>2, <2>3 DEF r
    <2>5. Kept(Exact(o), e.shown, e.prev_canvas, curr, Drawn(shown, c))
      BY <1>2, <2>4, KeptAfterDisposal DEF Disposed, shown
    <2>6. Played(e.shown, e.prev_rect, c) = Drawn(shown, c)
      BY <2>4 DEF Played, shown
    <2>. QED BY <2>2, <2>4, <2>5, <2>6 DEF Shows
  <1>. QED BY <1>3, <1>5, <1>6

(* An addition leaves the encoder sound.  Either it is skipped and changes *)
(* nothing a player should see, or what the player shows afterwards is the *)
(* canvas that was added, but for changes too small to be sent; the first  *)
(* one is shown as it is.                                                  *)
LEMMA AddedShows ==
  ASSUME NEW o \in OptionRecords, NEW e, EncoderSound(e),
         NEW curr \in Canvases, NEW f \in Added(o, e, curr)
  PROVE  /\ EncoderSound(f) /\ ~f.is_first_frame
         /\ f.out_frame_count <= e.out_frame_count + 1
         /\ e.is_first_frame => \A p \in Pixels : f.shown[p] = curr[p]
         /\ \/ /\ f.shown = e.shown /\ f.prev_canvas = e.prev_canvas
               /\ \A p \in Pixels :
                    ComparePixels(Exact(o), e.prev_canvas[p], curr[p])
            \/ /\ f.prev_canvas = curr
               /\ Kept(Exact(o), e.shown, e.prev_canvas, curr, f.shown)
  <1>1. e \in Encoders /\ Exact(o) \in BOOLEAN
    BY CodecsConsidered DEF EncoderSound
  (* a frame was taken *)
  <1>2. ASSUME NEW c, Shows(o, e, curr, c), f = Took(e, curr, c)
        PROVE  /\ EncoderSound(f) /\ ~f.is_first_frame
               /\ f.out_frame_count <= e.out_frame_count + 1
               /\ f.prev_canvas = curr
               /\ Kept(Exact(o), e.shown, e.prev_canvas, curr, f.shown)
    <2>1. /\ f.is_first_frame = FALSE /\ f.prev_canvas = curr
          /\ f.prev_rect = c.rect
          /\ f.out_frame_count = e.out_frame_count + 1
          /\ f.shown = Played(e.shown, e.prev_rect, c)
      BY <1>2 DEF Took
    <2>2. /\ Legal(c.rect) /\ f.shown \in Canvases
          /\ Kept(Exact(o), e.shown, e.prev_canvas, curr, f.shown)
      BY <1>2, <2>1 DEF Shows
    <2>3. e.out_frame_count \in Nat
      BY <1>1 DEF Encoders
    <2>4. f.out_frame_count \in Nat /\ f.out_frame_count > 0
      BY <2>1, <2>3
    <2>5. f = [is_first_frame |-> f.is_first_frame, prev_canvas |-> f.prev_canvas,
               prev_rect |-> f.prev_rect, out_frame_count |-> f.out_frame_count,
               shown |-> f.shown]
      BY <1>2 DEF Took
    <2>6. f \in Encoders
      BY <2>1, <2>2, <2>4, <2>5 DEF Encoders, Legal
    <2>7. EncoderSound(f)
      BY <2>1, <2>2, <2>4, <2>6 DEF EncoderSound
    <2>. QED BY <2>1, <2>2, <2>3, <2>7
  <1>3. CASE e.is_first_frame
    <2>1. e = NewEncoder
      BY <1>3 DEF EncoderSound
    <2>2. PICK c \in FirstFrames(o, e, curr) : f = Took(e, curr, c)
      BY <1>3 DEF Added
    <2>3. Shows(o, e, curr, c)
      BY <2>1, <2>2, FirstFramesShow
    <2>4. /\ EncoderSound(f) /\ ~f.is_first_frame
          /\ f.out_frame_count <= e.out_frame_count + 1
          /\ f.prev_canvas = curr
          /\ Kept(Exact(o), e.shown, e.prev_canvas, curr, f.shown)
      BY <1>2, <2>2, <2>3
    <2>5. ASSUME NEW p \in Pixels PROVE f.shown[p] = curr[p]
      <3>1. e.shown[p] = CLEAR /\ e.prev_canvas[p] = CLEAR
        BY <2>1 DEF NewEncoder, ClearCanvas
      <3>2. \/ f.shown[p] = curr[p]
            \/ f.shown[p] = CLEAR /\ ComparePixels(Exact(o), CLEAR, curr[p])
        BY <2>4, <3>1 DEF Kept
      <3>. QED BY <1>1, <3>2, FromClear
    <2>. QED BY <2>4, <2>5
  <1>4. CASE ~e.is_first_frame /\ Skips(o, GetSubRects(e.prev_canvas, curr, TRUE))
    <2>1. f = e
      BY <1>4 DEF Added
    <2>2. PICK l \in BOOLEAN :
            /\ Exact(o) => l
            /\ IsEmptyRect(RectOf(l, GetSubRects(e.prev_canvas, curr, TRUE)))
      <3>. DEFINE rects == GetSubRects(e.prev_canvas, curr, TRUE)
      <3>. HIDE DEF rects
      <3>1. IsEmptyRect(rects.ll) \/ (~Exact(o) /\ IsEmptyRect(rects.lossy))
        BY <1>4 DEF Skips, Exact, rects
      <3>2. RectOf(TRUE, rects) = rects.ll /\ RectOf(FALSE, rects) = rects.lossy
        BY DEF RectOf
      <3>3. CASE IsEmptyRect(rects.ll)
        BY <3>2, <3>3 DEF rects
      <3>4. CASE ~Exact(o) /\ IsEmptyRect(rects.lossy)
        BY <3>2, <3>4 DEF rects
      <3>. QED BY <3>1, <3>3, <3>4
    <2>. DEFINE r == RectOf(l, GetSubRects(e.prev_canvas, curr, TRUE))
    <2>3. /\ Covers(l, e.prev_canvas, curr, r)
          /\ IF IsEmptyRect(r) THEN TRUE /\ r = EmptyRect ELSE Legal(r)
      BY SubRectsCover
    <2>4. Area(r) = {}
      BY <2>2, <2>3, EmptyArea
    <2>5. \A p \in Pixels : ComparePixels(l, e.prev_canvas[p], curr[p])
      BY <2>3, <2>4 DEF Covers
    <2>6. \A p \in Pixels : ComparePixels(Exact(o), e.prev_canvas[p], curr[p])
      BY <1>1, <2>2, <2>5, CompareWeaker
    <2>7. e.out_frame_count <= e.out_frame_count + 1
      BY <1>1 DEF Encoders
    <2>. QED BY <1>4, <2>1, <2>6, <2>7
  <1>5. CASE ~e.is_first_frame /\ ~Skips(o, GetSubRects(e.prev_canvas, curr, TRUE))
    <2>1. PICK c \in SubFrames(o, e, curr) : f = Took(e, curr, c)
      BY <1>5 DEF Added
    <2>2. Shows(o, e, curr, c)
      BY <1>5, <2>1, SubFramesShow
    <2>. QED BY <1>2, <1>5, <2>1, <2>2
  <1>. QED BY <1>3, <1>4, <1>5
=============================================================================
