--------------------------- MODULE GifAnim_proof ---------------------------
(***************************************************************************)
(* Proofs about GifAnim, for every canvas, every set of images and any     *)
(* number of records in a file.                                            *)
(***************************************************************************)
EXTENDS GifAnim, AnimRender_proof

(* what a file showed in an image *)
Indexes == Colors \cup {GIF_INDEX_INVALID}
Pictures == UNION {[Area(im.rect) -> Colors \cup {CLEAR}] : im \in Images}

ImagesSeen ==
  [rect : Rects, map : BOOLEAN, used : Indexes, own : Indexes,
   dispose : Disposals, delay : Nat, picture : Pictures]

Files ==
  [gce : Extensions \cup {NoExtension}, images : Seq(ImagesSeen),
   loop : LoopCounts \cup {-1}]

Additions == [canvas : Canvases, timestamp : Ints]

(* What holds of one worker's conversion c, encoder e, file f and the      *)
(* series g given to the encoder, whatever the others do.                  *)

Typed(c, e, f, g) ==
  /\ c \in Conversions
  /\ f \in Files /\ Len(f.images) <= MaxImages
  /\ g \in Seq(Additions)
  /\ EncoderSound(e)

Counted(c, f, g) ==
  /\ c.frame_number = Len(g)
  /\ c.pc = "records" => Len(f.images) = Len(g)
  /\ c.pc = "adding" => Len(f.images) = Len(g) + 1
  /\ c.pc \in Ends => Len(f.images) \in {Len(g), Len(g) + 1}

Agree(c) == c.pc = "records" => c.curr_canvas = c.prev_canvas

(* the timestamp at which addition k ends *)
Until(c, g, k) == IF k < Len(g) THEN g[k + 1].timestamp ELSE c.frame_timestamp

Timed(c, f, g) ==
  /\ \A k \in 1..Len(g) :
       (Until(c, g, k) - g[k].timestamp) % IntMod
         = ShownDuration(f.images[k].delay) % IntMod
  /\ c.pc = "records" => c.frame_duration = f.gce.delay
  /\ c.pc = "adding" => /\ c.frame_duration = f.images[Len(g) + 1].delay
                        /\ f.gce.delay = 0

Looped(c, e, f) ==
  /\ IF c.stored_loop_count THEN f.loop = c.loop_count ELSE f.loop = -1
  /\ c.pc = "no_anim_params" => e.out_frame_count = 1

(* the pixels in n canvases *)
Data(n) == n * Width * Height

Limited(c, g) ==
  MAX_GIF_DATA + Width * Height < IntMod \div 2 =>
    /\ Data(Len(g)) <= MAX_GIF_DATA + Width * Height
    /\ c.pc \in {"records", "adding"} => Data(Len(g)) <= MAX_GIF_DATA

(* In the series g the pixel p comes from each addition of K to the        *)
(* addition n by steps too small to be sent.                               *)
Drifts(o, g, p, K, n) ==
  /\ K \in SUBSET (1..n) /\ n \in K
  /\ \A i \in K \ {n} : \E j \in K :
       i < j /\ ComparePixels(Exact(o), g[i].canvas[p], g[j].canvas[p])

(* The pixel p a player shows was given in some addition, from which it    *)
(* drifted to the addition m that the encoder has as its previous canvas;  *)
(* the additions after m were skipped.                                     *)
PixelKept(o, e, g, p) ==
  \E m \in 1..Len(g), K \in SUBSET (1..Len(g)) :
    /\ Drifts(o, g, p, K, m)
    /\ \E k \in K : e.shown[p] = g[k].canvas[p]
    /\ e.prev_canvas[p] = g[m].canvas[p]
    /\ m = Len(g) \/ ComparePixels(Exact(o), g[m].canvas[p],
                                   g[Len(g)].canvas[p])

Encoded(c, e, g) ==
  /\ e.is_first_frame <=> g = <<>>
  /\ e.out_frame_count <= Len(g)
  /\ g # <<>> => \A p \in Pixels : PixelKept(c.options, e, g, p)

WorkerInv(c, e, f, g) ==
  /\ Typed(c, e, f, g) /\ Counted(c, f, g) /\ Agree(c) /\ Timed(c, f, g)
  /\ Looped(c, e, f) /\ Limited(c, g) /\ Encoded(c, e, g)

-----------------------------------------------------------------------------
(* Types of what one action computes *)

LEMMA ExtensionType ==
  ASSUME NEW e \in Extensions \cup {NoExtension}
  PROVE  /\ e.dispose \in Disposals /\ e.delay \in Nat
         /\ e.transparent \in Indexes
  <1>1. CASE e = NoExtension
    BY <1>1 DEF NoExtension, Disposals, Indexes
  <1>2. CASE e \in Extensions
    <2>1. Extensions \subseteq [dispose : Disposals, delay : Nat,
                                transparent : Colors \cup {GIF_INDEX_INVALID}]
      BY GifAssumption
    <2>. QED BY <1>2, <2>1 DEF Indexes
  <1>. QED BY <1>1, <1>2

LEMMA BlendedType ==
  ASSUME NEW f \in Canvases, NEW c \in Canvases, NEW r
  PROVE  GIFBlendFrames(f, r, c) \in Canvases
  BY DEF GIFBlendFrames, Canvases

LEMMA FrameReadType ==
  ASSUME NEW f \in Canvases, NEW im \in Images, NEW t
  PROVE  FrameRead(f, im, t) \in Canvases
  <1>1. \A p \in Area(im.rect) : im.index[p] \in Colors
    <2>1. im.index \in [Area(im.rect) -> Colors]
      BY GifAssumption
    <2>. QED BY <2>1
  <1>. QED BY <1>1 DEF FrameRead, Remapped, Canvases

LEMMA DisposedType ==
  ASSUME NEW d \in Disposals, NEW r, NEW p \in Canvases, NEW c \in Canvases
  PROVE  GIFDisposeFrame(d, r, p, c) \in Canvases
  <1>1. CASE d = "none"
    BY <1>1 DEF GIFDisposeFrame
  <1>2. CASE d = "background"
    BY <1>2, ClearedCanvas DEF GIFDisposeFrame
  <1>3. CASE d = "previous"
    <2>1. GIFDisposeFrame(d, r, p, c)
            = [q \in Pixels |-> IF q \in Area(r) THEN p[q] ELSE c[q]]
      BY <1>3 DEF GIFDisposeFrame
    <2>. QED BY <2>1 DEF Canvases
  <1>. QED BY <1>1, <1>2, <1>3 DEF Disposals

LEMMA HalfOfInt == /\ IntMod \div 2 \in Nat /\ IntMod = 2 * (IntMod \div 2)
                   /\ IntMod \div 2 > 0
  <1>1. IntMod \in Nat /\ IntMod > 0 /\ IntMod % 2 = 0
    BY GifAssumption
  <1>. QED BY <1>1

LEMMA Int32Type ==
  ASSUME NEW n \in Int
  PROVE  Int32(n) \in Ints
  <1>1. (n + IntMod \div 2) % IntMod \in 0..(IntMod - 1)
    BY HalfOfInt, GifAssumption
  <1>. QED BY <1>1, HalfOfInt DEF Int32, Ints

(* an int that needs no wrapping *)
LEMMA Int32Same ==
  ASSUME NEW n \in Ints
  PROVE  Int32(n) = n
  <1>1. n + IntMod \div 2 \in 0..(IntMod - 1)
    BY HalfOfInt DEF Ints
  <1>2. (n + IntMod \div 2) % IntMod = n + IntMod \div 2
    BY <1>1, HalfOfInt
  <1>. QED BY <1>2, HalfOfInt DEF Int32, Ints

(* wrapping does not change what is left of a difference *)
LEMMA Int32Difference ==
  ASSUME NEW n \in Int, NEW m \in Int
  PROVE  (Int32(n) - m) % IntMod = (n - m) % IntMod
  <1>. DEFINE h == IntMod \div 2
              q == (n + h) \div IntMod
              d == (n - m) \div IntMod
              r == (n - m) % IntMod
  <1>1. IntMod \in Nat /\ IntMod > 0 /\ h \in Nat
    BY HalfOfInt, GifAssumption
  <1>2. q \in Int /\ n + h = IntMod * q + ((n + h) % IntMod)
    BY <1>1
  <1>3. d \in Int /\ r \in 0..(IntMod - 1) /\ n - m = IntMod * d + r
    BY <1>1
  <1>4. Int32(n) = n - IntMod * q
    BY <1>1, <1>2 DEF Int32
  <1>5. Int32(n) - m = IntMod * (d - q) + r
    BY <1>1, <1>2, <1>3, <1>4
  <1>. HIDE DEF r, d, q, h
  <1>6. (IntMod * (d - q) + r) % IntMod = r
    BY <1>1, <1>2, <1>3
  <1>. QED BY <1>5, <1>6 DEF r

LEMMA OptionType ==
  ASSUME NEW o \in Options
  PROVE  o \in OptionRecords
  BY GifAssumption DEF OptionRecords

-----------------------------------------------------------------------------
(* Each action keeps what holds of its worker *)

(* a conversion that begins *)
LEMMA OpenKeeps ==
  ASSUME NEW o \in Options
  PROVE  WorkerInv(NewConversion(o), NewEncoder, NewFile, <<>>)
  <1>. DEFINE c == NewConversion(o)
              f == NewFile
  <1>1. /\ c.pc = "records" /\ c.options = o /\ c.frame_duration = 0
        /\ c.frame_timestamp = 0 /\ c.frame_number = 0 /\ c.loop_count = 0
        /\ c.stored_loop_count = FALSE /\ c.curr_canvas = c.prev_canvas
        /\ f.images = <<>> /\ f.loop = -1 /\ f.gce = NoExtension
        /\ f.gce.delay = 0
    BY DEF NewConversion, NewFile, NoExtension
  <1>2. c \in Conversions
    <2>1. /\ EmptyRect \in Rects /\ 0 \in Ints /\ ClearCanvas \in Canvases
      BY HalfOfInt, ClearCanvasType DEF EmptyRect, Rect, Rects, Ints
    <2>2. "none" \in Disposals /\ "records" \in Ends \cup {"records", "adding"}
      BY DEF Disposals
    <2>3. 0 \in UInt16
      BY DEF UInt16
    <2>. QED BY <2>1, <2>2, <2>3 DEF NewConversion, Conversions
  <1>3. f \in Files /\ Len(f.images) <= MaxImages
    <2>1. <<>> \in Seq(ImagesSeen) /\ Len(<<>>) = 0 /\ MaxImages \in Nat
      BY GifAssumption
    <2>. QED BY <2>1 DEF NewFile, Files
  <1>4. EncoderSound(NewEncoder)
    BY NewEncoderSound
  <1>5. NewEncoder.is_first_frame = TRUE /\ NewEncoder.out_frame_count = 0
    BY DEF NewEncoder
  <1>6. MAX_GIF_DATA \in Nat /\ Width * Height \in Nat /\ Data(0) = 0
    BY GifAssumption, RenderAssumption DEF Data
  <1>. HIDE DEF c, f
  <1>7. Typed(c, NewEncoder, f, <<>>)
    BY <1>1, <1>2, <1>3, <1>4 DEF Typed
  <1>8. Counted(c, f, <<>>) /\ Agree(c) /\ Timed(c, f, <<>>)
    BY <1>1 DEF Counted, Agree, Timed, Ends
  <1>9. Looped(c, NewEncoder, f) /\ Encoded(c, NewEncoder, <<>>)
    BY <1>1, <1>5 DEF Looped, Encoded
  <1>10. Limited(c, <<>>)
    <2>1. Data(Len(<<>>)) = 0
      BY <1>6
    <2>. QED BY <1>6, <2>1 DEF Limited
  <1>. QED BY <1>7, <1>8, <1>9, <1>10 DEF WorkerInv, c, f

(* a conversion that ends *)
LEMMA EndKeeps ==
  ASSUME NEW c, NEW e, NEW f, NEW g, WorkerInv(c, e, f, g),
         NEW pc \in Ends, c.pc \in {"records", "adding"},
         pc = "no_anim_params" => e.out_frame_count = 1
  PROVE  WorkerInv([c EXCEPT !.pc = pc], e, f, g)
  <1>. DEFINE d == [c EXCEPT !.pc = pc]
  <1>1. c \in Conversions
    BY DEF WorkerInv, Typed
  <1>2. d \in Conversions
    BY <1>1 DEF Conversions
  <1>3. /\ d.pc = pc /\ d.options = c.options
        /\ d.frame_timestamp = c.frame_timestamp
        /\ d.frame_number = c.frame_number /\ d.loop_count = c.loop_count
        /\ d.stored_loop_count = c.stored_loop_count
    BY <1>1 DEF Conversions
  <1>4. d.pc \notin {"records", "adding"}
    BY <1>3 DEF Ends
  <1>. HIDE DEF d
  <1>5. Typed(d, e, f, g)
    BY <1>2, <1>3 DEF WorkerInv, Typed
  <1>6. Counted(d, f, g)
    BY <1>3, <1>4 DEF WorkerInv, Counted
  <1>7. Timed(d, f, g)
    BY <1>3, <1>4 DEF WorkerInv, Timed, Until
  <1>8. Agree(d) /\ Looped(d, e, f)
    BY <1>3, <1>4 DEF WorkerInv, Agree, Looped
  <1>9. Limited(d, g) /\ Encoded(d, e, g)
    BY <1>3, <1>4 DEF WorkerInv, Limited, Encoded
  <1>. QED BY <1>5, <1>6, <1>7, <1>8, <1>9 DEF WorkerInv, d

(* a graphic control extension *)
LEMMA ExtensionKeeps ==
  ASSUME NEW c, NEW e, NEW f, NEW g, WorkerInv(c, e, f, g),
         c.pc = "records", NEW x \in Extensions
  PROVE  WorkerInv([c EXCEPT !.frame_duration = x.delay,
                             !.orig_dispose = x.dispose],
                   e, [f EXCEPT !.gce = x], g)
  <1>. DEFINE d == [c EXCEPT !.frame_duration = x.delay,
                             !.orig_dispose = x.dispose]
              h == [f EXCEPT !.gce = x]
  <1>1. c \in Conversions /\ f \in Files
    BY DEF WorkerInv, Typed
  <1>2. x.delay \in Nat /\ x.dispose \in Disposals
    BY ExtensionType
  <1>3. d \in Conversions
    BY <1>1, <1>2 DEF Conversions
  <1>4. h \in Files
    BY <1>1 DEF Files
  <1>5. /\ d.pc = c.pc /\ d.options = c.options
        /\ d.frame_duration = x.delay
        /\ d.frame_timestamp = c.frame_timestamp
        /\ d.frame_number = c.frame_number /\ d.loop_count = c.loop_count
        /\ d.stored_loop_count = c.stored_loop_count
        /\ d.curr_canvas = c.curr_canvas /\ d.prev_canvas = c.prev_canvas
    BY <1>1 DEF Conversions
  <1>6. h.gce = x /\ h.images = f.images /\ h.loop = f.loop
    BY <1>1 DEF Files
  <1>. HIDE DEF d, h
  <1>7. Typed(d, e, h, g)
    BY <1>3, <1>4, <1>5, <1>6 DEF WorkerInv, Typed
  <1>8. Counted(d, h, g) /\ Agree(d)
    BY <1>5, <1>6 DEF WorkerInv, Counted, Agree
  <1>9. Timed(d, h, g)
    BY <1>5, <1>6 DEF WorkerInv, Timed, Until
  <1>10. Looped(d, e, h)
    BY <1>5, <1>6 DEF WorkerInv, Looped
  <1>11. Limited(d, g) /\ Encoded(d, e, g)
    BY <1>5 DEF WorkerInv, Limited, Encoded
  <1>. QED BY <1>7, <1>8, <1>9, <1>10, <1>11 DEF WorkerInv, d, h

(* a loop count *)
LEMMA LoopKeeps ==
  ASSUME NEW c, NEW e, NEW f, NEW g, WorkerInv(c, e, f, g),
         c.pc = "records", NEW n \in LoopCounts
  PROVE  WorkerInv([c EXCEPT !.loop_count = n, !.stored_loop_count = TRUE],
                   e, [f EXCEPT !.loop = n], g)
  <1>. DEFINE d == [c EXCEPT !.loop_count = n, !.stored_loop_count = TRUE]
              h == [f EXCEPT !.loop = n]
  <1>1. c \in Conversions /\ f \in Files
    BY DEF WorkerInv, Typed
  <1>2. n \in UInt16
    BY GifAssumption
  <1>3. d \in Conversions
    BY <1>1, <1>2 DEF Conversions
  <1>4. h \in Files
    BY <1>1 DEF Files
  <1>5. /\ d.pc = c.pc /\ d.options = c.options
        /\ d.frame_duration = c.frame_duration
        /\ d.frame_timestamp = c.frame_timestamp
        /\ d.frame_number = c.frame_number /\ d.loop_count = n
        /\ d.stored_loop_count = TRUE
        /\ d.curr_canvas = c.curr_canvas /\ d.prev_canvas = c.prev_canvas
    BY <1>1 DEF Conversions
  <1>6. h.gce = f.gce /\ h.images = f.images /\ h.loop = n
    BY <1>1 DEF Files
  <1>. HIDE DEF d, h
  <1>7. Typed(d, e, h, g)
    BY <1>3, <1>4, <1>5, <1>6 DEF WorkerInv, Typed
  <1>8. Counted(d, h, g) /\ Agree(d)
    BY <1>5, <1>6 DEF WorkerInv, Counted, Agree
  <1>9. Timed(d, h, g)
    BY <1>5, <1>6 DEF WorkerInv, Timed, Until
  <1>10. Looped(d, e, h)
    BY <1>5, <1>6 DEF WorkerInv, Looped
  <1>11. Limited(d, g) /\ Encoded(d, e, g)
    BY <1>5 DEF WorkerInv, Limited, Encoded
  <1>. QED BY <1>7, <1>8, <1>9, <1>10, <1>11 DEF WorkerInv, d, h

(* An image record up to its canvas, given what the file showed in it *)
LEMMA ReadKeeps ==
  ASSUME NEW c, NEW e, NEW f, NEW g, WorkerInv(c, e, f, g),
         c.pc = "records", NEW im \in Images, NEW t,
         Len(f.images) < MaxImages,
         NEW seen \in ImagesSeen, seen.delay = f.gce.delay
  PROVE  LET frame == FrameRead(c.frame, im, t) IN
         WorkerInv([c EXCEPT !.pc = "adding", !.frame = frame,
                             !.gif_rect = im.rect,
                             !.curr_canvas = GIFBlendFrames(frame, im.rect, @)],
                   e, [f EXCEPT !.images = Append(@, seen), !.gce = NoExtension],
                   g)
  <1>. DEFINE frame == FrameRead(c.frame, im, t)
              canvas == GIFBlendFrames(frame, im.rect, c.curr_canvas)
              d == [c EXCEPT !.pc = "adding", !.frame = frame,
                             !.gif_rect = im.rect, !.curr_canvas = canvas]
              h == [f EXCEPT !.images = Append(@, seen), !.gce = NoExtension]
  <1>1. c \in Conversions /\ f \in Files /\ g \in Seq(Additions)
    BY DEF WorkerInv, Typed
  <1>2. frame \in Canvases /\ canvas \in Canvases
    <2>1. c.frame \in Canvases /\ c.curr_canvas \in Canvases
      BY <1>1 DEF Conversions
    <2>2. frame \in Canvases
      BY <2>1, FrameReadType
    <2>. QED BY <2>1, <2>2, BlendedType
  <1>3. im.rect \in Rects
    <2>1. im.rect \in [x : Nat, y : Nat, w : Nat \ {0}, h : Nat \ {0}]
      BY GifAssumption
    <2>. QED BY <2>1 DEF Rects
  <1>. HIDE DEF frame, canvas
  <1>4. d \in Conversions
    BY <1>1, <1>2, <1>3 DEF Conversions
  <1>5. h \in Files
    <2>1. f.images \in Seq(ImagesSeen)
      BY <1>1 DEF Files
    <2>2. Append(f.images, seen) \in Seq(ImagesSeen)
      BY <2>1
    <2>3. h = [f EXCEPT !.images = Append(f.images, seen), !.gce = NoExtension]
      OBVIOUS
    <2>. HIDE DEF h
    <2>. QED BY <1>1, <2>2, <2>3 DEF Files
  <1>6. /\ d.pc = "adding" /\ d.options = c.options
        /\ d.frame_duration = c.frame_duration
        /\ d.frame_timestamp = c.frame_timestamp
        /\ d.frame_number = c.frame_number /\ d.loop_count = c.loop_count
        /\ d.stored_loop_count = c.stored_loop_count
    BY <1>1 DEF Conversions
  <1>7. /\ f.images \in Seq(ImagesSeen) /\ h.loop = f.loop
        /\ h.images = Append(f.images, seen) /\ h.gce.delay = 0
    BY <1>1 DEF Files, NoExtension
  <1>8. /\ Len(f.images) = Len(g) /\ Len(f.images) \in Nat /\ Len(g) \in Nat
        /\ Len(h.images) = Len(g) + 1
        /\ h.images[Len(g) + 1] = seen
        /\ \A k \in 1..Len(g) : h.images[k] = f.images[k]
    BY <1>1, <1>7 DEF WorkerInv, Counted
  <1>. HIDE DEF d, h
  <1>9. Typed(d, e, h, g)
    <2>1. Len(h.images) <= MaxImages
      BY <1>8, GifAssumption
    <2>. QED BY <1>4, <1>5, <1>6, <2>1 DEF WorkerInv, Typed
  <1>10. Counted(d, h, g) /\ Agree(d)
    BY <1>6, <1>8 DEF WorkerInv, Counted, Agree, Ends
  <1>11. Timed(d, h, g)
    BY <1>6, <1>7, <1>8 DEF WorkerInv, Timed, Until
  <1>12. Looped(d, e, h)
    BY <1>6, <1>7 DEF WorkerInv, Looped
  <1>13. Limited(d, g) /\ Encoded(d, e, g)
    BY <1>6 DEF WorkerInv, Limited, Encoded
  <1>. QED BY <1>9, <1>10, <1>11, <1>12, <1>13
           DEF WorkerInv, d, h, frame, canvas

(* The next image is expected with both canvases the same. *)
LEMMA NextImageFields ==
  ASSUME NEW c \in Conversions
  PROVE  LET d == NextImage(c) IN
         /\ d \in Conversions
         /\ d.options = c.options
         /\ d.curr_canvas = d.prev_canvas
         /\ d.frame_timestamp = Int32(c.frame_timestamp + ShownDuration(c.frame_duration))
         /\ d.frame_duration = 0
         /\ d.frame_number = c.frame_number + 1
         /\ d.loop_count = c.loop_count
         /\ d.stored_loop_count = c.stored_loop_count
         /\ d.pc = IF TooBig(c.frame_number + 1) THEN "stopped" ELSE "records"
  <1>. DEFINE disposed == GIFDisposeFrame(c.orig_dispose, c.gif_rect,
                                          c.prev_canvas, c.curr_canvas)
              timestamp == Int32(c.frame_timestamp + ShownDuration(c.frame_duration))
              pc == IF TooBig(c.frame_number + 1) THEN "stopped" ELSE "records"
              d == NextImage(c)
  <1>1. /\ c.orig_dispose \in Disposals /\ c.prev_canvas \in Canvases
        /\ c.curr_canvas \in Canvases /\ c.frame_duration \in Nat
        /\ c.frame_timestamp \in Ints /\ c.frame_number \in Nat
    BY DEF Conversions
  <1>2. disposed \in Canvases
    BY <1>1, DisposedType
  <1>3. timestamp \in Ints
    <2>1. c.frame_timestamp + ShownDuration(c.frame_duration) \in Int
      BY <1>1, HalfOfInt DEF Ints, ShownDuration
    <2>. QED BY <2>1, Int32Type
  <1>4. pc \in Ends \cup {"records", "adding"}
    BY DEF Ends
  <1>5. d = [c EXCEPT !.curr_canvas = disposed, !.prev_canvas = disposed,
                      !.frame_timestamp = timestamp, !.orig_dispose = "none",
                      !.frame_duration = 0, !.frame_number = c.frame_number + 1,
                      !.pc = pc]
    BY DEF NextImage
  <1>6. "none" \in Disposals /\ c.frame_number + 1 \in Nat
    BY <1>1 DEF Disposals
  <1>. HIDE DEF disposed, timestamp, pc, d
  <1>7. d \in Conversions
    BY <1>2, <1>3, <1>4, <1>5, <1>6 DEF Conversions
  <1>8. /\ d.options = c.options
        /\ d.curr_canvas = disposed /\ d.prev_canvas = disposed
        /\ d.frame_timestamp = timestamp /\ d.frame_duration = 0
        /\ d.frame_number = c.frame_number + 1
        /\ d.loop_count = c.loop_count
        /\ d.stored_loop_count = c.stored_loop_count /\ d.pc = pc
    BY <1>5 DEF Conversions
  <1>. QED BY <1>7, <1>8 DEF d, timestamp, pc

LEMMA DataGrows ==
  ASSUME NEW n \in Nat
  PROVE  /\ Data(n) \in Nat /\ Width * Height \in Nat
         /\ Data(n + 1) = Data(n) + Width * Height
  <1>1. Width \in Nat /\ Height \in Nat
    BY RenderAssumption
  <1>2. (n + 1) * Width = n * Width + Width
    BY <1>1
  <1>3. n * Width \in Nat
    BY <1>1
  <1>4. (n * Width + Width) * Height = n * Width * Height + Width * Height
    BY <1>1, <1>3
  <1>5. n * Width * Height \in Nat /\ Width * Height \in Nat
    BY <1>1, <1>3
  <1>. QED BY <1>2, <1>4, <1>5 DEF Data

(* Pixels that drift to the addition m drift on to any later one, n, that  *)
(* is too similar to m.                                                    *)
LEMMA DriftsOn ==
  ASSUME NEW o, NEW g, NEW p, NEW n \in Nat, NEW m \in 1..n, NEW K,
         Drifts(o, g, p, K, m),
         m = n \/ ComparePixels(Exact(o), g[m].canvas[p], g[n].canvas[p])
  PROVE  Drifts(o, g, p, K \cup {n}, n)
  <1>1. K \in SUBSET (1..m) /\ m \in K
    BY DEF Drifts
  <1>2. K \cup {n} \in SUBSET (1..n)
    BY <1>1
  <1>3. ASSUME NEW i \in (K \cup {n}) \ {n}
        PROVE  \E j \in K \cup {n} :
                 i < j /\ ComparePixels(Exact(o), g[i].canvas[p], g[j].canvas[p])
    <2>1. CASE i = m
      <3>1. m < n
        BY <1>3, <2>1
      <3>2. ComparePixels(Exact(o), g[i].canvas[p], g[n].canvas[p])
        BY <2>1, <3>1
      <3>. QED BY <2>1, <3>1, <3>2
    <2>2. CASE i # m
      <3>1. i \in K \ {m}
        BY <2>2
      <3>. QED BY <3>1 DEF Drifts
    <2>. QED BY <2>1, <2>2
  <1>. QED BY <1>2, <1>3 DEF Drifts

(* Drifting depends on the additions up to its end only. *)
LEMMA DriftsSame ==
  ASSUME NEW o, NEW g, NEW h, NEW p, NEW m \in Nat, NEW K,
         Drifts(o, g, p, K, m), \A k \in 1..m : h[k] = g[k]
  PROVE  Drifts(o, h, p, K, m)
  <1>1. K \in SUBSET (1..m) /\ m \in K
    BY DEF Drifts
  <1>2. ASSUME NEW i \in K \ {m}
        PROVE  \E j \in K :
                 i < j /\ ComparePixels(Exact(o), h[i].canvas[p], h[j].canvas[p])
    <2>1. PICK j \in K :
            i < j /\ ComparePixels(Exact(o), g[i].canvas[p], g[j].canvas[p])
      BY DEF Drifts
    <2>2. h[i] = g[i] /\ h[j] = g[j]
      BY <1>1
    <2>. QED BY <2>1, <2>2
  <1>. QED BY <1>1, <1>2 DEF Drifts

(* An addition keeps what a player shows of a pixel. *)
LEMMA AddedKept ==
  ASSUME NEW c, NEW e, NEW g \in Seq(Additions), Encoded(c, e, g),
         EncoderSound(e), c.options \in Options, NEW curr \in Canvases,
         NEW e2 \in Added(c.options, e, curr), NEW new, new \in Additions,
         new.canvas = curr, NEW h, h = Append(g, new), NEW p \in Pixels
  PROVE  PixelKept(c.options, e2, h, p)
  <1>. DEFINE o == c.options
              n == Len(h)
  <1>1. /\ n \in Nat /\ Len(g) \in Nat /\ n = Len(g) + 1 /\ h[n] = new
        /\ \A k \in 1..Len(g) : h[k] = g[k]
    OBVIOUS
  <1>2. /\ e.is_first_frame => e2.shown[p] = curr[p]
        /\ \/ /\ e2.shown = e.shown /\ e2.prev_canvas = e.prev_canvas
              /\ ComparePixels(Exact(o), e.prev_canvas[p], curr[p])
           \/ /\ e2.prev_canvas = curr
              /\ Kept(Exact(o), e.shown, e.prev_canvas, curr, e2.shown)
    BY OptionType, AddedShows
  <1>3. /\ e.is_first_frame => e2.shown[p] = curr[p]
        /\ \/ /\ e2.shown[p] = e.shown[p] /\ e2.prev_canvas = e.prev_canvas
              /\ ComparePixels(Exact(o), e.prev_canvas[p], curr[p])
           \/ /\ e2.prev_canvas = curr /\ e2.shown[p] = e.shown[p]
              /\ ComparePixels(Exact(o), e.prev_canvas[p], curr[p])
           \/ /\ e2.prev_canvas = curr /\ e2.shown[p] = curr[p]
    BY <1>2 DEF Kept
  <1>4. h[n].canvas[p] = curr[p]
    BY <1>1
  <1>. HIDE DEF n
  (* the pixel was sent *)
  <1>5. CASE e2.prev_canvas = curr /\ e2.shown[p] = curr[p]
    <2>1. Drifts(o, h, p, {n}, n)
      BY <1>1 DEF Drifts
    <2>2. n \in 1..n /\ {n} \in SUBSET (1..n)
      BY <1>1
    <2>. QED BY <1>4, <1>5, <2>1, <2>2 DEF PixelKept, n
  (* it was not sent, in a frame or because there is none *)
  <1>6. CASE /\ e2.shown[p] = e.shown[p] /\ g # <<>>
             /\ ComparePixels(Exact(o), e.prev_canvas[p], curr[p])
             /\ e2.prev_canvas \in {curr, e.prev_canvas}
    <2>1. PixelKept(o, e, g, p)
      BY <1>6 DEF Encoded
    <2>2. PICK m \in 1..Len(g), K \in SUBSET (1..Len(g)) :
            /\ Drifts(o, g, p, K, m)
            /\ \E k \in K : e.shown[p] = g[k].canvas[p]
            /\ e.prev_canvas[p] = g[m].canvas[p]
      BY <2>1 DEF PixelKept
    <2>3. PICK k \in K : e.shown[p] = g[k].canvas[p]
      BY <2>2
    <2>4. /\ e2.shown[p] = h[k].canvas[p]
          /\ e.prev_canvas[p] = h[m].canvas[p]
      BY <1>1, <1>6, <2>2, <2>3
    <2>5. m \in Nat /\ m \in 1..n /\ K \in SUBSET (1..n)
      BY <1>1
    <2>6. Drifts(o, h, p, K, m)
      <3>1. \A i \in 1..m : h[i] = g[i]
        BY <1>1
      <3>. QED BY <2>2, <2>5, <3>1, DriftsSame
    <2>7. ComparePixels(Exact(o), h[m].canvas[p], h[n].canvas[p])
      BY <1>4, <1>6, <2>4
    <2>8. CASE e2.prev_canvas = curr
      <3>1. Drifts(o, h, p, K \cup {n}, n)
        BY <1>1, <2>5, <2>6, <2>7, DriftsOn
      <3>2. n \in 1..n /\ K \cup {n} \in SUBSET (1..n) /\ k \in K \cup {n}
        BY <1>1, <2>5
      <3>3. e2.prev_canvas[p] = h[n].canvas[p]
        BY <1>4, <2>8
      <3>. QED BY <2>4, <3>1, <3>2, <3>3 DEF PixelKept, n
    <2>9. CASE e2.prev_canvas = e.prev_canvas
      BY <2>3, <2>4, <2>5, <2>6, <2>7, <2>9 DEF PixelKept, n
    <2>. QED BY <1>6, <2>8, <2>9
  <1>7. CASE g = <<>>
    <2>1. e2.shown[p] = curr[p] /\ e.is_first_frame
      BY <1>3, <1>7 DEF Encoded
    <2>2. CASE e2.prev_canvas = curr
      BY <1>5, <2>1, <2>2
    <2>3. CASE /\ e2.prev_canvas = e.prev_canvas
               /\ ComparePixels(Exact(o), e.prev_canvas[p], curr[p])
      <3>1. e.prev_canvas[p] = CLEAR
        BY <2>1 DEF EncoderSound, NewEncoder, ClearCanvas
      <3>2. curr[p] = CLEAR
        BY <2>3, <3>1, OptionType, CodecsConsidered, FromClear
      <3>3. Drifts(o, h, p, {n}, n)
        BY <1>1 DEF Drifts
      <3>4. n \in 1..n /\ {n} \in SUBSET (1..n)
        BY <1>1
      <3>. QED BY <1>4, <2>1, <2>3, <3>1, <3>2, <3>3, <3>4 DEF PixelKept, n
    <2>. QED BY <1>3, <2>2, <2>3
  <1>. QED BY <1>3, <1>5, <1>6, <1>7

(* The rest of an image record *)
LEMMA AddKeeps ==
  ASSUME NEW c, NEW e, NEW f, NEW g, WorkerInv(c, e, f, g),
         c.pc = "adding", NEW e2 \in Added(c.options, e, c.curr_canvas)
  PROVE  WorkerInv(NextImage(c), e2, f,
                   Append(g, [canvas |-> c.curr_canvas,
                              timestamp |-> c.frame_timestamp]))
  <1>. DEFINE new == [canvas |-> c.curr_canvas, timestamp |-> c.frame_timestamp]
              d == NextImage(c)
              h == Append(g, new)
  <1>1. /\ c \in Conversions /\ f \in Files /\ g \in Seq(Additions)
        /\ Len(f.images) <= MaxImages /\ EncoderSound(e)
    BY DEF WorkerInv, Typed
  <1>2. /\ c.curr_canvas \in Canvases /\ c.frame_timestamp \in Ints
        /\ c.frame_duration \in Nat /\ c.options \in Options
    BY <1>1 DEF Conversions
  <1>3. new \in Additions
    BY <1>2 DEF Additions
  <1>4. /\ new.canvas = c.curr_canvas /\ new.timestamp = c.frame_timestamp
    OBVIOUS
  <1>. HIDE DEF new
  <1>5. /\ h \in Seq(Additions) /\ Len(g) \in Nat /\ Len(h) = Len(g) + 1
        /\ h # <<>> /\ h[Len(h)] = new
        /\ \A k \in 1..Len(g) : h[k] = g[k]
    BY <1>1, <1>3
  <1>. HIDE DEF h
  <1>6. /\ d \in Conversions /\ d.options = c.options
        /\ d.curr_canvas = d.prev_canvas
        /\ d.frame_timestamp = Int32(c.frame_timestamp + ShownDuration(c.frame_duration))
        /\ d.frame_duration = 0
        /\ d.frame_number = c.frame_number + 1
        /\ d.loop_count = c.loop_count
        /\ d.stored_loop_count = c.stored_loop_count
        /\ d.pc = IF TooBig(c.frame_number + 1) THEN "stopped" ELSE "records"
    BY <1>1, NextImageFields
  <1>. HIDE DEF d
  <1>7. /\ EncoderSound(e2) /\ ~e2.is_first_frame
        /\ e2.out_frame_count <= e.out_frame_count + 1
    BY <1>1, <1>2, OptionType, AddedShows
  <1>8. /\ c.frame_number = Len(g) /\ Len(f.images) = Len(g) + 1
    BY DEF WorkerInv, Counted
  <1>9. Typed(d, e2, f, h)
    BY <1>1, <1>5, <1>6, <1>7 DEF Typed
  <1>10. Counted(d, f, h) /\ Agree(d)
    BY <1>5, <1>6, <1>8 DEF Counted, Agree, Ends
  <1>11. Timed(d, f, h)
    <2>1. c.frame_duration = f.images[Len(g) + 1].delay /\ f.gce.delay = 0
      BY DEF WorkerInv, Timed
    <2>2. ASSUME NEW k \in 1..Len(g)
          PROVE  (Until(d, h, k) - h[k].timestamp) % IntMod
                   = ShownDuration(f.images[k].delay) % IntMod
      <3>1. Until(d, h, k) = Until(c, g, k)
        <4>1. CASE k < Len(g)
          <5>1. k + 1 \in 1..Len(g) /\ k < Len(h)
            BY <1>5, <4>1
          <5>. QED BY <1>5, <4>1, <5>1 DEF Until
        <4>2. CASE k = Len(g)
          <5>1. k < Len(h) /\ k + 1 = Len(h)
            BY <1>5, <4>2
          <5>. QED BY <1>4, <1>5, <4>2, <5>1 DEF Until
        <4>. QED BY <1>5, <4>1, <4>2
      <3>2. h[k] = g[k]
        BY <1>5
      <3>3. (Until(c, g, k) - g[k].timestamp) % IntMod
              = ShownDuration(f.images[k].delay) % IntMod
        BY DEF WorkerInv, Timed
      <3>. QED BY <3>1, <3>2, <3>3
    <2>3. (Until(d, h, Len(h)) - h[Len(h)].timestamp) % IntMod
            = ShownDuration(f.images[Len(h)].delay) % IntMod
      <3>. DEFINE s == ShownDuration(c.frame_duration)
      <3>1. s \in Int /\ c.frame_timestamp \in Int
        BY <1>2, HalfOfInt DEF ShownDuration, Ints
      <3>2. Until(d, h, Len(h)) = Int32(c.frame_timestamp + s)
        BY <1>5, <1>6 DEF Until
      <3>. HIDE DEF s
      <3>3. (Int32(c.frame_timestamp + s) - c.frame_timestamp) % IntMod
              = (c.frame_timestamp + s - c.frame_timestamp) % IntMod
        BY <3>1, Int32Difference
      <3>4. c.frame_timestamp + s - c.frame_timestamp = s
        BY <3>1
      <3>5. h[Len(h)].timestamp = c.frame_timestamp
        BY <1>4, <1>5
      <3>6. s = ShownDuration(f.images[Len(h)].delay)
        BY <1>5, <2>1 DEF s
      <3>. QED BY <3>2, <3>3, <3>4, <3>5, <3>6
    <2>4. \A k \in 1..Len(h) : k \in 1..Len(g) \/ k = Len(h)
      BY <1>5
    <2>5. /\ d.pc = "records" => d.frame_duration = f.gce.delay
          /\ d.pc # "adding"
      BY <1>6, <2>1
    <2>. QED BY <2>2, <2>3, <2>4, <2>5 DEF Timed
  <1>12. Looped(d, e2, f)
    BY <1>6 DEF WorkerInv, Looped
  <1>13. Limited(d, h)
    <2>. SUFFICES ASSUME MAX_GIF_DATA + Width * Height < IntMod \div 2
                  PROVE  /\ Data(Len(h)) <= MAX_GIF_DATA + Width * Height
                         /\ d.pc \in {"records", "adding"} =>
                              Data(Len(h)) <= MAX_GIF_DATA
      BY DEF Limited
    <2>1. Data(Len(g)) <= MAX_GIF_DATA
      BY DEF WorkerInv, Limited
    <2>2. /\ Data(Len(g)) \in Nat /\ Width * Height \in Nat
          /\ Data(Len(h)) = Data(Len(g)) + Width * Height
      BY <1>5, DataGrows
    <2>3. MAX_GIF_DATA \in Nat
      BY GifAssumption
    <2>4. Data(Len(h)) <= MAX_GIF_DATA + Width * Height
      BY <2>1, <2>2, <2>3
    <2>5. Data(Len(h)) \in Ints
      BY <2>2, <2>3, <2>4, HalfOfInt DEF Ints
    <2>6. TooBig(c.frame_number + 1) <=> Data(Len(h)) > MAX_GIF_DATA
      <3>1. Int32(Data(Len(h))) = Data(Len(h))
        BY <2>5, Int32Same
      <3>. QED BY <1>5, <1>8, <3>1 DEF TooBig, Data
    <2>7. d.pc \in {"records", "adding"} => Data(Len(h)) <= MAX_GIF_DATA
      BY <1>6, <2>2, <2>3, <2>6
    <2>. QED BY <2>4, <2>7
  <1>14. Encoded(d, e2, h)
    <2>1. e.out_frame_count \in Nat /\ e2.out_frame_count \in Nat
      BY <1>1, <1>7 DEF EncoderSound, Encoders
    <2>2. e2.out_frame_count <= Len(h)
      BY <1>5, <1>7, <2>1 DEF WorkerInv, Encoded
    <2>3. Encoded(c, e, g)
      BY DEF WorkerInv
    <2>4. ASSUME NEW p \in Pixels PROVE PixelKept(c.options, e2, h, p)
      <3>1. h = Append(g, new)
        BY DEF h
      <3>. QED BY <1>1, <1>2, <1>3, <1>4, <2>3, <3>1, AddedKept
    <2>. QED BY <1>5, <1>6, <1>7, <2>2, <2>4 DEF Encoded
  <1>. QED BY <1>9, <1>10, <1>11, <1>12, <1>13, <1>14
           DEF WorkerInv, d, h, new

-----------------------------------------------------------------------------
(* All workers *)

IInv ==
  /\ transparent_index \in Indexes
  /\ conv \in [Workers -> Conversions]
  /\ enc \in [Workers -> Encoders]
  /\ file \in [Workers -> Files]
  /\ given \in [Workers -> Seq(Additions)]
  /\ abandoned \in BOOLEAN
  /\ \A w \in Workers : WorkerInv(conv[w], enc[w], file[w], given[w])

LEMMA ImageShownType ==
  ASSUME IInv, NEW w \in Workers, NEW im \in Images
  PROVE  ImageShown(w, im) \in ImagesSeen
  <1>. DEFINE picture == [p \in Area(im.rect) |->
                            Remapped(im.index[p], transparent_index)]
  <1>1. /\ im.rect \in [x : Nat, y : Nat, w : Nat \ {0}, h : Nat \ {0}]
        /\ im.index \in [Area(im.rect) -> Colors] /\ im.map \in BOOLEAN
    BY GifAssumption
  <1>2. picture \in [Area(im.rect) -> Colors \cup {CLEAR}]
    BY <1>1 DEF Remapped
  <1>3. picture \in Pictures
    BY <1>2 DEF Pictures
  <1>4. /\ file[w].gce.dispose \in Disposals /\ file[w].gce.delay \in Nat
        /\ file[w].gce.transparent \in Indexes
    <2>1. file[w].gce \in Extensions \cup {NoExtension}
      BY DEF IInv, Files
    <2>. QED BY <2>1, ExtensionType
  <1>5. transparent_index \in Indexes /\ im.rect \in Rects
    BY <1>1 DEF IInv, Rects
  <1>6. ImageShown(w, im) =
          [rect |-> im.rect, map |-> im.map, used |-> transparent_index,
           own |-> file[w].gce.transparent, dispose |-> file[w].gce.dispose,
           delay |-> file[w].gce.delay, picture |-> picture]
    BY DEF ImageShown
  <1>. HIDE DEF picture
  <1>. QED BY <1>1, <1>3, <1>4, <1>5, <1>6 DEF ImagesSeen

(* A step of one worker leaves the others alone. *)
LEMMA StepKeeps ==
  ASSUME IInv, NEW w \in Workers, NEW c, NEW e, NEW f, NEW g,
         WorkerInv(c, e, f, g),
         conv' = [conv EXCEPT ![w] = c], enc' = [enc EXCEPT ![w] = e],
         file' = [file EXCEPT ![w] = f], given' = [given EXCEPT ![w] = g],
         transparent_index' \in Indexes, abandoned' \in BOOLEAN
  PROVE  IInv'
  <1>1. /\ c \in Conversions /\ e \in Encoders /\ f \in Files
        /\ g \in Seq(Additions)
    BY DEF WorkerInv, Typed, EncoderSound
  <1>2. /\ conv' \in [Workers -> Conversions] /\ enc' \in [Workers -> Encoders]
        /\ file' \in [Workers -> Files]
        /\ given' \in [Workers -> Seq(Additions)]
    BY <1>1 DEF IInv
  <1>3. ASSUME NEW v \in Workers
        PROVE  WorkerInv(conv[v], enc[v], file[v], given[v])'
    <2>1. CASE v = w
      <3>1. conv'[v] = c /\ enc'[v] = e /\ file'[v] = f /\ given'[v] = g
        BY <2>1 DEF IInv
      <3>. QED BY <3>1
    <2>2. CASE v # w
      <3>1. /\ conv'[v] = conv[v] /\ enc'[v] = enc[v]
            /\ file'[v] = file[v] /\ given'[v] = given[v]
        BY <2>2 DEF IInv
      <3>. QED BY <3>1 DEF IInv
    <2>. QED BY <2>1, <2>2
  <1>. QED BY <1>2, <1>3 DEF IInv

LEMMA InitInv == Init => IInv
  <1>. SUFFICES ASSUME Init PROVE IInv
    OBVIOUS
  <1>1. PICK o \in Options : conv = [w \in Workers |->
                                 [NewConversion(o) EXCEPT !.pc = "stopped"]]
    BY DEF Init
  <1>. DEFINE c == [NewConversion(o) EXCEPT !.pc = "stopped"]
  <1>2. WorkerInv(NewConversion(o), NewEncoder, NewFile, <<>>)
    BY OpenKeeps
  <1>3. WorkerInv(c, NewEncoder, NewFile, <<>>)
    <2>1. NewConversion(o).pc = "records" /\ "stopped" \in Ends
      BY DEF NewConversion, Ends
    <2>. QED BY <1>2, <2>1, EndKeeps
  <1>. HIDE DEF c
  <1>4. /\ c \in Conversions /\ NewEncoder \in Encoders /\ NewFile \in Files
        /\ <<>> \in Seq(Additions)
    BY <1>3 DEF WorkerInv, Typed, EncoderSound
  <1>5. /\ conv = [w \in Workers |-> c] /\ enc = [w \in Workers |-> NewEncoder]
        /\ file = [w \in Workers |-> NewFile] /\ given = [w \in Workers |-> <<>>]
        /\ transparent_index = GIF_INDEX_INVALID /\ abandoned = FALSE
    BY <1>1 DEF Init, c
  <1>. QED BY <1>3, <1>4, <1>5 DEF IInv, Indexes

LEMMA NextInv == IInv /\ [Next]_vars => IInv'
  <1>. SUFFICES ASSUME IInv, [Next]_vars PROVE IInv'
    OBVIOUS
  <1>1. CASE UNCHANGED vars
    BY <1>1 DEF vars, IInv
  <1>2. ASSUME NEW w \in Workers PROVE
          /\ conv = [conv EXCEPT ![w] = conv[w]]
          /\ enc = [enc EXCEPT ![w] = enc[w]]
          /\ file = [file EXCEPT ![w] = file[w]]
          /\ given = [given EXCEPT ![w] = given[w]]
          /\ WorkerInv(conv[w], enc[w], file[w], given[w])
          /\ conv[w] \in Conversions /\ file[w] \in Files
          /\ transparent_index \in Indexes /\ abandoned \in BOOLEAN
          /\ GIF_INDEX_INVALID \in Indexes
    BY DEF IInv, Indexes
  <1>3. ASSUME NEW w \in Workers, Open(w) PROVE IInv'
    <2>1. PICK o \in Options : conv' = [conv EXCEPT ![w] = NewConversion(o)]
      BY <1>3 DEF Open
    <2>2. /\ enc' = [enc EXCEPT ![w] = NewEncoder]
          /\ file' = [file EXCEPT ![w] = NewFile]
          /\ given' = [given EXCEPT ![w] = <<>>]
          /\ transparent_index' = transparent_index /\ abandoned' = abandoned
      BY <1>3 DEF Open
    <2>3. WorkerInv(NewConversion(o), NewEncoder, NewFile, <<>>)
      BY OpenKeeps
    <2>. QED BY <1>2, <2>1, <2>2, <2>3, StepKeeps
  <1>4. ASSUME NEW w \in Workers, NEW x \in Extensions, GraphicsExtension(w, x)
        PROVE  IInv'
    <2>. DEFINE c == [conv[w] EXCEPT !.frame_duration = x.delay,
                                     !.orig_dispose = x.dispose]
                f == [file[w] EXCEPT !.gce = x]
    <2>1. /\ conv' = [conv EXCEPT ![w] = c] /\ file' = [file EXCEPT ![w] = f]
          /\ enc' = enc /\ given' = given /\ abandoned' = abandoned
          /\ conv[w].pc = "records" /\ transparent_index' = x.transparent
      BY <1>4 DEF GraphicsExtension
    <2>2. WorkerInv(c, enc[w], f, given[w])
      BY <1>2, <2>1, ExtensionKeeps
    <2>3. transparent_index' \in Indexes /\ abandoned' \in BOOLEAN
      BY <1>2, <2>1, ExtensionType
    <2>4. /\ enc' = [enc EXCEPT ![w] = enc[w]]
          /\ given' = [given EXCEPT ![w] = given[w]]
      BY <1>2, <2>1
    <2>. HIDE DEF c, f
    <2>. QED BY <2>1, <2>2, <2>3, <2>4, StepKeeps
  <1>5. ASSUME NEW w \in Workers, NEW n \in LoopCounts, LoopExtension(w, n)
        PROVE  IInv'
    <2>. DEFINE c == [conv[w] EXCEPT !.loop_count = n,
                                     !.stored_loop_count = TRUE]
                f == [file[w] EXCEPT !.loop = n]
    <2>1. /\ conv' = [conv EXCEPT ![w] = c] /\ file' = [file EXCEPT ![w] = f]
          /\ enc' = enc /\ given' = given /\ abandoned' = abandoned
          /\ conv[w].pc = "records" /\ transparent_index' = transparent_index
      BY <1>5 DEF LoopExtension
    <2>2. WorkerInv(c, enc[w], f, given[w])
      BY <1>2, <2>1, LoopKeeps
    <2>3. transparent_index' \in Indexes /\ abandoned' \in BOOLEAN
      BY <1>2, <2>1
    <2>4. /\ enc' = [enc EXCEPT ![w] = enc[w]]
          /\ given' = [given EXCEPT ![w] = given[w]]
      BY <1>2, <2>1
    <2>. HIDE DEF c, f
    <2>. QED BY <2>1, <2>2, <2>3, <2>4, StepKeeps
  <1>6. ASSUME NEW w \in Workers, NEW im \in Images, ReadImage(w, im)
        PROVE  IInv'
    <2>. DEFINE frame == FrameRead(conv[w].frame, im, transparent_index)
                seen == ImageShown(w, im)
                c == [conv[w] EXCEPT !.pc = "adding", !.frame = frame,
                                     !.gif_rect = im.rect,
                                     !.curr_canvas = GIFBlendFrames(frame, im.rect, @)]
                f == [file[w] EXCEPT !.images = Append(@, seen),
                                     !.gce = NoExtension]
    <2>1. /\ conv' = [conv EXCEPT ![w] = c] /\ file' = [file EXCEPT ![w] = f]
          /\ enc' = enc /\ given' = given /\ abandoned' = abandoned
          /\ conv[w].pc = "records" /\ transparent_index' = transparent_index
          /\ Len(file[w].images) < MaxImages
      BY <1>6 DEF ReadImage
    <2>2. seen \in ImagesSeen /\ seen.delay = file[w].gce.delay
      BY ImageShownType DEF ImageShown
    <2>3. WorkerInv(c, enc[w], f, given[w])
      <3>. HIDE DEF seen
      <3>. QED BY <1>2, <2>1, <2>2, ReadKeeps
    <2>4. transparent_index' \in Indexes /\ abandoned' \in BOOLEAN
      BY <1>2, <2>1
    <2>5. /\ enc' = [enc EXCEPT ![w] = enc[w]]
          /\ given' = [given EXCEPT ![w] = given[w]]
      BY <1>2, <2>1
    <2>. HIDE DEF c, f
    <2>. QED BY <2>1, <2>3, <2>4, <2>5, StepKeeps
  <1>7. ASSUME NEW w \in Workers, AddImage(w) PROVE IInv'
    <2>. DEFINE g == Append(given[w], [canvas |-> conv[w].curr_canvas,
                                       timestamp |-> conv[w].frame_timestamp])
    <2>1. PICK e \in Added(conv[w].options, enc[w], conv[w].curr_canvas) :
            enc' = [enc EXCEPT ![w] = e]
      BY <1>7 DEF AddImage
    <2>2. /\ conv' = [conv EXCEPT ![w] = NextImage(conv[w])]
          /\ given' = [given EXCEPT ![w] = g]
          /\ file' = file /\ abandoned' = abandoned
          /\ conv[w].pc = "adding" /\ transparent_index' = GIF_INDEX_INVALID
      BY <1>7 DEF AddImage
    <2>3. WorkerInv(NextImage(conv[w]), e, file[w], g)
      BY <1>2, <2>1, <2>2, AddKeeps
    <2>. HIDE DEF g
    <2>. QED BY <1>2, <2>1, <2>2, <2>3, StepKeeps
  (* the ways a conversion ends *)
  <1>8. ASSUME NEW w \in Workers, NEW pc \in Ends, End(w, pc),
               conv[w].pc \in {"records", "adding"},
               pc = "no_anim_params" => enc[w].out_frame_count = 1
        PROVE  IInv'
    <2>. DEFINE c == [conv[w] EXCEPT !.pc = pc]
                e == enc[w]
                f == file[w]
                g == given[w]
    <2>1. /\ conv' = [conv EXCEPT ![w] = c] /\ enc' = enc /\ file' = file
          /\ given' = given /\ transparent_index' = transparent_index
          /\ abandoned' \in BOOLEAN
      BY <1>2, <1>8 DEF End
    <2>2. WorkerInv(c, e, f, g)
      BY <1>2, <1>8, EndKeeps
    <2>3. transparent_index' \in Indexes
      BY <1>2, <2>1
    <2>4. /\ enc' = [enc EXCEPT ![w] = e]
          /\ file' = [file EXCEPT ![w] = f]
          /\ given' = [given EXCEPT ![w] = g]
      BY <1>2, <2>1
    <2>. HIDE DEF c, e, f, g
    <2>. QED BY <2>1, <2>2, <2>3, <2>4, StepKeeps
  <1>9. ASSUME NEW w \in Workers, Stop(w) PROVE IInv'
    <2>1. End(w, "stopped") /\ conv[w].pc \in {"records", "adding"}
      BY <1>9 DEF Stop
    <2>. QED BY <1>8, <2>1 DEF Ends
  <1>10. ASSUME NEW w \in Workers, Terminate(w) PROVE IInv'
    <2>1. conv[w].pc = "records"
      BY <1>10 DEF Terminate
    <2>2. CASE End(w, "stopped")
      BY <1>8, <2>1, <2>2 DEF Ends
    <2>3. CASE End(w, "converted")
      BY <1>8, <2>1, <2>3 DEF Ends
    <2>4. CASE /\ conv[w].frame_number > 0 /\ FALSE \in IsAnimation(enc[w])
               /\ End(w, "no_anim_params")
      <3>1. enc[w].out_frame_count = 1
        <4>1. given[w] # <<>> /\ given[w] \in Seq(Additions)
          BY <1>2, <2>4 DEF WorkerInv, Counted, Typed
        <4>2. ~enc[w].is_first_frame
          BY <1>2, <4>1 DEF WorkerInv, Encoded
        <4>3. enc[w].out_frame_count > 0 /\ enc[w].out_frame_count \in Nat
          BY <1>2, <4>2 DEF WorkerInv, Typed, EncoderSound, Encoders
        <4>4. ~(enc[w].out_frame_count > 1)
          BY <2>4 DEF IsAnimation
        <4>. QED BY <4>3, <4>4
      <3>. QED BY <1>8, <2>1, <2>4, <3>1 DEF Ends
    <2>5. CASE /\ conv[w].frame_number > 0
               /\ \E animation \in IsAnimation(enc[w]) :
                    End(w, IF LoopCount(conv[w]) # 0 /\ ~animation
                           THEN "no_anim_params" ELSE "converted")
      <3>1. PICK animation \in IsAnimation(enc[w]) :
              End(w, IF LoopCount(conv[w]) # 0 /\ ~animation
                     THEN "no_anim_params" ELSE "converted")
        BY <2>5
      <3>2. animation \in BOOLEAN
        BY DEF IsAnimation
      <3>3. CASE LoopCount(conv[w]) # 0 /\ ~animation
        <4>1. animation = FALSE
          BY <3>2, <3>3
        <4>2. End(w, "no_anim_params") /\ FALSE \in IsAnimation(enc[w])
          BY <3>1, <3>3, <4>1
        <4>. QED BY <2>4, <2>5, <4>2
      <3>4. CASE ~(LoopCount(conv[w]) # 0 /\ ~animation)
        <4>1. End(w, "converted")
          BY <3>1, <3>4
        <4>. QED BY <2>3, <4>1
      <3>. QED BY <3>3, <3>4
    <2>. QED BY <1>10, <2>2, <2>5 DEF Terminate
  <1>11. CASE Next
    <2>1. PICK w \in Workers :
            \/ Open(w)
            \/ \E e \in Extensions : GraphicsExtension(w, e)
            \/ \E n \in LoopCounts : LoopExtension(w, n)
            \/ \E im \in Images : ReadImage(w, im)
            \/ AddImage(w)
            \/ Stop(w)
            \/ Terminate(w)
      BY <1>11 DEF Next
    <2>2. CASE Open(w)
      BY <1>3, <2>2
    <2>3. CASE \E e \in Extensions : GraphicsExtension(w, e)
      BY <1>4, <2>3
    <2>4. CASE \E n \in LoopCounts : LoopExtension(w, n)
      BY <1>5, <2>4
    <2>5. CASE \E im \in Images : ReadImage(w, im)
      BY <1>6, <2>5
    <2>6. CASE AddImage(w)
      BY <1>7, <2>6
    <2>7. CASE Stop(w)
      BY <1>9, <2>7
    <2>8. CASE Terminate(w)
      BY <1>10, <2>8
    <2>. QED BY <2>1, <2>2, <2>3, <2>4, <2>5, <2>6, <2>7, <2>8
  <1>. QED BY <1>1, <1>11

LEMMA Invariance == Spec => []IInv
  BY InitInv, NextInv, PTL DEF Spec

-----------------------------------------------------------------------------
(* What follows for the code *)

(* Variables keep their types: indexes and colours stay apart, canvases    *)
(* keep their size and the timestamp stays an int (the state of gif2webp,  *)
(* gif2webp.c:16-60).                                                      *)
THEOREM GifTypeCorrect == Spec => []TypeOK
  <1>1. IInv => TypeOK
    <2>. SUFFICES ASSUME IInv PROVE TypeOK
      OBVIOUS
    <2>1. ASSUME NEW w \in Workers PROVE
            /\ enc[w].prev_canvas \in Canvases /\ enc[w].shown \in Canvases
            /\ enc[w].prev_rect \in Rects /\ enc[w].out_frame_count \in Nat
            /\ enc[w].is_first_frame \in BOOLEAN
      <3>1. enc[w] \in Encoders
        BY DEF IInv
      <3>. QED BY <3>1 DEF Encoders, Rects
    <2>2. ASSUME NEW w \in Workers PROVE
            /\ file[w].gce \in Extensions \cup {NoExtension}
            /\ file[w].loop \in LoopCounts \cup {-1}
      <3>1. file[w] \in Files
        BY DEF IInv
      <3>. QED BY <3>1 DEF Files
    <2>3. ASSUME NEW w \in Workers PROVE
            /\ Len(file[w].images) <= MaxImages
            /\ given[w] \in Seq([canvas : Canvases, timestamp : Ints])
      <3>1. Typed(conv[w], enc[w], file[w], given[w])
        BY DEF IInv, WorkerInv
      <3>. QED BY <3>1 DEF Typed, Additions
    <2>4. /\ transparent_index \in Colors \cup {GIF_INDEX_INVALID}
          /\ conv \in [Workers -> Conversions] /\ abandoned \in BOOLEAN
      BY DEF IInv, Indexes
    <2>. QED BY <2>1, <2>2, <2>3, <2>4 DEF TypeOK
  <1>. QED BY <1>1, Invariance, PTL

(* Every frame of the animation has a rectangle the container accepts,     *)
(* whatever the canvases, the options and the similarity of colours        *)
(* (GetSubRect and SnapToEvenOffsets, anim_encode.c).                      *)
THEOREM RectanglesLegal == Spec => []RectsLegal
  <1>1. IInv => RectsLegal
    <2>. SUFFICES ASSUME IInv, NEW w \in Workers, ~enc[w].is_first_frame
                  PROVE  Legal(enc[w].prev_rect)
      BY DEF RectsLegal, Legal, Inside
    <2>1. EncoderSound(enc[w])
      BY DEF IInv, WorkerInv, Typed
    <2>. QED BY <2>1 DEF EncoderSound
  <1>. QED BY <1>1, Invariance, PTL

(* Each canvas is given for the time its own image asked for, through      *)
(* extensions without an image, images without an extension and the        *)
(* wrapping of frame_timestamp (gif2webp.c:181-196).                       *)
THEOREM TimesKept == Spec => []DurationsKept
  <1>1. IInv => DurationsKept
    <2>. SUFFICES ASSUME IInv, NEW w \in Workers, NEW k \in 1..Len(given[w])
                  PROVE  (Until(conv[w], given[w], k) - given[w][k].timestamp)
                           % IntMod
                         = ShownDuration(file[w].images[k].delay) % IntMod
      BY DEF DurationsKept, Until
    <2>1. Timed(conv[w], file[w], given[w])
      BY DEF IInv, WorkerInv
    <2>. QED BY <2>1 DEF Timed
  <1>. QED BY <1>1, Invariance, PTL

(* No more than MAX_GIF_DATA pixels and one canvas are given to the        *)
(* encoder, for any limit and canvas an int can hold (gif2webp.c:198).     *)
THEOREM SizeLimited == Spec => []DataLimited
  <1>1. IInv => DataLimited
    BY DEF IInv, WorkerInv, Limited, Data, DataLimited
  <1>. QED BY <1>1, Invariance, PTL

LEMMA UInt16Bound ==
  ASSUME NEW n \in UInt16
  PROVE  n \in Nat /\ n <= 65535
  BY DEF UInt16

(* The animation plays as often as the GIF, and only a GIF that became a   *)
(* single frame fails for its loop count (gif2webp.c:291-306).             *)
THEOREM LoopsCarried == Spec => []LoopsAsGif
  <1>1. IInv => LoopsAsGif
    <2>. SUFFICES ASSUME IInv, NEW w \in Workers
                  PROVE  LET n == file[w].loop
                             plays == IF n = -1 THEN 1
                                      ELSE IF n \in {0, 65535} THEN n ELSE n + 1
                         IN  /\ /\ conv[w].pc = "converted"
                                /\ enc[w].out_frame_count > 1
                                => LoopCount(conv[w]) = plays
                             /\ conv[w].pc = "no_anim_params" =>
                                  enc[w].out_frame_count = 1
      BY DEF LoopsAsGif
    <2>1. /\ Typed(conv[w], enc[w], file[w], given[w])
          /\ Looped(conv[w], enc[w], file[w])
          /\ Counted(conv[w], file[w], given[w])
          /\ Encoded(conv[w], enc[w], given[w])
      BY DEF IInv, WorkerInv
    <2>2. /\ conv[w].loop_count \in Nat /\ conv[w].loop_count <= 65535
          /\ conv[w].stored_loop_count \in BOOLEAN
          /\ conv[w].frame_number \in Nat
      <3>1. /\ conv[w].loop_count \in UInt16 /\ conv[w].frame_number \in Nat
            /\ conv[w].stored_loop_count \in BOOLEAN
        BY <2>1 DEF Typed, Conversions
      <3>. QED BY <3>1, UInt16Bound
    <2>3. enc[w].out_frame_count > 1 => conv[w].frame_number > 1
      <3>1. enc[w].out_frame_count \in Nat /\ Len(given[w]) \in Nat
        <4>1. enc[w] \in Encoders /\ given[w] \in Seq(Additions)
          BY DEF IInv
        <4>. QED BY <4>1 DEF Encoders
      <3>2. /\ conv[w].frame_number = Len(given[w])
            /\ enc[w].out_frame_count <= Len(given[w])
        BY <2>1 DEF Counted, Encoded
      <3>. QED BY <3>1, <3>2
    <2>4. CASE conv[w].stored_loop_count
      <3>1. file[w].loop = conv[w].loop_count
        BY <2>1, <2>4 DEF Looped
      <3>. QED BY <2>1, <2>2, <2>4, <3>1 DEF LoopCount, Looped
    <2>5. CASE ~conv[w].stored_loop_count
      <3>1. file[w].loop = -1
        BY <2>1, <2>5 DEF Looped
      <3>. QED BY <2>1, <2>3, <2>5, <3>1 DEF LoopCount, Looped
    <2>. QED BY <2>4, <2>5
  <1>. QED BY <1>1, Invariance, PTL

(* What a player shows is the canvas that was added last, but for pixels   *)
(* that have changed since they were sent only by steps too small to be    *)
(* sent: whatever the encoder blends, disposes of and merges, for any      *)
(* relation of colours that count as alike and any options (CacheFrame and *)
(* SetFrame of anim_encode.c, with key frames off as in gif2webp).         *)
THEOREM PlayerFaithful == Spec => []PlayerShowsCanvas
  <1>1. IInv => PlayerShowsCanvas
    <2>. SUFFICES ASSUME IInv, NEW w \in Workers, given[w] # <<>>,
                         NEW p \in Pixels
                  PROVE  \E K \in SUBSET (1..Len(given[w])) :
                           /\ DriftsToLast(w, p, K)
                           /\ \E k \in K :
                                enc[w].shown[p] = given[w][k].canvas[p]
      BY DEF PlayerShowsCanvas
    <2>. DEFINE o == conv[w].options
                g == given[w]
                n == Len(g)
    <2>1. PixelKept(o, enc[w], g, p)
      BY DEF IInv, WorkerInv, Encoded
    <2>2. n \in Nat
      BY DEF IInv
    <2>3. PICK m \in 1..n, K \in SUBSET (1..n) :
            /\ Drifts(o, g, p, K, m)
            /\ \E k \in K : enc[w].shown[p] = g[k].canvas[p]
            /\ m = n \/ ComparePixels(Exact(o), g[m].canvas[p], g[n].canvas[p])
      BY <2>1 DEF PixelKept
    <2>4. Drifts(o, g, p, K \cup {n}, n)
      <3>. HIDE DEF o, g, n
      <3>. QED BY <2>2, <2>3, DriftsOn
    <2>5. DriftsToLast(w, p, K \cup {n})
      BY <2>4 DEF Drifts, DriftsToLast, Exact
    <2>6. K \cup {n} \in SUBSET (1..n)
      BY <2>4 DEF Drifts
    <2>. QED BY <2>3, <2>5, <2>6
  <1>. QED BY <1>1, Invariance, PTL

-----------------------------------------------------------------------------
(* The static transparent_index, with a single worker *)

(* until a file is abandoned, transparent_index is what the next image     *)
(* asks for, and invalid between two files                                 *)
OwnIndex(w) ==
  /\ \A k \in 1..Len(file[w].images) :
       file[w].images[k].used = file[w].images[k].own
  /\ conv[w].pc = "records" => transparent_index = file[w].gce.transparent
  /\ conv[w].pc \in Ends => transparent_index = GIF_INDEX_INVALID
  /\ conv[w].pc = "adding" => file[w].gce = NoExtension

LEMMA OwnIndexKept ==
  ASSUME NEW w, Workers = {w}, IInv, abandoned \/ OwnIndex(w), [Next]_vars
  PROVE  (abandoned \/ OwnIndex(w))'
  <1>. SUFFICES ASSUME ~abandoned' PROVE OwnIndex(w)'
    OBVIOUS
  <1>1. /\ conv[w] \in Conversions /\ file[w] \in Files /\ w \in Workers
        /\ conv \in [Workers -> Conversions] /\ file \in [Workers -> Files]
        /\ file[w].images \in Seq(ImagesSeen)
    BY DEF IInv, Files
  <1>2. /\ "records" \notin Ends /\ "adding" \notin Ends
    BY DEF Ends
  <1>3. CASE UNCHANGED vars
    BY <1>3 DEF vars, OwnIndex
  <1>4. CASE Open(w)
    <2>1. PICK o \in Options : conv' = [conv EXCEPT ![w] = NewConversion(o)]
      BY <1>4 DEF Open
    <2>2. conv'[w].pc = "records"
      BY <1>1, <2>1 DEF NewConversion
    <2>3. file'[w] = NewFile
      BY <1>1, <1>4 DEF Open
    <2>4. transparent_index' = GIF_INDEX_INVALID
      BY <1>4 DEF Open, OwnIndex
    <2>. QED BY <1>2, <2>2, <2>3, <2>4 DEF OwnIndex, NewFile, NoExtension
  <1>5. ASSUME NEW x \in Extensions, GraphicsExtension(w, x)
        PROVE  OwnIndex(w)'
    <2>1. /\ conv'[w].pc = "records" /\ file'[w].images = file[w].images
          /\ file'[w].gce = x /\ transparent_index' = x.transparent
          /\ abandoned' = abandoned
      BY <1>1, <1>5 DEF GraphicsExtension, Conversions, Files
    <2>. QED BY <1>2, <2>1 DEF OwnIndex
  <1>6. ASSUME NEW n \in LoopCounts, LoopExtension(w, n)
        PROVE  OwnIndex(w)'
    <2>1. /\ conv[w].pc = "records" /\ conv'[w].pc = "records"
          /\ file'[w].images = file[w].images
          /\ file'[w].gce = file[w].gce
          /\ transparent_index' = transparent_index /\ abandoned' = abandoned
      BY <1>1, <1>6 DEF LoopExtension, Conversions, Files
    <2>. QED BY <1>2, <2>1 DEF OwnIndex
  <1>7. ASSUME NEW im \in Images, ReadImage(w, im)
        PROVE  OwnIndex(w)'
    <2>. DEFINE seen == ImageShown(w, im)
    <2>1. /\ conv[w].pc = "records" /\ conv'[w].pc = "adding"
          /\ file'[w].images = Append(file[w].images, seen)
          /\ file'[w].gce = NoExtension /\ abandoned' = abandoned
      BY <1>1, <1>7 DEF ReadImage, Conversions, Files
    <2>2. seen.used = seen.own
      BY <2>1 DEF OwnIndex, ImageShown
    <2>. HIDE DEF seen
    <2>3. \A k \in 1..Len(file'[w].images) :
            file'[w].images[k].used = file'[w].images[k].own
      BY <1>1, <2>1, <2>2 DEF OwnIndex
    <2>. QED BY <1>2, <2>1, <2>3 DEF OwnIndex
  <1>8. CASE AddImage(w)
    <2>1. /\ conv[w].pc = "adding" /\ conv'[w].pc \in {"records", "stopped"}
          /\ file'[w] = file[w] /\ transparent_index' = GIF_INDEX_INVALID
          /\ abandoned' = abandoned
      BY <1>1, <1>8 DEF AddImage, NextImage, Conversions
    <2>. QED BY <1>2, <2>1 DEF OwnIndex, NoExtension
  <1>9. ASSUME NEW pc \in Ends, End(w, pc) PROVE OwnIndex(w)'
    <2>1. /\ conv'[w].pc = pc /\ file' = file
          /\ transparent_index' = transparent_index
          /\ ~abandoned /\ transparent_index = GIF_INDEX_INVALID
      BY <1>1, <1>9 DEF End, Conversions
    <2>. QED BY <1>2, <1>9, <2>1 DEF OwnIndex
  <1>10. CASE Stop(w)
    BY <1>9, <1>10 DEF Stop, Ends
  <1>11. CASE Terminate(w)
    <2>1. PICK pc \in {"stopped", "converted", "no_anim_params"} : End(w, pc)
      BY <1>11 DEF Terminate
    <2>. QED BY <1>9, <2>1 DEF Ends
  <1>12. CASE Next
    BY <1>4, <1>5, <1>6, <1>7, <1>8, <1>10, <1>11, <1>12 DEF Next
  <1>. QED BY <1>3, <1>12

(* With one worker, and as long as no file ended between an extension that *)
(* names a transparent index and its image, every image is decoded with    *)
(* its own extension's index: the reset at gif2webp.c:192-197 is enough.   *)
THEOREM OwnIndexUsed ==
  ASSUME NEW w, Workers = {w}
  PROVE  Spec => []OwnTransparencyUnlessAbandoned
  <1>1. Init => abandoned \/ OwnIndex(w)
    <2>. SUFFICES ASSUME Init PROVE OwnIndex(w)
      OBVIOUS
    <2>1. PICK o \in Options : conv = [v \in Workers |->
                                 [NewConversion(o) EXCEPT !.pc = "stopped"]]
      BY DEF Init
    <2>2. conv[w].pc = "stopped"
      BY <2>1 DEF NewConversion
    <2>3. file[w].images = <<>> /\ transparent_index = GIF_INDEX_INVALID
      BY DEF Init, NewFile
    <2>. QED BY <2>2, <2>3 DEF OwnIndex
  <1>2. IInv /\ (abandoned \/ OwnIndex(w)) /\ [Next]_vars
          => (abandoned \/ OwnIndex(w))'
    BY OwnIndexKept
  <1>3. abandoned \/ OwnIndex(w) => OwnTransparencyUnlessAbandoned
    BY DEF OwnIndex, OwnTransparency, OwnTransparencyUnlessAbandoned
  <1>. QED BY <1>1, <1>2, <1>3, Invariance, PTL DEF Spec

-----------------------------------------------------------------------------
(* What a viewer of the GIF shows                                          *)

Mapped(images) == \A k \in 1..Len(images) : images[k].map

(* d[k] is the screen after image k, up to the canvas given last *)
Screens(images, g, d) ==
  /\ d[0] = ClearCanvas
  /\ \A k \in 1..Len(g) :
       /\ g[k].canvas = DrawnOver(images[k], d[k - 1])
       /\ d[k] = LeftBy(images[k], d[k - 1])

(* the canvases of the conversion are the screens of a viewer *)
OnScreen(c, f, g) ==
  \E d : /\ Screens(f.images, g, d)
         /\ c.pc \in {"records", "adding"} => c.prev_canvas = d[Len(g)]
         /\ c.pc = "adding" =>
              c.curr_canvas = DrawnOver(f.images[Len(g) + 1], d[Len(g)])

ViewInv(c, f, g) ==
  /\ c.pc = "records" => c.orig_dispose = f.gce.dispose
  /\ c.pc = "adding" =>
       /\ c.orig_dispose = f.images[Len(g) + 1].dispose
       /\ c.gif_rect = f.images[Len(g) + 1].rect
       /\ f.gce.dispose = "none"
  /\ Mapped(f.images) => OnScreen(c, f, g)

(* The screens that the definition of Viewed is about *)
Recurs(images, f) ==
  f = [k \in 0..Len(images) |->
         IF k = 0 THEN ClearCanvas ELSE LeftBy(images[k], f[k - 1])]

LEMMA ViewedIs ==
  ASSUME NEW images
  PROVE  Viewed(images) =
           [k \in 1..Len(images) |->
              DrawnOver(images[k], (CHOOSE f : Recurs(images, f))[k - 1])]
  BY Zenon DEF Viewed, Recurs

LEMMA RecursAt ==
  ASSUME NEW images, Len(images) \in Nat, NEW f, Recurs(images, f),
         NEW k \in 0..Len(images)
  PROVE  f[k] = IF k = 0 THEN ClearCanvas ELSE LeftBy(images[k], f[k - 1])
  <1>. DEFINE F(x) == IF x = 0 THEN ClearCanvas ELSE LeftBy(images[x], f[x - 1])
  <1>1. f = [x \in 0..Len(images) |-> F(x)]
    BY DEF Recurs
  <1>. HIDE DEF F
  <1>2. f[k] = F(k)
    BY <1>1
  <1>. QED BY <1>2 DEF F

(* The recursion has a solution, and it is the only one. *)
LEMMA ViewedScreens ==
  ASSUME NEW images, NEW n \in Nat, n = Len(images), NEW d, d[0] = ClearCanvas,
         \A k \in 1..n : d[k] = LeftBy(images[k], d[k - 1])
  PROVE  \A k \in 1..n : Viewed(images)[k] = DrawnOver(images[k], d[k - 1])
  <1>. DEFINE e == [k \in 0..n |-> d[k]]
              f == CHOOSE f : Recurs(images, f)
  <1>1. Recurs(images, e)
    <2>1. ASSUME NEW k \in 0..n
          PROVE  d[k] = IF k = 0 THEN ClearCanvas ELSE LeftBy(images[k], e[k - 1])
      <3>1. CASE k = 0
        BY <3>1
      <3>2. CASE k # 0
        <4>1. k \in 1..n /\ k - 1 \in 0..n
          BY <3>2
        <4>2. e[k - 1] = d[k - 1]
          BY <4>1
        <4>3. d[k] = LeftBy(images[k], d[k - 1])
          BY <4>1
        <4>. HIDE DEF e
        <4>. QED BY <3>2, <4>2, <4>3
      <3>. QED BY <3>1, <3>2
    <2>2. e = [k \in 0..n |->
                 IF k = 0 THEN ClearCanvas ELSE LeftBy(images[k], e[k - 1])]
      BY <2>1
    <2>. QED BY <2>2 DEF Recurs
  <1>2. Recurs(images, f)
    BY <1>1
  <1>. HIDE DEF e, f
  <1>3. \A k \in 0..n : f[k] = d[k]
    <2>. DEFINE Bad == {k \in 0..n : f[k] # d[k]}
    <2>. SUFFICES ASSUME Bad # {} PROVE FALSE
      OBVIOUS
    <2>1. Bad \in SUBSET Nat
      OBVIOUS
    <2>2. PICK k \in Bad : \A y \in Bad : k <= y
      BY <2>1, LeastNatural
    <2>3. k \in 0..n /\ f[k] # d[k]
      BY <2>2
    <2>4. f[k] = IF k = 0 THEN ClearCanvas ELSE LeftBy(images[k], f[k - 1])
      BY <1>2, <2>3, RecursAt
    <2>5. k # 0 /\ k \in 1..n /\ k - 1 \in 0..n /\ ~(k <= k - 1)
      BY <2>3, <2>4
    <2>6. f[k - 1] = d[k - 1]
      BY <2>2, <2>5
    <2>7. d[k] = LeftBy(images[k], d[k - 1])
      BY <2>5
    <2>. QED BY <2>3, <2>4, <2>5, <2>6, <2>7
  <1>4. Viewed(images) = [k \in 1..n |-> DrawnOver(images[k], f[k - 1])]
    BY ViewedIs DEF f
  <1>. SUFFICES ASSUME NEW k \in 1..n
                PROVE  Viewed(images)[k] = DrawnOver(images[k], d[k - 1])
    OBVIOUS
  <1>5. k - 1 \in 0..n
    OBVIOUS
  <1>6. f[k - 1] = d[k - 1]
    BY <1>3, <1>5
  <1>7. Viewed(images)[k] = DrawnOver(images[k], f[k - 1])
    BY <1>4
  <1>. QED BY <1>6, <1>7

(* GIFDisposeFrame leaves what the image leaves. *)
LEMMA DisposedScreen ==
  ASSUME NEW image, image.dispose \in Disposals, NEW b
  PROVE  GIFDisposeFrame(image.dispose, image.rect, b, DrawnOver(image, b))
           = LeftBy(image, b)
  <1>. DEFINE drawn == DrawnOver(image, b)
  <1>0. drawn = [p \in Pixels |-> drawn[p]]
    BY DEF DrawnOver
  <1>. HIDE DEF drawn
  <1>1. CASE image.dispose = "none"
    <2>1. LeftBy(image, b) = [p \in Pixels |-> drawn[p]]
      BY <1>1 DEF LeftBy, drawn
    <2>. QED BY <1>0, <1>1, <2>1 DEF GIFDisposeFrame, drawn
  <1>2. CASE image.dispose = "background"
    BY <1>2 DEF GIFDisposeFrame, LeftBy, Cleared
  <1>3. CASE image.dispose = "previous"
    BY <1>3 DEF GIFDisposeFrame, LeftBy
  <1>. QED BY <1>1, <1>2, <1>3 DEF Disposals

(* GIFReadFrame and GIFBlendFrames draw what the image shows. *)
LEMMA BlendedScreen ==
  ASSUME IInv, NEW w \in Workers, NEW im \in Images, im.map, NEW frame, NEW b
  PROVE  GIFBlendFrames(FrameRead(frame, im, transparent_index), im.rect, b)
           = DrawnOver(ImageShown(w, im), b)
  <1>. DEFINE read == FrameRead(frame, im, transparent_index)
              seen == ImageShown(w, im)
  <1>1. seen.rect = im.rect
    BY DEF ImageShown
  <1>2. \A p \in Area(im.rect) :
          seen.picture[p] = Remapped(im.index[p], transparent_index)
    BY DEF ImageShown
  <1>3. \A p \in Area(im.rect) : p \in Pixels /\ read[p] = seen.picture[p]
    <2>1. \A p \in Area(im.rect) : p \in Pixels
      BY DEF Area
    <2>2. \A p \in Area(im.rect) :
            read[p] = Remapped(im.index[p], transparent_index)
      BY <2>1 DEF FrameRead
    <2>. QED BY <1>2, <2>1, <2>2
  <1>. HIDE DEF read, seen
  <1>4. GIFBlendFrames(read, im.rect, b) = DrawnOver(seen, b)
    BY <1>1, <1>3 DEF GIFBlendFrames, DrawnOver
  <1>. QED BY <1>4 DEF read, seen

(* A step that neither shows an image nor gives a canvas *)
LEMMA ViewStays ==
  ASSUME NEW c, NEW f, NEW g, ViewInv(c, f, g), NEW c2, NEW f2,
         f2.images = f.images, c2.prev_canvas = c.prev_canvas,
         c2.curr_canvas = c.curr_canvas,
         \/ c2.pc \in Ends
         \/ /\ c2.pc = "records" /\ c.pc = "records"
            /\ c2.orig_dispose = f2.gce.dispose,
         c.pc \in {"records", "adding"}
  PROVE  ViewInv(c2, f2, g)
  <1>1. "records" \notin Ends /\ "adding" \notin Ends /\ "records" # "adding"
    BY DEF Ends
  <1>2. Mapped(f2.images) => OnScreen(c2, f2, g)
    <2>. SUFFICES ASSUME Mapped(f.images) PROVE OnScreen(c2, f2, g)
      OBVIOUS
    <2>1. PICK d : /\ Screens(f.images, g, d)
                   /\ c.pc \in {"records", "adding"} => c.prev_canvas = d[Len(g)]
      BY DEF ViewInv, OnScreen
    <2>2. Screens(f2.images, g, d) /\ c2.prev_canvas = d[Len(g)]
      BY <2>1
    <2>. QED BY <1>1, <2>2 DEF OnScreen
  <1>. QED BY <1>1, <1>2 DEF ViewInv

LEMMA OpenView ==
  ASSUME NEW c, c.pc # "adding",
         c.pc = "records" => c.orig_dispose = "none",
         c.prev_canvas = ClearCanvas
  PROVE  ViewInv(c, NewFile, <<>>)
  <1>. DEFINE d == [k \in {0} |-> ClearCanvas]
  <1>1. d[0] = ClearCanvas /\ Len(<<>>) = 0
    OBVIOUS
  <1>2. Screens(NewFile.images, <<>>, d)
    BY <1>1 DEF Screens
  <1>3. c.prev_canvas = d[Len(<<>>)]
    BY <1>1
  <1>4. NewFile.gce.dispose = "none"
    BY DEF NewFile, NoExtension
  <1>. HIDE DEF d
  <1>. QED BY <1>2, <1>3, <1>4 DEF ViewInv, OnScreen

(* An image record up to its canvas *)
LEMMA ReadView ==
  ASSUME NEW c, NEW f, NEW g, ViewInv(c, f, g), c.pc = "records",
         f.images \in Seq(ImagesSeen), Len(f.images) = Len(g),
         c.curr_canvas = c.prev_canvas,
         NEW seen \in ImagesSeen, seen.dispose = f.gce.dispose,
         NEW c2, NEW f2, f2.images = Append(f.images, seen),
         f2.gce = NoExtension, c2.pc = "adding",
         c2.orig_dispose = c.orig_dispose, c2.gif_rect = seen.rect,
         c2.prev_canvas = c.prev_canvas,
         seen.map => c2.curr_canvas = DrawnOver(seen, c.curr_canvas)
  PROVE  ViewInv(c2, f2, g)
  <1>. DEFINE n == Len(g)
  <1>1. /\ n \in Nat /\ Len(f2.images) = n + 1 /\ f2.images[n + 1] = seen
        /\ \A k \in 1..n : f2.images[k] = f.images[k]
    OBVIOUS
  <1>2. f2.gce.dispose = "none"
    BY DEF NoExtension
  <1>3. Mapped(f2.images) => Mapped(f.images) /\ seen.map
    <2>. SUFFICES ASSUME Mapped(f2.images) PROVE Mapped(f.images) /\ seen.map
      OBVIOUS
    <2>1. \A k \in 1..(n + 1) : f2.images[k].map
      BY <1>1 DEF Mapped
    <2>2. n + 1 \in 1..(n + 1) /\ \A k \in 1..n : k \in 1..(n + 1)
      BY <1>1
    <2>. QED BY <1>1, <2>1, <2>2 DEF Mapped
  <1>4. Mapped(f2.images) => OnScreen(c2, f2, g)
    <2>. SUFFICES ASSUME Mapped(f2.images) PROVE OnScreen(c2, f2, g)
      OBVIOUS
    <2>1. PICK d : Screens(f.images, g, d) /\ c.prev_canvas = d[n]
      BY <1>3 DEF ViewInv, OnScreen
    <2>2. Screens(f2.images, g, d)
      BY <1>1, <2>1 DEF Screens
    <2>3. c2.curr_canvas = DrawnOver(f2.images[n + 1], d[n])
      BY <1>1, <1>3, <2>1
    <2>. HIDE DEF n
    <2>. QED BY <2>1, <2>2, <2>3 DEF OnScreen, n
  <1>. HIDE DEF n
  <1>. QED BY <1>1, <1>2, <1>4 DEF ViewInv, n

LEMMA NextImageDisposes ==
  ASSUME NEW c \in Conversions
  PROVE  LET d == NextImage(c) IN
         /\ d.prev_canvas = GIFDisposeFrame(c.orig_dispose, c.gif_rect,
                                            c.prev_canvas, c.curr_canvas)
         /\ d.orig_dispose = "none" /\ d.pc \in {"records", "stopped"}
  BY DEF NextImage, Conversions

(* The rest of an image record *)
LEMMA AddView ==
  ASSUME NEW c \in Conversions, NEW f, NEW g, ViewInv(c, f, g),
         c.pc = "adding", f.images \in Seq(ImagesSeen), g \in Seq(Additions),
         Len(f.images) = Len(g) + 1, NEW new \in Additions,
         new.canvas = c.curr_canvas
  PROVE  ViewInv(NextImage(c), f, Append(g, new))
  <1>. DEFINE n == Len(g)
              h == Append(g, new)
              c2 == NextImage(c)
              image == f.images[n + 1]
  <1>1. /\ n \in Nat /\ Len(h) = n + 1 /\ h[n + 1] = new
        /\ \A k \in 1..n : h[k] = g[k]
        /\ image \in ImagesSeen
    OBVIOUS
  <1>. HIDE DEF h
  <1>2. /\ c2.prev_canvas = GIFDisposeFrame(c.orig_dispose, c.gif_rect,
                                            c.prev_canvas, c.curr_canvas)
        /\ c2.orig_dispose = "none" /\ c2.pc \in {"records", "stopped"}
    BY NextImageDisposes
  <1>. HIDE DEF c2
  <1>3. /\ c.orig_dispose = image.dispose /\ c.gif_rect = image.rect
        /\ f.gce.dispose = "none"
    BY DEF ViewInv
  <1>4. image.dispose \in Disposals
    BY <1>1 DEF ImagesSeen
  <1>5. Mapped(f.images) => OnScreen(c2, f, h)
    <2>. SUFFICES ASSUME Mapped(f.images) PROVE OnScreen(c2, f, h)
      OBVIOUS
    <2>1. PICK d : /\ Screens(f.images, g, d) /\ c.prev_canvas = d[n]
                   /\ c.curr_canvas = DrawnOver(image, d[n])
      BY DEF ViewInv, OnScreen
    <2>. HIDE DEF image
    <2>2. c2.prev_canvas = LeftBy(image, d[n])
      BY <1>2, <1>3, <1>4, <2>1, DisposedScreen
    <2>. DEFINE e == [k \in 0..(n + 1) |->
                        IF k = n + 1 THEN LeftBy(image, d[n]) ELSE d[k]]
    <2>3. /\ \A k \in 0..n : e[k] = d[k]
          /\ e[n + 1] = LeftBy(image, d[n])
      BY <1>1
    <2>. HIDE DEF e, n
    <2>4. Screens(f.images, h, e)
      <3>1. e[0] = ClearCanvas
        BY <1>1, <2>1, <2>3 DEF Screens
      <3>2. ASSUME NEW k \in 1..n
            PROVE  /\ h[k].canvas = DrawnOver(f.images[k], e[k - 1])
                   /\ e[k] = LeftBy(f.images[k], e[k - 1])
        <4>1. k \in 0..n /\ k - 1 \in 0..n
          BY <1>1
        <4>2. e[k] = d[k] /\ e[k - 1] = d[k - 1] /\ h[k] = g[k]
          BY <1>1, <2>3, <4>1
        <4>3. /\ g[k].canvas = DrawnOver(f.images[k], d[k - 1])
              /\ d[k] = LeftBy(f.images[k], d[k - 1])
          BY <2>1 DEF Screens, n
        <4>. QED BY <4>2, <4>3
      <3>3. ASSUME NEW k, k = n + 1
            PROVE  /\ h[k].canvas = DrawnOver(f.images[k], e[k - 1])
                   /\ e[k] = LeftBy(f.images[k], e[k - 1])
        <4>1. k - 1 = n /\ n \in 0..n
          BY <1>1, <3>3
        <4>2. e[k - 1] = d[n]
          BY <2>3, <4>1
        <4>. QED BY <1>1, <2>1, <2>3, <3>3, <4>2 DEF image
      <3>4. \A k \in 1..Len(h) : k \in 1..n \/ k = n + 1
        BY <1>1
      <3>. QED BY <3>1, <3>2, <3>3, <3>4 DEF Screens
    <2>5. c2.prev_canvas = e[Len(h)] /\ c2.pc # "adding"
      BY <1>1, <1>2, <2>2, <2>3
    <2>. QED BY <2>4, <2>5 DEF OnScreen
  <1>6. c2.pc # "adding"
    BY <1>2
  <1>. HIDE DEF n, image
  <1>. QED BY <1>2, <1>3, <1>5, <1>6 DEF ViewInv, c2, h

-----------------------------------------------------------------------------
VInv == \A w \in Workers : ViewInv(conv[w], file[w], given[w])

(* A step of one worker leaves the screens of the others alone. *)
LEMMA ViewStepKeeps ==
  ASSUME IInv, VInv, NEW w \in Workers, NEW c, NEW f, NEW g, ViewInv(c, f, g),
         conv' = [conv EXCEPT ![w] = c],
         file' = [file EXCEPT ![w] = f], given' = [given EXCEPT ![w] = g]
  PROVE  VInv'
  <1>1. ASSUME NEW v \in Workers
        PROVE  ViewInv(conv[v], file[v], given[v])'
    <2>1. CASE v = w
      <3>1. conv'[v] = c /\ file'[v] = f /\ given'[v] = g
        BY <2>1 DEF IInv
      <3>. QED BY <3>1
    <2>2. CASE v # w
      <3>1. conv'[v] = conv[v] /\ file'[v] = file[v] /\ given'[v] = given[v]
        BY <2>2 DEF IInv
      <3>. QED BY <3>1 DEF VInv
    <2>. QED BY <2>1, <2>2
  <1>. QED BY <1>1 DEF VInv

LEMMA InitVInv == Init => VInv
  <1>. SUFFICES ASSUME Init, NEW w \in Workers
                PROVE  ViewInv(conv[w], file[w], given[w])
    BY DEF VInv
  <1>1. PICK o \in Options : conv = [v \in Workers |->
                                 [NewConversion(o) EXCEPT !.pc = "stopped"]]
    BY DEF Init
  <1>2. conv[w].pc = "stopped" /\ conv[w].prev_canvas = ClearCanvas
    BY <1>1 DEF NewConversion
  <1>3. file[w] = NewFile /\ given[w] = <<>>
    BY DEF Init
  <1>. QED BY <1>2, <1>3, OpenView

LEMMA NextVInv ==
  ASSUME IInv, VInv, [Next]_vars
  PROVE  VInv'
  <1>1. ASSUME NEW w \in Workers PROVE
          /\ file = [file EXCEPT ![w] = file[w]]
          /\ given = [given EXCEPT ![w] = given[w]]
          /\ ViewInv(conv[w], file[w], given[w])
          /\ conv[w] \in Conversions /\ file[w] \in Files
          /\ file[w].images \in Seq(ImagesSeen) /\ given[w] \in Seq(Additions)
    BY DEF IInv, VInv, Files
  <1>2. CASE UNCHANGED vars
    BY <1>2 DEF vars, VInv
  <1>3. ASSUME NEW w \in Workers, Open(w) PROVE VInv'
    <2>1. PICK o \in Options : conv' = [conv EXCEPT ![w] = NewConversion(o)]
      BY <1>3 DEF Open
    <2>2. /\ NewConversion(o).pc = "records"
          /\ NewConversion(o).orig_dispose = "none"
          /\ NewConversion(o).prev_canvas = ClearCanvas
      BY DEF NewConversion
    <2>3. ViewInv(NewConversion(o), NewFile, <<>>)
      BY <2>2, OpenView
    <2>4. /\ file' = [file EXCEPT ![w] = NewFile]
          /\ given' = [given EXCEPT ![w] = <<>>]
      BY <1>3 DEF Open
    <2>. QED BY <2>1, <2>3, <2>4, ViewStepKeeps
  <1>4. ASSUME NEW w \in Workers, NEW x \in Extensions, GraphicsExtension(w, x)
        PROVE  VInv'
    <2>. DEFINE c == [conv[w] EXCEPT !.frame_duration = x.delay,
                                     !.orig_dispose = x.dispose]
                f == [file[w] EXCEPT !.gce = x]
    <2>1. /\ conv' = [conv EXCEPT ![w] = c] /\ file' = [file EXCEPT ![w] = f]
          /\ given' = given /\ conv[w].pc = "records"
      BY <1>4 DEF GraphicsExtension
    <2>2. /\ f.images = file[w].images /\ f.gce = x
          /\ c.prev_canvas = conv[w].prev_canvas
          /\ c.curr_canvas = conv[w].curr_canvas
          /\ c.pc = conv[w].pc /\ c.orig_dispose = x.dispose
      BY <1>1 DEF Conversions, Files
    <2>. HIDE DEF c, f
    <2>3. ViewInv(c, f, given[w])
      BY <1>1, <2>1, <2>2, ViewStays
    <2>. QED BY <1>1, <2>1, <2>3, ViewStepKeeps
  <1>5. ASSUME NEW w \in Workers, NEW n \in LoopCounts, LoopExtension(w, n)
        PROVE  VInv'
    <2>. DEFINE c == [conv[w] EXCEPT !.loop_count = n,
                                     !.stored_loop_count = TRUE]
                f == [file[w] EXCEPT !.loop = n]
    <2>1. /\ conv' = [conv EXCEPT ![w] = c] /\ file' = [file EXCEPT ![w] = f]
          /\ given' = given /\ conv[w].pc = "records"
      BY <1>5 DEF LoopExtension
    <2>2. /\ f.images = file[w].images /\ f.gce = file[w].gce
          /\ c.prev_canvas = conv[w].prev_canvas
          /\ c.curr_canvas = conv[w].curr_canvas
          /\ c.pc = conv[w].pc /\ c.orig_dispose = conv[w].orig_dispose
      BY <1>1 DEF Conversions, Files
    <2>. HIDE DEF c, f
    <2>3. conv[w].orig_dispose = file[w].gce.dispose
      BY <1>1, <2>1 DEF ViewInv
    <2>4. ViewInv(c, f, given[w])
      BY <1>1, <2>1, <2>2, <2>3, ViewStays
    <2>. QED BY <1>1, <2>1, <2>4, ViewStepKeeps
  <1>6. ASSUME NEW w \in Workers, NEW im \in Images, ReadImage(w, im)
        PROVE  VInv'
    <2>. DEFINE frame == FrameRead(conv[w].frame, im, transparent_index)
                canvas == GIFBlendFrames(frame, im.rect, conv[w].curr_canvas)
                seen == ImageShown(w, im)
                c == [conv[w] EXCEPT !.pc = "adding", !.frame = frame,
                                     !.gif_rect = im.rect,
                                     !.curr_canvas = canvas]
                f == [file[w] EXCEPT !.images = Append(@, seen),
                                     !.gce = NoExtension]
    <2>1. /\ conv' = [conv EXCEPT ![w] = c] /\ file' = [file EXCEPT ![w] = f]
          /\ given' = given /\ conv[w].pc = "records"
      BY <1>6 DEF ReadImage
    <2>2. /\ seen \in ImagesSeen /\ seen.dispose = file[w].gce.dispose
          /\ seen.map = im.map /\ seen.rect = im.rect
      BY ImageShownType DEF ImageShown
    <2>3. seen.map => canvas = DrawnOver(seen, conv[w].curr_canvas)
      BY <2>2, BlendedScreen
    <2>4. /\ conv[w].curr_canvas = conv[w].prev_canvas
          /\ Len(file[w].images) = Len(given[w])
      BY <2>1 DEF IInv, WorkerInv, Agree, Counted
    <2>. HIDE DEF frame, canvas, seen
    <2>5. /\ f.images = Append(file[w].images, seen) /\ f.gce = NoExtension
          /\ c.prev_canvas = conv[w].prev_canvas /\ c.curr_canvas = canvas
          /\ c.pc = "adding" /\ c.orig_dispose = conv[w].orig_dispose
          /\ c.gif_rect = im.rect
      BY <1>1 DEF Conversions, Files
    <2>. HIDE DEF c, f
    <2>6. /\ c.gif_rect = seen.rect
          /\ seen.map => c.curr_canvas = DrawnOver(seen, conv[w].curr_canvas)
      BY <2>2, <2>3, <2>5
    <2>7. /\ ViewInv(conv[w], file[w], given[w])
          /\ file[w].images \in Seq(ImagesSeen)
          /\ seen \in ImagesSeen /\ seen.dispose = file[w].gce.dispose
          /\ conv[w].pc = "records"
      BY <1>1, <2>1, <2>2
    <2>8. /\ f.images = Append(file[w].images, seen) /\ f.gce = NoExtension
          /\ c.prev_canvas = conv[w].prev_canvas
          /\ c.pc = "adding" /\ c.orig_dispose = conv[w].orig_dispose
      BY <2>5
    <2>9. ViewInv(c, f, given[w])
      BY <2>4, <2>6, <2>7, <2>8, ReadView
    <2>. QED BY <1>1, <2>1, <2>9, ViewStepKeeps
  <1>7. ASSUME NEW w \in Workers, AddImage(w) PROVE VInv'
    <2>. DEFINE new == [canvas |-> conv[w].curr_canvas,
                        timestamp |-> conv[w].frame_timestamp]
    <2>1. /\ conv' = [conv EXCEPT ![w] = NextImage(conv[w])]
          /\ given' = [given EXCEPT ![w] = Append(given[w], new)]
          /\ file' = file /\ conv[w].pc = "adding"
      BY <1>7 DEF AddImage
    <2>2. new \in Additions /\ new.canvas = conv[w].curr_canvas
      BY <1>1 DEF Conversions, Additions
    <2>3. Len(file[w].images) = Len(given[w]) + 1
      BY <2>1 DEF IInv, WorkerInv, Counted
    <2>. HIDE DEF new
    <2>4. ViewInv(NextImage(conv[w]), file[w], Append(given[w], new))
      BY <1>1, <2>1, <2>2, <2>3, AddView
    <2>. QED BY <1>1, <2>1, <2>4, ViewStepKeeps
  <1>8. ASSUME NEW w \in Workers, NEW pc \in Ends, End(w, pc),
               conv[w].pc \in {"records", "adding"}
        PROVE  VInv'
    <2>. DEFINE c == [conv[w] EXCEPT !.pc = pc]
    <2>1. /\ conv' = [conv EXCEPT ![w] = c] /\ file' = file
          /\ given' = given
      BY <1>8 DEF End
    <2>2. /\ c.prev_canvas = conv[w].prev_canvas
          /\ c.curr_canvas = conv[w].curr_canvas /\ c.pc = pc
      BY <1>1 DEF Conversions
    <2>. HIDE DEF c
    <2>3. ViewInv(c, file[w], given[w])
      BY <1>1, <1>8, <2>2, ViewStays
    <2>. QED BY <1>1, <2>1, <2>3, ViewStepKeeps
  <1>9. ASSUME NEW w \in Workers, Stop(w) PROVE VInv'
    <2>1. End(w, "stopped") /\ conv[w].pc \in {"records", "adding"}
      BY <1>9 DEF Stop
    <2>. QED BY <1>8, <2>1 DEF Ends
  <1>10. ASSUME NEW w \in Workers, Terminate(w) PROVE VInv'
    <2>1. conv[w].pc = "records"
      BY <1>10 DEF Terminate
    <2>2. PICK pc \in {"stopped", "converted", "no_anim_params"} : End(w, pc)
      BY <1>10 DEF Terminate
    <2>. QED BY <1>8, <2>1, <2>2 DEF Ends
  <1>11. CASE Next
    BY <1>3, <1>4, <1>5, <1>6, <1>7, <1>9, <1>10, <1>11 DEF Next
  <1>. QED BY <1>2, <1>11

(* The canvases given to the encoder are what a viewer of the GIF shows,   *)
(* for any screen, images, disposals and transparent indexes, and whatever *)
(* other workers do (GIFReadFrame, GIFBlendFrames and GIFDisposeFrame in   *)
(* the order of gif2webp.c:150-179).                                       *)
THEOREM CanvasesViewed == Spec => []CanvasesAsViewed
  <1>1. IInv /\ VInv => CanvasesAsViewed
    <2>. SUFFICES ASSUME IInv, VInv, NEW w \in Workers,
                         Mapped(file[w].images), NEW k \in 1..Len(given[w])
                  PROVE  given[w][k].canvas = Viewed(file[w].images)[k]
      BY DEF CanvasesAsViewed, Mapped
    <2>. DEFINE g == given[w]
                images == file[w].images
                n == Len(images)
                m == Len(g)
    <2>1. /\ n \in Nat /\ m \in Nat /\ n \in {m, m + 1}
      <3>1. /\ file[w] \in Files /\ g \in Seq(Additions)
            /\ conv[w] \in Conversions
            /\ Counted(conv[w], file[w], g)
        BY DEF IInv, WorkerInv
      <3>2. images \in Seq(ImagesSeen)
        BY <3>1 DEF Files
      <3>3. conv[w].pc \in Ends \cup {"records", "adding"}
        BY <3>1 DEF Conversions
      <3>. QED BY <3>1, <3>2, <3>3 DEF Counted
    <2>2. PICK d : Screens(images, g, d)
      BY DEF VInv, ViewInv, OnScreen
    <2>. DEFINE e == [i \in 0..n |->
                        IF i <= m THEN d[i] ELSE LeftBy(images[n], d[m])]
    <2>3. /\ \A i \in 0..m : e[i] = d[i]
          /\ n # m => e[n] = LeftBy(images[n], d[m])
      BY <2>1
    <2>. HIDE DEF e, n, m, g, images
    <2>4. e[0] = ClearCanvas
      BY <2>1, <2>2, <2>3 DEF Screens
    <2>5. ASSUME NEW i \in 1..n
          PROVE  e[i] = LeftBy(images[i], e[i - 1])
      <3>1. CASE i \in 1..m
        <4>1. i \in 0..m /\ i - 1 \in 0..m
          BY <2>1, <3>1
        <4>2. d[i] = LeftBy(images[i], d[i - 1])
          BY <2>2, <3>1 DEF Screens, m
        <4>. QED BY <2>3, <4>1, <4>2
      <3>2. CASE i \notin 1..m
        <4>1. i = n /\ n # m /\ i - 1 = m /\ m \in 0..m
          BY <2>1, <3>2
        <4>. QED BY <2>3, <4>1
      <3>. QED BY <3>1, <3>2
    <2>6. \A i \in 1..n : Viewed(images)[i] = DrawnOver(images[i], e[i - 1])
      BY <2>1, <2>4, <2>5, ViewedScreens DEF n
    <2>7. k \in 1..m /\ k \in 1..n /\ k - 1 \in 0..m
      BY <2>1 DEF g, m
    <2>8. g[k].canvas = DrawnOver(images[k], d[k - 1])
      BY <2>2, <2>7 DEF Screens, m
    <2>. QED BY <2>3, <2>6, <2>7, <2>8 DEF g, images
  <1>2. Spec => []VInv
    BY InitVInv, NextVInv, Invariance, PTL DEF Spec
  <1>. QED BY <1>1, <1>2, Invariance, PTL
=============================================================================
