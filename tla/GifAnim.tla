------------------------------ MODULE GifAnim ------------------------------
(***************************************************************************)
(* The conversion of a GIF (gif2webp.c with gifdec.c): one pass over the   *)
(* records of the file composes a canvas for every image, gives it to the  *)
(* animation encoder with a timestamp, and disposes of the image; at the   *)
(* end the loop count is carried over.                                     *)
(*                                                                         *)
(* Each worker converts one GIF after another.  Everything but             *)
(* transparent_index is local to a conversion; that variable is static.    *)
(* The file is the environment: at each step it has any record next.  An   *)
(* index of an image has the name of its colour, unless it is the          *)
(* transparent one.  The handling of an image is split in two, because     *)
(* transparent_index is read in the first half and reset in the second.    *)
(***************************************************************************)
EXTENDS AnimRender, Sequences

CONSTANTS
  Workers,           (* threads converting                                   *)
  Images,            (* image records: rectangle, indexes, has a colour map  *)
  Extensions,        (* graphic control extensions                           *)
  LoopCounts,        (* counts in NETSCAPE extensions, 65535 among others    *)
  Options,           (* options and configuration of the encoder             *)
  GIF_INDEX_INVALID,
  MAX_GIF_DATA,
  IntMod,            (* 2^32: int arithmetic wraps                           *)
  MaxImages          (* bound: image records of a file                       *)

Disposals == {"none", "background", "previous"}
UInt16 == 0..65535

ASSUME GifAssumption ==
  /\ GIF_INDEX_INVALID \notin Colors
  /\ \A im \in Images :
       /\ im.rect \in [x : Nat, y : Nat, w : Nat \ {0}, h : Nat \ {0}]
       /\ im.rect.x + im.rect.w <= Width /\ im.rect.y + im.rect.h <= Height
       /\ im.index \in [Area(im.rect) -> Colors]
       /\ im.map \in BOOLEAN
  /\ Extensions \subseteq [dispose : Disposals, delay : Nat,
                           transparent : Colors \cup {GIF_INDEX_INVALID}]
  /\ LoopCounts \subseteq UInt16
  /\ Options \subseteq [lossless : BOOLEAN, allow_mixed : BOOLEAN,
                        minimize_size : BOOLEAN]
  /\ MAX_GIF_DATA \in Nat
  /\ IntMod \in Nat /\ IntMod > 0 /\ IntMod % 2 = 0
  /\ MaxImages \in Nat

VARIABLES
  transparent_index, (* static in gif2webp.c                                 *)
  conv,              (* locals of the conversion each worker is at           *)
  enc,               (* its encoder                                          *)
  file,              (* history: what the file said so far                   *)
  given,             (* history: canvases and timestamps given to enc        *)
  abandoned          (* history: a file ended between an extension that      *)
                     (* names a transparent index and its image              *)

vars == <<transparent_index, conv, enc, file, given, abandoned>>

-----------------------------------------------------------------------------
(* The locals of gif2webp when the record loop starts *)
NewConversion(options) ==
  [pc |-> "records", options |-> options,
   frame_duration |-> 0, frame_timestamp |-> 0, orig_dispose |-> "none",
   frame |-> ClearCanvas, curr_canvas |-> ClearCanvas,
   prev_canvas |-> ClearCanvas, gif_rect |-> EmptyRect, frame_number |-> 0,
   loop_count |-> 0, stored_loop_count |-> FALSE]

NoExtension ==
  [dispose |-> "none", delay |-> 0, transparent |-> GIF_INDEX_INVALID]

(* gce is the extension for the next image, loop the last loop count *)
NewFile == [gce |-> NoExtension, images |-> <<>>, loop |-> -1]

Init ==
  /\ transparent_index = GIF_INDEX_INVALID
  /\ \E o \in Options : conv = [w \in Workers |->
                          [NewConversion(o) EXCEPT !.pc = "stopped"]]
  /\ enc = [w \in Workers |-> NewEncoder]
  /\ file = [w \in Workers |-> NewFile]
  /\ given = [w \in Workers |-> <<>>]
  /\ abandoned = FALSE

Ends == {"stopped", "converted", "no_anim_params"}

(* the next GIF for an idle worker *)
Open(w) ==
  /\ conv[w].pc \in Ends
  /\ \E o \in Options : conv' = [conv EXCEPT ![w] = NewConversion(o)]
  /\ enc' = [enc EXCEPT ![w] = NewEncoder]
  /\ file' = [file EXCEPT ![w] = NewFile]
  /\ given' = [given EXCEPT ![w] = <<>>]
  /\ UNCHANGED <<transparent_index, abandoned>>

(* Mutant of GraphicsExtension: without a transparent index, the last one  *)
(* stays.                                                                  *)
GraphicsExtensionKeeping(w, e) ==
  /\ conv[w].pc = "records"
  /\ transparent_index' = IF e.transparent = GIF_INDEX_INVALID
                          THEN transparent_index ELSE e.transparent
  /\ conv' = [conv EXCEPT ![w].frame_duration = e.delay,
                          ![w].orig_dispose = e.dispose]
  /\ file' = [file EXCEPT ![w].gce = e]
  /\ UNCHANGED <<enc, given, abandoned>>

(* GIFReadGraphicsExtension *)
GraphicsExtension(w, e) ==
  /\ conv[w].pc = "records"
  /\ transparent_index' = e.transparent
  /\ conv' = [conv EXCEPT ![w].frame_duration = e.delay,
                          ![w].orig_dispose = e.dispose]
  /\ file' = [file EXCEPT ![w].gce = e]
  /\ UNCHANGED <<enc, given, abandoned>>

(* a NETSCAPE2.0 or ANIMEXTS1.0 extension *)
LoopExtension(w, n) ==
  /\ conv[w].pc = "records"
  /\ conv' = [conv EXCEPT ![w].loop_count = n,
                          ![w].stored_loop_count = TRUE]
  /\ file' = [file EXCEPT ![w].loop = n]
  /\ UNCHANGED <<transparent_index, enc, given, abandoned>>

-----------------------------------------------------------------------------
(* Remap for one pixel *)
Remapped(index, transparent) == IF index = transparent THEN CLEAR ELSE index

(* GIFReadFrame: without any colour map the rows are left as they are *)
FrameRead(frame, im, transparent) ==
  [p \in Pixels |-> IF im.map /\ p \in Area(im.rect)
                    THEN Remapped(im.index[p], transparent) ELSE frame[p]]

GIFBlendFrames(src, rect, dst) ==
  [p \in Pixels |-> IF p \in Area(rect) /\ src[p] # CLEAR
                    THEN src[p] ELSE dst[p]]

GIFDisposeFrame(dispose, rect, prev, curr) ==
  CASE dispose = "none" -> curr
    [] dispose = "background" -> Cleared(curr, rect)
    [] dispose = "previous" ->
         [p \in Pixels |-> IF p \in Area(rect) THEN prev[p] ELSE curr[p]]

(* what the file shows in an image, given the index taken for transparent *)
ImageShown(w, im) ==
  [rect |-> im.rect, map |-> im.map, used |-> transparent_index,
   own |-> file[w].gce.transparent, dispose |-> file[w].gce.dispose,
   delay |-> file[w].gce.delay,
   picture |-> [p \in Area(im.rect) |->
                  Remapped(im.index[p], transparent_index)]]

(* An image record up to its canvas.  Canvases and encoder are made at the *)
(* first image, a screen of 0 x 0 taking the size of that image; an image  *)
(* outside the canvas stops the conversion.                                *)
ReadImage(w, im) ==
  LET frame == FrameRead(conv[w].frame, im, transparent_index) IN
  /\ conv[w].pc = "records"
  /\ Len(file[w].images) < MaxImages
  /\ conv' = [conv EXCEPT
       ![w].pc = "adding", ![w].frame = frame, ![w].gif_rect = im.rect,
       ![w].curr_canvas = GIFBlendFrames(frame, im.rect, @)]
  /\ file' = [file EXCEPT ![w].images = Append(@, ImageShown(w, im)),
                          ![w].gce = NoExtension]
  /\ UNCHANGED <<transparent_index, enc, given, abandoned>>

(* Mutant of Int32: an int holds any number. *)
AnyInt(n) == n

(* an int of the code *)
Int32(n) == ((n + IntMod \div 2) % IntMod) - (IntMod \div 2)

ShownDuration(delay) == IF delay <= 10 THEN 100 ELSE delay

(* Mutant of TooBig: the product is compared before the frame counts. *)
TooBigLate(frame_number) ==
  Int32((frame_number - 1) * Width * Height) > MAX_GIF_DATA

TooBig(frame_number) == Int32(frame_number * Width * Height) > MAX_GIF_DATA

(* Mutants of NextImage: prev_canvas is not brought up to date; the delay  *)
(* is kept for the next image.                                             *)
NextImageOldCanvas(c) ==
  [c EXCEPT !.curr_canvas = GIFDisposeFrame(c.orig_dispose, c.gif_rect,
                                            c.prev_canvas, @),
            !.frame_timestamp = Int32(@ + ShownDuration(c.frame_duration)),
            !.orig_dispose = "none", !.frame_duration = 0,
            !.frame_number = @ + 1,
            !.pc = IF TooBig(c.frame_number + 1) THEN "stopped" ELSE "records"]
NextImageKeepingDelay(c) ==
  LET disposed == GIFDisposeFrame(c.orig_dispose, c.gif_rect, c.prev_canvas,
                                  c.curr_canvas)
  IN  [c EXCEPT !.curr_canvas = disposed, !.prev_canvas = disposed,
                !.frame_timestamp = Int32(@ + ShownDuration(c.frame_duration)),
                !.orig_dispose = "none", !.frame_number = @ + 1,
                !.pc = IF TooBig(c.frame_number + 1) THEN "stopped"
                                                     ELSE "records"]

(* c after its canvas was added *)
NextImage(c) ==
  LET disposed == GIFDisposeFrame(c.orig_dispose, c.gif_rect, c.prev_canvas,
                                  c.curr_canvas)
  IN  [c EXCEPT !.curr_canvas = disposed, !.prev_canvas = disposed,
                !.frame_timestamp = Int32(@ + ShownDuration(c.frame_duration)),
                !.orig_dispose = "none", !.frame_duration = 0,
                !.frame_number = @ + 1,
                !.pc = IF TooBig(c.frame_number + 1) THEN "stopped"
                                                     ELSE "records"]

(* The rest of the image record: WebPAnimEncoderAdd, disposal and the      *)
(* defaults for the next image.                                            *)
AddImage(w) ==
  /\ conv[w].pc = "adding"
  /\ \E e \in Added(conv[w].options, enc[w], conv[w].curr_canvas) :
       enc' = [enc EXCEPT ![w] = e]
  /\ given' = [given EXCEPT ![w] =
       Append(@, [canvas |-> conv[w].curr_canvas,
                  timestamp |-> conv[w].frame_timestamp])]
  /\ conv' = [conv EXCEPT ![w] = NextImage(@)]
  /\ transparent_index' = GIF_INDEX_INVALID
  /\ UNCHANGED <<file, abandoned>>

-----------------------------------------------------------------------------
(* The end of a conversion leaves transparent_index as it is. *)
End(w, pc) ==
  /\ conv' = [conv EXCEPT ![w].pc = pc]
  /\ abandoned' = (abandoned \/ transparent_index # GIF_INDEX_INVALID)
  /\ UNCHANGED <<transparent_index, enc, file, given>>

(* goto End: a record cannot be read, an index has no colour, an image has *)
(* no size or lies outside the canvas, or the canvas cannot be added       *)
Stop(w) ==
  /\ conv[w].pc \in {"records", "adding"}
  /\ End(w, "stopped")

(* Mutant of LoopCount: the GIF's count is stored as it is. *)
GifLoopCount(c) ==
  IF c.stored_loop_count THEN c.loop_count
  ELSE IF c.frame_number > 1 THEN 1 ELSE 0

(* the loop count to be stored, if any, with WebP's meaning *)
LoopCount(c) ==
  IF ~c.stored_loop_count THEN IF c.frame_number > 1 THEN 1 ELSE 0
  ELSE IF 0 < c.loop_count /\ c.loop_count < 65535 THEN c.loop_count + 1
  ELSE c.loop_count

(* Whether the assembled file is an animation: a single frame is turned    *)
(* into a still image if that is smaller (OptimizeSingleFrame).            *)
IsAnimation(e) == IF e.out_frame_count > 1 THEN {TRUE} ELSE {TRUE, FALSE}

(* The trailer: the NULL frame, WebPAnimEncoderAssemble, the loop count.   *)
(* Without an image there is no encoder and nothing to assemble.           *)
Terminate(w) ==
  /\ conv[w].pc = "records"
  /\ \/ /\ conv[w].frame_number = 0
        /\ End(w, "stopped")
     \/ /\ conv[w].frame_number > 0
        /\ \E animation \in IsAnimation(enc[w]) :
             End(w, IF LoopCount(conv[w]) # 0 /\ ~animation
                    THEN "no_anim_params" ELSE "converted")

Next ==
  \E w \in Workers :
    \/ Open(w)
    \/ \E e \in Extensions : GraphicsExtension(w, e)
    \/ \E n \in LoopCounts : LoopExtension(w, n)
    \/ \E im \in Images : ReadImage(w, im)
    \/ AddImage(w)
    \/ Stop(w)
    \/ Terminate(w)

Spec == Init /\ [][Next]_vars

-----------------------------------------------------------------------------
(* Properties *)

Rects == [x : Int, y : Int, w : Int, h : Int]
Ints == -(IntMod \div 2)..(IntMod \div 2 - 1)

Conversions ==
  [pc : Ends \cup {"records", "adding"}, options : Options,
   frame_duration : Nat, frame_timestamp : Ints, orig_dispose : Disposals,
   frame : Canvases, curr_canvas : Canvases, prev_canvas : Canvases,
   gif_rect : Rects, frame_number : Nat, loop_count : UInt16,
   stored_loop_count : BOOLEAN]

TypeOK ==
  /\ transparent_index \in Colors \cup {GIF_INDEX_INVALID}
  /\ conv \in [Workers -> Conversions]
  /\ \A w \in Workers :
       /\ enc[w].prev_canvas \in Canvases /\ enc[w].shown \in Canvases
       /\ enc[w].prev_rect \in Rects /\ enc[w].out_frame_count \in Nat
       /\ enc[w].is_first_frame \in BOOLEAN
       /\ file[w].gce \in Extensions \cup {NoExtension}
       /\ file[w].loop \in LoopCounts \cup {-1}
       /\ Len(file[w].images) <= MaxImages
       /\ given[w] \in Seq([canvas : Canvases, timestamp : Ints])
  /\ abandoned \in BOOLEAN

(* What a GIF viewer has on its screen when an image has been drawn over   *)
(* what was there before, and what it leaves there, following the GIF      *)
(* format image by image rather than canvas by canvas.                     *)
DrawnOver(image, before) ==
  [p \in Pixels |-> IF p \in Area(image.rect) /\ image.picture[p] # CLEAR
                    THEN image.picture[p] ELSE before[p]]

LeftBy(image, before) ==
  LET drawn == DrawnOver(image, before) IN
  [p \in Pixels |->
     IF p \notin Area(image.rect) \/ image.dispose = "none" THEN drawn[p]
     ELSE IF image.dispose = "background" THEN CLEAR ELSE before[p]]

Viewed(images) ==
  LET after[k \in 0..Len(images)] ==
        IF k = 0 THEN ClearCanvas ELSE LeftBy(images[k], after[k - 1])
  IN  [k \in 1..Len(images) |-> DrawnOver(images[k], after[k - 1])]

(* The canvases given to the encoder are what a viewer of the GIF shows,   *)
(* whatever series of disposals, rectangles and transparent pixels led     *)
(* there (gif2webp.c:167-179 keeps two canvases and copies parts of them). *)
(* Images without any colour map have no defined look.                     *)
CanvasesAsViewed ==
  \A w \in Workers :
    (\A k \in 1..Len(file[w].images) : file[w].images[k].map)
    => \A k \in 1..Len(given[w]) :
         given[w][k].canvas = Viewed(file[w].images)[k]

(* From each canvas of K, a set of numbers of additions, the pixel p comes *)
(* to the last canvas given by steps that are each too small to be sent,   *)
(* over other canvases of K; without lossy frames no change is too small.  *)
(* Colours that count as the same step by step may differ altogether.      *)
DriftsToLast(w, p, K) ==
  LET last == Len(given[w]) IN
  /\ last \in K
  /\ \A i \in K \ {last} : \E j \in K :
       /\ i < j
       /\ ComparePixels(~consider_lossy(conv[w].options),
                        given[w][i].canvas[p], given[w][j].canvas[p])

(* What a player of the WebP file shows after each addition, merged ones   *)
(* included, is the canvas that was added, but for pixels that have        *)
(* changed since they were sent only by steps too small to be sent: the    *)
(* rectangles, the blending, the disposal and the merging of all frames    *)
(* together never leave on the screen what was overwritten, cleared or     *)
(* taken for transparent (anim_encode.c:1110-1170).  In a lossless         *)
(* animation the player shows the canvas itself.                           *)
PlayerShowsCanvas ==
  \A w \in Workers : given[w] # <<>> =>
    \A p \in Pixels : \E K \in SUBSET (1..Len(given[w])) :
      /\ DriftsToLast(w, p, K)
      /\ \E k \in K : enc[w].shown[p] = given[w][k].canvas[p]

(* A frame of a WebP animation has even offsets, is not empty and lies     *)
(* within the canvas (WebPMuxPushFrame refuses others); the player state   *)
(* above would not notice an odd offset.                                   *)
RectsLegal ==
  \A w \in Workers : ~enc[w].is_first_frame =>
    LET r == enc[w].prev_rect IN
    /\ r.x % 2 = 0 /\ r.y % 2 = 0 /\ r.x >= 0 /\ r.y >= 0
    /\ r.w > 0 /\ r.h > 0 /\ r.x + r.w <= Width /\ r.y + r.h <= Height

(* Each canvas is given for exactly the time its own image asked for, 100  *)
(* ms standing for anything up to 10 ms, and stays so when the int         *)
(* frame_timestamp wraps around: the encoder subtracts timestamps as       *)
(* uint32_t (gif2webp.c:181-196, anim_encode.c:1348-1350).                 *)
DurationsKept ==
  \A w \in Workers : \A k \in 1..Len(given[w]) :
    LET next == IF k < Len(given[w]) THEN given[w][k + 1].timestamp
                                     ELSE conv[w].frame_timestamp
    IN  (next - given[w][k].timestamp) % IntMod
          = ShownDuration(file[w].images[k].delay) % IntMod

(* The WebP animation plays as often as the GIF: once without an           *)
(* extension, for ever for a count of 0, else once more than the last      *)
(* count says, as far as 16 bits allow (gif2webp.c:291-306).  Only a GIF   *)
(* that became a single frame can fail for its loop count.                 *)
LoopsAsGif ==
  \A w \in Workers :
    LET n == file[w].loop
        plays == IF n = -1 THEN 1 ELSE IF n \in {0, 65535} THEN n ELSE n + 1
    IN  /\ conv[w].pc = "converted" /\ enc[w].out_frame_count > 1 =>
             LoopCount(conv[w]) = plays
        /\ conv[w].pc = "no_anim_params" => enc[w].out_frame_count = 1

(* No conversion gives the encoder more than MAX_GIF_DATA pixels and one   *)
(* canvas, as long as an int can hold that number (gif2webp.c:198).        *)
DataLimited ==
  MAX_GIF_DATA + Width * Height < IntMod \div 2 =>
    \A w \in Workers :
      Len(given[w]) * Width * Height <= MAX_GIF_DATA + Width * Height

(* An image is decoded with the transparent index of its own extension, or *)
(* none ("Opaque by default", gif2webp.c:16, and the reset at 192-197).    *)
OwnTransparency ==
  \A w \in Workers : \A k \in 1..Len(file[w].images) :
    file[w].images[k].used = file[w].images[k].own

(* The same for one worker, as long as every file read so far went on to   *)
(* an image after each extension that names a transparent index: then the  *)
(* reset for the next image is enough.                                     *)
OwnTransparencyUnlessAbandoned == abandoned \/ OwnTransparency

(* The note at gif2webp.c:293-295: the loop count of a single frame need   *)
(* not be stored; so it cannot be what makes the conversion fail.          *)
LoopCountNotNeeded == \A w \in Workers : conv[w].pc # "no_anim_params"
=============================================================================
