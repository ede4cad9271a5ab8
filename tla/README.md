# Verification of kwebp

kwebp is an extension module of the kangle web server.  It converts images in
HTTP responses to WebP on the fly, for clients that accept it.  This directory
holds TLA+ models of the module, the TLC configurations that check them, and
theorems about them with proofs checked by TLAPS.  Source paths below are
relative to the repository (`src/push_gate.c` is the response filter); line
numbers are those of the commit the models were written from.

## 1. The system

### Components

| component | files | state | operations |
|---|---|---|---|
| access mark | `access.c`, `mark.h` | `webp_mark`: quality, max_length, config | `parse`, `process` (creates the `webp_context` of a request and registers the upstream) |
| vary handler | `vary.c` | none | `build_vary` (cache key of a request), `response_vary` |
| response filter ("push gate") | `push_gate.c`, `upstream.c`, `upstream.h` | `webp_context`: flags, saved headers, `u`, downstream body | `push_status`, `push_header`, `push_unknow_header`, `push_header_finish`, `kwebp_write`, `kwebp_close`, `handle_error`, `free_ctx` |
| collecting buffer | `push_gate.c`, `upstream.h` | `webp_buffer`: data, used, left | `add_buff_data`, `realloc_buffer`, `buffer_destroy` |
| picture decoding and encoding | `webp_encode.c`, `unix_encode.c` | `u.picture` / `u.gif_data`, `is_gif` | `webp_read_picture`, `webp_encode_picture`, `webp_picture_writer` |
| GIF conversion | `gif2webp.c` | canvases, timestamps, `static transparent_index` | one pass over the GIF's records |
| GIF decoding | `gifdec.c` | none | frame reading, disposal, blending, extensions |
| animation encoder | `anim_encode.c` | `WebPAnimEncoder`: window of cached frames, key-frame counters | `WebPAnimEncoderAdd`, `WebPAnimEncoderAssemble` |
| Windows decoding | `win_encode.c` | none | `WindowsReadPicture` |
| registration, build | `main.c`, `CMakeLists.txt`, `ext/` | none | |

### How they interact

For each request kangle calls `process`; if the mark applies, the module
becomes an upstream in front of the real one.  `webp_open` opens the real
upstream with the push gate as its output stream.  The real upstream pushes
status, headers and the end of the headers; the gate forwards or withholds
each, and at `push_header_finish` either hands over the downstream's body
(the response passes) or its own (the body is collected).  In the second case
`kwebp_close` decodes the collected image, sends the header and lets the
encoder write to the downstream through `webp_picture_writer`.  If the
ordinary decoder fails and the build has GIF support, `gif2webp` decodes the
GIF, drives the animation encoder and leaves the finished file in
`u.gif_data`.  `free_ctx` ends the request at any time.

All calls of one request are sequential; requests share nothing but the static
`transparent_index` of `gif2webp.c` and the server's cache.  So inside one
request the hard part is order and failure: header lines in any order, chunks
of any size, a downstream that fails after some output, an image that turns
out undecodable after its header has been withheld, an encoder that decides
about a frame several frames later, and sub-frames that rely on everything a
player has been shown before.  Between requests it is the two shared things: an
object fetched for one client and served to another, and a variable that one
conversion leaves set for the next.

### What makes each component correct

* buffer: no copy outside the allocation, a bounded size, no overflow of `int`,
  nothing collected is lost.
* gate: only complete images of a 200 response are converted; the client always
  gets a consistent header (type, length, Vary) for what is sent; the Vary mark
  `|webp` is on exactly the responses that depend on the client; each block of
  memory has one owner; a started conversion ends with a close.
* animation encoder: each canvas is shown for its time; each sub-frame is
  decodable over the frame before it; a player shows the canvas that was added,
  but for changes too small to be sent; frame rectangles are legal; the window
  stays in its array; key frames keep their distance and never stop coming.
* vary and access: no WebP object is served to a client without support, and no
  client with support is stuck with the original fetched for another.
* GIF conversion: the canvases given to the encoder are those a GIF viewer
  shows, for the time the GIF asks; the animation repeats as often as the GIF; a
  conversion does not depend on an earlier one; its size is limited.

## 2. Modules and their correspondence to the code

`WebpBuffer` - the record `buff` is `webp_buffer`, with the size of the
allocation added (`size = 0` is `data == NULL`).  `WriteOK` and `WriteRefused`
are the two results of `kwebp_write`; the operators under them are the steps of
`add_buff_data`.  A failing allocator is a nondeterministic choice, in the
preallocation as well as in the growth.

`PushGate` - one request.  `webp` holds the flags and saved headers of
`webp_context`; `buff` and `content_length` are the state of an instance of
`WebpBuffer`, whose actions are part of `KwebpWrite`; `heap` counts the live
blocks of each owning field; `up` and `out` are histories of what the upstream
pushed and what the downstream received.  `phase` is the upstream's program
counter and restricts it to kangle's protocol: a status, headers, the end of
the headers, a body, a close.  One action is one callback with everything it
calls.  `kwebp_close` alone is split, at each piece `WebPEncode` writes,
because there the downstream may fail.  Decoder and encoder are external and
may succeed or fail.  A Vary value is abstracted to the set of its tokens, a
content type to a model value.

`ImageAnswer` - what the filter promises about one answer: which heads it may
send to which client (`HeadAllowed`) and which bytes after which head
(`BodyAllowed`).  `ImageResponse` is the abstract filter that keeps this promise
in the order head, bytes of one kind, close.  `PushGate` instantiates it with
the head, the body and the close that the downstream has received
(`AnswerHead`, `AnswerBody`, `out.closed`), and `ImplementsAnswer` is its
specification under that mapping.  `WebpCache` uses the same `ImageAnswer` for
what comes out of the filter, so that the two fit together without running all
of `PushGate` for each request.

`AnimEncoder` - `enc` is the `WebPAnimEncoder` with the cached frames from
`start_` on as the sequence `frames`; `mux` is what was pushed.  One action is
one call of `WebPAnimEncoderAdd` along one path of `CacheFrame` (first frame,
skipped, sub-frame only, both candidates), with `IncreasePreviousDuration`
before and `FlushFrames` after it.  Pixels are abstracted: a canvas is a
value, `Similar` says when the change rectangle is empty, a rectangle is named
by the frame and variant it belongs to, the sizes of the two candidates are a
penalty, and which disposal makes the smaller rectangle is a free choice where
the code allows both.  The client follows `gif2webp`: it stops at the first
canvas that cannot be added, but assembles even if the NULL frame fails
(`gif2webp.c:281-289`).  Options other than the defaults that `gif2webp`
uses are part of the encoder's interface and are included.  When the assertion
of `GetFrame` fails the program stops (`phase = "overrun"`): the build leaves
assertions on, and without them the access would be outside the array.  The
assertion on two equal durations in `IncreasePreviousDuration` (952-953) does
not stop the model: after a state in which it would fail (see the observations
of section 3) the behaviours are those of a build without assertions, for which
the properties hold all the same.

`AnimRender` - the pixels that `AnimEncoder` leaves out, as operators without
state: the change rectangle and its snapping to even offsets, the two kinds of
blending, the two disposals of the previous frame, the candidates `SetFrame`
compares, and a player of the result.  `Added` gives everything that may become
of an encoder when a canvas is added.  Key frames are off, as in `gif2webp`.
Which candidate becomes the smallest is up to the bitstreams and is a free
choice; a coded picture decodes to itself.

`GifAnim` - workers that each convert one GIF after another, with `AnimRender`
as their encoder.  `conv` holds the locals of the record loop, `enc` the
encoder, and `transparent_index` is one variable for all workers, as in the
code.  The file is the environment: at each step it may present a graphic
control extension, a loop count, an image, the trailer, or a record that stops
the conversion.  One action is one record, except that an image is split in
two: `ReadImage` reads `transparent_index`, `AddImage` adds the canvas,
disposes, and resets it.  Between the two another worker may write it.  `file`
and `given` are histories, of what the GIF said and of what the encoder got;
`Viewed` computes from the first, image by image, what a GIF viewer shows.

`WebpCache` - requests around the server's cache.  `Process` is `process` of
`access.c`, `BuildVary` is `build_vary`, `AnswerFiltered` is an answer of the
filter and `Renew` its 304.  The cache belongs to kangle, not to this
repository; it is modelled by what the module's code supposes of it: an object
without the mark `|webp` is for everybody, a marked one for requests with the
same key, and a renewed object has the mark that the 304 carries.  It stores
and drops at will.  `blind` is a history: a renewal could not see the mark.

Definitions named as mutants are wrong variants of the definition that follows
them, used only to show that a property can fail; no specification refers to
them.

`MC...` modules give the constants their values.  `WebpBuffer_proof`,
`PushGate_proof`, `PushGateAnswer_proof`, `WebpCache_proof` and `GifAnim_proof`
hold the theorems about the modules they are named after, and
`AnimRender_proof` the lemmas about the encoder's pixels that `GifAnim_proof`
rests on.  About `AnimEncoder`, `AnimEncoder_proof` says what the steps of one
addition do to an encoder, and `AnimInvariant_proof`, which extends it, has the
invariants of a whole series of additions and the theorems.

Which module uses which:

    PushGate  --instance-->  WebpBuffer     (kwebp_write collects into it)
    PushGate  --instance-->  ImageResponse  (refinement mapping)
    ImageResponse, WebpCache  --extend-->  ImageAnswer
    GifAnim   --extends-->   AnimRender     (each worker has an encoder)
    AnimEncoder              (the same encoder: window and time, no pixels)

## 3. What the runs check

| run | configuration | shows |
|---|---|---|
| buffer | `WebpBuffer.cfg` | `InBounds`, `BoundedGrowth`, `NoIntOverflow`, `AppendOnly`, `TypeOK` |
| gate | `PushGate.cfg` | seven safety invariants, `TypeOK`, `EncodingCloses`, and that the gate implements `ImageResponse` |
| gate_fallback | `PushGateFallback.cfg` | a violation: an undecodable image is lost |
| gate_vary | `PushGateVary.cfg` | a violation: the second of two Vary lines is lost |
| gate_no_gif | `PushGateNoGif.cfg` | a violation: a freed picture is still owned, without `WEBP_HAVE_GIF` |
| anim_timeline | `AnimEncoder.cfg` | `TimelineKept`, `TypeOK` |
| anim_window | `AnimEncoderKeys.cfg` | `SubFramesDecodable`, `RoomForNext`, `KeyframeIndexed`, `KeyFramesRecur` |
| anim_overrun | `AnimEncoderWindow.cfg` | a violation of the assertion in `GetFrame` (`anim_encode.c:343`) |
| gif | `GifAnim.cfg` | seven safety invariants and `TypeOK` for one worker: canvases, player, rectangles, durations, loop count, size, transparency |
| gif_stale | `GifAnimStale.cfg` | a violation: an image is decoded with another GIF's transparent index |
| gif_single | `GifAnimSingle.cfg` | a violation: a conversion fails for a loop count it does not need |
| cache | `WebpCache.cfg` | `WebpOnlyToSupporting`, `OwnKind`, `TypeOK` |

### Disagreements found

Each is between the code and a comment or an assertion of the repository; the
runs above that expect a violation show them.

1. When the image cannot be decoded, `kwebp_close` sends a header without a
   body and drops the collected bytes.  The code that would send them,
   in `begin_response` (`push_gate.c:316-331`), is unreachable.
2. Only the first Vary line of the upstream is sent back.
3. Without `WEBP_HAVE_GIF` a failed decoding leaves `u.picture` dangling, and
   `free_ctx` frees it again.  The CMake build does not define
   `WEBP_HAVE_GIF`.
4. Merged canvases whose total duration reaches `MAX_DURATION` (2^24 ms) take a
   second slot of the encoder's window; with the default options it has none
   for the frame being added.  `RoomForNext` shows that windows with more than
   two slots are not affected.
5. `transparent_index` is static (`gif2webp.c:16`).  A conversion that stops
   between an extension and its image leaves it set for the first image of the
   next GIF, and a conversion on another thread may write it between the
   extension and the image of this one.  `OwnTransparencyUnlessAbandoned` shows
   that a single thread whose files are all complete is not affected.
6. A GIF that ends up as a single frame may become a still image, which has no
   animation parameters; if it has a loop extension the conversion then fails
   (`gif2webp.c:318`), although the comment at 293-295 says the count is not
   needed.  `LoopsAsGif` shows that nothing else fails for its loop count.

Three observations without a run:

* `max_length` is not a limit on what is collected.  It is compared only when
  the buffer must grow, and growth rounds up to twice the used bytes; the real
  bound is `Align(2 * max_length)` (theorem `GrowthBounded`).
* The 1x1 frame that `IncreasePreviousDuration` inserts for a split duration
  gets its duration as a sub-frame only (`anim_encode.c:989`).  If the canvas
  being added is skipped, that frame stays the last one, and the next addition
  asserts that its two durations are equal (952-953), which fails.  With default
  options disagreement 4 stops the program first; a window of three slots gets
  there: add a canvas, add it again until the merged duration is split, and add
  any other.  `TimelineKept`, whose run includes such windows, shows that without
  the assertion no duration would be lost.
* An original that carries the mark is sent the upstream's Vary tokens twice,
  once with the mark and once alone (`push_gate.c:246-275`).  That changes
  nothing for a cache, and `HeadersPreserved` compares the tokens of all Vary
  lines together; of the content type it also says that there is one line.

### Bounds and why they are enough

* Buffer: no bound on the number of writes; sizes lie on both sides of the page
  size and of the limit, so that every branch (fits, grows to the exact size,
  grows to the rounded size, refused, preallocated or not) is taken from every
  state.
* Gate: `MaxHeaders = 3` header lines, which is enough for any two withheld
  lines around the deciding one and for repetitions; `MaxWrites = 3` chunks
  and pieces: the first preallocates, the second grows, the third is refused.
* Encoder, timeline: five canvases, three durations with `MAX_DURATION = 3`,
  so that merging, splitting and a timestamp too far ahead all occur; three
  canvases of which the outer ones are not similar, so that drift would show;
  all kinds of options.
* Encoder, window: ten canvases and windows of two to five slots.  A key frame
  can only be demoted after a frame was encoded over it with four slots, and a
  window can only start at another slot than 0 with five; both occur.
  `INT_MAX = 20` stands for an unreachable number of frames.
  Ten canvases are more than a round of each option and two of `kmax = 5`, so
  that a key frame that fails to come in the second is missed.
* GIF: a canvas of 3 x 2 pixels, so that rectangles start at odd and at even
  offsets and touch the right edge, where an even size does not fit; four
  colours, of which 1 and 2, and 2 and 3, but not 1 and 3, count as the same in
  lossy encoding, so that a pixel can drift to an altogether different colour
  without ever being sent, in three images; images that are
  full, partial, one pixel large, and without a colour map; each disposal, with
  and without a transparent index; delays on both sides of 10 ms.  Up to
  `MaxImages = 4` images: an image disposed to the previous canvas may follow
  one that was cleared and be followed by two that are blended over it, and
  `MAX_GIF_DATA = 13` stops a file after the third (3 * 6 > 13).  Ints wrap at
  `IntMod = 256`, which sums of the delays reach.  `BlockSize = 1` lets lossy
  flattening happen on so small a canvas.  Two images suffice for a single
  file to disagree about transparency, one for two workers.
* Cache: two requests of any of three clients (without WebP, with it, and with
  an Accept header longer than the buffers it is read into) and two URLs, one
  of which asks for no conversion.  A property is about what one client had
  stored and another is served, which takes two requests; `MaxObjects = 1`,
  since properties relate one object and one request.  The theorems cover any
  number of each.

### Deadlock and fairness

A request of `PushGate` and an encoder of `AnimEncoder` end, so their runs do not
check for deadlock; all others do.
Fairness is assumed for `Encode` only, weakly: once `kwebp_close` has called
`webp_encode_picture` the thread runs on by itself, `WebPEncode` writes finitely
often (`MaxWrites`) and returns.  Nothing is assumed of the upstream, which may
stop calling at any time.  A conversion of a GIF is driven by the records of the
file, which may be of any length, so no progress is claimed of it.

## 4. What is proved

TLAPS proves, for every value of the constants that satisfies the assumption of
the module:

* `WebpBuffer_proof`: `TypeCorrect`, `MemcpyInBounds`, `GrowthBounded`,
  `IntsSuffice`, `OnlyAppends`.  The inductive invariant adds to the checked
  invariants that the size never exceeds `Capacity` and that what is announced
  never exceeds the limit.  `BoundedGrowth` needs it because a growth is
  measured in the used bytes, which are bounded only through the size.
  `IntsSuffice` is stated under an explicit hypothesis on `IntMax`: twice the
  limit plus a page, and the capacity plus the largest chunk, must be
  representable.  The default limit of 16 MiB satisfies it with 32-bit
  integers; a limit set close to `INT_MAX` does not.
* `PushGate_proof`: `TypeCorrect`, `TakesOnlyConvertible`, `WholeImageEncoded`
  and, for builds with GIF support, `MemoryOwned`.  The inductive invariant
  `IInv` has four parts besides the types: `Fresh` (nothing is collected before
  the gate takes the body), `Undecided` (what the flags say while headers
  arrive), `GateTakesOnlyConvertible`, and `Taken` (collected bytes equal pushed
  bytes until a chunk is refused).  `GateTakesOnlyConvertible` is not inductive
  alone: what holds at the end of the headers depends on each line pushed
  before.

* `PushGateAnswer_proof`: `MarkedAsTable`, `GateImplementsAnswer`,
  `ConvertedLabelled`, `LengthKept`, `UpstreamLinesKept`, about any number of
  header lines in any order.  They rest on three more inductive invariants, on
  top of `IInv`.
  `AInv` says where an answer stands: nothing has reached the downstream yet
  (`Unanswered`), the flags of `webp_context` reflect the type lines seen
  (`ImagesSeen`), the head that was sent is one the contract allows
  (`Answered`), and the bytes sent are of its kind (`BodyKinds`).
  The refinement follows from it action by action: an action either sends the
  finished head, or bytes and a close, or changes nothing the mapping shows.
  `LInv` follows header lines from where they are withheld to where they come
  back (`Kept`, `Labelled`): what is proved of the sent lines needs what is
  known of the withheld ones.
  `HInv` says where the upstream's own type and Vary are while nothing is
  decided: in a forwarded line or in the context (`TypeHeld`, `VaryHeld`), so
  that the finished head has them in either case.  `HeadersPreserved` alone is
  about the finished head only and says nothing of the lines before it.
  `VaryHeld` supposes that the upstream does not repeat the line, as the property
  does: the context keeps one value (disagreement 2).
* `WebpCache_proof`: `CacheTypeCorrect`, `WebpKeptFromOthers`, `OwnKindServed`,
  for any number of requests, URLs and objects.  The inductive invariant says
  of every object in the cache, and of the one a request holds to renew it,
  that WebP implies the mark, that an image from the filter that has a body is
  marked unless it is for everybody, and that the key of a marked object is
  that of the client it was fetched for (`Good`); of a served object it says
  that it suits its client (`Suits`); all of it unless `blind`.  The held object
  must be included because it may have left the cache before it is renewed.
* `GifAnim_proof`: `GifTypeCorrect`, `TimesKept`, `SizeLimited`, `LoopsCarried`,
  `RectanglesLegal`, `PlayerFaithful`, `CanvasesViewed` for any number of workers,
  images and records, any screen and any width of `int`.  The inductive invariant is a
  statement about one worker (`WorkerInv`), which the others do not disturb:
  they share only `transparent_index`, which it does not mention.  `Timed` says
  besides `DurationsKept` where the delay of the next image stands;
  `Limited` that a conversion that goes on is still below the limit.
  - `PlayerFaithful` holds for any relation `Alike`, transitive or not, and all
    options.  Since lossy encoding does not send a pixel that is similar to the
    one before it, small steps add up: what a player shows need not be similar to
    the canvas added last.  What holds, and is the statement, is that a pixel
    shows the colour it had in some canvas, from which it came to the one of the
    last canvas by steps of which none was large enough to be sent
    (`DriftsToLast`); without lossy frames there are no such steps and the canvas
    is shown exactly.  `PixelKept` says this between additions, with
    `prev_canvas` at the end of the steps: a skipped canvas is similar to
    `prev_canvas` and leaves it, so that the next comparison is with a canvas
    that a chain already reaches.  `AnimRender_proof` has one addition: each
    pixel is drawn as in the new canvas, or is similar there to what it was in
    `prev_canvas` and stays what a player shows (`Kept`, `AddedShows`).  A
    candidate sends a rectangle that covers all pixels that differ
    (`SubRectsCover`), and what blending leaves out is similar (`BlendedKept`).  Key
    facts on the way are that `Min` and `Max` of the pixels exist
    (`MinLeast`, from the well-founded order of the naturals) and that growing
    to even offsets stays inside the canvas (`SnappedCovers`).
  - `CanvasesViewed` rests on `VInv`: there are screens `d[0]`, `d[1]`, ... of a
    viewer such that every canvas given is its image drawn over the screen
    before it, and `prev_canvas` is the last screen, so that keeping it and
    disposing it (`gifdec.c`) are the viewer's own disposals
    (`DisposedScreen`, `BlendedScreen`).  That these screens are those of
    `Viewed` needs that its recursive function exists and is the only one with
    its equation; both are proved by the least number at which they would fail
    (`RecursAt`, `ViewedScreens`).
  - `OwnIndexUsed` is about one worker, with `OwnIndex` as its invariant:
    while records are read, `transparent_index` is that of the last extension,
    and between files it is unset unless one was abandoned.

* `AnimInvariant_proof`: every property of the encoder that a run checks, for any
  canvases, durations, sanitized options and number of additions.  `Similar` need
  not be symmetric or transitive; a canvas only has to be similar to itself.
  - `EncoderTypeOK`, `EncoderSubFramesDecodable`, `EncoderKeyframeIndexed` follow
    from `IInv`.  Its core is `Sound`: the frames that are flushed or cached, each
    in the variant chosen so far, are decodable (`Decodable`), and if the key frame
    chosen last is demoted they still are (`Demotable`); for that, neither
    the frame that may be demoted nor the last cached one has a disposal yet
    (`Pointed`, `LastCached`).
    Decodability alone is not inductive, since a demotion changes what is shown
    long after it was encoded.  In the middle of an addition the weaker `Ready`
    holds: there may be two key frames, of which flushing takes one.  `IInv` also
    bounds the elapsed time by the number of canvases, without which the average
    that the assembly gives the last frame might reach `MAX_DURATION`.
  - `EncoderRoomForNext` rests on `WInv`.  `RoomLeft` bounds the used slots by the
    position in the round, `count_since_key_frame - kmin`, and says that no
    penalty is compared before the round is `kmin` long: as `best_delta` starts
    anew, the first candidate always wins and lets the frames before it go.
  - `EncoderKeyFramesRecur` rests on `KInv`, about the positions of all key frames,
    flushed or cached: neighbours have a legal `Distance`, and the last of them is
    either the key frame of an earlier round, near the round's end
    (`KeyOfRound`), or the candidate of this one (`Candidate`).  Both lie in the
    newest `kmax` frames (`RoundsRecent`), so that key frames never stop; when
    the round's counter is gone, after the assembly, `Regular` still says so.
  - `EncoderTimelineKept` rests on `TInv`: what is shown and what was given
    agree in each millisecond (`Resembles`), and the canvas shown last is similar
    to the one given last, which has no duration yet.  The second part makes the
    time of the next addition go to the right canvas on both sides.  `Timeline`
    joins its parts with `FlattenSeq`, which is recursive; its function is shown to
    exist, to be unique and to grow with the sequence (`Flattens`).

The library's induction theorems cannot be used with the installed provers, since
they take an operator as a parameter.  Where a recursive function is part of a
property, the proofs use instead that a set of naturals has a least element: if the
function's equation failed somewhere, it would fail at a least number, and does not.

Only model-checked:

* `EncodingCloses`, as liveness: TLAPS has no support for `ENABLED`, on which
  fairness rests.
* The disagreements of section 3.  A counterexample is a single behaviour, so
  there is nothing to prove.

Every other property of a run is also the statement of a theorem.

## 5. Not modelled

* The bitstreams: JPEG, PNG, TIFF, LZW and WebP data.  Outside this repository;
  a decoder or an encoder succeeds or fails, and a coded frame decodes to the
  picture that was coded.  In lossy encoding the real picture deviates.  How
  far apart two colours may be to count as the same (`PixelsAreSimilar`, which
  depends on the quality and is not transitive) is left to the instance, as the
  relation `Alike`.
* GIF metadata (ICC, XMP) and the background colour, which influence nothing
  that is modelled; a sub-image without an area, which takes the size of the
  screen and so is a full image or, at an offset, refused like other bad records
  (`Stop`).  Images without any colour map are modelled but have no defined look, so `CanvasesAsViewed`
  leaves files with one out.
* `push_trailer`, which forwards; the flush and sendfile callbacks, which
  answer constants; `OptimizeSingleFrame` beyond the choice whether the file is
  still an animation.
* `build` and `parse` of `access.c`, which print and read the configuration:
  the other modules take any limit.  `response_vary`, which writes a constant.
* The cache of kangle itself.  That it behaves as described above is an
  assumption.  A failed conversion leaves an answer without the mark and
  without a body; whether such an answer is cached, and then given to every
  client, depends on kangle.  `OwnKind` therefore speaks of answers with a body.
* `WebPAnimEncoderRefineRect`, which this program does not call.
* `win_encode.c`: a straight sequence of COM calls, without state that outlives
  the call; `PushGate` uses its result, which is a free choice.  `main.c` only
  registers the two handlers.

## 6. Plan

Done: all modules of section 2 with their runs, and proofs of every invariant and
action property that a run checks, and of the refinement.

Next:

1. An abstract encoder that only keeps a timeline of canvases, and `AnimEncoder`
   shown to implement it, from `IInv` and `TInv`: an addition appends, and what a
   player has already been sent is never taken back.
2. What an addition leaves behind when it fails: `gif2webp` does not use the
   encoder again, but its interface allows it.
