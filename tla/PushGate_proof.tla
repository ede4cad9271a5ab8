--------------------------- MODULE PushGate_proof ---------------------------
(***************************************************************************)
(* Proofs about PushGate, for every set of types, sizes and chunks.        *)
(***************************************************************************)
EXTENDS PushGate, TLAPS

(* What one kwebp_write does to the buffer, whatever it returns.           *)
LEMMA AlignNat == \A d \in Nat : Buf!Align(d) \in Nat
  BY DEF Buf!Align, Buf!PageSize

LEMMA WriteOKBuffer ==
  ASSUME TypeOK, NEW len \in Chunks, Buf!WriteOK(len)
  PROVE  /\ buff' \in Buf!Buffers
         /\ buff'.used = buff.used + len
         /\ buff.size > 0 => buff'.size > 0
         /\ content_length' = content_length
  <1>1. len \in Nat
    BY GateAssumption
  <1>2. PICK b \in Buf!Preallocated(buff) :
          /\ Buf!Fits(b, len) \/ ~Buf!TooBig(b, len)
          /\ buff' = Buf!AddBuffData(b, len)
    BY DEF Buf!WriteOK
  <1>3. /\ b \in Buf!Buffers
        /\ b.used = buff.used
        /\ buff.size > 0 => b.size > 0
    BY <1>2 DEF TypeOK, Buf!Preallocated, Buf!Realloc, Buf!Buffers
  <1>4. b.size \in Nat /\ b.used \in Nat /\ b.left \in Nat
    BY <1>3 DEF Buf!Buffers
  <1>. DEFINE new == Buf!Larger(b.used + len, Buf!Align(2 * b.used))
              grown == [b EXCEPT !.size = new, !.left = new - b.used]
              ready == IF Buf!Fits(b, len) THEN b ELSE grown
  <1>5. /\ new \in Nat /\ new >= b.used + len
    BY <1>1, <1>4, AlignNat DEF Buf!Larger
  <1>6. grown = Buf!Grown(b, len)
    BY <1>3 DEF Buf!Grown, Buf!Realloc, Buf!Buffers
  <1>7. new - b.used \in Nat /\ new - b.used >= len
    BY <1>1, <1>4, <1>5
  <1>8. buff' = Buf!Copied(ready, len)
    BY <1>2, <1>6 DEF Buf!AddBuffData
  <1>. HIDE DEF new
  <1>9. /\ grown \in Buf!Buffers
        /\ grown.size = new /\ grown.used = b.used /\ grown.left = new - b.used
    BY <1>3, <1>4, <1>5, <1>7 DEF Buf!Buffers
  <1>. HIDE DEF grown
  <1>10. /\ ready \in Buf!Buffers
         /\ ready.used = b.used
         /\ ready.left >= len
         /\ b.size > 0 => ready.size > 0
    <2>1. CASE Buf!Fits(b, len)
      BY <2>1, <1>3 DEF Buf!Fits
    <2>2. CASE ~Buf!Fits(b, len)
      <3>1. len > 0
        BY <2>2, <1>1, <1>4 DEF Buf!Fits
      <3>. QED BY <2>2, <3>1, <1>1, <1>4, <1>5, <1>7, <1>9
    <2>. QED BY <2>1, <2>2
  <1>. HIDE DEF ready
  <1>11. ready.size \in Nat /\ ready.used \in Nat /\ ready.left \in Nat
    BY <1>10 DEF Buf!Buffers
  <1>12. ready.left - len \in Nat
    BY <1>1, <1>10, <1>11
  <1>. DEFINE c == [ready EXCEPT !.left = @ - len]
  <1>13. /\ c \in Buf!Buffers /\ c.used = ready.used /\ c.size = ready.size
    BY <1>10, <1>11, <1>12 DEF Buf!Buffers
  <1>14. buff' = [c EXCEPT !.used = @ + len]
    BY <1>8, <1>10 DEF Buf!Copied, Buf!Buffers
  <1>. HIDE DEF c
  <1>15. /\ buff' \in Buf!Buffers
         /\ buff'.used = ready.used + len /\ buff'.size = ready.size
    BY <1>1, <1>11, <1>13, <1>14 DEF Buf!Buffers
  <1>. QED BY <1>3, <1>10, <1>15 DEF Buf!WriteOK

LEMMA WriteRefusedBuffer ==
  ASSUME TypeOK, NEW len \in Chunks, Buf!WriteRefused(len)
  PROVE  /\ buff' \in Buf!Buffers
         /\ buff'.used = buff.used
         /\ buff.size > 0 => buff'.size > 0
         /\ content_length' = content_length
  BY DEF TypeOK, Buf!WriteRefused, Buf!Preallocated, Buf!Realloc, Buf!Buffers

(* The header block is made of header lines. *)
LEMMA HeaderBlockType ==
  ASSUME NEW w, w.vary \in VaryValues \cup {NULL},
         w.origin_content_type \in ImageTypes \cup {NULL}
  PROVE  HeaderBlock(w) \in Seq(HeaderLines)
  <1>1. Line("Content-Type", {WEBP}) \in HeaderLines
    BY GateAssumption DEF Line, HeaderLines, ContentTypes
  <1>2. MarkLines(w) \in Seq(HeaderLines)
    <2>. DEFINE tokens == (IF w.vary = NULL THEN {} ELSE {w.vary}) \cup {MARK}
    <2>1. tokens \in SUBSET (VaryValues \cup {MARK})
      OBVIOUS
    <2>2. Line("Vary", tokens) \in HeaderLines
      BY <2>1 DEF Line, HeaderLines
    <2>. QED BY <2>2 DEF MarkLines
  <1>3. RestoredLines(w) \in Seq(HeaderLines)
    <2>1. ASSUME w.vary # NULL
          PROVE  Line("Vary", {w.vary}) \in HeaderLines
      BY <2>1 DEF Line, HeaderLines
    <2>2. ASSUME w.origin_content_type # NULL
          PROVE  Line("Content-Type", {w.origin_content_type}) \in HeaderLines
      BY <2>2 DEF Line, HeaderLines, ContentTypes
    <2>. DEFINE v == IF w.vary = NULL THEN <<>> ELSE << Line("Vary", {w.vary}) >>
                t == IF w.origin_content_type = NULL THEN <<>>
                     ELSE << Line("Content-Type", {w.origin_content_type}) >>
    <2>3. v \in Seq(HeaderLines)
      BY <2>1
    <2>4. t \in Seq(HeaderLines)
      BY <2>2
    <2>5. RestoredLines(w) = v \o t
      BY DEF RestoredLines
    <2>. HIDE DEF v, t
    <2>. QED BY <2>3, <2>4, <2>5
  <1>. QED BY <1>1, <1>2, <1>3 DEF HeaderBlock

-----------------------------------------------------------------------------
(* The lines that the upstream pushes are header lines. *)
LEMMA LineTypes ==
  /\ Line("Content-Length", {}) \in HeaderLines
  /\ Line("other", {}) \in HeaderLines
  /\ \A t \in ContentTypes : Line("Content-Type", {t}) \in HeaderLines
  /\ \A v \in VaryValues : Line("Vary", {v}) \in HeaderLines
  BY DEF Line, HeaderLines

LEMMA PushingType ==
  ASSUME TypeOK, NEW line \in HeaderLines, Pushing(line)
  PROVE  /\ phase' = "headers" /\ phase = "headers"
         /\ content_length' = content_length
         /\ up' \in Upstreams
         /\ up'.status = up.status /\ up'.bytes = up.bytes
         /\ up'.result = up.result
  <1>1. Append(up.lines, line) \in Seq(HeaderLines)
    BY DEF TypeOK, Upstreams
  <1>. QED BY <1>1 DEF TypeOK, Pushing, Upstreams

LEMMA ForwardType ==
  ASSUME TypeOK, NEW line \in HeaderLines, Forward(line)
  PROVE  /\ out' \in Outputs
         /\ out'.lines = Append(out.lines, line)
         /\ out'.finished = out.finished /\ out'.webp = out.webp
         /\ out'.orig = out.orig
  <1>1. Append(out.lines, line) \in Seq(HeaderLines)
    BY DEF TypeOK, Outputs
  <1>. QED BY <1>1 DEF TypeOK, Forward, Outputs

(* begin_response_header: what the downstream has got, by field. *)
LEMMA BeginResponseHeaderType ==
  ASSUME TypeOK, NEW w \in Contexts, NEW size \in Int, NEW result \in Results,
         BeginResponseHeader(w, size, result)
  PROVE  /\ webp' \in Contexts
         /\ out' \in Outputs
         /\ webp'.send_header
         /\ webp'.no_encode = w.no_encode /\ webp'.is_webp = w.is_webp
         /\ webp'.vary = w.vary
         /\ webp'.origin_content_type = w.origin_content_type
         /\ webp'.u = w.u
         /\ out'.orig = out.orig /\ out'.webp = out.webp
         /\ out'.status = out.status /\ out'.closed = out.closed
         /\ out'.lines = out.lines \o HeaderBlock(w)
         /\ out'.size = IF w.no_encode THEN size ELSE -1
         /\ out'.finished <=> result = OK
  <1>1. HeaderBlock(w) \in Seq(HeaderLines)
    BY HeaderBlockType DEF Contexts
  <1>2. out.lines \o HeaderBlock(w) \in Seq(HeaderLines)
    BY <1>1 DEF TypeOK, Outputs
  <1>3. (IF w.no_encode THEN size ELSE -1) \in Int
    OBVIOUS
  <1>4. (result = OK) \in BOOLEAN /\ (~w.no_encode /\ result = OK) \in BOOLEAN
    OBVIOUS
  <1>5. out' = [out EXCEPT !.lines = out.lines \o HeaderBlock(w),
                           !.finished = (result = OK),
                           !.size = IF w.no_encode THEN size ELSE -1]
    BY DEF TypeOK, BeginResponseHeader
  <1>6. out' \in Outputs
    BY <1>2, <1>3, <1>4, <1>5 DEF TypeOK, Outputs
  <1>7. webp' \in Contexts
    BY <1>4 DEF BeginResponseHeader, Contexts
  <1>. QED BY <1>5, <1>6, <1>7 DEF BeginResponseHeader, Contexts, Outputs, TypeOK

(* TypeOK and its parts, for the actions of each phase.                    *)
LEMMA HeadersType ==
  ASSUME TypeOK, PushHeader
  PROVE  TypeOK'
  <1>1. ASSUME NEW line \in HeaderLines, PushThrough(line)
        PROVE  TypeOK'
    BY <1>1, PushingType, ForwardType DEF PushThrough, TypeOK, Phases
  <1>2. CASE PushContentLength
    BY <1>2, PushingType, LineTypes DEF PushContentLength, TypeOK, Phases
  <1>3. ASSUME NEW t \in ContentTypes, KeepContentType(t)
        PROVE  TypeOK'
    <2>1. webp' \in Contexts
      BY <1>3 DEF KeepContentType, TypeOK, Contexts
    <2>2. heap' \in [Owners -> Int]
      BY <1>3 DEF KeepContentType, TypeOK, Owners
    <2>. QED BY <1>3, <2>1, <2>2, PushingType, LineTypes
             DEF KeepContentType, TypeOK, Phases
  <1>4. ASSUME NEW t \in ContentTypes, PassContentType(t)
        PROVE  TypeOK'
    <2>1. webp' \in Contexts
      <3>1. /\ (webp.is_webp \/ t \in ImageTypes) \in BOOLEAN
            /\ webp' = [webp EXCEPT !.is_webp = webp.is_webp \/ t \in ImageTypes,
                                    !.no_encode = TRUE]
        BY <1>4 DEF PassContentType
      <3>. QED BY <3>1 DEF TypeOK, Contexts
    <2>2. heap' \in [Owners -> Int]
      BY <1>4 DEF PassContentType, TypeOK, Owners
    <2>3. buff' \in Buf!Buffers
      BY <1>4 DEF PassContentType, TypeOK, Buf!Destroyed, Buf!NoBuffer, Buf!Buffers
    <2>. QED BY <1>4, <2>1, <2>2, <2>3, PushingType, ForwardType, LineTypes
             DEF PassContentType, TypeOK, Phases
  <1>5. ASSUME NEW v \in VaryValues, PushVary(v)
        PROVE  TypeOK'
    <2>1. webp' \in Contexts /\ heap' \in [Owners -> Int]
      BY <1>5 DEF PushVary, TypeOK, Contexts, Owners
    <2>. QED BY <1>5, <2>1, PushingType, LineTypes DEF PushVary, TypeOK, Phases
  <1>6. CASE PushOther
    BY <1>6, PushingType, ForwardType, LineTypes DEF PushOther, TypeOK, Phases
  <1>. QED BY <1>1, <1>2, <1>3, <1>4, <1>5, <1>6 DEF PushHeader

(* push_header_finish decides on no_encode only. *)
LEMMA HeaderFinishType ==
  ASSUME TypeOK, NEW size \in BodySizes
  PROVE  /\ HeaderFinish(size) \in Contexts
         /\ HeaderFinish(size).no_encode
              <=> webp.no_encode \/ size > MaxLength \/ ~webp.is_webp
         /\ HeaderFinish(size).is_webp = webp.is_webp
         /\ HeaderFinish(size).vary = webp.vary
         /\ HeaderFinish(size).origin_content_type = webp.origin_content_type
         /\ HeaderFinish(size).u = webp.u
  <1>1. (webp.no_encode \/ size > MaxLength \/ ~webp.is_webp) \in BOOLEAN
    OBVIOUS
  <1>. QED BY <1>1 DEF TypeOK, Contexts, HeaderFinish

LEMMA ReadSizeType ==
  ASSUME TypeOK, NEW size \in BodySizes, ReadSize(size)
  PROVE  /\ buff' \in Buf!Buffers /\ heap' \in [Owners -> Int]
         /\ content_length' \in Int /\ up' \in Upstreams
         /\ phase = "headers"
         /\ buff'.used = buff.used /\ buff'.size = 0
         /\ up'.size = size /\ up'.status = up.status
         /\ up'.bytes = up.bytes /\ up'.result = up.result
  <1>1. size \in Int
    BY GateAssumption
  <1>2. /\ up' \in Upstreams
        /\ up'.size = size /\ up'.status = up.status
        /\ up'.bytes = up.bytes /\ up'.result = up.result
    BY <1>1 DEF TypeOK, ReadSize, Upstreams
  <1>3. /\ buff' \in Buf!Buffers
        /\ buff'.used = buff.used /\ buff'.size = 0
    BY DEF TypeOK, ReadSize, Buf!Buffers
  <1>4. heap' \in [Owners -> Int]
    BY DEF TypeOK, ReadSize, Owners
  <1>. QED BY <1>1, <1>2, <1>3, <1>4 DEF TypeOK, ReadSize

LEMMA HeaderFinishStepType ==
  ASSUME TypeOK, PushHeaderFinish
  PROVE  TypeOK'
  <1>. PICK size \in BodySizes :
         \/ \E result \in {OK, EIO} : PushHeaderFinishPass(size, result)
         \/ PushHeaderFinishTake(size)
    BY DEF PushHeaderFinish
  <1>0. size \in Int
    BY GateAssumption
  <1>1. ASSUME NEW result \in {OK, EIO}, PushHeaderFinishPass(size, result)
        PROVE  TypeOK'
    <2>1. webp' \in Contexts /\ out' \in Outputs
      BY <1>0, <1>1, HeaderFinishType, BeginResponseHeaderType
         DEF PushHeaderFinishPass, Results
    <2>. QED BY <1>1, <2>1, ReadSizeType DEF PushHeaderFinishPass, TypeOK, Phases
  <1>2. CASE PushHeaderFinishTake(size)
    BY <1>2, ReadSizeType DEF PushHeaderFinishTake, TypeOK, Phases
  <1>. QED BY <1>1, <1>2

LEMMA WriteType ==
  ASSUME TypeOK, NEW len \in Chunks, KwebpWrite(len)
  PROVE  TypeOK'
  <1>0. len \in Nat
    BY GateAssumption
  <1>1. heap' \in [Owners -> Int]
    BY DEF KwebpWrite, TypeOK, Owners
  <1>2. CASE /\ Buf!WriteOK(len)
             /\ up' = [up EXCEPT !.bytes = @ + len, !.writes = @ + 1]
    <2>1. up.bytes + len \in Nat /\ up.writes + 1 \in Nat
      BY <1>0 DEF TypeOK, Upstreams
    <2>2. up' \in Upstreams
      BY <1>2, <2>1 DEF TypeOK, Upstreams
    <2>. QED BY <1>1, <1>2, <2>2, WriteOKBuffer DEF KwebpWrite, TypeOK
  <1>3. CASE /\ Buf!WriteRefused(len)
             /\ up' = [up EXCEPT !.writes = @ + 1, !.result = ENOBUF]
    <2>1. up.writes + 1 \in Nat /\ ENOBUF \in Results
      BY DEF TypeOK, Upstreams, Results
    <2>2. up' \in Upstreams
      BY <1>3, <2>1 DEF TypeOK, Upstreams
    <2>. QED BY <1>1, <1>3, <2>2, WriteRefusedBuffer DEF KwebpWrite, TypeOK
  <1>. QED BY <1>2, <1>3 DEF KwebpWrite

LEMMA ClosingType ==
  ASSUME TypeOK, NEW result \in Results, Closing(result)
  PROVE  /\ up' \in Upstreams /\ phase = "gate_body"
         /\ up'.result = result
         /\ up'.status = up.status /\ up'.bytes = up.bytes
  BY DEF TypeOK, Closing, Upstreams

LEMMA CloseType ==
  ASSUME TypeOK, KwebpClose
  PROVE  TypeOK'
  <1>. PICK header_result \in {OK, EIO} :
         \/ \E result \in Results : CloseUnconverted(result, header_result)
         \/ CloseUnreadable(header_result)
         \/ CloseConverting(header_result)
    BY DEF KwebpClose
  <1>0. header_result \in Results /\ OK \in Results /\ -1 \in Int
    BY DEF Results
  <1>1. ASSUME NEW result \in Results, CloseUnconverted(result, header_result)
        PROVE  TypeOK'
    <2>. DEFINE w == [Closed(webp) EXCEPT !.no_encode = TRUE,
                                          !.is_webp = @ /\ result = OK]
    <2>1. w \in Contexts
      <3>1. (webp.is_webp /\ result = OK) \in BOOLEAN
        OBVIOUS
      <3>2. w = [webp EXCEPT !.upstream_was_body_finish = TRUE,
                             !.no_encode = TRUE,
                             !.is_webp = webp.is_webp /\ result = OK]
        BY DEF TypeOK, Contexts, Closed
      <3>. QED BY <3>1, <3>2 DEF TypeOK, Contexts
    <2>2. BeginResponseHeader(w, -1, header_result)
      BY <1>1 DEF CloseUnconverted
    <2>. HIDE DEF w
    <2>3. webp' \in Contexts /\ out' \in Outputs
      BY <1>0, <2>1, <2>2, BeginResponseHeaderType
    <2>. QED BY <1>1, <2>3, ClosingType DEF CloseUnconverted, TypeOK, Phases
  <1>2. CASE CloseUnreadable(header_result)
    <2>. PICK read \in FailedReads :
         /\ heap' = [heap EXCEPT !["u"] = @ + read.blocks]
         /\ BeginResponseHeader([Closed(webp) EXCEPT !.u = read.u,
                                                     !.is_webp = FALSE,
                                                     !.no_encode = TRUE],
                                -1, header_result)
      BY <1>2 DEF CloseUnreadable
    <2>. DEFINE w == [Closed(webp) EXCEPT !.u = read.u,
                                          !.is_webp = FALSE,
                                          !.no_encode = TRUE]
    <2>0. read.u \in {"picture", "gif_data"} /\ read.blocks \in {0, 1}
      BY DEF FailedReads
    <2>1. w \in Contexts
      BY <2>0 DEF TypeOK, Contexts, Closed
    <2>2. heap' \in [Owners -> Int]
      BY <2>0 DEF TypeOK, Owners
    <2>. HIDE DEF w
    <2>3. BeginResponseHeader(w, -1, header_result)
      BY DEF w
    <2>4. webp' \in Contexts /\ out' \in Outputs
      BY <1>0, <2>1, <2>3, BeginResponseHeaderType
    <2>. QED BY <1>0, <1>2, <2>2, <2>4, ClosingType
             DEF CloseUnreadable, TypeOK, Phases
  <1>3. CASE CloseConverting(header_result)
    <2>. PICK kind \in ReadKinds :
         BeginResponseHeader([Closed(webp) EXCEPT !.u = kind], -1, header_result)
      BY <1>3 DEF CloseConverting
    <2>. DEFINE w == [Closed(webp) EXCEPT !.u = kind]
    <2>0. kind \in {"picture", "gif_data"}
      BY DEF ReadKinds
    <2>1. w \in Contexts
      BY <2>0 DEF TypeOK, Contexts, Closed
    <2>2. heap' \in [Owners -> Int]
      BY <1>3 DEF CloseConverting, TypeOK, Owners
    <2>. HIDE DEF w
    <2>3. BeginResponseHeader(w, -1, header_result)
      BY DEF w
    <2>4. webp' \in Contexts /\ out' \in Outputs
      BY <1>0, <2>1, <2>3, BeginResponseHeaderType
    <2>. QED BY <1>0, <1>3, <2>2, <2>4, ClosingType
             DEF CloseConverting, TypeOK, Phases
  <1>. QED BY <1>1, <1>2, <1>3

(* The encoder touches the downstream only. *)
LEMMA EncodeType ==
  ASSUME TypeOK, Encode
  PROVE  /\ TypeOK'
         /\ phase = "encoding" /\ phase' \in {"encoding", "ended"}
         /\ out'.lines = out.lines /\ out'.finished = out.finished
         /\ out'.orig = out.orig /\ out'.size = out.size
         /\ UNCHANGED <<webp, buff, content_length, heap, up>>
  <1>0. OK \in Results /\ EDATA \in Results /\ EIO \in Results
    BY DEF Results
  <1>1. CASE EncodeChunk
    <2>1. out.webp + 1 \in Nat
      BY DEF TypeOK, Outputs
    <2>. QED BY <1>1, <2>1 DEF EncodeChunk, TypeOK, Outputs
  <1>2. CASE EncodeDone
    BY <1>0, <1>2 DEF EncodeDone, CloseBody, TypeOK, Outputs, Phases
  <1>3. CASE EncodeFailed
    BY <1>0, <1>3 DEF EncodeFailed, CloseBody, TypeOK, Outputs, Phases
  <1>4. ASSUME NEW result \in {OK, EIO}, WriteGif(result)
        PROVE  /\ TypeOK'
               /\ phase = "encoding" /\ phase' \in {"encoding", "ended"}
               /\ out'.lines = out.lines /\ out'.finished = out.finished
               /\ out'.orig = out.orig /\ out'.size = out.size
               /\ UNCHANGED <<webp, buff, content_length, heap, up>>
    <2>1. /\ (IF result = OK THEN 1 ELSE 0) \in Nat
          /\ (result = OK) \in BOOLEAN
          /\ result \in Results
      BY <1>0
    <2>. QED BY <1>4, <2>1 DEF WriteGif, CloseBody, TypeOK, Outputs, Phases
  <1>. QED BY <1>1, <1>2, <1>3, <1>4 DEF Encode

LEMMA PassType ==
  ASSUME TypeOK, Pass
  PROVE  /\ TypeOK'
         /\ phase = "pass_body" /\ phase' \in {"pass_body", "ended"}
         /\ out'.lines = out.lines /\ out'.finished = out.finished
         /\ out'.webp = out.webp
         /\ UNCHANGED <<webp, buff, content_length, heap>>
  <1>1. ASSUME NEW len \in Chunks, PassWrite(len)
        PROVE  /\ TypeOK'
               /\ phase = "pass_body" /\ phase' \in {"pass_body", "ended"}
               /\ out'.lines = out.lines /\ out'.finished = out.finished
               /\ out'.webp = out.webp
               /\ UNCHANGED <<webp, buff, content_length, heap>>
    <2>1. /\ up.bytes + len \in Nat /\ up.writes + 1 \in Nat
          /\ out.orig + len \in Nat
      BY GateAssumption DEF TypeOK, Upstreams, Outputs
    <2>2. up' \in Upstreams
      BY <1>1, <2>1 DEF PassWrite, TypeOK, Upstreams
    <2>3. /\ out' \in Outputs
          /\ out'.lines = out.lines /\ out'.finished = out.finished
          /\ out'.webp = out.webp
      BY <1>1, <2>1 DEF PassWrite, TypeOK, Outputs
    <2>. QED BY <1>1, <2>2, <2>3 DEF PassWrite, TypeOK
  <1>2. ASSUME NEW result \in {OK, EIO}, PassClose(result)
        PROVE  /\ TypeOK'
               /\ phase = "pass_body" /\ phase' \in {"pass_body", "ended"}
               /\ out'.lines = out.lines /\ out'.finished = out.finished
               /\ out'.webp = out.webp
               /\ UNCHANGED <<webp, buff, content_length, heap>>
    <2>1. result \in Results /\ (result = OK) \in BOOLEAN
      BY DEF Results
    <2>2. up' \in Upstreams
      BY <1>2, <2>1 DEF PassClose, TypeOK, Upstreams
    <2>3. /\ out' \in Outputs
          /\ out'.lines = out.lines /\ out'.finished = out.finished
          /\ out'.webp = out.webp
      BY <1>2, <2>1 DEF PassClose, TypeOK, Outputs
    <2>. QED BY <1>2, <2>2, <2>3 DEF PassClose, TypeOK, Phases
  <1>. QED BY <1>1, <1>2 DEF Pass

LEMMA FreeType ==
  ASSUME TypeOK, FreeCtx
  PROVE  TypeOK'
  <1>1. heap' \in [Owners -> Int]
    BY DEF FreeCtx, TypeOK, Owners
  <1>2. buff' \in Buf!Buffers
    BY DEF FreeCtx, TypeOK, Buf!Destroyed, Buf!NoBuffer, Buf!Buffers
  <1>3. webp' \in Contexts
    BY DEF FreeCtx, TypeOK, Contexts
  <1>. QED BY <1>1, <1>2, <1>3 DEF FreeCtx, TypeOK, Phases

-----------------------------------------------------------------------------
(* The inductive invariant.  No Content-Type line has gone downstream: *)
Untyped(lines) == Occurrences(lines, "Content-Type") = {}

(* Until the header is finished nothing is buffered, sent or encoded. *)
Fresh ==
  phase \in {"status", "headers"} =>
    /\ buff = Buf!NoBuffer
    /\ up.bytes = 0 /\ up.result = OK
    /\ webp.u = NULL /\ ~webp.send_header
    /\ ~out.finished /\ out.webp = 0

(* While conversion is possible the response is a 200, its content type is *)
(* kept back, and an image was seen only together with a client that       *)
(* accepts WebP.                                                           *)
Undecided ==
  /\ phase = "status" => ~webp.is_webp /\ ~webp.no_encode /\ out.lines = <<>>
  /\ phase = "headers" /\ ~webp.no_encode =>
       /\ up.status = 200
       /\ Untyped(out.lines)
       /\ webp.is_webp =>
            webp.accept_support /\ webp.origin_content_type # NULL

(* The bytes the gate took are in the buffer, and only a body that ended   *)
(* well is encoded.                                                        *)
Taken ==
  /\ phase \in {"gate_body", "pass_body"} => out.webp = 0
  /\ phase \in {"gate_body", "encoding"} => buff.used = up.bytes
  /\ phase = "encoding" => up.result = OK
  /\ out.webp > 0 => up.result = OK /\ phase # "pass_body"

IInv == TypeOK /\ Fresh /\ Undecided /\ GateTakesOnlyConvertible /\ Taken

LEMMA UntypedAppend ==
  ASSUME NEW lines \in Seq(HeaderLines), NEW line \in HeaderLines,
         Untyped(lines), line.name # "Content-Type"
  PROVE  Untyped(Append(lines, line))
  <1>. SUFFICES ASSUME NEW i \in DOMAIN Append(lines, line),
                       Append(lines, line)[i].name = "Content-Type"
                PROVE  FALSE
    BY DEF Untyped, Occurrences
  <1>1. CASE i \in DOMAIN lines
    BY <1>1 DEF Untyped, Occurrences
  <1>2. CASE i = Len(lines) + 1
    BY <1>2
  <1>. QED BY <1>1, <1>2

LEMMA InitIInv == Init => IInv
  <1>. SUFFICES ASSUME Init PROVE IInv
    OBVIOUS
  <1>1. buff \in Buf!Buffers
    BY DEF Init, Buf!NoBuffer, Buf!Buffers
  <1>2. webp \in Contexts
    BY DEF Init, Contexts
  <1>3. up \in Upstreams
    BY DEF Init, Upstreams, Results
  <1>4. out \in Outputs
    BY DEF Init, Outputs
  <1>5. heap \in [Owners -> Int]
    BY DEF Init
  <1>6. TypeOK
    BY <1>1, <1>2, <1>3, <1>4, <1>5 DEF Init, TypeOK, Phases
  <1>. QED BY <1>6 DEF Init, IInv, Fresh, Undecided, GateTakesOnlyConvertible, Taken

(* The conjuncts of IInv beside TypeOK. *)
Rest == Fresh /\ Undecided /\ GateTakesOnlyConvertible /\ Taken

LEMMA StatusRest ==
  ASSUME IInv, NEW s \in {200, 304, 404}, PushStatus(s)
  PROVE  TypeOK' /\ Rest'
  <1>1. webp \in Contexts
    BY DEF IInv, TypeOK
  <1>2. out \in Outputs /\ up \in Upstreams /\ s \in Nat
    BY DEF IInv, TypeOK
  <1>3. ASSUME NEW m \in BOOLEAN,
               webp' = [webp EXCEPT !.no_encode = TRUE, !.is_webp = m]
        PROVE  /\ webp' \in Contexts /\ webp'.no_encode
               /\ webp'.u = webp.u /\ webp'.send_header = webp.send_header
    BY <1>1, <1>3 DEF Contexts
  <1>4. /\ webp' \in Contexts
        /\ s # 200 => webp'.no_encode
        /\ s = 200 => webp' = webp
        /\ webp'.u = webp.u /\ webp'.send_header = webp.send_header
    <2>1. CASE s = 200 /\ webp' = webp
      BY <1>1, <2>1
    <2>2. CASE s # 200 /\ webp' = [webp EXCEPT !.no_encode = TRUE,
                                              !.is_webp = FALSE]
      BY <1>3, <2>2
    <2>3. CASE s # 200 /\ webp' = [webp EXCEPT !.no_encode = TRUE,
                                              !.is_webp = TRUE]
      BY <1>3, <2>3
    <2>. QED BY <2>1, <2>2, <2>3 DEF PushStatus
  <1>5. /\ out' \in Outputs /\ out'.lines = out.lines
        /\ out'.finished = out.finished /\ out'.webp = out.webp
    <2>1. out' = [out EXCEPT !.status = s]
      BY DEF PushStatus
    <2>. QED BY <1>2, <2>1 DEF Outputs
  <1>6. /\ up' \in Upstreams /\ up'.status = s
        /\ up'.bytes = up.bytes /\ up'.result = up.result
    <2>1. up' = [up EXCEPT !.status = s]
      BY DEF PushStatus
    <2>. QED BY <1>2, <2>1 DEF Upstreams
  <1>7. TypeOK'
    BY <1>5, <1>6, <1>4 DEF PushStatus, IInv, TypeOK, Phases
  <1>8. Untyped(<<>>)
    BY DEF Untyped, Occurrences
  <1>9. /\ phase = "status" /\ phase' = "headers"
        /\ out'.lines = <<>>
        /\ ~webp'.no_encode => s = 200 /\ ~webp'.is_webp
    BY <1>4, <1>5 DEF PushStatus, IInv, Undecided
  <1>. QED BY <1>5, <1>6, <1>7, <1>8, <1>4, <1>9
           DEF PushStatus, IInv, Rest, Fresh, Undecided,
               GateTakesOnlyConvertible, Taken

LEMMA HeadersRest ==
  ASSUME IInv, PushHeader
  PROVE  Rest'
  <1>0. TypeOK /\ Fresh /\ Undecided /\ Taken
    BY DEF IInv
  <1>1. ASSUME NEW line \in HeaderLines, PushThrough(line)
        PROVE  Rest'
    BY <1>0, <1>1, PushingType, ForwardType
       DEF PushThrough, Rest, Fresh, Undecided, GateTakesOnlyConvertible, Taken
  <1>2. CASE PushContentLength
    BY <1>0, <1>2, PushingType, LineTypes
       DEF PushContentLength, Rest, Fresh, Undecided,
           GateTakesOnlyConvertible, Taken
  <1>3. ASSUME NEW t \in ContentTypes, KeepContentType(t)
        PROVE  Rest'
    <2>1. /\ webp'.accept_support
          /\ webp'.origin_content_type # NULL
          /\ webp'.u = webp.u /\ webp'.send_header = webp.send_header
          /\ webp'.no_encode = webp.no_encode
      BY <1>0, <1>3, GateAssumption DEF KeepContentType, TypeOK, Contexts
    <2>. QED BY <1>0, <1>3, <2>1, PushingType, LineTypes
             DEF KeepContentType, Rest, Fresh, Undecided,
                 GateTakesOnlyConvertible, Taken
  <1>4. ASSUME NEW t \in ContentTypes, PassContentType(t)
        PROVE  Rest'
    <2>1. /\ webp'.no_encode
          /\ webp'.u = webp.u /\ webp'.send_header = webp.send_header
      BY <1>0, <1>4 DEF PassContentType, TypeOK, Contexts
    <2>2. phase = "headers" /\ phase' = "headers" /\ buff = Buf!NoBuffer
      BY <1>0, <1>4, PushingType, LineTypes DEF PassContentType, Fresh
    <2>3. buff' = buff
      BY <1>4, <2>2 DEF PassContentType, Buf!Destroyed, Buf!NoBuffer
    <2>. QED BY <1>0, <1>4, <2>1, <2>2, <2>3, PushingType, ForwardType, LineTypes
             DEF PassContentType, Rest, Fresh, Undecided,
                 GateTakesOnlyConvertible, Taken
  <1>5. ASSUME NEW v \in VaryValues, PushVary(v)
        PROVE  Rest'
    <2>1. /\ webp'.accept_support = webp.accept_support
          /\ webp'.origin_content_type = webp.origin_content_type
          /\ webp'.u = webp.u /\ webp'.send_header = webp.send_header
          /\ webp'.no_encode = webp.no_encode
          /\ webp'.is_webp = webp.is_webp
      BY <1>0, <1>5 DEF PushVary, TypeOK, Contexts
    <2>. QED BY <1>0, <1>5, <2>1, PushingType, LineTypes
             DEF PushVary, Rest, Fresh, Undecided,
                 GateTakesOnlyConvertible, Taken
  <1>6. CASE PushOther
    <2>1. /\ phase = "headers" /\ phase' = "headers"
          /\ up'.status = up.status /\ up'.bytes = up.bytes
          /\ up'.result = up.result
      BY <1>0, <1>6, PushingType, LineTypes DEF PushOther
    <2>2. /\ out'.lines = Append(out.lines, Line("other", {}))
          /\ out'.finished = out.finished /\ out'.webp = out.webp
      BY <1>0, <1>6, ForwardType, LineTypes DEF PushOther
    <2>3. Untyped(out.lines)
      BY <1>0, <1>6, <2>1 DEF PushOther, Undecided
    <2>4. Untyped(out'.lines)
      BY <1>0, <2>2, <2>3, UntypedAppend, LineTypes
         DEF TypeOK, Outputs, Line
    <2>. QED BY <1>0, <1>6, <2>1, <2>2, <2>4
             DEF PushOther, Rest, Fresh, Undecided,
                 GateTakesOnlyConvertible, Taken
  <1>. QED BY <1>1, <1>2, <1>3, <1>4, <1>5, <1>6 DEF PushHeader

LEMMA ErrorRest ==
  ASSUME IInv, HandleError
  PROVE  TypeOK' /\ Rest'
  <1>1. webp' \in Contexts
    BY DEF HandleError, IInv, TypeOK, Contexts
  <1>2. out' \in Outputs /\ out'.webp = out.webp
    BY DEF HandleError, IInv, TypeOK, Outputs, Results
  <1>3. TypeOK'
    BY <1>1, <1>2 DEF HandleError, IInv, TypeOK, Phases
  <1>. QED BY <1>2, <1>3 DEF HandleError, IInv, Rest, Fresh, Undecided,
                             GateTakesOnlyConvertible, Taken

LEMMA HeaderFinishRest ==
  ASSUME IInv, PushHeaderFinish
  PROVE  Rest'
  <1>0. TypeOK /\ Fresh /\ Undecided /\ Taken
    BY DEF IInv
  <1>. PICK size \in BodySizes :
         \/ \E result \in {OK, EIO} : PushHeaderFinishPass(size, result)
         \/ PushHeaderFinishTake(size)
    BY DEF PushHeaderFinish
  <1>1. ASSUME NEW result \in {OK, EIO}, PushHeaderFinishPass(size, result)
        PROVE  Rest'
    <2>1. /\ phase = "headers" /\ phase' \in {"pass_body", "ended"}
          /\ out'.webp = out.webp
      <3>1. size \in Int /\ result \in Results
        BY GateAssumption DEF Results
      <3>2. out'.webp = out.webp
        BY <1>0, <1>1, <3>1, HeaderFinishType, BeginResponseHeaderType
           DEF PushHeaderFinishPass
      <3>. QED BY <1>1, <3>2 DEF PushHeaderFinishPass, ReadSize
    <2>. QED BY <1>0, <2>1 DEF Rest, Fresh, Undecided, TypeOK, Outputs,
                               GateTakesOnlyConvertible, Taken
  <1>2. CASE PushHeaderFinishTake(size)
    <2>1. /\ phase = "headers" /\ phase' = "gate_body"
          /\ ~webp.no_encode /\ size <= MaxLength /\ webp.is_webp
          /\ UNCHANGED <<webp, out>>
      <3>1. size \in Int /\ MaxLength \in Int
        BY GateAssumption
      <3>2. ~(webp.no_encode \/ size > MaxLength \/ ~webp.is_webp)
        BY <1>0, <1>2, HeaderFinishType DEF PushHeaderFinishTake
      <3>. QED BY <1>2, <3>1, <3>2 DEF PushHeaderFinishTake, ReadSize
    <2>2. /\ buff'.used = buff.used
          /\ up'.size = size /\ up'.status = up.status
          /\ up'.bytes = up.bytes /\ up'.result = up.result
      BY <1>0, <1>2, ReadSizeType DEF PushHeaderFinishTake
    <2>3. buff.used = 0
      BY <1>0, <2>1 DEF Fresh, Buf!NoBuffer
    <2>. QED BY <1>0, <2>1, <2>2, <2>3
             DEF Rest, Fresh, Undecided, Untyped,
                 GateTakesOnlyConvertible, Taken
  <1>. QED BY <1>1, <1>2

LEMMA WriteRest ==
  ASSUME IInv, NEW len \in Chunks, KwebpWrite(len)
  PROVE  Rest'
  <1>0. TypeOK /\ phase = "gate_body" /\ phase' = "gate_body"
        /\ UNCHANGED <<webp, out>>
    BY DEF IInv, KwebpWrite
  <1>1. /\ up'.status = up.status /\ up'.size = up.size
        /\ buff'.used = up'.bytes
    <2>1. buff.used = up.bytes
      BY <1>0 DEF IInv, Taken
    <2>2. CASE /\ Buf!WriteOK(len)
               /\ up' = [up EXCEPT !.bytes = @ + len, !.writes = @ + 1]
      <3>1. buff'.used = buff.used + len
        BY <1>0, <2>2, WriteOKBuffer
      <3>. QED BY <1>0, <2>1, <2>2, <3>1 DEF TypeOK, Upstreams
    <2>3. CASE /\ Buf!WriteRefused(len)
               /\ up' = [up EXCEPT !.writes = @ + 1, !.result = ENOBUF]
      <3>1. buff'.used = buff.used
        BY <1>0, <2>3, WriteRefusedBuffer
      <3>. QED BY <1>0, <2>1, <2>3, <3>1 DEF TypeOK, Upstreams
    <2>. QED BY <2>2, <2>3 DEF KwebpWrite
  <1>. QED BY <1>0, <1>1 DEF IInv, Rest, Fresh, Undecided, TypeOK, Outputs,
                             GateTakesOnlyConvertible, Taken

LEMMA CloseRest ==
  ASSUME IInv, KwebpClose
  PROVE  Rest'
  <1>. PICK header_result \in {OK, EIO} :
         \/ \E result \in Results : CloseUnconverted(result, header_result)
         \/ CloseUnreadable(header_result)
         \/ CloseConverting(header_result)
    BY DEF KwebpClose
  <1>0. TypeOK /\ OK \in Results
    BY DEF IInv, Results
  <1>1. ASSUME NEW w, NEW result, BeginResponseHeader(w, -1, result)
        PROVE  out'.webp = out.webp
    BY <1>0, <1>1 DEF BeginResponseHeader, TypeOK, Outputs
  <1>2. phase = "gate_body" /\ out'.webp = 0
    <2>1. phase = "gate_body" => out.webp = 0
      BY DEF IInv, Taken
    <2>2. ASSUME NEW result \in Results, CloseUnconverted(result, header_result)
          PROVE  phase = "gate_body" /\ out'.webp = out.webp
      BY <2>2, <1>1 DEF CloseUnconverted, Closing
    <2>3. CASE CloseUnreadable(header_result)
      BY <2>1, <2>3, <1>1 DEF CloseUnreadable, Closing
    <2>4. CASE CloseConverting(header_result)
      BY <2>1, <2>4, <1>1 DEF CloseConverting, Closing
    <2>. QED BY <2>1, <2>2, <2>3, <2>4
  <1>3. CASE phase' = "ended"
    BY <1>2, <1>3 DEF Rest, Fresh, Undecided, GateTakesOnlyConvertible, Taken
  <1>4. CASE phase' = "encoding"
    <2>1. CloseConverting(header_result)
      BY <1>4 DEF CloseUnconverted, CloseUnreadable
    <2>2. up'.result = OK /\ up'.bytes = up.bytes /\ buff' = buff
      BY <1>0, <2>1, ClosingType DEF CloseConverting
    <2>3. buff.used = up.bytes
      BY <1>2 DEF IInv, Taken
    <2>. QED BY <1>2, <1>4, <2>2, <2>3
             DEF Rest, Fresh, Undecided, GateTakesOnlyConvertible, Taken
  <1>. QED BY <1>3, <1>4 DEF CloseUnconverted, CloseUnreadable, CloseConverting

LEMMA Inductive == Spec => []IInv
  <1>1. IInv /\ [Next]_gvars => IInv'
    <2>. SUFFICES ASSUME IInv, [Next]_gvars
                  PROVE  TypeOK' /\ Rest'
      BY DEF IInv, Rest
    <2>0. TypeOK
      BY DEF IInv
    <2>1. CASE \E s \in {200, 304, 404} : PushStatus(s)
      BY <2>1, StatusRest
    <2>2. CASE PushHeader
      BY <2>0, <2>2, HeadersType, HeadersRest
    <2>3. CASE HandleError
      BY <2>3, ErrorRest
    <2>4. CASE PushHeaderFinish
      BY <2>0, <2>4, HeaderFinishStepType, HeaderFinishRest
    <2>5. CASE \E len \in Chunks : KwebpWrite(len)
      BY <2>0, <2>5, WriteType, WriteRest
    <2>6. CASE KwebpClose
      BY <2>0, <2>6, CloseType, CloseRest
    <2>7. CASE Encode
      <3>1. Rest'
        BY <2>0, <2>7, EncodeType
           DEF IInv, Rest, Fresh, Undecided, GateTakesOnlyConvertible, Taken
      <3>. QED BY <2>0, <2>7, <3>1, EncodeType
    <2>8. CASE Pass
      <3>1. Rest'
        BY <2>0, <2>8, PassType
           DEF IInv, Rest, Fresh, Undecided, GateTakesOnlyConvertible, Taken
      <3>. QED BY <2>0, <2>8, <3>1, PassType
    <2>9. CASE FreeCtx
      <3>1. phase' = "freed" /\ UNCHANGED <<up, out>>
        BY <2>9 DEF FreeCtx
      <3>2. Rest'
        BY <3>1 DEF IInv, Rest, Fresh, Undecided, GateTakesOnlyConvertible, Taken
      <3>. QED BY <2>0, <2>9, <3>2, FreeType
    <2>10. CASE UNCHANGED gvars
      <3>1. TypeOK'
        BY <2>0, <2>10 DEF gvars, TypeOK
      <3>2. Fresh' /\ Undecided'
        BY <2>10 DEF gvars, IInv, Fresh, Undecided
      <3>3. GateTakesOnlyConvertible'
        BY <2>10 DEF gvars, IInv, GateTakesOnlyConvertible
      <3>4. Taken'
        BY <2>10 DEF gvars, IInv, Taken
      <3>. QED BY <3>1, <3>2, <3>3, <3>4 DEF Rest
    <2>. QED BY <2>1, <2>2, <2>3, <2>4, <2>5, <2>6, <2>7, <2>8, <2>9, <2>10
             DEF Next
  <1>. QED BY <1>1, InitIInv, PTL DEF Spec

-----------------------------------------------------------------------------
(* Every field keeps its type, the downstream only ever gets header lines. *)
THEOREM TypeCorrect == Spec => []TypeOK
  <1>1. IInv => TypeOK
    BY DEF IInv
  <1>. QED BY <1>1, Inductive, PTL

(* The asserts of kwebp_write and webp_read_picture hold: the gate takes a *)
(* body only of a 200 that may be converted, with nothing sent yet.        *)
THEOREM TakesOnlyConvertible == Spec => []GateTakesOnlyConvertible
  <1>1. IInv => GateTakesOnlyConvertible
    BY DEF IInv
  <1>. QED BY <1>1, Inductive, PTL

(* Only a body that the upstream finished, and all of it, is encoded.      *)
THEOREM WholeImageEncoded == Spec => []EncodesWholeImage
  <1>1. IInv => EncodesWholeImage
    BY DEF IInv, Taken, EncodesWholeImage
  <1>. QED BY <1>1, Inductive, PTL

-----------------------------------------------------------------------------
(* Ownership of the four fields, spelt out. *)
Count(c) == IF c THEN 1 ELSE 0

LEMMA Balance ==
  HeapBalanced <=> /\ heap["vary"] = Count(webp.vary # NULL)
                   /\ heap["origin_content_type"]
                        = Count(webp.origin_content_type # NULL)
                   /\ heap["u"] = Count(webp.u # NULL)
                   /\ heap["buff"] = Count(buff.size > 0)
  BY DEF HeapBalanced, Owned, Owners, Count

SameFields == /\ webp'.vary = webp.vary
              /\ webp'.origin_content_type = webp.origin_content_type
              /\ webp'.u = webp.u

LEMMA BalanceKept ==
  ASSUME HeapBalanced, SameFields, heap' = heap,
         buff'.size > 0 <=> buff.size > 0
  PROVE  HeapBalanced'
  BY DEF HeapBalanced, Owned, Owners, SameFields

LEMMA BalanceHeaders ==
  ASSUME TypeOK, HeapBalanced, PushHeader
  PROVE  HeapBalanced'
  <1>0. /\ heap["vary"] = Count(webp.vary # NULL)
        /\ heap["origin_content_type"] = Count(webp.origin_content_type # NULL)
        /\ heap["u"] = Count(webp.u # NULL)
        /\ heap["buff"] = Count(buff.size > 0)
    BY Balance
  <1>1. CASE /\ UNCHANGED <<webp, buff, heap>>
    BY <1>1, BalanceKept DEF SameFields
  <1>2. ASSUME NEW t \in ContentTypes, KeepContentType(t)
        PROVE  HeapBalanced'
    <2>1. /\ webp'.vary = webp.vary /\ webp'.u = webp.u /\ buff' = buff
          /\ webp'.origin_content_type # NULL
      BY <1>2, GateAssumption DEF KeepContentType, TypeOK, Contexts
    <2>2. /\ heap'["vary"] = heap["vary"] /\ heap'["u"] = heap["u"]
          /\ heap'["buff"] = heap["buff"]
          /\ heap'["origin_content_type"] = 1
      BY <1>0, <1>2 DEF KeepContentType, TypeOK, Owners, Count
    <2>. QED BY <1>0, <2>1, <2>2 DEF HeapBalanced, Owned, Owners, Count
  <1>3. ASSUME NEW t \in ContentTypes, PassContentType(t)
        PROVE  HeapBalanced'
    <2>1. /\ webp'.vary = webp.vary /\ webp'.u = webp.u
          /\ webp'.origin_content_type = webp.origin_content_type
      BY <1>3 DEF PassContentType, TypeOK, Contexts
    <2>2. buff'.size = 0
      BY <1>3 DEF PassContentType, Buf!Destroyed, Buf!NoBuffer
    <2>3. /\ heap'["vary"] = heap["vary"] /\ heap'["u"] = heap["u"]
          /\ heap'["origin_content_type"] = heap["origin_content_type"]
          /\ heap'["buff"] = 0
      BY <1>0, <1>3 DEF PassContentType, TypeOK, Owners, Count
    <2>. QED BY <1>0, <2>1, <2>2, <2>3 DEF HeapBalanced, Owned, Owners, Count
  <1>4. ASSUME NEW v \in VaryValues, PushVary(v)
        PROVE  HeapBalanced'
    <2>1. CASE webp.vary # NULL
      BY <1>4, <2>1, BalanceKept DEF PushVary, SameFields
    <2>2. CASE webp.vary = NULL
      <3>1. /\ webp'.u = webp.u /\ webp'.vary # NULL /\ buff' = buff
            /\ webp'.origin_content_type = webp.origin_content_type
        BY <1>4, <2>2, GateAssumption DEF PushVary, TypeOK, Contexts
      <3>2. /\ heap'["vary"] = 1 /\ heap'["u"] = heap["u"]
            /\ heap'["origin_content_type"] = heap["origin_content_type"]
            /\ heap'["buff"] = heap["buff"]
        BY <1>0, <1>4, <2>2 DEF PushVary, TypeOK, Owners, Count
      <3>. QED BY <1>0, <3>1, <3>2 DEF HeapBalanced, Owned, Owners, Count
    <2>. QED BY <2>1, <2>2
  <1>. QED BY <1>1, <1>2, <1>3, <1>4
           DEF PushHeader, PushThrough, PushContentLength, PushOther

(* A field u that was empty and now holds one block. *)
LEMMA BalanceRead ==
  ASSUME TypeOK, HeapBalanced, webp.u = NULL, webp'.u # NULL,
         webp'.vary = webp.vary,
         webp'.origin_content_type = webp.origin_content_type,
         buff' = buff, heap' = [heap EXCEPT !["u"] = @ + 1]
  PROVE  HeapBalanced'
  <1>0. /\ heap["vary"] = Count(webp.vary # NULL)
        /\ heap["origin_content_type"] = Count(webp.origin_content_type # NULL)
        /\ heap["u"] = 0
        /\ heap["buff"] = Count(buff.size > 0)
    BY Balance DEF Count
  <1>1. /\ heap'["vary"] = heap["vary"] /\ heap'["u"] = 1
        /\ heap'["origin_content_type"] = heap["origin_content_type"]
        /\ heap'["buff"] = heap["buff"]
    BY <1>0 DEF TypeOK, Owners
  <1>. QED BY <1>0, <1>1 DEF HeapBalanced, Owned, Owners, Count

LEMMA BalanceFinish ==
  ASSUME TypeOK, HeapBalanced, PushHeaderFinish
  PROVE  HeapBalanced'
  <1>. PICK size \in BodySizes :
         \/ \E result \in {OK, EIO} : PushHeaderFinishPass(size, result)
         \/ PushHeaderFinishTake(size)
    BY DEF PushHeaderFinish
  <1>1. SameFields
    <2>1. ASSUME NEW result \in {OK, EIO}, PushHeaderFinishPass(size, result)
          PROVE  SameFields
      <3>1. size \in Int /\ result \in Results
        BY GateAssumption DEF Results
      <3>. QED BY <2>1, <3>1, HeaderFinishType, BeginResponseHeaderType
               DEF PushHeaderFinishPass, SameFields
    <2>. QED BY <2>1 DEF PushHeaderFinishTake, SameFields
  <1>2. ReadSize(size)
    BY DEF PushHeaderFinishPass, PushHeaderFinishTake
  <1>3. heap["buff"] = Count(buff.size > 0)
    BY Balance
  <1>4. /\ heap'["vary"] = heap["vary"] /\ heap'["u"] = heap["u"]
        /\ heap'["origin_content_type"] = heap["origin_content_type"]
        /\ heap'["buff"] = 0
    BY <1>2, <1>3 DEF ReadSize, TypeOK, Owners, Count
  <1>5. buff'.size = 0
    BY <1>2, ReadSizeType
  <1>. QED BY <1>1, <1>4, <1>5, Balance
           DEF SameFields, HeapBalanced, Owned, Owners, Count

LEMMA BalanceWrite ==
  ASSUME TypeOK, HeapBalanced, NEW len \in Chunks, KwebpWrite(len)
  PROVE  HeapBalanced'
  <1>1. /\ buff' \in Buf!Buffers
        /\ buff.size > 0 => buff'.size > 0
        /\ UNCHANGED webp
    BY WriteOKBuffer, WriteRefusedBuffer DEF KwebpWrite
  <1>2. heap["buff"] = Count(buff.size > 0)
    BY Balance
  <1>3. buff.size \in Nat /\ buff'.size \in Nat
    BY <1>1 DEF TypeOK, Buf!Buffers
  <1>4. /\ heap'["vary"] = heap["vary"] /\ heap'["u"] = heap["u"]
        /\ heap'["origin_content_type"] = heap["origin_content_type"]
        /\ heap'["buff"] = heap["buff"]
             + (IF buff.size = 0 /\ buff'.size > 0 THEN 1 ELSE 0)
    BY DEF KwebpWrite, TypeOK, Owners
  <1>5. heap'["buff"] = Count(buff'.size > 0)
    BY <1>1, <1>2, <1>3, <1>4 DEF Count
  <1>. QED BY <1>1, <1>4, <1>5, Balance
           DEF HeapBalanced, Owned, Owners, Count

LEMMA BalanceClose ==
  ASSUME HaveGif, IInv, HeapBalanced, KwebpClose
  PROVE  HeapBalanced'
  <1>. PICK header_result \in {OK, EIO} :
         \/ \E result \in Results : CloseUnconverted(result, header_result)
         \/ CloseUnreadable(header_result)
         \/ CloseConverting(header_result)
    BY DEF KwebpClose
  <1>0. /\ TypeOK /\ webp \in Contexts
        /\ phase = "gate_body" => webp.u = NULL
    BY DEF IInv, TypeOK, GateTakesOnlyConvertible
  <1>1. ASSUME NEW result \in Results, CloseUnconverted(result, header_result)
        PROVE  HeapBalanced'
    <2>1. webp' = [[Closed(webp) EXCEPT !.no_encode = TRUE,
                                        !.is_webp = @ /\ result = OK]
                     EXCEPT !.send_header = TRUE,
                            !.body = webp'.body]
      BY <1>0, <1>1 DEF CloseUnconverted, BeginResponseHeader, Closed, Contexts
    <2>2. SameFields
      BY <1>0, <2>1 DEF SameFields, Closed, Contexts
    <2>3. buff' = buff /\ heap' = heap
      BY <1>1 DEF CloseUnconverted
    <2>. QED BY <2>2, <2>3, BalanceKept
  <1>2. CASE CloseUnreadable(header_result)
    <2>1. PICK read \in FailedReads :
            /\ heap' = [heap EXCEPT !["u"] = @ + read.blocks]
            /\ BeginResponseHeader([Closed(webp) EXCEPT !.u = read.u,
                                                        !.is_webp = FALSE,
                                                        !.no_encode = TRUE],
                                   -1, header_result)
      BY <1>2 DEF CloseUnreadable
    <2>2. read.u \in {"picture", "gif_data"} /\ read.blocks = 1
      BY DEF FailedReads
    <2>3. /\ webp'.vary = webp.vary /\ webp'.u = read.u
          /\ webp'.origin_content_type = webp.origin_content_type
      BY <1>0, <2>1 DEF BeginResponseHeader, Closed, Contexts
    <2>4. webp'.u # NULL
      BY <2>2, <2>3, GateAssumption
    <2>5. /\ phase = "gate_body" /\ buff' = buff
      BY <1>2 DEF CloseUnreadable, Closing
    <2>. QED BY <1>0, <2>1, <2>2, <2>3, <2>4, <2>5, BalanceRead
  <1>3. CASE CloseConverting(header_result)
    <2>1. PICK kind \in ReadKinds :
            BeginResponseHeader([Closed(webp) EXCEPT !.u = kind],
                                -1, header_result)
      BY <1>3 DEF CloseConverting
    <2>2. kind \in {"picture", "gif_data"}
      BY DEF ReadKinds
    <2>3. /\ webp'.vary = webp.vary /\ webp'.u = kind
          /\ webp'.origin_content_type = webp.origin_content_type
      BY <1>0, <2>1 DEF BeginResponseHeader, Closed, Contexts
    <2>4. webp'.u # NULL
      BY <2>2, <2>3, GateAssumption
    <2>5. /\ phase = "gate_body" /\ buff' = buff
          /\ heap' = [heap EXCEPT !["u"] = @ + 1]
      BY <1>3 DEF CloseConverting, Closing
    <2>. QED BY <1>0, <2>3, <2>4, <2>5, BalanceRead
  <1>. QED BY <1>1, <1>2, <1>3

LEMMA BalanceFree ==
  ASSUME TypeOK, HeapBalanced, FreeCtx
  PROVE  HeapBalanced'
  <1>1. /\ webp'.vary = NULL /\ webp'.u = NULL
        /\ webp'.origin_content_type = NULL
    BY DEF FreeCtx, TypeOK, Contexts
  <1>2. ~(buff'.size > 0)
    BY DEF FreeCtx, TypeOK, Buf!Destroyed, Buf!NoBuffer, Buf!Buffers
  <1>3. \A o \in Owners : heap'[o] = 0
    BY DEF FreeCtx, HeapBalanced
  <1>. QED BY <1>1, <1>2, <1>3 DEF HeapBalanced, Owned, Owners

(* In a build with GIF support no block of the context leaks, none is      *)
(* freed twice and no freed block stays in a field.                        *)
THEOREM MemoryOwned ==
  ASSUME HaveGif
  PROVE  Spec => []HeapBalanced
  <1>1. Init => HeapBalanced
    BY DEF Init, HeapBalanced, Owned, Owners, Buf!NoBuffer
  <1>2. IInv /\ HeapBalanced /\ [Next]_gvars => HeapBalanced'
    <2>. SUFFICES ASSUME IInv, HeapBalanced, [Next]_gvars
                  PROVE  HeapBalanced'
      OBVIOUS
    <2>0. TypeOK
      BY DEF IInv
    <2>1. ASSUME NEW s \in {200, 304, 404}, PushStatus(s)
          PROVE  HeapBalanced'
      <3>1. SameFields
        <4>0. webp \in Contexts
          BY <2>0 DEF TypeOK
        <4>1. ASSUME NEW m \in BOOLEAN,
                     webp' = [webp EXCEPT !.no_encode = TRUE, !.is_webp = m]
              PROVE  SameFields
          BY <4>0, <4>1 DEF SameFields, Contexts
        <4>2. CASE UNCHANGED webp
          BY <4>2 DEF SameFields
        <4>. QED BY <2>1, <4>1, <4>2 DEF PushStatus
      <3>. QED BY <2>1, <3>1, BalanceKept DEF PushStatus
    <2>2. CASE PushHeader
      BY <2>0, <2>2, BalanceHeaders
    <2>3. CASE HandleError
      <3>1. SameFields
        BY <2>0, <2>3 DEF HandleError, SameFields, TypeOK, Contexts
      <3>. QED BY <2>3, <3>1, BalanceKept DEF HandleError
    <2>4. CASE PushHeaderFinish
      BY <2>0, <2>4, BalanceFinish
    <2>5. CASE \E len \in Chunks : KwebpWrite(len)
      BY <2>0, <2>5, BalanceWrite
    <2>6. CASE KwebpClose
      BY <2>6, BalanceClose
    <2>7. CASE Encode
      BY <2>0, <2>7, EncodeType, BalanceKept DEF SameFields
    <2>8. CASE Pass
      BY <2>0, <2>8, PassType, BalanceKept DEF SameFields
    <2>9. CASE FreeCtx
      BY <2>0, <2>9, BalanceFree
    <2>10. CASE UNCHANGED gvars
      BY <2>10, BalanceKept DEF gvars, SameFields
    <2>. QED BY <2>1, <2>2, <2>3, <2>4, <2>5, <2>6, <2>7, <2>8, <2>9, <2>10
             DEF Next
  <1>. QED BY <1>1, <1>2, Inductive, PTL DEF Spec
=============================================================================
