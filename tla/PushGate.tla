------------------------------ MODULE PushGate ------------------------------
(***************************************************************************)
(* The response filter of kwebp (push_gate.c, upstream.c, webp_encode.c)   *)
(* for one request.                                                        *)
(*                                                                         *)
(* kangle opens the real upstream with the push gate as its output stream  *)
(* (webp_open).  The upstream pushes a status, headers, the end of the     *)
(* headers and, if the gate took the body, its chunks and a close.  The    *)
(* gate decides from them whether the image is converted, and drives the   *)
(* downstream stream (ctx->out, later webp->body) accordingly.             *)
(*                                                                         *)
(* The upstream is the environment: its order of calls is the variable     *)
(* phase.  Downstream, decoder and encoder answer nondeterministically.    *)
(* One action is one call of the gate by the upstream, except that the     *)
(* close of a converted image is split at each call of the writer by the   *)
(* encoder, because there the downstream may fail.                         *)
(***************************************************************************)
EXTENDS ImageAnswer, Integers, Sequences

CONSTANTS
  ImageTypes,   (* content types image/* other than image/webp              *)
  OtherTypes,   (* every other content type, image/webp among them          *)
  WEBP,         (* the content type image/webp                              *)
  VaryValues,   (* values of Vary header lines                              *)
  MARK,         (* the Vary token "|webp"                                   *)
  NULL,
  MaxLength,    (* webp->max_length                                         *)
  BodySizes,    (* body sizes announced by the upstream; -1: unknown        *)
  Chunks,       (* sizes of body chunks                                     *)
  HaveGif,      (* the build defines WEBP_HAVE_GIF                          *)
  MaxHeaders,   (* bound: header lines the upstream pushes                  *)
  MaxWrites     (* bound: chunks of the upstream, and of the encoder        *)

(* KGL_RESULT, as far as the gate tells results apart. *)
OK     == "OK"
ENOBUF == "KGL_EINSUFFICIENT_BUFFER"
EDATA  == "KGL_EDATA_FORMAT"
EIO    == "other error"
Results == {OK, ENOBUF, EDATA, EIO}

ASSUME GateAssumption ==
  /\ WEBP \in OtherTypes
  /\ ImageTypes \cap OtherTypes = {}
  /\ MARK \notin VaryValues
  /\ NULL \notin ImageTypes \cup OtherTypes \cup VaryValues
                   \cup {"picture", "gif_data"} \cup Results \cup Heads
  /\ MaxLength \in Nat \ {0}
  /\ BodySizes \subseteq Int
  /\ Chunks \subseteq Nat
  /\ HaveGif \in BOOLEAN
  /\ MaxHeaders \in Nat
  /\ MaxWrites \in Nat

VARIABLES
  phase,          (* how far the upstream has come, see Phases              *)
  webp,           (* flags and saved headers of the webp_context            *)
  buff,           (* webp->buff                                             *)
  content_length, (* webp->content_length                                   *)
  heap,           (* live allocations owned through a field of the context  *)
  up,             (* what the upstream has pushed so far                    *)
  out             (* what the downstream has been given so far              *)

gvars == <<phase, webp, buff, content_length, heap, up, out>>

Buf == INSTANCE WebpBuffer
         WITH ContentLengths <- {0} \cup {n \in BodySizes : n <= MaxLength},
              IntMax <- 2147483647

Phases == { "status",      (* webp_open has run, no status yet              *)
            "headers",
            "gate_body",   (* the upstream writes to the gate               *)
            "pass_body",   (* the upstream writes to the downstream         *)
            "encoding",    (* kwebp_close is inside webp_encode_picture     *)
            "ended",       (* the upstream makes no further call            *)
            "freed" }      (* free_ctx has run                              *)

ContentTypes == ImageTypes \cup OtherTypes

(* A header line: its value is the set of the tokens it lists. *)
Line(name, tokens) == [name |-> name, val |-> tokens]
HeaderLines ==
  [name : {"Vary"}, val : SUBSET (VaryValues \cup {MARK})]
    \cup [name : {"Content-Type"}, val : {{t} : t \in ContentTypes}]
    \cup {Line("Content-Length", {}), Line("other", {})}

(* The owners of heap blocks among the fields of webp_context. *)
Owners == {"vary", "origin_content_type", "buff", "u"}

-----------------------------------------------------------------------------
(* memset and the result of process in access.c; webp_open asserts that    *)
(* is_webp is clear.                                                       *)
Init ==
  /\ phase = "status"
  /\ \E accept \in BOOLEAN :
       webp = [ is_webp |-> FALSE, no_encode |-> FALSE,
                accept_support |-> accept, send_header |-> FALSE,
                upstream_was_body_finish |-> FALSE,
                vary |-> NULL, origin_content_type |-> NULL,
                u |-> NULL, body |-> FALSE ]
  /\ buff = Buf!NoBuffer
  /\ content_length = 0
  /\ heap = [o \in Owners |-> 0]
  /\ up = [ status |-> 0, lines |-> <<>>, size |-> -1,
            bytes |-> 0, writes |-> 0, result |-> OK ]
  /\ out = [ status |-> 0, lines |-> <<>>, finished |-> FALSE, size |-> -1,
             orig |-> 0, webp |-> 0, whole |-> FALSE, closed |-> NULL ]

-----------------------------------------------------------------------------
(* push_status.  A 304 keeps the mark of the cached object it renews: the  *)
(* old object and its Vary header belong to kangle.                        *)
PushStatus(s) ==
  /\ phase = "status"
  /\ \/ s = 200 /\ UNCHANGED webp
     \/ s # 200 /\ webp' = [webp EXCEPT !.no_encode = TRUE, !.is_webp = FALSE]
     \/ s = 304 /\ webp' = [webp EXCEPT !.no_encode = TRUE, !.is_webp = TRUE]
  /\ out' = [out EXCEPT !.status = s]
  /\ up' = [up EXCEPT !.status = s]
  /\ phase' = "headers"
  /\ UNCHANGED <<buff, content_length, heap>>

(* The upstream pushes one more header line. *)
Pushing(line) ==
  /\ phase = "headers"
  /\ Len(up.lines) < MaxHeaders
  /\ up' = [up EXCEPT !.lines = Append(@, line)]
  /\ UNCHANGED <<phase, content_length>>

Forward(line) == out' = [out EXCEPT !.lines = Append(@, line)]

(* push_header once conversion is ruled out. *)
PushThrough(line) ==
  /\ webp.no_encode
  /\ Pushing(line)
  /\ Forward(line)
  /\ UNCHANGED <<webp, buff, heap>>

(* push_header, kgl_header_content_length: dropped, the size comes back    *)
(* with push_header_finish.                                                *)
PushContentLength ==
  /\ ~webp.no_encode
  /\ Pushing(Line("Content-Length", {}))
  /\ UNCHANGED <<webp, buff, heap, out>>

(* Mutant of KeepContentType: the test for an image is lost. *)
KeepAnyContentType(t) ==
  /\ ~webp.no_encode
  /\ webp.accept_support
  /\ Pushing(Line("Content-Type", {t}))
  /\ webp' = [webp EXCEPT !.is_webp = TRUE, !.origin_content_type = t]
  /\ heap' = [heap EXCEPT !["origin_content_type"] =
                @ - (IF webp.origin_content_type # NULL THEN 1 ELSE 0) + 1]
  /\ UNCHANGED <<buff, out>>

(* Mutant of KeepContentType: images are kept for every client. *)
KeepUnwantedContentType(t) ==
  /\ ~webp.no_encode
  /\ t \in ImageTypes
  /\ Pushing(Line("Content-Type", {t}))
  /\ webp' = [webp EXCEPT !.is_webp = TRUE, !.origin_content_type = t]
  /\ heap' = [heap EXCEPT !["origin_content_type"] =
                @ - (IF webp.origin_content_type # NULL THEN 1 ELSE 0) + 1]
  /\ UNCHANGED <<buff, out>>

(* push_header, kgl_header_content_type of an image the client wants       *)
(* converted: the line is kept back, replacing an earlier one.             *)
KeepContentType(t) ==
  /\ ~webp.no_encode
  /\ t \in ImageTypes
  /\ webp.accept_support
  /\ Pushing(Line("Content-Type", {t}))
  /\ webp' = [webp EXCEPT !.is_webp = TRUE, !.origin_content_type = t]
  /\ heap' = [heap EXCEPT !["origin_content_type"] =
                @ - (IF webp.origin_content_type # NULL THEN 1 ELSE 0) + 1]
  /\ UNCHANGED <<buff, out>>

(* push_header, kgl_header_content_type otherwise: no conversion. *)
PassContentType(t) ==
  /\ ~webp.no_encode
  /\ ~(t \in ImageTypes /\ webp.accept_support)
  /\ Pushing(Line("Content-Type", {t}))
  /\ webp' = [webp EXCEPT !.is_webp = @ \/ t \in ImageTypes,
                          !.no_encode = TRUE]
  /\ buff' = Buf!Destroyed(buff)
  /\ heap' = [heap EXCEPT !["buff"] = @ - (IF buff.size > 0 THEN 1 ELSE 0)]
  /\ Forward(Line("Content-Type", {t}))

(* Mutant of PushVary: the last line is kept, the earlier one not freed. *)
PushVaryLast(v) ==
  /\ ~webp.no_encode
  /\ Pushing(Line("Vary", {v}))
  /\ webp' = [webp EXCEPT !.vary = v]
  /\ heap' = [heap EXCEPT !["vary"] = @ + 1]
  /\ UNCHANGED <<buff, out>>

(* push_header, kgl_header_vary: the first line is kept back, the others   *)
(* are dropped.                                                            *)
PushVary(v) ==
  /\ ~webp.no_encode
  /\ Pushing(Line("Vary", {v}))
  /\ IF webp.vary = NULL
     THEN /\ webp' = [webp EXCEPT !.vary = v]
          /\ heap' = [heap EXCEPT !["vary"] = @ + 1]
     ELSE UNCHANGED <<webp, heap>>
  /\ UNCHANGED <<buff, out>>

(* push_header for any other attribute, push_unknow_header. *)
PushOther ==
  /\ ~webp.no_encode
  /\ Pushing(Line("other", {}))
  /\ Forward(Line("other", {}))
  /\ UNCHANGED <<webp, buff, heap>>

(* handle_error: the upstream reports an error page instead of a response. *)
HandleError ==
  /\ phase \in {"status", "headers"}
  /\ webp' = [webp EXCEPT !.no_encode = TRUE, !.is_webp = FALSE]
  /\ out' = [out EXCEPT !.closed = EIO]
  /\ phase' = "ended"
  /\ UNCHANGED <<buff, content_length, heap, up>>

-----------------------------------------------------------------------------
(* Mutants of MarkLines: a saved Vary takes the place of the mark; every   *)
(* response is marked.                                                     *)
MarkLinesWithoutVary(w) ==
  IF w.is_webp /\ w.vary = NULL THEN << Line("Vary", {MARK}) >> ELSE <<>>
MarkLinesAlways(w) ==
  << Line("Vary", (IF w.vary = NULL THEN {} ELSE {w.vary}) \cup {MARK}) >>

(* The lines begin_response_header adds to what was forwarded already. *)
MarkLines(w) ==
  IF w.is_webp
  THEN << Line("Vary", (IF w.vary = NULL THEN {} ELSE {w.vary}) \cup {MARK}) >>
  ELSE <<>>

(* Mutant of RestoredLines: only one of the saved lines is sent back. *)
RestoredFirst(w) ==
  IF w.vary # NULL THEN << Line("Vary", {w.vary}) >>
  ELSE IF w.origin_content_type = NULL THEN <<>>
       ELSE << Line("Content-Type", {w.origin_content_type}) >>

RestoredLines(w) ==
  (IF w.vary = NULL THEN <<>> ELSE << Line("Vary", {w.vary}) >>)
    \o (IF w.origin_content_type = NULL THEN <<>>
        ELSE << Line("Content-Type", {w.origin_content_type}) >>)

HeaderBlock(w) ==
  MarkLines(w) \o (IF w.no_encode THEN RestoredLines(w)
                   ELSE << Line("Content-Type", {WEBP}) >>)

(* Mutant of BeginResponseHeader: the size is never announced. *)
BeginUnknownSize(w, size, result) ==
  /\ webp' = [w EXCEPT !.send_header = TRUE,
                       !.body = ~w.no_encode /\ result = OK]
  /\ out' = [out EXCEPT !.lines = @ \o HeaderBlock(w),
                        !.finished = (result = OK), !.size = -1]

(* begin_response_header for the context w: size is what it announces when *)
(* nothing is encoded, result what write_header_finish answers.  Only a    *)
(* conversion asks for the body writer itself (&webp->body).               *)
BeginResponseHeader(w, size, result) ==
  /\ webp' = [w EXCEPT !.send_header = TRUE,
                       !.body = ~w.no_encode /\ result = OK]
  /\ out' = [out EXCEPT !.lines = @ \o HeaderBlock(w),
                        !.finished = (result = OK),
                        !.size = IF w.no_encode THEN size ELSE -1]

(* Mutant of HeaderFinish: a response without an image is taken, too. *)
HeaderFinishBySize(size) == [webp EXCEPT !.no_encode = @ \/ size > MaxLength]

(* push_header_finish.  free(buff.data) leaves left and used alone. *)
HeaderFinish(size) ==
  [webp EXCEPT !.no_encode = @ \/ size > MaxLength \/ ~webp.is_webp]

ReadSize(size) ==
  /\ phase = "headers"
  /\ buff' = [buff EXCEPT !.size = 0]
  /\ heap' = [heap EXCEPT !["buff"] = @ - (IF buff.size > 0 THEN 1 ELSE 0)]
  /\ content_length' = IF size > MaxLength THEN content_length ELSE size
  /\ up' = [up EXCEPT !.size = size]

PushHeaderFinishPass(size, result) ==
  /\ ReadSize(size)
  /\ HeaderFinish(size).no_encode
  /\ BeginResponseHeader(HeaderFinish(size), size, result)
  /\ phase' = IF result = OK THEN "pass_body" ELSE "ended"

PushHeaderFinishTake(size) ==
  /\ ReadSize(size)
  /\ ~HeaderFinish(size).no_encode
  /\ phase' = "gate_body"
  /\ UNCHANGED <<webp, out>>

-----------------------------------------------------------------------------
(* Mutant of KwebpWrite: a refused chunk is dropped without an error. *)
KwebpWriteDropping(len) ==
  /\ phase = "gate_body"
  /\ up.result = OK
  /\ up.writes < MaxWrites
  /\ Buf!WriteOK(len) \/ Buf!WriteRefused(len)
  /\ up' = [up EXCEPT !.bytes = @ + len, !.writes = @ + 1]
  /\ heap' = [heap EXCEPT !["buff"] =
                @ + (IF buff.size = 0 /\ buff'.size > 0 THEN 1 ELSE 0)]
  /\ UNCHANGED <<phase, webp, out>>

(* kwebp_write, and unsupport_writev, which is kwebp_write for each buffer *)
(* until one fails.  After a failed write the upstream can only close.     *)
KwebpWrite(len) ==
  /\ phase = "gate_body"
  /\ up.result = OK
  /\ up.writes < MaxWrites
  /\ \/ /\ Buf!WriteOK(len)
        /\ up' = [up EXCEPT !.bytes = @ + len, !.writes = @ + 1]
     \/ /\ Buf!WriteRefused(len)
        /\ up' = [up EXCEPT !.writes = @ + 1, !.result = ENOBUF]
  /\ heap' = [heap EXCEPT !["buff"] =
                @ + (IF buff.size = 0 /\ buff'.size > 0 THEN 1 ELSE 0)]
  /\ UNCHANGED <<phase, webp, out>>

(* The results with which the upstream may close the body. *)
Closing(result) ==
  /\ phase = "gate_body"
  /\ result \in IF up.result = OK THEN {OK, EIO} ELSE {up.result}
  /\ up' = [up EXCEPT !.result = result]

Closed(w) == [w EXCEPT !.upstream_was_body_finish = TRUE]

(* kwebp_close up to its call of webp_read_picture.  Its first branch, for *)
(* a header already sent, is out of reach: see GateTakesOnlyConvertible.   *)
Convertible(result) ==
  result = OK /\ buff.used > 0 /\ ~webp.no_encode /\ webp.is_webp

(* kwebp_close when the upstream failed or sent nothing. *)
CloseUnconverted(result, header_result) ==
  /\ Closing(result)
  /\ ~Convertible(result)
  /\ BeginResponseHeader([Closed(webp) EXCEPT !.no_encode = TRUE,
                                              !.is_webp = @ /\ result = OK],
                         -1, header_result)
  /\ phase' = "ended"
  /\ UNCHANGED <<buff, content_length, heap>>

(* webp_read_picture: u after a failure.  WebPPictureInit may fail before  *)
(* the reader runs; when the reader fails the picture is freed, and only a *)
(* build with GIF support overwrites the pointer with the GIF's data.      *)
(* Returns the field and the number of blocks u then owns.                 *)
FailedReads ==
  { [u |-> "picture", blocks |-> 1],
    IF HaveGif THEN [u |-> "gif_data", blocks |-> 1]
    ELSE [u |-> "picture", blocks |-> 0] }

(* u after a success: a picture, or the WebP data made from a GIF. *)
ReadKinds == IF HaveGif THEN {"picture", "gif_data"} ELSE {"picture"}

(* kwebp_close when the image cannot be read. *)
CloseUnreadable(header_result) ==
  /\ Closing(OK)
  /\ Convertible(OK)
  /\ \E read \in FailedReads :
       /\ heap' = [heap EXCEPT !["u"] = @ + read.blocks]
       /\ BeginResponseHeader([Closed(webp) EXCEPT !.u = read.u,
                                                   !.is_webp = FALSE,
                                                   !.no_encode = TRUE],
                              -1, header_result)
  /\ phase' = "ended"
  /\ UNCHANGED <<buff, content_length>>

(* kwebp_close and begin_response when the image is read: the header goes  *)
(* out, and unless that fails the encoder is started.  begin_response's    *)
(* own no_encode branch, which writes the original, is out of reach: its   *)
(* only caller has tested the flag.                                        *)
CloseConverting(header_result) ==
  /\ Closing(OK)
  /\ Convertible(OK)
  /\ \E kind \in ReadKinds :
       BeginResponseHeader([Closed(webp) EXCEPT !.u = kind], -1, header_result)
  /\ heap' = [heap EXCEPT !["u"] = @ + 1]
  /\ phase' = IF header_result = OK THEN "encoding" ELSE "ended"
  /\ UNCHANGED <<buff, content_length>>

(* webp_picture_writer: the encoder hands over one more piece and the      *)
(* downstream takes it.                                                    *)
EncodeChunk ==
  /\ phase = "encoding"
  /\ webp.u = "picture"
  /\ out.webp < MaxWrites
  /\ out' = [out EXCEPT !.webp = @ + 1]
  /\ UNCHANGED <<phase, webp, buff, content_length, heap, up>>

(* body.f->close with the result of webp_encode_picture. *)
CloseBody(result) ==
  /\ phase = "encoding"
  /\ phase' = "ended"
  /\ UNCHANGED <<webp, buff, content_length, heap, up>>

(* WebPEncode succeeds after its last piece. *)
EncodeDone ==
  /\ webp.u = "picture"
  /\ out.webp > 0
  /\ CloseBody(OK)
  /\ out' = [out EXCEPT !.whole = TRUE, !.closed = OK]

(* Mutant of EncodeFailed: the downstream is not told. *)
EncodeFailedSilently ==
  /\ webp.u = "picture"
  /\ CloseBody(EDATA)
  /\ UNCHANGED out

(* WebPEncode fails: by itself, or because the downstream refused a piece  *)
(* and the writer returned 0.                                              *)
EncodeFailed ==
  /\ webp.u = "picture"
  /\ CloseBody(EDATA)
  /\ out' = [out EXCEPT !.closed = EDATA]

(* The converted GIF is written in one piece; its result is the result. *)
WriteGif(result) ==
  /\ webp.u = "gif_data"
  /\ CloseBody(result)
  /\ out' = [out EXCEPT !.webp = IF result = OK THEN 1 ELSE 0,
                        !.whole = (result = OK), !.closed = result]

-----------------------------------------------------------------------------
(* The upstream writing to the downstream's own body and closing it: the   *)
(* gate is no longer involved.                                             *)
PassWrite(len) ==
  /\ phase = "pass_body"
  /\ up.writes < MaxWrites
  /\ up' = [up EXCEPT !.bytes = @ + len, !.writes = @ + 1]
  /\ out' = [out EXCEPT !.orig = @ + len]
  /\ UNCHANGED <<phase, webp, buff, content_length, heap>>

PassClose(result) ==
  /\ phase = "pass_body"
  /\ up' = [up EXCEPT !.result = result]
  /\ out' = [out EXCEPT !.whole = (result = OK), !.closed = result]
  /\ phase' = "ended"
  /\ UNCHANGED <<webp, buff, content_length, heap>>

(* The field o holds a block. *)
Owned(o) == IF o = "buff" THEN buff.size > 0 ELSE webp[o] # NULL

(* free_ctx: kangle drops the request, finished or not.  Each block that a *)
(* field points to is freed.                                               *)
FreeCtx ==
  /\ phase \notin {"encoding", "freed"}
  /\ phase' = "freed"
  /\ heap' = [o \in Owners |-> heap[o] - (IF Owned(o) THEN 1 ELSE 0)]
  /\ buff' = Buf!Destroyed(buff)
  /\ webp' = [webp EXCEPT !.u = NULL, !.vary = NULL,
                          !.origin_content_type = NULL]
  /\ UNCHANGED <<content_length, up, out>>

-----------------------------------------------------------------------------
PushHeader ==
  \/ \E line \in HeaderLines : MARK \notin line.val /\ PushThrough(line)
  \/ PushContentLength
  \/ \E t \in ContentTypes : KeepContentType(t) \/ PassContentType(t)
  \/ \E v \in VaryValues : PushVary(v)
  \/ PushOther

PushHeaderFinish ==
  \E size \in BodySizes :
    \/ \E result \in {OK, EIO} : PushHeaderFinishPass(size, result)
    \/ PushHeaderFinishTake(size)

KwebpClose ==
  \E header_result \in {OK, EIO} :
    \/ \E result \in Results : CloseUnconverted(result, header_result)
    \/ CloseUnreadable(header_result)
    \/ CloseConverting(header_result)

Encode ==
  \/ EncodeChunk
  \/ EncodeDone
  \/ EncodeFailed
  \/ \E result \in {OK, EIO} : WriteGif(result)

Pass ==
  \/ \E len \in Chunks : PassWrite(len)
  \/ \E result \in {OK, EIO} : PassClose(result)

Next ==
  \/ \E s \in {200, 304, 404} : PushStatus(s)
  \/ PushHeader
  \/ HandleError
  \/ PushHeaderFinish
  \/ \E len \in Chunks : KwebpWrite(len)
  \/ KwebpClose
  \/ Encode
  \/ Pass
  \/ FreeCtx

(* kwebp_close is one call: WebPEncode writes finitely often and returns,  *)
(* and the close of the downstream follows it.                             *)
Spec == Init /\ [][Next]_gvars /\ WF_gvars(Encode)

-----------------------------------------------------------------------------
Contexts == [ is_webp : BOOLEAN, no_encode : BOOLEAN,
              accept_support : BOOLEAN, send_header : BOOLEAN,
              upstream_was_body_finish : BOOLEAN,
              vary : VaryValues \cup {NULL},
              origin_content_type : ImageTypes \cup {NULL},
              u : {NULL, "picture", "gif_data"}, body : BOOLEAN ]

Upstreams == [ status : Nat, lines : Seq(HeaderLines), size : Int,
               bytes : Nat, writes : Nat, result : Results ]

Outputs == [ status : Nat, lines : Seq(HeaderLines), finished : BOOLEAN,
             size : Int, orig : Nat, webp : Nat, whole : BOOLEAN,
             closed : Results \cup {NULL} ]

TypeOK ==
  /\ phase \in Phases
  /\ webp \in Contexts
  /\ buff \in Buf!Buffers
  /\ content_length \in Int
  /\ heap \in [Owners -> Int]
  /\ up \in Upstreams
  /\ out \in Outputs

(* Views of a sequence of header lines. *)
Occurrences(lines, name) == {i \in DOMAIN lines : lines[i].name = name}
Tokens(lines, name) == UNION {lines[i].val : i \in Occurrences(lines, name)}
Single(lines, name) ==
  \A i, j \in Occurrences(lines, name) : i = j
Marked == MARK \in Tokens(out.lines, "Vary")

(* The upstream writes to the gate only when the response really is a 200  *)
(* with an image the client wants converted, whose content type is saved   *)
(* and for which nothing has been announced downstream: kwebp_write        *)
(* asserts !no_encode (push_gate.c:16), webp_read_picture asserts that no  *)
(* picture is held (webp_encode.c:19).                                     *)
GateTakesOnlyConvertible ==
  phase = "gate_body" =>
    /\ ~webp.no_encode /\ webp.is_webp /\ webp.accept_support
    /\ webp.origin_content_type # NULL /\ webp.u = NULL
    /\ up.status = 200 /\ up.size <= MaxLength
    /\ ~webp.send_header /\ ~out.finished
    /\ Occurrences(out.lines, "Content-Type") = {}

(* Every block allocated for the context is owned by exactly one field and *)
(* every field that is not NULL owns a live block: nothing leaks when      *)
(* fields are overwritten (push_gate.c:218-222, 232) and free_ctx frees    *)
(* each block once (upstream.c:11-31).                                     *)
HeapBalanced == \A o \in Owners : heap[o] = IF Owned(o) THEN 1 ELSE 0

(* Converted bytes reach the client only under the content type image/webp *)
(* and nothing else, never mixed with bytes of the original, with no       *)
(* length announced, and with the Vary mark that keeps a cache from giving *)
(* them to other clients (begin_response_header, begin_response).          *)
ConvertedIsLabelled ==
  out.webp > 0 =>
    /\ out.finished /\ out.orig = 0 /\ out.size = -1
    /\ Tokens(out.lines, "Content-Type") = {WEBP}
    /\ Single(out.lines, "Content-Type")
    /\ Marked

(* A response that is not converted keeps the upstream's content type, and *)
(* any response keeps the upstream's Vary, whether the line came before or *)
(* after the decision; the gate adds nothing to Vary but its mark          *)
(* (push_gate.c:271-280).  Upstreams that repeat a line are excluded here, *)
(* see EveryVaryPreserved.                                                 *)
HeadersPreserved ==
  out.finished =>
    /\ webp.no_encode /\ Single(up.lines, "Content-Type") =>
         /\ Tokens(out.lines, "Content-Type") = Tokens(up.lines, "Content-Type")
         /\ Single(out.lines, "Content-Type")
    /\ Single(up.lines, "Vary") =>
         Tokens(out.lines, "Vary") \ {MARK} = Tokens(up.lines, "Vary")

(* The same for an upstream that sends Vary in several lines: the comment  *)
(* at push_gate.c:272 says that the original Vary is sent back.            *)
EveryVaryPreserved ==
  out.finished => Tokens(up.lines, "Vary") \subseteq Tokens(out.lines, "Vary")

(* The answer as a client and a cache see it: an abstract filter for the   *)
(* refinement below.  The flags that decided it need not be known.         *)
OnlyImageTypes ==
  /\ up.status = 200
  /\ Tokens(up.lines, "Content-Type") # {}
  /\ Tokens(up.lines, "Content-Type") \subseteq ImageTypes

AnswerHead ==
  IF ~out.finished THEN NULL
  ELSE [renews |-> up.status = 304, image |-> OnlyImageTypes,
        marked |-> Marked, converted |-> ~webp.no_encode]

AnswerBody ==
  IF out.webp > 0 THEN "webp" ELSE IF out.orig > 0 THEN "original" ELSE "nothing"

Answer ==
  INSTANCE ImageResponse WITH
    accept <- webp.accept_support, head <- AnswerHead, body <- AnswerBody,
    closed <- out.closed

(* The gate implements the abstract filter: whatever the upstream pushes   *)
(* and however decoding and encoding go, nothing precedes the head, the    *)
(* head tells what follows, one answer has one kind of bytes, and nothing  *)
(* follows the close (push_gate.c:140-334, seen from the downstream).      *)
ImplementsAnswer == Answer!Answering

(* The table at upstream.h:22-26.  The bytes of an original image in a 200 *)
(* carry the mark, because another client may get the same URL converted;  *)
(* a response is marked only if an image type was seen, or if it renews a  *)
(* marked object by a 304.                                                 *)
MarkedExactlyWhenNegotiable ==
  /\ out.orig > 0 /\ OnlyImageTypes => Marked
  /\ out.finished /\ Marked =>
       \/ up.status = 304
       \/ up.status = 200 /\ Tokens(up.lines, "Content-Type") \cap ImageTypes # {}

(* What is encoded is the whole image: a chunk that was refused, or an     *)
(* upstream that failed, never lets a truncated buffer reach the encoder   *)
(* (kwebp_close, push_gate.c:56-71).                                       *)
EncodesWholeImage ==
  /\ phase = "encoding" => up.result = OK /\ buff.used = up.bytes
  /\ out.webp > 0 => up.result = OK

(* The Content-Length line is swallowed while a conversion is possible     *)
(* (push_gate.c:186-204): an unconverted body is announced with exactly    *)
(* the size the upstream gave, and no length survives a conversion.        *)
LengthReannounced ==
  /\ phase = "pass_body" => out.size = up.size
  /\ out.finished /\ ~webp.no_encode =>
       out.size = -1 /\ Occurrences(out.lines, "Content-Length") = {}

(* When neither side failed and the gate finished a header, the client is  *)
(* given the image, converted or original: the content type is saved so    *)
(* that the original can be sent when conversion fails (push_gate.c:221),  *)
(* and begin_response writes the buffered original then (316-331).         *)
BodyDelivered ==
  ( /\ phase = "ended" /\ out.finished /\ up.result = OK
    /\ out.closed \in {OK, NULL} )
  => out.webp > 0 \/ out.orig = up.bytes

(* Once kwebp_close has begun to encode, the downstream body is closed,    *)
(* whether the encoder succeeds, fails or is refused (push_gate.c:332).    *)
EncodingCloses == phase = "encoding" ~> out.closed # NULL
=============================================================================
