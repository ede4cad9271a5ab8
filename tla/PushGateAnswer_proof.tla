------------------------ MODULE PushGateAnswer_proof ------------------------
(***************************************************************************)
(* What the client of PushGate sees: that the gate implements the abstract *)
(* filter ImageResponse, and the invariants about the header lines and the *)
(* bytes of an answer.  The invariant of PushGate_proof is used throughout.*)
(***************************************************************************)
EXTENDS PushGate_proof

(* Header lines: what a line adds to the tokens. *)
Types(lines) == Tokens(lines, "Content-Type")
Vary(lines) == Tokens(lines, "Vary")

LEMMA TokensEmpty == \A name : Tokens(<<>>, name) = {}
  BY DEF Tokens, Occurrences

LEMMA TokensOne ==
  ASSUME NEW line, NEW name
  PROVE  Tokens(<<line>>, name) = IF line.name = name THEN line.val ELSE {}
  <1>1. DOMAIN <<line>> = {1} /\ <<line>>[1] = line
    OBVIOUS
  <1>2. Occurrences(<<line>>, name) = IF line.name = name THEN {1} ELSE {}
    BY <1>1 DEF Occurrences
  <1>. QED BY <1>1, <1>2 DEF Tokens

LEMMA TokensConcat ==
  ASSUME NEW a \in Seq(HeaderLines), NEW b \in Seq(HeaderLines), NEW name
  PROVE  Tokens(a \o b, name) = Tokens(a, name) \cup Tokens(b, name)
  <1>. DEFINE c == a \o b
  <1>1. /\ c \in Seq(HeaderLines)
        /\ DOMAIN c = 1..(Len(a) + Len(b))
        /\ \A i \in 1..Len(a) : c[i] = a[i]
        /\ \A i \in 1..Len(b) : c[i + Len(a)] = b[i]
    OBVIOUS
  <1>2. DOMAIN a = 1..Len(a) /\ DOMAIN b = 1..Len(b)
        /\ Len(a) \in Nat /\ Len(b) \in Nat
    OBVIOUS
  <1>3. ASSUME NEW x \in Tokens(c, name)
        PROVE  x \in Tokens(a, name) \cup Tokens(b, name)
    <2>1. PICK i \in DOMAIN c : c[i].name = name /\ x \in c[i].val
      BY <1>3 DEF Tokens, Occurrences
    <2>2. CASE i \in 1..Len(a)
      BY <1>1, <1>2, <2>1, <2>2 DEF Tokens, Occurrences
    <2>3. CASE i \notin 1..Len(a)
      <3>1. i - Len(a) \in 1..Len(b) /\ c[(i - Len(a)) + Len(a)] = b[i - Len(a)]
        BY <1>1, <1>2, <2>3
      <3>2. (i - Len(a)) + Len(a) = i
        BY <1>1, <1>2
      <3>3. c[i] = b[i - Len(a)]
        BY <3>1, <3>2
      <3>. QED BY <1>2, <2>1, <3>1, <3>3 DEF Tokens, Occurrences
    <2>. QED BY <2>2, <2>3
  <1>4. ASSUME NEW x \in Tokens(a, name)
        PROVE  x \in Tokens(c, name)
    <2>1. PICK i \in DOMAIN a : a[i].name = name /\ x \in a[i].val
      BY <1>4 DEF Tokens, Occurrences
    <2>2. i \in DOMAIN c /\ c[i] = a[i]
      BY <1>1, <1>2
    <2>. QED BY <2>1, <2>2 DEF Tokens, Occurrences
  <1>5. ASSUME NEW x \in Tokens(b, name)
        PROVE  x \in Tokens(c, name)
    <2>1. PICK i \in DOMAIN b : b[i].name = name /\ x \in b[i].val
      BY <1>5 DEF Tokens, Occurrences
    <2>2. i + Len(a) \in DOMAIN c /\ c[i + Len(a)] = b[i]
      BY <1>1, <1>2
    <2>. QED BY <2>1, <2>2 DEF Tokens, Occurrences
  <1>. QED BY <1>3, <1>4, <1>5

LEMMA TokensAppend ==
  ASSUME NEW a \in Seq(HeaderLines), NEW line \in HeaderLines, NEW name
  PROVE  Tokens(Append(a, line), name) =
           Tokens(a, name) \cup (IF line.name = name THEN line.val ELSE {})
  <1>1. <<line>> \in Seq(HeaderLines) /\ Append(a, line) = a \o <<line>>
    OBVIOUS
  <1>2. Tokens(a \o <<line>>, name) = Tokens(a, name) \cup Tokens(<<line>>, name)
    BY <1>1, TokensConcat
  <1>3. Tokens(<<line>>, name) = IF line.name = name THEN line.val ELSE {}
    BY TokensOne
  <1>. QED BY <1>1, <1>2, <1>3

(* begin_response_header adds the mark exactly for is_webp, and image/webp *)
(* exactly for a conversion.                                               *)
LEMMA HeaderBlockTokens ==
  ASSUME NEW w \in Contexts
  PROVE  /\ HeaderBlock(w) \in Seq(HeaderLines)
         /\ MARK \in Vary(HeaderBlock(w)) <=> w.is_webp
         /\ ~w.no_encode => Types(HeaderBlock(w)) = {WEBP}
  <1>. DEFINE v == IF w.vary = NULL THEN <<>> ELSE << Line("Vary", {w.vary}) >>
              t == IF w.origin_content_type = NULL THEN <<>>
                   ELSE << Line("Content-Type", {w.origin_content_type}) >>
              m == MarkLines(w)
              c == << Line("Content-Type", {WEBP}) >>
  <1>1. /\ w.vary \in VaryValues \cup {NULL}
        /\ w.origin_content_type \in ImageTypes \cup {NULL}
    BY DEF Contexts
  <1>2. m \in Seq(HeaderLines)
    <2>. DEFINE tokens == (IF w.vary = NULL THEN {} ELSE {w.vary}) \cup {MARK}
    <2>1. tokens \in SUBSET (VaryValues \cup {MARK})
      BY <1>1
    <2>2. Line("Vary", tokens) \in HeaderLines
      BY <2>1 DEF Line, HeaderLines
    <2>. QED BY <2>2 DEF MarkLines
  <1>3. v \in Seq(HeaderLines) /\ t \in Seq(HeaderLines)
    <2>1. w.vary # NULL => Line("Vary", {w.vary}) \in HeaderLines
      BY <1>1 DEF Line, HeaderLines
    <2>2. w.origin_content_type # NULL =>
            Line("Content-Type", {w.origin_content_type}) \in HeaderLines
      BY <1>1 DEF Line, HeaderLines, ContentTypes
    <2>. QED BY <2>1, <2>2
  <1>4. c \in Seq(HeaderLines)
    BY GateAssumption DEF Line, HeaderLines, ContentTypes
  <1>5. /\ MARK \in Vary(m) <=> w.is_webp
        /\ Types(m) = {}
    BY TokensEmpty, TokensOne DEF MarkLines, Line, Types, Vary
  <1>6. MARK \notin Vary(v) /\ Types(v) = {}
    <2>1. w.vary # NULL => w.vary # MARK
      BY <1>1, GateAssumption
    <2>. QED BY <2>1, TokensEmpty, TokensOne DEF Line, Types, Vary
  <1>7. Vary(t) = {}
    BY TokensEmpty, TokensOne DEF Line, Vary
  <1>8. Vary(c) = {} /\ Types(c) = {WEBP}
    BY TokensOne DEF Line, Vary, Types
  <1>9. HeaderBlock(w) = m \o (IF w.no_encode THEN v \o t ELSE c)
    BY DEF HeaderBlock, RestoredLines
  <1>. HIDE DEF v, t, m, c
  <1>10. CASE w.no_encode
    <2>1. v \o t \in Seq(HeaderLines)
      BY <1>3
    <2>2. Vary(v \o t) = Vary(v) \cup Vary(t)
      BY <1>3, TokensConcat DEF Vary
    <2>3. HeaderBlock(w) = m \o (v \o t)
      BY <1>9, <1>10
    <2>4. Vary(m \o (v \o t)) = Vary(m) \cup Vary(v \o t)
      BY <1>2, <2>1, TokensConcat DEF Vary
    <2>5. m \o (v \o t) \in Seq(HeaderLines)
      BY <1>2, <2>1
    <2>. QED BY <1>5, <1>6, <1>7, <1>10, <2>2, <2>3, <2>4, <2>5
  <1>11. CASE ~w.no_encode
    <2>1. HeaderBlock(w) = m \o c
      BY <1>9, <1>11
    <2>2. Vary(m \o c) = Vary(m) \cup Vary(c)
      BY <1>2, <1>4, TokensConcat DEF Vary
    <2>3. Types(m \o c) = Types(m) \cup Types(c)
      BY <1>2, <1>4, TokensConcat DEF Types
    <2>4. m \o c \in Seq(HeaderLines)
      BY <1>2, <1>4
    <2>. QED BY <1>5, <1>8, <1>11, <2>1, <2>2, <2>3, <2>4
  <1>. QED BY <1>10, <1>11
-----------------------------------------------------------------------------
(* The inductive invariant.  Until the gate has decided nothing has gone   *)
(* downstream that counts.                                                 *)
Unanswered ==
  /\ phase = "status" => up.lines = <<>> /\ up.status = 0
  /\ phase \in {"status", "headers", "gate_body"} =>
       /\ MARK \notin Vary(out.lines)
       /\ ~out.finished /\ out.closed = NULL
       /\ out.orig = 0 /\ out.webp = 0

(* is_webp stands for an image type that was seen, or for a 304; and an    *)
(* answer all of whose types are images loses it only when its conversion  *)
(* fails.                                                                  *)
ImagesSeen ==
  /\ webp.is_webp => up.status \in {200, 304}
  /\ up.status = 200 /\ webp.is_webp => Types(up.lines) \cap ImageTypes # {}
  /\ phase = "headers" /\ up.status = 200 /\ ~webp.is_webp =>
       IF webp.no_encode THEN ~(Types(up.lines) \subseteq ImageTypes)
                         ELSE Types(up.lines) = {}
  /\ phase = "pass_body" /\ OnlyImageTypes => webp.is_webp
  /\ out.finished /\ OnlyImageTypes /\ ~webp.is_webp =>
       webp.accept_support /\ out.orig = 0

(* The finished head says what the flags say. *)
Answered ==
  out.finished =>
    /\ MARK \in Vary(out.lines) <=> webp.is_webp
    /\ ~webp.no_encode =>
         webp.accept_support /\ webp.is_webp /\ up.status = 200

BodyKinds ==
  /\ phase = "encoding" =>
       /\ out.finished /\ ~webp.no_encode /\ out.closed = NULL
       /\ webp.u = "gif_data" => out.webp = 0
  /\ phase = "pass_body" =>
       out.finished /\ webp.no_encode /\ out.closed = NULL
  /\ out.webp > 0 => out.finished /\ ~webp.no_encode
  /\ out.orig > 0 => out.finished /\ webp.no_encode

AInv == Unanswered /\ ImagesSeen /\ Answered /\ BodyKinds

LEMMA InitAInv == Init => AInv
  <1>. SUFFICES ASSUME Init PROVE AInv
    OBVIOUS
  <1>1. Vary(<<>>) = {}
    BY TokensEmpty DEF Vary
  <1>. QED BY <1>1 DEF Init, AInv, Unanswered, ImagesSeen, Answered, BodyKinds

(* Lines pushed before the head is finished. *)
LEMMA PushedLines ==
  ASSUME TypeOK, NEW line \in HeaderLines, Pushing(line)
  PROVE  /\ phase = "headers" /\ phase' = "headers"
         /\ up'.status = up.status
         /\ Types(up'.lines) = Types(up.lines) \cup
              (IF line.name = "Content-Type" THEN line.val ELSE {})
  <1>1. up.lines \in Seq(HeaderLines)
    BY DEF TypeOK, Upstreams
  <1>2. up'.lines = Append(up.lines, line) /\ up'.status = up.status
    BY DEF TypeOK, Upstreams, Pushing
  <1>3. Types(Append(up.lines, line)) = Types(up.lines) \cup
              (IF line.name = "Content-Type" THEN line.val ELSE {})
    BY <1>1, TokensAppend DEF Types
  <1>. QED BY <1>2, <1>3 DEF Pushing

LEMMA ForwardedLines ==
  ASSUME TypeOK, NEW line \in HeaderLines, Forward(line),
         line.name = "Vary" => MARK \notin line.val
  PROVE  /\ MARK \in Vary(out'.lines) <=> MARK \in Vary(out.lines)
         /\ out'.finished = out.finished /\ out'.closed = out.closed
         /\ out'.orig = out.orig /\ out'.webp = out.webp
  <1>1. out.lines \in Seq(HeaderLines)
    BY DEF TypeOK, Outputs
  <1>2. /\ out'.lines = Append(out.lines, line)
        /\ out'.finished = out.finished /\ out'.closed = out.closed
        /\ out'.orig = out.orig /\ out'.webp = out.webp
    BY DEF TypeOK, Outputs, Forward
  <1>3. Vary(Append(out.lines, line)) =
          Vary(out.lines) \cup (IF line.name = "Vary" THEN line.val ELSE {})
    BY <1>1, TokensAppend DEF Vary
  <1>. QED BY <1>2, <1>3

(* In the phase "headers" only these facts about a push count. *)
LEMMA PushAInv ==
  ASSUME IInv, AInv, phase = "headers", phase' = "headers",
         up'.status = up.status, webp' \in Contexts,
         MARK \notin Vary(out'.lines),
         out'.finished = out.finished, out'.closed = out.closed,
         out'.orig = out.orig, out'.webp = out.webp,
         webp'.is_webp => up.status \in {200, 304},
         up.status = 200 /\ webp'.is_webp =>
           Types(up'.lines) \cap ImageTypes # {},
         up.status = 200 /\ ~webp'.is_webp =>
           IF webp'.no_encode THEN ~(Types(up'.lines) \subseteq ImageTypes)
                              ELSE Types(up'.lines) = {}
  PROVE  AInv'
  BY DEF AInv, Unanswered, ImagesSeen, Answered, BodyKinds

LEMMA StatusAInv ==
  ASSUME IInv, AInv, NEW s \in {200, 304, 404}, PushStatus(s)
  PROVE  AInv'
  <1>0. TypeOK /\ phase = "status" /\ phase' = "headers"
    BY DEF IInv, PushStatus
  <1>1. /\ out'.lines = out.lines /\ out'.finished = out.finished
        /\ out'.closed = out.closed /\ out'.orig = out.orig
        /\ out'.webp = out.webp
    BY <1>0 DEF PushStatus, TypeOK, Outputs
  <1>2. up'.lines = <<>> /\ up'.status = s
    BY <1>0 DEF PushStatus, TypeOK, Upstreams, AInv, Unanswered
  <1>3. Types(up'.lines) = {}
    BY <1>2, TokensEmpty DEF Types
  <1>4. /\ webp'.is_webp => s = 304
        /\ s = 200 => ~webp'.no_encode
    <2>1. ~webp.is_webp /\ ~webp.no_encode
      BY <1>0 DEF IInv, Undecided
    <2>2. CASE s = 200 /\ webp' = webp
      BY <2>1, <2>2
    <2>3. CASE s # 200 /\ webp' = [webp EXCEPT !.no_encode = TRUE,
                                              !.is_webp = FALSE]
      BY <1>0, <2>3 DEF TypeOK, Contexts
    <2>4. CASE s = 304 /\ webp' = [webp EXCEPT !.no_encode = TRUE,
                                              !.is_webp = TRUE]
      BY <1>0, <2>4
    <2>. QED BY <2>1, <2>2, <2>3, <2>4 DEF PushStatus
  <1>. QED BY <1>0, <1>1, <1>2, <1>3, <1>4
           DEF AInv, Unanswered, ImagesSeen, Answered, BodyKinds

LEMMA HeadersAInv ==
  ASSUME IInv, AInv, PushHeader
  PROVE  AInv'
  <1>0. TypeOK
    BY DEF IInv
  <1>h. phase = "headers" =>
          /\ MARK \notin Vary(out.lines)
          /\ webp.is_webp => up.status \in {200, 304}
          /\ up.status = 200 /\ webp.is_webp =>
               Types(up.lines) \cap ImageTypes # {}
          /\ up.status = 200 /\ ~webp.is_webp =>
               IF webp.no_encode THEN ~(Types(up.lines) \subseteq ImageTypes)
                                 ELSE Types(up.lines) = {}
    BY DEF AInv, Unanswered, ImagesSeen
  <1>u. phase = "headers" /\ ~webp.no_encode => up.status = 200
    BY DEF IInv, Undecided
  <1>w. webp \in Contexts
    BY <1>0 DEF TypeOK
  <1>1. ASSUME NEW line \in HeaderLines, MARK \notin line.val, PushThrough(line)
        PROVE  AInv'
    <2>1. webp' = webp /\ webp.no_encode
      BY <1>1 DEF PushThrough
    <2>2. Types(up.lines) \subseteq Types(up'.lines)
      BY <1>0, <1>1, PushedLines DEF PushThrough
    <2>. QED BY <1>0, <1>1, <1>h, <1>w, <2>1, <2>2, PushedLines, ForwardedLines,
                PushAInv DEF PushThrough
  <1>2. CASE PushContentLength
    <2>1. webp' = webp /\ out' = out
      BY <1>2 DEF PushContentLength
    <2>2. /\ Types(up'.lines) = Types(up.lines) /\ phase = "headers"
          /\ phase' = "headers" /\ up'.status = up.status
      BY <1>0, <1>2, PushedLines, LineTypes DEF PushContentLength, Line
    <2>. QED BY <1>h, <1>w, <2>1, <2>2, PushAInv
  <1>3. ASSUME NEW t \in ContentTypes, KeepContentType(t)
        PROVE  AInv'
    <2>1. t \in ImageTypes /\ out' = out /\ ~webp.no_encode
      BY <1>3 DEF KeepContentType
    <2>2. webp'.is_webp /\ webp' \in Contexts
      BY <1>0, <1>3, <2>1 DEF KeepContentType, TypeOK, Contexts
    <2>3. /\ t \in Types(up'.lines) /\ phase = "headers"
          /\ phase' = "headers" /\ up'.status = up.status
      BY <1>0, <1>3, PushedLines, LineTypes DEF KeepContentType, Line
    <2>. QED BY <1>h, <1>u, <2>1, <2>2, <2>3, PushAInv
  <1>4. ASSUME NEW t \in ContentTypes, PassContentType(t)
        PROVE  AInv'
    <2>1. /\ webp'.is_webp <=> (webp.is_webp \/ t \in ImageTypes)
          /\ webp'.no_encode /\ ~webp.no_encode
          /\ webp' \in Contexts
      <3>1. /\ (webp.is_webp \/ t \in ImageTypes) \in BOOLEAN
            /\ webp' = [webp EXCEPT !.is_webp = webp.is_webp \/ t \in ImageTypes,
                                    !.no_encode = TRUE]
        BY <1>4 DEF PassContentType
      <3>. QED BY <1>4, <1>w, <3>1 DEF Contexts, PassContentType
    <2>2. /\ Types(up'.lines) = Types(up.lines) \cup {t} /\ phase = "headers"
          /\ phase' = "headers" /\ up'.status = up.status
      BY <1>0, <1>4, PushedLines, LineTypes DEF PassContentType, Line
    <2>3. Line("Content-Type", {t}).name # "Vary"
      BY DEF Line
    <2>4. /\ MARK \notin Vary(out'.lines)
          /\ out'.finished = out.finished /\ out'.closed = out.closed
          /\ out'.orig = out.orig /\ out'.webp = out.webp
      BY <1>0, <1>4, <1>h, <2>2, <2>3, ForwardedLines, LineTypes
         DEF PassContentType
    <2>. QED BY <1>h, <1>u, <2>1, <2>2, <2>4, PushAInv
  <1>5. ASSUME NEW v \in VaryValues, PushVary(v)
        PROVE  AInv'
    <2>1. /\ webp'.is_webp = webp.is_webp /\ webp'.no_encode = webp.no_encode
          /\ webp' \in Contexts /\ out' = out
      BY <1>0, <1>5 DEF PushVary, TypeOK, Contexts
    <2>2. /\ Types(up'.lines) = Types(up.lines) /\ phase = "headers"
          /\ phase' = "headers" /\ up'.status = up.status
      BY <1>0, <1>5, PushedLines, LineTypes DEF PushVary, Line
    <2>. QED BY <1>h, <2>1, <2>2, PushAInv
  <1>6. CASE PushOther
    <2>1. webp' = webp
      BY <1>6 DEF PushOther
    <2>2. /\ Types(up'.lines) = Types(up.lines) /\ phase = "headers"
          /\ phase' = "headers" /\ up'.status = up.status
      BY <1>0, <1>6, PushedLines, LineTypes DEF PushOther, Line
    <2>3. /\ MARK \notin Vary(out'.lines)
          /\ out'.finished = out.finished /\ out'.closed = out.closed
          /\ out'.orig = out.orig /\ out'.webp = out.webp
      BY <1>0, <1>6, <1>h, <2>2, ForwardedLines, LineTypes DEF PushOther, Line
    <2>. QED BY <1>h, <1>w, <2>1, <2>2, <2>3, PushAInv
  <1>. QED BY <1>1, <1>2, <1>3, <1>4, <1>5, <1>6 DEF PushHeader

(* begin_response_header for the context w, whoever calls it. *)
LEMMA FinishAInv ==
  ASSUME IInv, AInv, phase \in {"headers", "gate_body"},
         NEW w \in Contexts, NEW size \in Int, NEW result \in Results,
         BeginResponseHeader(w, size, result),
         up'.lines = up.lines, up'.status = up.status,
         w.accept_support = webp.accept_support,
         w.is_webp => webp.is_webp,
         ~w.no_encode => w.accept_support /\ w.is_webp /\ up.status = 200,
         OnlyImageTypes /\ ~w.is_webp => w.accept_support,
         phase' \in {"pass_body", "encoding", "ended"},
         phase' # "ended" => result = OK,
         phase' = "pass_body" => w.no_encode /\ (OnlyImageTypes => w.is_webp),
         phase' = "encoding" => ~w.no_encode
  PROVE  /\ AInv'
         /\ webp'.accept_support = webp.accept_support
         /\ webp'.no_encode = w.no_encode /\ webp'.is_webp = w.is_webp
  <1>0. TypeOK
    BY DEF IInv
  <1>1. /\ webp'.no_encode = w.no_encode /\ webp'.is_webp = w.is_webp
        /\ out'.orig = out.orig /\ out'.webp = out.webp
        /\ out'.closed = out.closed
        /\ out'.lines = out.lines \o HeaderBlock(w)
        /\ out'.finished <=> result = OK
    BY <1>0, BeginResponseHeaderType
  <1>2. webp'.accept_support = w.accept_support
    BY DEF BeginResponseHeader, Contexts
  <1>3. out.lines \in Seq(HeaderLines)
    BY <1>0 DEF TypeOK, Outputs
  <1>4. /\ HeaderBlock(w) \in Seq(HeaderLines)
        /\ MARK \in Vary(HeaderBlock(w)) <=> w.is_webp
    BY HeaderBlockTokens
  <1>5. Vary(out.lines \o HeaderBlock(w)) =
          Vary(out.lines) \cup Vary(HeaderBlock(w))
    BY <1>3, <1>4, TokensConcat DEF Vary
  <1>6. MARK \in Vary(out'.lines) <=> w.is_webp
    BY <1>1, <1>4, <1>5 DEF AInv, Unanswered
  <1>7. /\ ~out.finished /\ out.closed = NULL /\ out.orig = 0 /\ out.webp = 0
    BY DEF AInv, Unanswered
  <1>8. OnlyImageTypes' <=> OnlyImageTypes
    BY DEF OnlyImageTypes
  <1>9. Unanswered'
    BY DEF Unanswered
  <1>10. ImagesSeen'
    BY <1>1, <1>2, <1>7, <1>8 DEF ImagesSeen, AInv
  <1>11. Answered'
    BY <1>1, <1>2, <1>6 DEF Answered
  <1>12. BodyKinds'
    BY <1>1, <1>7 DEF BodyKinds
  <1>. QED BY <1>1, <1>2, <1>9, <1>10, <1>11, <1>12 DEF AInv

LEMMA ErrorAInv ==
  ASSUME IInv, AInv, HandleError
  PROVE  AInv'
  <1>1. /\ phase' = "ended" /\ ~webp'.is_webp /\ up' = up
        /\ webp'.accept_support = webp.accept_support
    BY DEF HandleError, IInv, TypeOK, Contexts
  <1>2. /\ out'.finished = out.finished /\ ~out.finished
        /\ out'.orig = out.orig /\ out'.webp = out.webp
        /\ out.orig = 0 /\ out.webp = 0
    BY DEF HandleError, IInv, TypeOK, Outputs, AInv, Unanswered
  <1>. QED BY <1>1, <1>2 DEF AInv, Unanswered, ImagesSeen, Answered, BodyKinds

(* In the phase "headers" an answer with image types only has is_webp. *)
LEMMA ImageFlagged ==
  ASSUME AInv, phase = "headers", OnlyImageTypes
  PROVE  webp.is_webp
  BY DEF AInv, ImagesSeen, OnlyImageTypes, Types

LEMMA ReadSizeLines ==
  ASSUME TypeOK, NEW size \in BodySizes, ReadSize(size)
  PROVE  up'.lines = up.lines /\ up'.status = up.status
  BY DEF TypeOK, ReadSize, Upstreams

LEMMA HeaderFinishAInv ==
  ASSUME IInv, AInv, PushHeaderFinish
  PROVE  AInv' /\ webp'.accept_support = webp.accept_support
  <1>0. TypeOK
    BY DEF IInv
  <1>. PICK size \in BodySizes :
         \/ \E result \in {OK, EIO} : PushHeaderFinishPass(size, result)
         \/ PushHeaderFinishTake(size)
    BY DEF PushHeaderFinish
  <1>i. size \in Int
    BY GateAssumption
  <1>1. ASSUME NEW result \in {OK, EIO}, PushHeaderFinishPass(size, result)
        PROVE  AInv' /\ webp'.accept_support = webp.accept_support
    <2>. DEFINE w == HeaderFinish(size)
    <2>1. /\ w \in Contexts /\ w.no_encode /\ w.is_webp = webp.is_webp
      BY <1>0, <1>1, HeaderFinishType DEF PushHeaderFinishPass
    <2>2. w.accept_support = webp.accept_support
      BY <1>0 DEF HeaderFinish, TypeOK, Contexts
    <2>3. /\ phase = "headers" /\ BeginResponseHeader(w, size, result)
          /\ up'.lines = up.lines /\ up'.status = up.status
          /\ phase' = IF result = OK THEN "pass_body" ELSE "ended"
      BY <1>0, <1>1, ReadSizeLines DEF PushHeaderFinishPass, ReadSize
    <2>4. OnlyImageTypes => w.is_webp
      BY <2>1, <2>3, ImageFlagged
    <2>5. result \in Results
      BY DEF Results
    <2>. HIDE DEF w
    <2>. QED BY <1>i, <2>1, <2>2, <2>3, <2>4, <2>5, FinishAInv
  <1>2. CASE PushHeaderFinishTake(size)
    <2>1. /\ phase = "headers" /\ phase' = "gate_body"
          /\ UNCHANGED <<webp, out>>
          /\ up'.lines = up.lines /\ up'.status = up.status
      BY <1>0, <1>2, ReadSizeLines DEF PushHeaderFinishTake, ReadSize
    <2>. QED BY <2>1 DEF AInv, Unanswered, ImagesSeen, Answered, BodyKinds,
                         OnlyImageTypes
  <1>. QED BY <1>1, <1>2

LEMMA WriteAInv ==
  ASSUME IInv, AInv, NEW len \in Chunks, KwebpWrite(len)
  PROVE  AInv'
  <1>1. /\ phase = "gate_body" /\ phase' = "gate_body"
        /\ UNCHANGED <<webp, out>>
        /\ up'.lines = up.lines /\ up'.status = up.status
    BY DEF KwebpWrite, IInv, TypeOK, Upstreams
  <1>. QED BY <1>1 DEF AInv, Unanswered, ImagesSeen, Answered, BodyKinds,
                       OnlyImageTypes

LEMMA ClosingLines ==
  ASSUME TypeOK, NEW result, Closing(result)
  PROVE  /\ phase = "gate_body"
         /\ up'.lines = up.lines /\ up'.status = up.status
  BY DEF TypeOK, Closing, Upstreams

LEMMA CloseAInv ==
  ASSUME IInv, AInv, KwebpClose
  PROVE  AInv' /\ webp'.accept_support = webp.accept_support
  <1>0. TypeOK /\ webp \in Contexts /\ OK \in Results /\ -1 \in Int
    BY DEF IInv, TypeOK, Results
  <1>. PICK header_result \in {OK, EIO} :
         \/ \E result \in Results : CloseUnconverted(result, header_result)
         \/ CloseUnreadable(header_result)
         \/ CloseConverting(header_result)
    BY DEF KwebpClose
  <1>r. header_result \in Results
    BY DEF Results
  <1>g. phase = "gate_body" =>
          webp.accept_support /\ webp.is_webp /\ up.status = 200
    BY DEF IInv, GateTakesOnlyConvertible
  <1>1. ASSUME NEW result \in Results, CloseUnconverted(result, header_result)
        PROVE  AInv' /\ webp'.accept_support = webp.accept_support
    <2>. DEFINE m == webp.is_webp /\ result = OK
                w == [Closed(webp) EXCEPT !.no_encode = TRUE, !.is_webp = m]
    <2>1. m \in BOOLEAN
      OBVIOUS
    <2>2. BeginResponseHeader(w, -1, header_result)
      <3>1. w = [Closed(webp) EXCEPT !.no_encode = TRUE,
                                     !.is_webp = @ /\ result = OK]
        BY <1>0 DEF Closed, Contexts
      <3>. QED BY <1>1, <3>1 DEF CloseUnconverted
    <2>. HIDE DEF m
    <2>3. /\ w \in Contexts /\ w.no_encode /\ w.is_webp = m
          /\ w.accept_support = webp.accept_support
      BY <1>0, <2>1 DEF Closed, Contexts
    <2>4. m => webp.is_webp
      BY DEF m
    <2>5. /\ phase = "gate_body" /\ phase' = "ended"
          /\ up'.lines = up.lines /\ up'.status = up.status
      BY <1>0, <1>1, ClosingLines DEF CloseUnconverted
    <2>. HIDE DEF w
    <2>. QED BY <1>0, <1>r, <1>g, <2>2, <2>3, <2>4, <2>5, FinishAInv
  <1>2. CASE CloseUnreadable(header_result)
    <2>1. PICK read \in FailedReads :
            BeginResponseHeader([Closed(webp) EXCEPT !.u = read.u,
                                                     !.is_webp = FALSE,
                                                     !.no_encode = TRUE],
                                -1, header_result)
      BY <1>2 DEF CloseUnreadable
    <2>. DEFINE w == [Closed(webp) EXCEPT !.u = read.u, !.is_webp = FALSE,
                                          !.no_encode = TRUE]
    <2>2. read.u \in {NULL, "picture", "gif_data"}
      BY DEF FailedReads
    <2>3. /\ w \in Contexts /\ w.no_encode /\ ~w.is_webp
          /\ w.accept_support = webp.accept_support
      BY <1>0, <2>2 DEF Closed, Contexts
    <2>5. /\ phase = "gate_body" /\ phase' = "ended"
          /\ up'.lines = up.lines /\ up'.status = up.status
      BY <1>0, <1>2, ClosingLines DEF CloseUnreadable
    <2>6. BeginResponseHeader(w, -1, header_result)
      BY <2>1
    <2>. HIDE DEF w
    <2>. QED BY <1>0, <1>r, <1>g, <2>3, <2>5, <2>6, FinishAInv
  <1>3. CASE CloseConverting(header_result)
    <2>1. PICK kind \in ReadKinds :
            BeginResponseHeader([Closed(webp) EXCEPT !.u = kind], -1,
                                header_result)
      BY <1>3 DEF CloseConverting
    <2>. DEFINE w == [Closed(webp) EXCEPT !.u = kind]
    <2>2. kind \in {NULL, "picture", "gif_data"}
      BY DEF ReadKinds
    <2>3. /\ w \in Contexts /\ w.no_encode = webp.no_encode
          /\ w.is_webp = webp.is_webp
          /\ w.accept_support = webp.accept_support
      BY <1>0, <2>2 DEF Closed, Contexts
    <2>4. ~webp.no_encode
      BY <1>3 DEF CloseConverting, Convertible
    <2>5. /\ phase = "gate_body"
          /\ phase' = IF header_result = OK THEN "encoding" ELSE "ended"
          /\ up'.lines = up.lines /\ up'.status = up.status
      BY <1>0, <1>3, ClosingLines DEF CloseConverting
    <2>6. BeginResponseHeader(w, -1, header_result)
      BY <2>1
    <2>. HIDE DEF w
    <2>. QED BY <1>0, <1>r, <1>g, <2>3, <2>4, <2>5, <2>6, FinishAInv
  <1>. QED BY <1>1, <1>2, <1>3

(* The fields of out that the encoder and the pass-through leave alone. *)
LEMMA EncodeFields ==
  ASSUME IInv, AInv, Encode
  PROVE  /\ phase = "encoding" /\ phase' \in {"encoding", "ended"}
         /\ UNCHANGED <<webp, up>>
         /\ out'.lines = out.lines /\ out'.finished = out.finished
         /\ out'.orig = out.orig /\ out'.size = out.size
         /\ out'.closed \in Results \cup {NULL}
         /\ out'.webp \in Nat
         /\ out.webp > 0 => out'.webp > 0
         /\ out'.closed = OK => out'.webp > 0
         /\ phase' = "encoding" => out'.closed = NULL /\ webp.u = "picture"
  <1>0. out \in Outputs
    BY DEF IInv, TypeOK
  <1>1. out.webp \in Nat
    BY <1>0 DEF Outputs
  <1>e. phase = "encoding" =>
          out.closed = NULL /\ (webp.u = "gif_data" => out.webp = 0)
    BY DEF AInv, BodyKinds
  <1>n. OK # NULL /\ EDATA # OK
    BY GateAssumption DEF OK, EDATA, Results
  <1>2. CASE EncodeChunk
    BY <1>0, <1>1, <1>2, <1>e, <1>n DEF EncodeChunk, Outputs
  <1>3. CASE EncodeDone
    BY <1>0, <1>1, <1>3 DEF EncodeDone, CloseBody, Outputs, Results
  <1>4. CASE EncodeFailed
    BY <1>0, <1>1, <1>4, <1>n DEF EncodeFailed, CloseBody, Outputs, Results
  <1>5. ASSUME NEW result \in {OK, EIO}, WriteGif(result)
        PROVE  /\ phase = "encoding" /\ phase' = "ended"
               /\ UNCHANGED <<webp, up>>
               /\ out'.lines = out.lines /\ out'.finished = out.finished
               /\ out'.orig = out.orig /\ out'.size = out.size
               /\ out'.closed = result /\ out.webp = 0
               /\ out'.webp = IF result = OK THEN 1 ELSE 0
    BY <1>0, <1>5, <1>e DEF WriteGif, CloseBody, Outputs
  <1>. QED BY <1>2, <1>3, <1>4, <1>5 DEF Encode, Results

LEMMA EncodeAInv ==
  ASSUME IInv, AInv, Encode
  PROVE  AInv'
  <1>1. OnlyImageTypes' <=> OnlyImageTypes
    BY EncodeFields DEF OnlyImageTypes
  <1>2. "picture" # "gif_data"
    OBVIOUS
  <1>. QED BY <1>1, <1>2, EncodeFields
           DEF AInv, Unanswered, ImagesSeen, Answered, BodyKinds

LEMMA PassFields ==
  ASSUME IInv, Pass
  PROVE  /\ phase = "pass_body" /\ phase' \in {"pass_body", "ended"}
         /\ UNCHANGED webp
         /\ up'.lines = up.lines /\ up'.status = up.status
         /\ up'.size = up.size /\ out'.size = out.size
         /\ out'.lines = out.lines /\ out'.finished = out.finished
         /\ out'.webp = out.webp
         /\ out'.closed \in Results \cup {NULL}
         /\ out.orig \in Nat /\ out'.orig \in Nat /\ out'.orig >= out.orig
         /\ phase' = "pass_body" => out'.closed = out.closed
  <1>0. out \in Outputs /\ up \in Upstreams
    BY DEF IInv, TypeOK
  <1>1. ASSUME NEW len \in Chunks, PassWrite(len)
        PROVE  /\ phase = "pass_body" /\ phase' = "pass_body"
               /\ UNCHANGED webp
               /\ up'.lines = up.lines /\ up'.status = up.status
               /\ up'.size = up.size /\ out'.size = out.size
               /\ out'.lines = out.lines /\ out'.finished = out.finished
               /\ out'.webp = out.webp /\ out'.closed = out.closed
               /\ out.orig \in Nat /\ out'.orig \in Nat /\ out'.orig >= out.orig
    <2>1. len \in Nat
      BY GateAssumption
    <2>. QED BY <1>0, <1>1, <2>1 DEF PassWrite, Outputs, Upstreams
  <1>2. ASSUME NEW result \in {OK, EIO}, PassClose(result)
        PROVE  /\ phase = "pass_body" /\ phase' = "ended"
               /\ UNCHANGED webp
               /\ up'.lines = up.lines /\ up'.status = up.status
               /\ up'.size = up.size /\ out'.size = out.size
               /\ out'.lines = out.lines /\ out'.finished = out.finished
               /\ out'.webp = out.webp /\ out'.closed = result
               /\ out.orig \in Nat /\ out'.orig = out.orig
    BY <1>0, <1>2 DEF PassClose, Outputs, Upstreams
  <1>. QED BY <1>0, <1>1, <1>2 DEF Pass, Results, Outputs

LEMMA PassAInv ==
  ASSUME IInv, AInv, Pass
  PROVE  AInv'
  <1>1. OnlyImageTypes' <=> OnlyImageTypes
    BY PassFields DEF OnlyImageTypes
  <1>2. out.webp = 0
    BY PassFields DEF IInv, Taken
  <1>. QED BY <1>1, <1>2, PassFields
           DEF AInv, Unanswered, ImagesSeen, Answered, BodyKinds

LEMMA FreeAInv ==
  ASSUME IInv, AInv, FreeCtx
  PROVE  AInv' /\ webp'.accept_support = webp.accept_support
               /\ webp'.no_encode = webp.no_encode
  <1>1. /\ phase' = "freed" /\ UNCHANGED <<up, out>>
        /\ webp'.is_webp = webp.is_webp /\ webp'.no_encode = webp.no_encode
        /\ webp'.accept_support = webp.accept_support
    BY DEF FreeCtx, IInv, TypeOK, Contexts
  <1>. QED BY <1>1 DEF AInv, Unanswered, ImagesSeen, Answered, BodyKinds,
                       OnlyImageTypes

LEMMA InductiveA == Spec => []AInv
  <1>1. IInv /\ AInv /\ [Next]_gvars => AInv'
    <2>. SUFFICES ASSUME IInv, AInv, [Next]_gvars
                  PROVE  AInv'
      OBVIOUS
    <2>1. CASE UNCHANGED gvars
      BY <2>1 DEF gvars, AInv, Unanswered, ImagesSeen, Answered, BodyKinds,
                  OnlyImageTypes
    <2>. QED BY <2>1, StatusAInv, HeadersAInv, ErrorAInv, HeaderFinishAInv,
                WriteAInv, CloseAInv, EncodeAInv, PassAInv, FreeAInv DEF Next
  <1>. QED BY <1>1, Inductive, InitAInv, PTL DEF Spec

-----------------------------------------------------------------------------
(* The table at upstream.h:22-26 holds for every upstream: an original     *)
(* image is marked, and nothing else is but a renewal.                     *)
THEOREM MarkedAsTable == Spec => []MarkedExactlyWhenNegotiable
  <1>1. IInv /\ AInv => MarkedExactlyWhenNegotiable
    <2>. SUFFICES ASSUME IInv, AInv PROVE MarkedExactlyWhenNegotiable
      OBVIOUS
    <2>1. Marked <=> MARK \in Vary(out.lines)
      BY DEF Marked, Vary
    <2>2. out.orig \in Nat
      BY DEF IInv, TypeOK, Outputs
    <2>3. out.orig > 0 /\ OnlyImageTypes => Marked
      BY <2>1, <2>2 DEF AInv, BodyKinds, Answered, ImagesSeen
    <2>4. out.finished /\ Marked =>
            \/ up.status = 304
            \/ up.status = 200
                 /\ Tokens(up.lines, "Content-Type") \cap ImageTypes # {}
      BY <2>1 DEF AInv, Answered, ImagesSeen, Types
    <2>. QED BY <2>3, <2>4 DEF MarkedExactlyWhenNegotiable
  <1>. QED BY <1>1, Inductive, InductiveA, PTL

-----------------------------------------------------------------------------
(* The refinement.  A head, once there, is no NULL.                        *)
LEMMA HeadIsHead ==
  ASSUME IInv, out.finished
  PROVE  AnswerHead \in Heads /\ AnswerHead # NULL
  <1>1. /\ (up.status = 304) \in BOOLEAN /\ OnlyImageTypes \in BOOLEAN
        /\ Marked \in BOOLEAN /\ (~webp.no_encode) \in BOOLEAN
    BY DEF OnlyImageTypes, Marked
  <1>2. AnswerHead \in Heads
    BY <1>1 DEF AnswerHead, Heads
  <1>. QED BY <1>2, GateAssumption

(* Nothing of the answer changes before the head. *)
LEMMA QuietStep ==
  ASSUME ~out.finished, ~out'.finished, webp'.accept_support = webp.accept_support,
         out'.orig = out.orig, out'.webp = out.webp, out'.closed = out.closed
  PROVE  UNCHANGED Answer!rvars
  BY DEF Answer!rvars, AnswerHead, AnswerBody

(* begin_response_header sends the head, or nothing. *)
LEMMA HeadStep ==
  ASSUME IInv, AInv, IInv', AInv', phase \in {"headers", "gate_body"},
         webp'.accept_support = webp.accept_support,
         out'.orig = out.orig, out'.webp = out.webp, out'.closed = out.closed
  PROVE  [Answer!Next]_Answer!rvars
  <1>1. ~out.finished /\ out.closed = NULL
    BY DEF AInv, Unanswered
  <1>2. CASE ~out'.finished
    BY <1>1, <1>2, QuietStep
  <1>3. CASE out'.finished
    <2>0. /\ (up'.status = 304) \in BOOLEAN /\ OnlyImageTypes' \in BOOLEAN
          /\ Marked' \in BOOLEAN /\ (~webp'.no_encode) \in BOOLEAN
      BY DEF OnlyImageTypes, Marked
    <2>1. AnswerHead' \in Heads
      BY <1>3, <2>0 DEF AnswerHead, Heads
    <2>2. /\ AnswerHead'.image <=> OnlyImageTypes'
          /\ AnswerHead'.renews <=> up'.status = 304
          /\ AnswerHead'.marked <=> Marked'
          /\ AnswerHead'.converted <=> ~webp'.no_encode
      BY <1>3 DEF AnswerHead
    <2>3. Marked' <=> webp'.is_webp
      BY <1>3 DEF Marked, AInv, Answered, Vary
    <2>4. /\ ~webp'.no_encode => webp'.accept_support /\ webp'.is_webp
                                  /\ up'.status = 200
          /\ OnlyImageTypes' /\ ~webp'.is_webp => webp'.accept_support
      BY <1>3 DEF AInv, Answered, ImagesSeen
    <2>5. HeadAllowed(webp.accept_support, AnswerHead')
      BY <2>1, <2>2, <2>3, <2>4 DEF HeadAllowed
    <2>6. AnswerHead = NULL /\ AnswerBody' = AnswerBody
      BY <1>1 DEF AnswerHead, AnswerBody
    <2>7. Answer!SendHead
      BY <1>1, <2>1, <2>5, <2>6
         DEF Answer!SendHead, Answer!Heads, Answer!HeadAllowed, Heads,
             HeadAllowed
    <2>. QED BY <2>7 DEF Answer!Next
  <1>. QED BY <1>2, <1>3

(* Bytes and closes after the head: the head stays. *)
LEMMA BodyStep ==
  ASSUME IInv, AInv, IInv', AInv', out.finished, out'.finished,
         out.closed = NULL, out'.closed \in Results \cup {NULL},
         up'.lines = up.lines, up'.status = up.status,
         out'.lines = out.lines, UNCHANGED webp,
         out.webp > 0 => out'.webp > 0, out.orig > 0 => out'.orig > 0,
         out'.closed = OK /\ ~webp.no_encode => out'.webp > 0
  PROVE  [Answer!Next]_Answer!rvars
  <1>1. AnswerHead' = AnswerHead
    <2>1. OnlyImageTypes' = OnlyImageTypes /\ Marked' = Marked
      BY DEF OnlyImageTypes, Marked
    <2>. QED BY <2>1 DEF AnswerHead
  <1>2. AnswerHead # NULL
    BY HeadIsHead
  <1>3. /\ AnswerHead.image <=> OnlyImageTypes
        /\ AnswerHead.marked <=> Marked
        /\ AnswerHead.converted <=> ~webp.no_encode
    BY DEF AnswerHead
  <1>4. /\ out'.webp > 0 => ~webp.no_encode
        /\ out'.orig > 0 => webp.no_encode
        /\ OnlyImageTypes /\ out'.orig > 0 => Marked
    <2>1. OnlyImageTypes' /\ out'.orig > 0 => webp'.is_webp
      BY DEF IInv, TypeOK, Outputs, AInv, ImagesSeen
    <2>2. Marked <=> webp.is_webp
      BY DEF Marked, Vary, AInv, Answered
    <2>3. OnlyImageTypes' <=> OnlyImageTypes
      BY DEF OnlyImageTypes
    <2>. QED BY <2>1, <2>2, <2>3 DEF AInv, BodyKinds
  <1>5. /\ AnswerBody' \in {AnswerBody, "original", "webp"}
        /\ AnswerBody # "nothing" => AnswerBody' = AnswerBody
        /\ AnswerBody' = "webp" => ~webp.no_encode
        /\ AnswerBody' = "original" =>
             webp.no_encode /\ (OnlyImageTypes => Marked)
        /\ out'.webp > 0 => AnswerBody' = "webp"
    <2>1. /\ out.webp > 0 => ~webp.no_encode
          /\ out.orig > 0 => webp.no_encode
      BY DEF AInv, BodyKinds
    <2>. QED BY <1>4, <2>1 DEF AnswerBody
  <1>6. AnswerBody' # AnswerBody => BodyAllowed(AnswerHead, AnswerBody')
    BY <1>3, <1>5 DEF BodyAllowed, Bodies
  <1>7. Answer!SendBody
    BY <1>1, <1>2, <1>3, <1>5, <1>6
       DEF Answer!SendBody, Answer!BodyAllowed, Answer!Bodies, BodyAllowed,
           Bodies
  <1>. QED BY <1>7 DEF Answer!Next

LEMMA PushQuiet ==
  ASSUME IInv, PushHeader
  PROVE  /\ out'.finished = out.finished /\ out'.orig = out.orig
         /\ out'.webp = out.webp /\ out'.closed = out.closed
         /\ webp'.accept_support = webp.accept_support
         /\ phase = "headers"
  <1>0. webp \in Contexts /\ out \in Outputs /\ TypeOK
    BY DEF IInv, TypeOK
  <1>f. ASSUME NEW line, Forward(line)
        PROVE  /\ out'.finished = out.finished /\ out'.orig = out.orig
               /\ out'.webp = out.webp /\ out'.closed = out.closed
    BY <1>0, <1>f DEF Forward, Outputs
  <1>1. ASSUME NEW line, PushThrough(line)
        PROVE  webp' = webp /\ Forward(line) /\ phase = "headers"
    BY <1>1 DEF PushThrough, Pushing
  <1>2. CASE PushContentLength
    BY <1>2 DEF PushContentLength, Pushing
  <1>3. ASSUME NEW t \in ContentTypes, KeepContentType(t)
        PROVE  /\ webp'.accept_support = webp.accept_support
               /\ out' = out /\ phase = "headers"
    BY <1>0, <1>3 DEF KeepContentType, Pushing, Contexts
  <1>4. ASSUME NEW t \in ContentTypes, PassContentType(t)
        PROVE  /\ webp'.accept_support = webp.accept_support
               /\ Forward(Line("Content-Type", {t})) /\ phase = "headers"
    BY <1>0, <1>4 DEF PassContentType, Pushing, Contexts
  <1>5. ASSUME NEW v \in VaryValues, PushVary(v)
        PROVE  /\ webp'.accept_support = webp.accept_support
               /\ out' = out /\ phase = "headers"
    BY <1>0, <1>5 DEF PushVary, Pushing, Contexts
  <1>6. CASE PushOther
    BY <1>6, <1>f DEF PushOther, Pushing
  <1>. QED BY <1>1, <1>2, <1>3, <1>4, <1>5, <1>6, <1>f DEF PushHeader

LEMMA StepImplements ==
  ASSUME IInv, AInv, IInv', AInv', [Next]_gvars
  PROVE  [Answer!Next]_Answer!rvars
  <1>0. TypeOK /\ webp \in Contexts /\ out \in Outputs
    BY DEF IInv, TypeOK
  <1>u. phase \in {"status", "headers", "gate_body"} =>
          ~out.finished /\ out.closed = NULL
    BY DEF AInv, Unanswered
  <1>1. ASSUME NEW s \in {200, 304, 404}, PushStatus(s)
        PROVE  UNCHANGED Answer!rvars
    <2>1. /\ phase = "status" /\ webp'.accept_support = webp.accept_support
          /\ out'.finished = out.finished /\ out'.orig = out.orig
          /\ out'.webp = out.webp /\ out'.closed = out.closed
      <3>1. CASE webp' = webp
        BY <1>0, <1>1, <3>1 DEF PushStatus, Outputs
      <3>2. ASSUME NEW m \in BOOLEAN,
                   webp' = [webp EXCEPT !.no_encode = TRUE, !.is_webp = m]
            PROVE  webp'.accept_support = webp.accept_support
        BY <1>0, <3>2 DEF Contexts
      <3>3. webp'.accept_support = webp.accept_support
        BY <1>1, <3>1, <3>2 DEF PushStatus
      <3>. QED BY <1>0, <1>1, <3>3 DEF PushStatus, Outputs
    <2>. QED BY <1>u, <2>1, QuietStep
  <1>2. CASE PushHeader
    <2>1. ~out.finished /\ ~out'.finished
      BY <1>2, <1>u, PushQuiet
    <2>. QED BY <1>2, <2>1, PushQuiet, QuietStep
  <1>3. CASE HandleError
    <2>1. /\ phase \in {"status", "headers"}
          /\ webp'.accept_support = webp.accept_support
          /\ out'.finished = out.finished /\ out'.orig = out.orig
          /\ out'.webp = out.webp /\ out'.closed = EIO
      BY <1>0, <1>3 DEF HandleError, Contexts, Outputs
    <2>2. /\ AnswerHead = NULL /\ AnswerHead' = NULL
          /\ AnswerBody' = AnswerBody /\ out.closed = NULL
      BY <1>u, <2>1 DEF AnswerHead, AnswerBody
    <2>3. EIO \in Results \ {OK}
      BY DEF EIO, OK, Results
    <2>4. Answer!Refuse
      BY <2>1, <2>2, <2>3 DEF Answer!Refuse
    <2>. QED BY <2>4 DEF Answer!Next
  <1>4. CASE PushHeaderFinish
    <2>1. /\ phase = "headers" /\ webp'.accept_support = webp.accept_support
          /\ out'.orig = out.orig /\ out'.webp = out.webp
          /\ out'.closed = out.closed
      <3>1. webp'.accept_support = webp.accept_support /\ phase = "headers"
        BY <1>4, HeaderFinishAInv
           DEF PushHeaderFinish, PushHeaderFinishPass, PushHeaderFinishTake,
               ReadSize
      <3>2. /\ out'.orig = out.orig /\ out'.webp = out.webp
            /\ out'.closed = out.closed
        BY <1>0, <1>4
           DEF PushHeaderFinish, PushHeaderFinishPass, PushHeaderFinishTake,
               BeginResponseHeader, Outputs
      <3>. QED BY <3>1, <3>2
    <2>. QED BY <2>1, HeadStep
  <1>5. ASSUME NEW len \in Chunks, KwebpWrite(len)
        PROVE  UNCHANGED Answer!rvars
    <2>1. phase = "gate_body" /\ UNCHANGED <<webp, out>>
      BY <1>5 DEF KwebpWrite
    <2>. QED BY <1>u, <2>1, QuietStep
  <1>6. CASE KwebpClose
    <2>1. phase = "gate_body"
      BY <1>6 DEF KwebpClose, CloseUnconverted, CloseUnreadable,
                  CloseConverting, Closing
    <2>2. webp'.accept_support = webp.accept_support
      BY <1>6, CloseAInv
    <2>3. /\ out'.orig = out.orig /\ out'.webp = out.webp
          /\ out'.closed = out.closed
      BY <1>0, <1>6 DEF KwebpClose, CloseUnconverted, CloseUnreadable,
                        CloseConverting, BeginResponseHeader, Outputs
    <2>. QED BY <2>1, <2>2, <2>3, HeadStep
  <1>7. CASE Encode
    <2>1. out.finished /\ out.closed = NULL
      BY <1>7, EncodeFields DEF AInv, BodyKinds
    <2>. QED BY <1>7, <2>1, EncodeFields, BodyStep
  <1>8. CASE Pass
    <2>1. out.finished /\ out.closed = NULL /\ webp.no_encode
      BY <1>8, PassFields DEF AInv, BodyKinds
    <2>2. out.orig > 0 => out'.orig > 0
      BY <1>8, PassFields
    <2>. QED BY <1>8, <2>1, <2>2, PassFields, BodyStep
  <1>9. CASE FreeCtx
    <2>1. out' = out /\ up' = up
      BY <1>9 DEF FreeCtx
    <2>2. /\ webp'.accept_support = webp.accept_support
          /\ webp'.no_encode = webp.no_encode
      BY <1>9, FreeAInv
    <2>3. OnlyImageTypes' = OnlyImageTypes /\ Marked' = Marked
      BY <2>1 DEF OnlyImageTypes, Marked
    <2>. QED BY <2>1, <2>2, <2>3 DEF Answer!rvars, AnswerHead, AnswerBody
  <1>10. CASE UNCHANGED gvars
    <2>1. OnlyImageTypes' = OnlyImageTypes /\ Marked' = Marked
      BY <1>10 DEF gvars, OnlyImageTypes, Marked
    <2>. QED BY <1>10, <2>1 DEF gvars, Answer!rvars, AnswerHead, AnswerBody
  <1>. QED BY <1>1, <1>2, <1>3, <1>4, <1>5, <1>6, <1>7, <1>8, <1>9, <1>10
           DEF Next

(* The gate implements the abstract filter, for every set of types and     *)
(* sizes and any number of header lines and chunks.                        *)
THEOREM GateImplementsAnswer == Spec => ImplementsAnswer
  <1>1. Init => Answer!Init
    BY DEF Init, Answer!Init, AnswerHead, AnswerBody
  <1>2. IInv /\ AInv /\ IInv' /\ AInv' /\ [Next]_gvars
          => [Answer!Next]_Answer!rvars
    BY StepImplements
  <1>. QED BY <1>1, <1>2, Inductive, InductiveA, PTL
           DEF Spec, ImplementsAnswer, Answer!Answering

-----------------------------------------------------------------------------
(* Which lines a converted answer has, and how long it is said to be.      *)
Without(lines, name) == Occurrences(lines, name) = {}

LEMMA OccurrencesConcat ==
  ASSUME NEW a \in Seq(HeaderLines), NEW b \in Seq(HeaderLines), NEW name
  PROVE  Occurrences(a \o b, name) =
           Occurrences(a, name) \cup {i + Len(a) : i \in Occurrences(b, name)}
  <1>. DEFINE c == a \o b
              moved == {i + Len(a) : i \in Occurrences(b, name)}
  <1>1. /\ DOMAIN c = 1..(Len(a) + Len(b))
        /\ \A i \in 1..Len(a) : c[i] = a[i]
        /\ \A i \in 1..Len(b) : c[i + Len(a)] = b[i]
        /\ DOMAIN a = 1..Len(a) /\ DOMAIN b = 1..Len(b)
        /\ Len(a) \in Nat /\ Len(b) \in Nat
    OBVIOUS
  <1>2. ASSUME NEW i \in Occurrences(c, name)
        PROVE  i \in Occurrences(a, name) \cup moved
    <2>1. i \in DOMAIN c /\ c[i].name = name
      BY DEF Occurrences
    <2>2. CASE i \in 1..Len(a)
      BY <1>1, <2>1, <2>2 DEF Occurrences
    <2>3. CASE i \notin 1..Len(a)
      <3>1. i - Len(a) \in 1..Len(b) /\ (i - Len(a)) + Len(a) = i
        BY <1>1, <2>1, <2>3
      <3>2. c[(i - Len(a)) + Len(a)] = b[i - Len(a)]
        BY <1>1, <3>1
      <3>3. i - Len(a) \in Occurrences(b, name)
        BY <1>1, <2>1, <3>1, <3>2 DEF Occurrences
      <3>. QED BY <3>1, <3>3
    <2>. QED BY <2>2, <2>3
  <1>3. ASSUME NEW i \in Occurrences(a, name)
        PROVE  i \in Occurrences(c, name)
    <2>1. i \in 1..Len(a) /\ a[i].name = name
      BY <1>1 DEF Occurrences
    <2>2. i \in DOMAIN c /\ c[i] = a[i]
      BY <1>1, <2>1
    <2>. QED BY <2>1, <2>2 DEF Occurrences
  <1>4. ASSUME NEW i \in Occurrences(b, name)
        PROVE  i + Len(a) \in Occurrences(c, name)
    <2>1. i \in 1..Len(b) /\ b[i].name = name
      BY <1>1 DEF Occurrences
    <2>2. i + Len(a) \in DOMAIN c /\ c[i + Len(a)] = b[i]
      BY <1>1, <2>1
    <2>. QED BY <2>1, <2>2 DEF Occurrences
  <1>. QED BY <1>2, <1>3, <1>4

LEMMA OccurrencesOne ==
  ASSUME NEW line, NEW name
  PROVE  Occurrences(<<line>>, name) = IF line.name = name THEN {1} ELSE {}
  <1>1. DOMAIN <<line>> = {1} /\ <<line>>[1] = line
    OBVIOUS
  <1>. QED BY <1>1 DEF Occurrences

LEMMA WithoutAppend ==
  ASSUME NEW a \in Seq(HeaderLines), NEW line \in HeaderLines, NEW name,
         Without(a, name), line.name # name
  PROVE  Without(Append(a, line), name)
  <1>1. <<line>> \in Seq(HeaderLines) /\ Append(a, line) = a \o <<line>>
    OBVIOUS
  <1>2. Occurrences(<<line>>, name) = {}
    BY OccurrencesOne
  <1>3. Occurrences(a \o <<line>>, name) = Occurrences(a, name) \cup
            {i + Len(a) : i \in Occurrences(<<line>>, name)}
    BY <1>1, OccurrencesConcat
  <1>. QED BY <1>1, <1>2, <1>3 DEF Without

(* The head of a conversion, after lines without type and length. *)
LEMMA ConvertedHead ==
  ASSUME NEW a \in Seq(HeaderLines), NEW w \in Contexts, ~w.no_encode,
         Without(a, "Content-Type"), Without(a, "Content-Length")
  PROVE  /\ Without(a \o HeaderBlock(w), "Content-Length")
         /\ Types(a \o HeaderBlock(w)) = {WEBP}
         /\ Single(a \o HeaderBlock(w), "Content-Type")
  <1>. DEFINE m == MarkLines(w)
              c == << Line("Content-Type", {WEBP}) >>
              h == HeaderBlock(w)
  <1>1. h = m \o c
    BY DEF HeaderBlock
  <1>2. h \in Seq(HeaderLines) /\ Types(h) = {WEBP}
    BY HeaderBlockTokens
  <1>3. m \in Seq(HeaderLines)
    <2>. DEFINE tokens == (IF w.vary = NULL THEN {} ELSE {w.vary}) \cup {MARK}
    <2>1. tokens \in SUBSET (VaryValues \cup {MARK})
      BY DEF Contexts
    <2>2. Line("Vary", tokens) \in HeaderLines
      BY <2>1 DEF Line, HeaderLines
    <2>. QED BY <2>2 DEF MarkLines
  <1>4. c \in Seq(HeaderLines)
    BY GateAssumption DEF Line, HeaderLines, ContentTypes
  <1>5. \A name : Occurrences(<<>>, name) = {}
    BY DEF Occurrences
  <1>6. ASSUME NEW name, name # "Vary"
        PROVE  Occurrences(m, name) = {}
    BY <1>5, <1>6, OccurrencesOne DEF MarkLines, Line
  <1>7. /\ Occurrences(c, "Content-Type") = {1}
        /\ Occurrences(c, "Content-Length") = {}
    BY OccurrencesOne DEF Line
  <1>. HIDE DEF m, c, h
  <1>8. /\ Occurrences(h, "Content-Type") = {1 + Len(m)}
        /\ Occurrences(h, "Content-Length") = {}
    <2>1. ASSUME NEW name
          PROVE  Occurrences(h, name) = Occurrences(m, name) \cup
                   {i + Len(m) : i \in Occurrences(c, name)}
      BY <1>1, <1>3, <1>4, OccurrencesConcat
    <2>. QED BY <2>1, <1>6, <1>7
  <1>9. /\ Occurrences(a \o h, "Content-Type") = {(1 + Len(m)) + Len(a)}
        /\ Occurrences(a \o h, "Content-Length") = {}
    <2>1. ASSUME NEW name
          PROVE  Occurrences(a \o h, name) = Occurrences(a, name) \cup
                   {i + Len(a) : i \in Occurrences(h, name)}
      BY <1>2, OccurrencesConcat
    <2>. QED BY <2>1, <1>8 DEF Without
  <1>10. Types(a) = {}
    BY DEF Types, Tokens, Without
  <1>11. Types(a \o h) = Types(a) \cup Types(h)
    BY <1>2, TokensConcat DEF Types
  <1>. QED BY <1>2, <1>9, <1>10, <1>11 DEF h, Without, Single

(* Until the head, a possible conversion has kept type and length back;    *)
(* the head of a conversion has its type alone, and no length.             *)
Kept ==
  phase \in {"status", "headers", "gate_body"} /\ ~webp.no_encode =>
    Without(out.lines, "Content-Type") /\ Without(out.lines, "Content-Length")

Labelled ==
  /\ out.finished /\ ~webp.no_encode =>
       /\ out.size = -1 /\ Without(out.lines, "Content-Length")
       /\ Types(out.lines) = {WEBP} /\ Single(out.lines, "Content-Type")
  /\ phase = "pass_body" => out.size = up.size

LInv == Kept /\ Labelled

LEMMA HeadLInv ==
  ASSUME TypeOK, LInv, phase \in {"headers", "gate_body"},
         NEW w \in Contexts, NEW size \in Int, NEW result \in Results,
         BeginResponseHeader(w, size, result),
         webp.no_encode => w.no_encode,
         phase' \in {"pass_body", "encoding", "ended"},
         phase' = "pass_body" => w.no_encode /\ up'.size = size
  PROVE  LInv'
  <1>1. /\ webp'.no_encode = w.no_encode
        /\ out'.lines = out.lines \o HeaderBlock(w)
        /\ out'.size = IF w.no_encode THEN size ELSE -1
    BY BeginResponseHeaderType
  <1>2. out.lines \in Seq(HeaderLines)
    BY DEF TypeOK, Outputs
  <1>3. CASE w.no_encode
    BY <1>1, <1>3 DEF LInv, Kept, Labelled
  <1>4. CASE ~w.no_encode
    BY <1>1, <1>2, <1>4, ConvertedHead DEF LInv, Kept, Labelled
  <1>. QED BY <1>3, <1>4

(* A line that is pushed while a conversion is possible is neither. *)
LEMMA PushLInv ==
  ASSUME IInv, AInv, LInv, PushHeader
  PROVE  LInv'
  <1>0. TypeOK /\ webp \in Contexts /\ out \in Outputs
        /\ out.lines \in Seq(HeaderLines)
    BY DEF IInv, TypeOK, Outputs
  <1>1. phase = "headers" /\ ~out.finished /\ ~out'.finished
    BY PushQuiet DEF AInv, Unanswered
  <1>2. phase' = "headers"
    BY <1>1 DEF PushHeader, PushThrough, PushContentLength, KeepContentType,
                PassContentType, PushVary, PushOther, Pushing
  <1>3. CASE PushOther
    <2>1. /\ webp' = webp
          /\ out'.lines = Append(out.lines, Line("other", {}))
      BY <1>0, <1>3 DEF PushOther, Forward, Outputs
    <2>2. /\ Line("other", {}) \in HeaderLines
          /\ Line("other", {}).name = "other"
      BY LineTypes DEF Line
    <2>3. ~webp.no_encode =>
            /\ Without(out'.lines, "Content-Type")
            /\ Without(out'.lines, "Content-Length")
      BY <1>0, <1>1, <2>1, <2>2, WithoutAppend DEF LInv, Kept
    <2>. QED BY <1>1, <1>2, <2>1, <2>3 DEF LInv, Kept, Labelled
  <1>4. CASE webp'.no_encode
    BY <1>1, <1>2, <1>4 DEF LInv, Kept, Labelled
  <1>5. CASE out' = out /\ webp'.no_encode = webp.no_encode
    BY <1>1, <1>2, <1>5 DEF LInv, Kept, Labelled
  <1>6. CASE PushContentLength
    BY <1>5, <1>6 DEF PushContentLength
  <1>7. ASSUME NEW line, PushThrough(line)
        PROVE  LInv'
    BY <1>4, <1>7 DEF PushThrough
  <1>8. ASSUME NEW t, KeepContentType(t)
        PROVE  LInv'
    BY <1>0, <1>5, <1>8 DEF KeepContentType, Contexts
  <1>9. ASSUME NEW t, PassContentType(t)
        PROVE  LInv'
    BY <1>0, <1>4, <1>9 DEF PassContentType, Contexts
  <1>10. ASSUME NEW v, PushVary(v)
        PROVE  LInv'
    BY <1>0, <1>5, <1>10 DEF PushVary, Contexts
  <1>. QED BY <1>3, <1>6, <1>7, <1>8, <1>9, <1>10 DEF PushHeader
LEMMA StatusLInv ==
  ASSUME IInv, AInv, LInv, NEW s \in {200, 304, 404}, PushStatus(s)
  PROVE  LInv'
  <1>0. webp \in Contexts /\ out \in Outputs
    BY DEF IInv, TypeOK
  <1>1. /\ phase = "status" /\ phase' = "headers" /\ ~out.finished
        /\ out'.lines = out.lines /\ out'.finished = out.finished
    BY <1>0 DEF PushStatus, Outputs, AInv, Unanswered
  <1>2. ~webp'.no_encode => ~webp.no_encode
    <2>1. ASSUME NEW m \in BOOLEAN,
                 webp' = [webp EXCEPT !.no_encode = TRUE, !.is_webp = m]
          PROVE  webp'.no_encode
      BY <1>0, <2>1 DEF Contexts
    <2>2. webp' = webp \/ webp'.no_encode
      BY <2>1 DEF PushStatus
    <2>. QED BY <2>2
  <1>. QED BY <1>1, <1>2 DEF LInv, Kept, Labelled

LEMMA HeaderFinishLInv ==
  ASSUME IInv, AInv, LInv, PushHeaderFinish
  PROVE  LInv'
  <1>0. TypeOK /\ up \in Upstreams
    BY DEF IInv, TypeOK
  <1>. PICK size \in BodySizes :
         \/ \E result \in {OK, EIO} : PushHeaderFinishPass(size, result)
         \/ PushHeaderFinishTake(size)
    BY DEF PushHeaderFinish
  <1>i. size \in Int
    BY GateAssumption
  <1>1. ASSUME NEW result \in {OK, EIO}, PushHeaderFinishPass(size, result)
        PROVE  LInv'
    <2>. DEFINE w == HeaderFinish(size)
    <2>1. w \in Contexts /\ w.no_encode
      BY <1>0, <1>1, HeaderFinishType DEF PushHeaderFinishPass
    <2>2. /\ phase = "headers" /\ BeginResponseHeader(w, size, result)
          /\ up'.size = size
          /\ phase' = IF result = OK THEN "pass_body" ELSE "ended"
      BY <1>0, <1>1 DEF PushHeaderFinishPass, ReadSize, Upstreams
    <2>3. result \in Results
      BY DEF Results
    <2>. HIDE DEF w
    <2>. QED BY <1>0, <1>i, <2>1, <2>2, <2>3, HeadLInv
  <1>2. CASE PushHeaderFinishTake(size)
    <2>1. /\ phase = "headers" /\ phase' = "gate_body"
          /\ UNCHANGED <<webp, out>>
      BY <1>2 DEF PushHeaderFinishTake, ReadSize
    <2>. QED BY <2>1 DEF LInv, Kept, Labelled
  <1>. QED BY <1>1, <1>2

LEMMA CloseLInv ==
  ASSUME IInv, AInv, LInv, KwebpClose
  PROVE  LInv'
  <1>0. TypeOK /\ webp \in Contexts /\ OK \in Results /\ -1 \in Int
    BY DEF IInv, TypeOK, Results
  <1>. PICK header_result \in {OK, EIO} :
         \/ \E result \in Results : CloseUnconverted(result, header_result)
         \/ CloseUnreadable(header_result)
         \/ CloseConverting(header_result)
    BY DEF KwebpClose
  <1>r. header_result \in Results
    BY DEF Results
  <1>1. ASSUME NEW result \in Results, CloseUnconverted(result, header_result)
        PROVE  LInv'
    <2>. DEFINE m == webp.is_webp /\ result = OK
                w == [Closed(webp) EXCEPT !.no_encode = TRUE, !.is_webp = m]
    <2>1. m \in BOOLEAN
      OBVIOUS
    <2>2. BeginResponseHeader(w, -1, header_result)
      <3>1. w = [Closed(webp) EXCEPT !.no_encode = TRUE,
                                     !.is_webp = @ /\ result = OK]
        BY <1>0 DEF Closed, Contexts
      <3>. QED BY <1>1, <3>1 DEF CloseUnconverted
    <2>. HIDE DEF m
    <2>3. w \in Contexts /\ w.no_encode
      BY <1>0, <2>1 DEF Closed, Contexts
    <2>4. phase = "gate_body" /\ phase' = "ended"
      BY <1>1 DEF CloseUnconverted, Closing
    <2>. HIDE DEF w
    <2>. QED BY <1>0, <1>r, <2>2, <2>3, <2>4, HeadLInv
  <1>2. CASE CloseUnreadable(header_result)
    <2>1. PICK read \in FailedReads :
            BeginResponseHeader([Closed(webp) EXCEPT !.u = read.u,
                                                     !.is_webp = FALSE,
                                                     !.no_encode = TRUE],
                                -1, header_result)
      BY <1>2 DEF CloseUnreadable
    <2>. DEFINE w == [Closed(webp) EXCEPT !.u = read.u, !.is_webp = FALSE,
                                          !.no_encode = TRUE]
    <2>2. read.u \in {NULL, "picture", "gif_data"}
      BY DEF FailedReads
    <2>3. w \in Contexts /\ w.no_encode
      BY <1>0, <2>2 DEF Closed, Contexts
    <2>4. phase = "gate_body" /\ phase' = "ended"
      BY <1>2 DEF CloseUnreadable, Closing
    <2>5. BeginResponseHeader(w, -1, header_result)
      BY <2>1
    <2>. HIDE DEF w
    <2>. QED BY <1>0, <1>r, <2>3, <2>4, <2>5, HeadLInv
  <1>3. CASE CloseConverting(header_result)
    <2>1. PICK kind \in ReadKinds :
            BeginResponseHeader([Closed(webp) EXCEPT !.u = kind], -1,
                                header_result)
      BY <1>3 DEF CloseConverting
    <2>. DEFINE w == [Closed(webp) EXCEPT !.u = kind]
    <2>2. kind \in {NULL, "picture", "gif_data"}
      BY DEF ReadKinds
    <2>3. w \in Contexts /\ w.no_encode = webp.no_encode
      BY <1>0, <2>2 DEF Closed, Contexts
    <2>4. phase = "gate_body" /\ phase' \in {"encoding", "ended"}
      BY <1>3 DEF CloseConverting, Closing
    <2>5. BeginResponseHeader(w, -1, header_result)
      BY <2>1
    <2>. HIDE DEF w
    <2>. QED BY <1>0, <1>r, <2>3, <2>4, <2>5, HeadLInv
  <1>. QED BY <1>1, <1>2, <1>3

LEMMA InductiveL == Spec => []LInv
  <1>1. Init => LInv
    BY DEF Init, LInv, Kept, Labelled, Without, Occurrences
  <1>2. IInv /\ AInv /\ LInv /\ [Next]_gvars => LInv'
    <2>. SUFFICES ASSUME IInv, AInv, LInv, [Next]_gvars
                  PROVE  LInv'
      OBVIOUS
    <2>0. webp \in Contexts /\ out \in Outputs
      BY DEF IInv, TypeOK
    <2>1. CASE HandleError
      <3>1. webp'.no_encode /\ phase' = "ended"
        BY <2>0, <2>1 DEF HandleError, Contexts
      <3>. QED BY <3>1 DEF LInv, Kept, Labelled
    <2>2. ASSUME NEW len \in Chunks, KwebpWrite(len)
          PROVE  LInv'
      <3>1. /\ phase = "gate_body" /\ phase' = "gate_body"
            /\ UNCHANGED <<webp, out>>
        BY <2>2 DEF KwebpWrite
      <3>. QED BY <3>1 DEF LInv, Kept, Labelled
    <2>3. CASE Encode
      BY <2>3, EncodeFields DEF LInv, Kept, Labelled
    <2>4. CASE Pass
      BY <2>4, PassFields DEF LInv, Kept, Labelled
    <2>5. CASE FreeCtx
      <3>1. phase' = "freed" /\ out' = out /\ webp'.no_encode = webp.no_encode
        BY <2>5, FreeAInv DEF FreeCtx
      <3>. QED BY <3>1 DEF LInv, Kept, Labelled
    <2>6. CASE UNCHANGED gvars
      BY <2>6 DEF gvars, LInv, Kept, Labelled
    <2>. QED BY <2>1, <2>2, <2>3, <2>4, <2>5, <2>6, StatusLInv, PushLInv,
                HeaderFinishLInv, CloseLInv DEF Next
  <1>. QED BY <1>1, <1>2, Inductive, InductiveA, PTL DEF Spec

(* Converted bytes follow a head that says so, for every upstream.         *)
THEOREM ConvertedLabelled == Spec => []ConvertedIsLabelled
  <1>1. IInv /\ AInv /\ LInv => ConvertedIsLabelled
    <2>. SUFFICES ASSUME IInv, AInv, LInv, out.webp > 0
                  PROVE  ConvertedIsLabelled
      BY DEF ConvertedIsLabelled
    <2>0. out.orig \in Nat
      BY DEF IInv, TypeOK, Outputs
    <2>1. out.finished /\ ~webp.no_encode /\ out.orig = 0
      BY <2>0 DEF AInv, BodyKinds
    <2>2. Marked
      BY <2>1 DEF AInv, Answered, Marked, Vary
    <2>. QED BY <2>1, <2>2 DEF ConvertedIsLabelled, LInv, Labelled, Types
  <1>. QED BY <1>1, Inductive, InductiveA, InductiveL, PTL

(* An original is announced with its own length, a conversion with none.   *)
THEOREM LengthKept == Spec => []LengthReannounced
  <1>1. LInv => LengthReannounced
    BY DEF LInv, Labelled, LengthReannounced, Without
  <1>. QED BY <1>1, InductiveL, PTL

-----------------------------------------------------------------------------
(* Where the upstream's own lines are.  While nothing is decided, each is  *)
(* forwarded or held in the context; if the upstream does not repeat it,   *)
(* nothing is lost on the way.                                             *)
Saved(x) == IF x = NULL THEN {} ELSE {x}

VaryHeld ==
  Single(up.lines, "Vary") =>
    Vary(up.lines) = Vary(out.lines) \cup Saved(webp.vary)

TypeHeld ==
  Single(up.lines, "Content-Type") =>
    /\ Types(up.lines) = Types(out.lines) \cup Saved(webp.origin_content_type)
    /\ Single(out.lines, "Content-Type")
    /\ webp.origin_content_type # NULL => Without(out.lines, "Content-Type")

HInv ==
  /\ phase \in {"status", "headers", "gate_body"} => VaryHeld /\ TypeHeld
  /\ HeadersPreserved

LEMMA WithoutTokens ==
  ASSUME NEW lines, NEW name, Without(lines, name)
  PROVE  Tokens(lines, name) = {} /\ Single(lines, name)
  BY DEF Without, Tokens, Single

(* A content type line is never empty. *)
LEMMA NoTypesNoLine ==
  ASSUME NEW lines \in Seq(HeaderLines), Types(lines) = {}
  PROVE  Without(lines, "Content-Type")
  <1>. SUFFICES ASSUME NEW i \in Occurrences(lines, "Content-Type")
                PROVE  FALSE
    BY DEF Without
  <1>1. i \in DOMAIN lines /\ lines[i].name = "Content-Type"
    BY DEF Occurrences
  <1>2. lines[i] \in HeaderLines
    BY <1>1
  <1>3. \E t \in ContentTypes : lines[i].val = {t}
    BY <1>1, <1>2 DEF HeaderLines, Line
  <1>. QED BY <1>3 DEF Types, Tokens

LEMMA OccurrencesAppend ==
  ASSUME NEW a \in Seq(HeaderLines), NEW line \in HeaderLines, NEW name
  PROVE  Occurrences(Append(a, line), name) =
           IF line.name = name
           THEN Occurrences(a, name) \cup {Len(a) + 1} ELSE Occurrences(a, name)
  <1>1. <<line>> \in Seq(HeaderLines) /\ Append(a, line) = a \o <<line>>
    OBVIOUS
  <1>2. Occurrences(<<line>>, name) = IF line.name = name THEN {1} ELSE {}
    BY OccurrencesOne
  <1>3. Occurrences(a \o <<line>>, name) = Occurrences(a, name) \cup
            {i + Len(a) : i \in Occurrences(<<line>>, name)}
    BY <1>1, OccurrencesConcat
  <1>4. 1 + Len(a) = Len(a) + 1 /\ Len(a) \in Nat
    OBVIOUS
  <1>. QED BY <1>1, <1>2, <1>3, <1>4

LEMMA OccurrencesInside ==
  ASSUME NEW a \in Seq(HeaderLines), NEW name
  PROVE  Occurrences(a, name) \subseteq 1..Len(a) /\ Len(a) \in Nat
  BY DEF Occurrences

(* What a line does to a list that names it once at most. *)
LEMMA SingleAppend ==
  ASSUME NEW a \in Seq(HeaderLines), NEW line \in HeaderLines, NEW name
  PROVE  /\ Single(Append(a, line), name) =>
              /\ Single(a, name)
              /\ line.name = name => Without(a, name)
         /\ Single(a, name) /\ (line.name = name => Without(a, name))
              => Single(Append(a, line), name)
  <1>1. CASE line.name = name
    <2>1. Occurrences(Append(a, line), name) =
            Occurrences(a, name) \cup {Len(a) + 1}
      BY <1>1, OccurrencesAppend
    <2>2. \A i \in Occurrences(a, name) : i # Len(a) + 1
      BY OccurrencesInside
    <2>. QED BY <1>1, <2>1, <2>2 DEF Single, Without
  <1>2. CASE line.name # name
    <2>1. Occurrences(Append(a, line), name) = Occurrences(a, name)
      BY <1>2, OccurrencesAppend
    <2>. QED BY <1>2, <2>1 DEF Single
  <1>. QED BY <1>1, <1>2

LEMMA SingleConcat ==
  ASSUME NEW a \in Seq(HeaderLines), NEW b \in Seq(HeaderLines), NEW name,
         Single(a, name), Single(b, name),
         Without(a, name) \/ Without(b, name)
  PROVE  Single(a \o b, name)
  <1>1. Occurrences(a \o b, name) =
           Occurrences(a, name) \cup {i + Len(a) : i \in Occurrences(b, name)}
    BY OccurrencesConcat
  <1>. QED BY <1>1 DEF Single, Without

(* The lines that come back with the head are those that were held. *)
LEMMA HeadRestores ==
  ASSUME NEW w \in Contexts, ~w.no_encode => w.is_webp
  PROVE  /\ HeaderBlock(w) \in Seq(HeaderLines)
         /\ Vary(HeaderBlock(w)) \ {MARK} = Saved(w.vary)
         /\ w.no_encode =>
              /\ Types(HeaderBlock(w)) = Saved(w.origin_content_type)
              /\ Single(HeaderBlock(w), "Content-Type")
              /\ w.origin_content_type = NULL =>
                   Without(HeaderBlock(w), "Content-Type")
  <1>. DEFINE v == IF w.vary = NULL THEN <<>> ELSE << Line("Vary", {w.vary}) >>
              t == IF w.origin_content_type = NULL THEN <<>>
                   ELSE << Line("Content-Type", {w.origin_content_type}) >>
              m == MarkLines(w)
              c == << Line("Content-Type", {WEBP}) >>
              h == HeaderBlock(w)
  <1>0. /\ w.vary \in VaryValues \cup {NULL}
        /\ w.origin_content_type \in ImageTypes \cup {NULL}
        /\ MARK \notin VaryValues
    BY GateAssumption DEF Contexts
  <1>1. m \in Seq(HeaderLines)
    <2>. DEFINE tokens == (IF w.vary = NULL THEN {} ELSE {w.vary}) \cup {MARK}
    <2>1. tokens \in SUBSET (VaryValues \cup {MARK})
      BY <1>0
    <2>2. Line("Vary", tokens) \in HeaderLines
      BY <2>1 DEF Line, HeaderLines
    <2>. QED BY <2>2 DEF MarkLines
  <1>2. v \in Seq(HeaderLines) /\ t \in Seq(HeaderLines)
    <2>1. w.vary # NULL => Line("Vary", {w.vary}) \in HeaderLines
      BY <1>0 DEF Line, HeaderLines
    <2>2. w.origin_content_type # NULL =>
            Line("Content-Type", {w.origin_content_type}) \in HeaderLines
      BY <1>0 DEF Line, HeaderLines, ContentTypes
    <2>. QED BY <2>1, <2>2
  <1>3. c \in Seq(HeaderLines)
    BY GateAssumption DEF Line, HeaderLines, ContentTypes
  <1>4. /\ Vary(m) = IF w.is_webp THEN Saved(w.vary) \cup {MARK} ELSE {}
        /\ Types(m) = {}
    <2>. DEFINE line == Line("Vary",
                  (IF w.vary = NULL THEN {} ELSE {w.vary}) \cup {MARK})
    <2>1. /\ line.name = "Vary"
          /\ line.val = Saved(w.vary) \cup {MARK}
      BY DEF Line, Saved
    <2>2. m = IF w.is_webp THEN <<line>> ELSE <<>>
      BY DEF MarkLines
    <2>. HIDE DEF line, m
    <2>3. /\ Vary(<<line>>) = line.val
          /\ Types(<<line>>) = {}
      BY <2>1, TokensOne DEF Vary, Types
    <2>4. Vary(<<>>) = {} /\ Types(<<>>) = {}
      BY TokensEmpty DEF Vary, Types
    <2>. QED BY <2>1, <2>2, <2>3, <2>4
  <1>5. /\ Vary(v) = Saved(w.vary) /\ Types(v) = {}
        /\ Vary(c) = {}
    <2>1. /\ Vary(<<>>) = {} /\ Types(<<>>) = {}
      BY TokensEmpty DEF Vary, Types
    <2>2. /\ Vary(<< Line("Vary", {w.vary}) >>) = {w.vary}
          /\ Types(<< Line("Vary", {w.vary}) >>) = {}
      BY TokensOne DEF Line, Vary, Types
    <2>3. Vary(c) = {}
      BY TokensOne DEF Line, Vary
    <2>. QED BY <2>1, <2>2, <2>3 DEF Saved
  <1>6. Types(t) = Saved(w.origin_content_type) /\ Vary(t) = {}
    <2>1. Vary(<<>>) = {} /\ Types(<<>>) = {}
      BY TokensEmpty DEF Vary, Types
    <2>. DEFINE line == Line("Content-Type", {w.origin_content_type})
    <2>2. Types(<<line>>) = {w.origin_content_type} /\ Vary(<<line>>) = {}
      BY TokensOne DEF Line, Vary, Types
    <2>. QED BY <2>1, <2>2 DEF Saved
  <1>7. MARK \notin Saved(w.vary)
    BY <1>0, GateAssumption DEF Saved
  <1>8. Single(t, "Content-Type")
    <2>1. Occurrences(t, "Content-Type") \subseteq {1}
      BY OccurrencesOne DEF Line, Occurrences
    <2>. QED BY <2>1 DEF Single
  <1>9. Without(m, "Content-Type") /\ Without(v, "Content-Type")
    BY <1>1, <1>2, <1>4, <1>5, NoTypesNoLine
  <1>10. h = m \o (IF w.no_encode THEN v \o t ELSE c)
    BY DEF HeaderBlock, RestoredLines
  <1>. HIDE DEF v, t, m, c, h
  <1>11. CASE w.no_encode
    <2>1. v \o t \in Seq(HeaderLines)
      BY <1>2
    <2>2. /\ Vary(v \o t) = Vary(v) \cup Vary(t)
          /\ Types(v \o t) = Types(v) \cup Types(t)
      BY <1>2, TokensConcat DEF Vary, Types
    <2>3. h = m \o (v \o t)
      BY <1>10, <1>11
    <2>4. /\ Vary(m \o (v \o t)) = Vary(m) \cup Vary(v \o t)
          /\ Types(m \o (v \o t)) = Types(m) \cup Types(v \o t)
      BY <1>1, <2>1, TokensConcat DEF Vary, Types
    <2>5. m \o (v \o t) \in Seq(HeaderLines)
      BY <1>1, <2>1
    <2>6. Single(v \o t, "Content-Type")
      <3>1. Single(v, "Content-Type")
        BY <1>9, WithoutTokens
      <3>. QED BY <1>2, <1>8, <1>9, <3>1, SingleConcat
    <2>7. Single(m \o (v \o t), "Content-Type")
      <3>1. Single(m, "Content-Type")
        BY <1>9, WithoutTokens
      <3>. QED BY <1>1, <1>9, <2>1, <2>6, <3>1, SingleConcat
    <2>8. Types(h) = Saved(w.origin_content_type)
      BY <1>4, <1>5, <1>6, <2>2, <2>3, <2>4
    <2>9. w.origin_content_type = NULL => Without(h, "Content-Type")
      BY <2>3, <2>5, <2>8, NoTypesNoLine DEF Saved
    <2>10. Vary(h) \ {MARK} = Saved(w.vary)
      BY <1>4, <1>5, <1>6, <1>7, <1>11, <2>2, <2>3, <2>4
    <2>. QED BY <2>3, <2>5, <2>7, <2>8, <2>9, <2>10 DEF h
  <1>12. CASE ~w.no_encode
    <2>1. h = m \o c
      BY <1>10, <1>12
    <2>2. Vary(m \o c) = Vary(m) \cup Vary(c)
      BY <1>1, <1>3, TokensConcat DEF Vary
    <2>3. m \o c \in Seq(HeaderLines)
      BY <1>1, <1>3
    <2>4. Vary(h) \ {MARK} = Saved(w.vary)
      BY <1>4, <1>5, <1>7, <1>12, <2>1, <2>2
    <2>. QED BY <1>12, <2>1, <2>3, <2>4 DEF h
  <1>. QED BY <1>11, <1>12

(* A line that is forwarded while the held ones stay. *)
LEMMA ForwardHeld ==
  ASSUME NEW a \in Seq(HeaderLines), NEW b \in Seq(HeaderLines),
         NEW line \in HeaderLines,
         up.lines = a, out.lines = b,
         up'.lines = Append(a, line), out'.lines = Append(b, line),
         webp'.vary = webp.vary,
         webp'.origin_content_type = webp.origin_content_type,
         VaryHeld, TypeHeld
  PROVE  VaryHeld' /\ TypeHeld'
  <1>1. ASSUME NEW name
        PROVE  /\ Tokens(Append(a, line), name) = Tokens(a, name) \cup
                    (IF line.name = name THEN line.val ELSE {})
               /\ Tokens(Append(b, line), name) = Tokens(b, name) \cup
                    (IF line.name = name THEN line.val ELSE {})
    BY TokensAppend
  <1>2. ASSUME NEW name, Single(Append(a, line), name)
        PROVE  Single(a, name) /\ (line.name = name => Without(a, name))
    BY <1>2, SingleAppend
  <1>3. VaryHeld'
    <2>. SUFFICES ASSUME Single(Append(a, line), "Vary")
                  PROVE  Vary(Append(a, line)) =
                           Vary(Append(b, line)) \cup Saved(webp.vary)
      BY DEF VaryHeld
    <2>1. Vary(a) = Vary(b) \cup Saved(webp.vary)
      BY <1>2 DEF VaryHeld
    <2>. QED BY <1>1, <2>1 DEF Vary
  <1>4. TypeHeld'
    <2>. SUFFICES ASSUME Single(Append(a, line), "Content-Type")
                  PROVE  /\ Types(Append(a, line)) = Types(Append(b, line))
                              \cup Saved(webp.origin_content_type)
                         /\ Single(Append(b, line), "Content-Type")
                         /\ webp.origin_content_type # NULL =>
                              Without(Append(b, line), "Content-Type")
      BY DEF TypeHeld
    <2>1. /\ Types(a) = Types(b) \cup Saved(webp.origin_content_type)
          /\ Single(b, "Content-Type")
          /\ webp.origin_content_type # NULL => Without(b, "Content-Type")
      BY <1>2 DEF TypeHeld
    <2>2. Types(Append(a, line)) =
            Types(Append(b, line)) \cup Saved(webp.origin_content_type)
      BY <1>1, <2>1 DEF Types
    <2>3. line.name = "Content-Type" =>
            Without(b, "Content-Type") /\ webp.origin_content_type = NULL
      <3>. SUFFICES ASSUME line.name = "Content-Type"
                    PROVE  Without(b, "Content-Type")
                           /\ webp.origin_content_type = NULL
        OBVIOUS
      <3>1. Types(a) = {}
        BY <1>2, WithoutTokens DEF Types
      <3>2. Types(b) = {} /\ Saved(webp.origin_content_type) = {}
        BY <2>1, <3>1
      <3>. QED BY <3>2, NoTypesNoLine DEF Saved
    <2>4. Single(Append(b, line), "Content-Type")
      BY <2>1, <2>3, SingleAppend
    <2>5. webp.origin_content_type # NULL =>
            Without(Append(b, line), "Content-Type")
      BY <2>1, <2>3, WithoutAppend
    <2>. QED BY <2>2, <2>4, <2>5
  <1>. QED BY <1>3, <1>4

(* A line that is held back, in a field of the context that was empty; one *)
(* that finds the field taken is a repetition.                             *)
LEMMA WithholdHeld ==
  ASSUME NEW a \in Seq(HeaderLines), NEW line \in HeaderLines,
         up.lines = a, up'.lines = Append(a, line), out'.lines = out.lines,
         line.name = "Content-Type" => Without(out.lines, "Content-Type"),
         IF line.name = "Vary" /\ webp.vary = NULL
         THEN line.val = Saved(webp'.vary) ELSE webp'.vary = webp.vary,
         IF line.name = "Content-Type"
         THEN line.val = Saved(webp'.origin_content_type)
         ELSE webp'.origin_content_type = webp.origin_content_type,
         VaryHeld, TypeHeld
  PROVE  VaryHeld' /\ TypeHeld'
  <1>1. ASSUME NEW name
        PROVE  Tokens(Append(a, line), name) = Tokens(a, name) \cup
                 (IF line.name = name THEN line.val ELSE {})
    BY TokensAppend
  <1>2. ASSUME NEW name, Single(Append(a, line), name)
        PROVE  Single(a, name) /\ (line.name = name => Without(a, name))
    BY <1>2, SingleAppend
  <1>3. VaryHeld'
    <2>. SUFFICES ASSUME Single(Append(a, line), "Vary")
                  PROVE  Vary(Append(a, line)) =
                           Vary(out.lines) \cup Saved(webp'.vary)
      BY DEF VaryHeld
    <2>1. Vary(a) = Vary(out.lines) \cup Saved(webp.vary)
      BY <1>2 DEF VaryHeld
    <2>2. line.name = "Vary" => webp.vary = NULL
      <3>1. line.name = "Vary" => Vary(a) = {}
        BY <1>2, WithoutTokens DEF Vary
      <3>. QED BY <2>1, <3>1 DEF Saved
    <2>3. Saved(NULL) = {}
      BY DEF Saved
    <2>. QED BY <1>1, <2>1, <2>2, <2>3 DEF Vary
  <1>4. TypeHeld'
    <2>. DEFINE x == webp.origin_content_type
                y == webp'.origin_content_type
    <2>. SUFFICES ASSUME Single(Append(a, line), "Content-Type")
                  PROVE  /\ Types(Append(a, line)) =
                              Types(out.lines) \cup Saved(y)
                         /\ Single(out.lines, "Content-Type")
                         /\ y # NULL => Without(out.lines, "Content-Type")
      BY DEF TypeHeld
    <2>1. /\ Types(a) = Types(out.lines) \cup Saved(x)
          /\ Single(out.lines, "Content-Type")
          /\ x # NULL => Without(out.lines, "Content-Type")
      BY <1>2 DEF TypeHeld
    <2>2. line.name = "Content-Type" => Types(a) = {}
      BY <1>2, WithoutTokens DEF Types
    <2>3. Types(Append(a, line)) = Types(a) \cup
            (IF line.name = "Content-Type" THEN line.val ELSE {})
      BY <1>1 DEF Types
    <2>. HIDE DEF x, y
    <2>4. Types(Append(a, line)) = Types(out.lines) \cup Saved(y)
      BY <2>1, <2>2, <2>3 DEF x, y
    <2>. QED BY <2>1, <2>4 DEF x, y
  <1>. QED BY <1>3, <1>4

LEMMA PushHeld ==
  ASSUME IInv, LInv, PushHeader, VaryHeld, TypeHeld
  PROVE  VaryHeld' /\ TypeHeld'
  <1>0. /\ webp \in Contexts /\ out \in Outputs /\ up \in Upstreams
        /\ out.lines \in Seq(HeaderLines) /\ up.lines \in Seq(HeaderLines)
        /\ NULL \notin VaryValues /\ NULL \notin ContentTypes
    BY GateAssumption DEF IInv, TypeOK, Outputs, Upstreams, ContentTypes
  <1>p. ASSUME NEW line, Pushing(line)
        PROVE  up'.lines = Append(up.lines, line) /\ phase = "headers"
    BY <1>0, <1>p DEF Pushing, Upstreams
  <1>f. ASSUME NEW line, Forward(line)
        PROVE  out'.lines = Append(out.lines, line)
    BY <1>0, <1>f DEF Forward, Outputs
  <1>w. phase = "headers" /\ ~webp.no_encode =>
          Without(out.lines, "Content-Type")
    BY DEF LInv, Kept
  <1>1. ASSUME NEW line \in HeaderLines, PushThrough(line)
        PROVE  VaryHeld' /\ TypeHeld'
    <2>1. /\ webp' = webp /\ up'.lines = Append(up.lines, line)
          /\ out'.lines = Append(out.lines, line)
      BY <1>1, <1>p, <1>f DEF PushThrough
    <2>. QED BY <1>0, <2>1, ForwardHeld
  <1>2. CASE PushContentLength
    <2>. DEFINE line == Line("Content-Length", {})
    <2>1. /\ line \in HeaderLines /\ line.name = "Content-Length"
      BY LineTypes DEF Line
    <2>2. /\ webp' = webp /\ out' = out /\ up'.lines = Append(up.lines, line)
      BY <1>2, <1>p DEF PushContentLength
    <2>. HIDE DEF line
    <2>. QED BY <1>0, <2>1, <2>2, WithholdHeld
  <1>3. ASSUME NEW t \in ContentTypes, KeepContentType(t)
        PROVE  VaryHeld' /\ TypeHeld'
    <2>. DEFINE line == Line("Content-Type", {t})
    <2>1. /\ line \in HeaderLines /\ line.name = "Content-Type"
          /\ line.val = {t}
      BY LineTypes DEF Line
    <2>2. /\ webp'.vary = webp.vary /\ webp'.origin_content_type = t
          /\ out' = out /\ up'.lines = Append(up.lines, line)
          /\ phase = "headers" /\ ~webp.no_encode
      BY <1>0, <1>3, <1>p DEF KeepContentType, Contexts
    <2>3. Saved(webp'.origin_content_type) = {t}
      BY <1>0, <2>2 DEF Saved
    <2>. HIDE DEF line
    <2>. QED BY <1>0, <1>w, <2>1, <2>2, <2>3, WithholdHeld
  <1>4. ASSUME NEW t \in ContentTypes, PassContentType(t)
        PROVE  VaryHeld' /\ TypeHeld'
    <2>. DEFINE line == Line("Content-Type", {t})
    <2>1. line \in HeaderLines
      BY LineTypes
    <2>2. /\ webp'.vary = webp.vary
          /\ webp'.origin_content_type = webp.origin_content_type
          /\ out'.lines = Append(out.lines, line)
          /\ up'.lines = Append(up.lines, line)
      BY <1>0, <1>4, <1>p, <1>f DEF PassContentType, Contexts
    <2>. HIDE DEF line
    <2>. QED BY <1>0, <2>1, <2>2, ForwardHeld
  <1>5. ASSUME NEW v \in VaryValues, PushVary(v)
        PROVE  VaryHeld' /\ TypeHeld'
    <2>. DEFINE line == Line("Vary", {v})
    <2>1. /\ line \in HeaderLines /\ line.name = "Vary" /\ line.val = {v}
      BY LineTypes DEF Line
    <2>2. /\ webp'.origin_content_type = webp.origin_content_type
          /\ webp'.vary = IF webp.vary = NULL THEN v ELSE webp.vary
          /\ out' = out /\ up'.lines = Append(up.lines, line)
      BY <1>0, <1>5, <1>p DEF PushVary, Contexts
    <2>3. webp.vary = NULL => Saved(webp'.vary) = {v}
      BY <1>0, <2>2 DEF Saved
    <2>. HIDE DEF line
    <2>. QED BY <1>0, <2>1, <2>2, <2>3, WithholdHeld
  <1>6. CASE PushOther
    <2>. DEFINE line == Line("other", {})
    <2>1. line \in HeaderLines
      BY LineTypes
    <2>2. /\ webp' = webp /\ out'.lines = Append(out.lines, line)
          /\ up'.lines = Append(up.lines, line)
      BY <1>6, <1>p, <1>f DEF PushOther
    <2>. HIDE DEF line
    <2>. QED BY <1>0, <2>1, <2>2, ForwardHeld
  <1>. QED BY <1>1, <1>2, <1>3, <1>4, <1>5, <1>6 DEF PushHeader

(* begin_response_header, whoever calls it, gives back what was held. *)
LEMMA HeadPreserves ==
  ASSUME IInv, AInv, VaryHeld, TypeHeld, phase \in {"headers", "gate_body"},
         NEW w \in Contexts, NEW size \in Int, NEW result \in Results,
         BeginResponseHeader(w, size, result), up'.lines = up.lines,
         w.vary = webp.vary, w.origin_content_type = webp.origin_content_type,
         ~w.no_encode => w.is_webp
  PROVE  HeadersPreserved'
  <1>. DEFINE h == HeaderBlock(w)
              b == out.lines
  <1>0. /\ TypeOK /\ b \in Seq(HeaderLines)
        /\ webp.vary \in VaryValues \cup {NULL}
    BY DEF IInv, TypeOK, Outputs, Contexts
  <1>1. /\ webp'.no_encode = w.no_encode /\ out'.lines = b \o h
    BY <1>0, BeginResponseHeaderType
  <1>2. /\ h \in Seq(HeaderLines) /\ Vary(h) \ {MARK} = Saved(webp.vary)
        /\ w.no_encode =>
             /\ Types(h) = Saved(webp.origin_content_type)
             /\ Single(h, "Content-Type")
             /\ webp.origin_content_type = NULL => Without(h, "Content-Type")
    BY HeadRestores
  <1>. HIDE DEF h, b
  <1>3. /\ Vary(b \o h) = Vary(b) \cup Vary(h)
        /\ Types(b \o h) = Types(b) \cup Types(h)
    BY <1>0, <1>2, TokensConcat DEF Vary, Types
  <1>4. ASSUME Single(up.lines, "Vary")
        PROVE  Vary(b \o h) \ {MARK} = Vary(up.lines)
    <2>1. Vary(up.lines) = Vary(b) \cup Saved(webp.vary)
      BY <1>4 DEF VaryHeld, b
    <2>2. MARK \notin Vary(b)
      BY DEF AInv, Unanswered, b
    <2>. QED BY <1>2, <1>3, <2>1, <2>2
  <1>5. ASSUME w.no_encode, Single(up.lines, "Content-Type")
        PROVE  /\ Types(b \o h) = Types(up.lines)
               /\ Single(b \o h, "Content-Type")
    <2>1. /\ Types(up.lines) = Types(b) \cup Saved(webp.origin_content_type)
          /\ Single(b, "Content-Type")
          /\ webp.origin_content_type # NULL => Without(b, "Content-Type")
      BY <1>5 DEF TypeHeld, b
    <2>2. Single(b \o h, "Content-Type")
      BY <1>0, <1>2, <1>5, <2>1, SingleConcat
    <2>. QED BY <1>2, <1>3, <1>5, <2>1, <2>2
  <1>. QED BY <1>1, <1>4, <1>5 DEF HeadersPreserved, Vary, Types

LEMMA FinishHInv ==
  ASSUME IInv, AInv, HInv, PushHeaderFinish
  PROVE  HInv'
  <1>0. TypeOK /\ webp \in Contexts
    BY DEF IInv, TypeOK
  <1>. PICK size \in BodySizes :
         \/ \E result \in {OK, EIO} : PushHeaderFinishPass(size, result)
         \/ PushHeaderFinishTake(size)
    BY DEF PushHeaderFinish
  <1>i. size \in Int
    BY GateAssumption
  <1>1. ASSUME NEW result \in {OK, EIO}, PushHeaderFinishPass(size, result)
        PROVE  HInv'
    <2>. DEFINE w == HeaderFinish(size)
    <2>1. w \in Contexts /\ w.no_encode
      BY <1>0, <1>1, HeaderFinishType DEF PushHeaderFinishPass
    <2>2. /\ w.vary = webp.vary
          /\ w.origin_content_type = webp.origin_content_type
      BY <1>0 DEF HeaderFinish, Contexts
    <2>3. /\ phase = "headers" /\ BeginResponseHeader(w, size, result)
          /\ up'.lines = up.lines /\ phase' \in {"pass_body", "ended"}
      BY <1>0, <1>1, ReadSizeLines DEF PushHeaderFinishPass, ReadSize
    <2>4. result \in Results
      BY DEF Results
    <2>. HIDE DEF w
    <2>5. HeadersPreserved'
      BY <1>i, <2>1, <2>2, <2>3, <2>4, HeadPreserves DEF HInv
    <2>. QED BY <2>3, <2>5 DEF HInv
  <1>2. CASE PushHeaderFinishTake(size)
    <2>1. /\ phase = "headers" /\ phase' = "gate_body"
          /\ UNCHANGED <<webp, out>> /\ up'.lines = up.lines
      BY <1>0, <1>2, ReadSizeLines DEF PushHeaderFinishTake, ReadSize
    <2>. QED BY <2>1 DEF HInv, VaryHeld, TypeHeld, HeadersPreserved
  <1>. QED BY <1>1, <1>2

LEMMA CloseHInv ==
  ASSUME IInv, AInv, HInv, KwebpClose
  PROVE  HInv'
  <1>0. TypeOK /\ webp \in Contexts /\ OK \in Results /\ -1 \in Int
    BY DEF IInv, TypeOK, Results
  <1>. PICK header_result \in {OK, EIO} :
         \/ \E result \in Results : CloseUnconverted(result, header_result)
         \/ CloseUnreadable(header_result)
         \/ CloseConverting(header_result)
    BY DEF KwebpClose
  <1>r. header_result \in Results
    BY DEF Results
  <1>c. ASSUME NEW w \in Contexts, phase = "gate_body",
               BeginResponseHeader(w, -1, header_result), up'.lines = up.lines,
               w.vary = webp.vary,
               w.origin_content_type = webp.origin_content_type,
               ~w.no_encode => w.is_webp, phase' \in {"encoding", "ended"}
        PROVE  HInv'
    <2>1. HeadersPreserved'
      BY <1>0, <1>r, <1>c, HeadPreserves DEF HInv
    <2>. QED BY <1>c, <2>1 DEF HInv
  <1>1. ASSUME NEW result \in Results, CloseUnconverted(result, header_result)
        PROVE  HInv'
    <2>. DEFINE m == webp.is_webp /\ result = OK
                w == [Closed(webp) EXCEPT !.no_encode = TRUE, !.is_webp = m]
    <2>1. m \in BOOLEAN
      OBVIOUS
    <2>2. BeginResponseHeader(w, -1, header_result)
      <3>1. w = [Closed(webp) EXCEPT !.no_encode = TRUE,
                                     !.is_webp = @ /\ result = OK]
        BY <1>0 DEF Closed, Contexts
      <3>. QED BY <1>1, <3>1 DEF CloseUnconverted
    <2>. HIDE DEF m
    <2>3. /\ w \in Contexts /\ w.no_encode /\ w.vary = webp.vary
          /\ w.origin_content_type = webp.origin_content_type
      BY <1>0, <2>1 DEF Closed, Contexts
    <2>4. phase = "gate_body" /\ phase' = "ended" /\ up'.lines = up.lines
      BY <1>0, <1>1, ClosingLines DEF CloseUnconverted
    <2>. HIDE DEF w
    <2>. QED BY <1>c, <2>2, <2>3, <2>4
  <1>2. CASE CloseUnreadable(header_result)
    <2>1. PICK read \in FailedReads :
            BeginResponseHeader([Closed(webp) EXCEPT !.u = read.u,
                                                     !.is_webp = FALSE,
                                                     !.no_encode = TRUE],
                                -1, header_result)
      BY <1>2 DEF CloseUnreadable
    <2>. DEFINE w == [Closed(webp) EXCEPT !.u = read.u, !.is_webp = FALSE,
                                          !.no_encode = TRUE]
    <2>2. read.u \in {NULL, "picture", "gif_data"}
      BY DEF FailedReads
    <2>3. /\ w \in Contexts /\ w.no_encode /\ w.vary = webp.vary
          /\ w.origin_content_type = webp.origin_content_type
      BY <1>0, <2>2 DEF Closed, Contexts
    <2>4. phase = "gate_body" /\ phase' = "ended" /\ up'.lines = up.lines
      BY <1>0, <1>2, ClosingLines DEF CloseUnreadable
    <2>5. BeginResponseHeader(w, -1, header_result)
      BY <2>1
    <2>. HIDE DEF w
    <2>. QED BY <1>c, <2>3, <2>4, <2>5
  <1>3. CASE CloseConverting(header_result)
    <2>1. PICK kind \in ReadKinds :
            BeginResponseHeader([Closed(webp) EXCEPT !.u = kind], -1,
                                header_result)
      BY <1>3 DEF CloseConverting
    <2>. DEFINE w == [Closed(webp) EXCEPT !.u = kind]
    <2>2. kind \in {NULL, "picture", "gif_data"}
      BY DEF ReadKinds
    <2>3. webp.is_webp
      BY <1>3 DEF CloseConverting, Convertible
    <2>4. /\ w \in Contexts /\ w.is_webp /\ w.vary = webp.vary
          /\ w.origin_content_type = webp.origin_content_type
      BY <1>0, <2>2, <2>3 DEF Closed, Contexts
    <2>5. /\ phase = "gate_body" /\ phase' \in {"encoding", "ended"}
          /\ up'.lines = up.lines
      BY <1>0, <1>3, ClosingLines DEF CloseConverting
    <2>6. BeginResponseHeader(w, -1, header_result)
      BY <2>1
    <2>. HIDE DEF w
    <2>. QED BY <1>c, <2>4, <2>5, <2>6
  <1>. QED BY <1>1, <1>2, <1>3

LEMMA InductiveH == Spec => []HInv
  <1>1. Init => HInv
    <2>1. \A name : Single(<<>>, name)
      BY DEF Single, Occurrences
    <2>. QED BY <2>1, TokensEmpty DEF Init, HInv, VaryHeld, TypeHeld,
                HeadersPreserved, Saved, Vary, Types
  <1>2. IInv /\ AInv /\ LInv /\ HInv /\ [Next]_gvars => HInv'
    <2>. SUFFICES ASSUME IInv, AInv, LInv, HInv, [Next]_gvars
                  PROVE  HInv'
      OBVIOUS
    <2>0. webp \in Contexts /\ out \in Outputs /\ up \in Upstreams
      BY DEF IInv, TypeOK
    <2>1. ASSUME NEW s \in {200, 304, 404}, PushStatus(s)
          PROVE  HInv'
      <3>1. /\ phase = "status" /\ phase' = "headers" /\ ~out.finished
            /\ out'.lines = out.lines /\ out'.finished = out.finished
            /\ up'.lines = up.lines
        BY <2>0, <2>1 DEF PushStatus, Outputs, Upstreams, AInv, Unanswered
      <3>2. /\ webp'.vary = webp.vary
            /\ webp'.origin_content_type = webp.origin_content_type
        <4>1. ASSUME NEW m \in BOOLEAN,
                     webp' = [webp EXCEPT !.no_encode = TRUE, !.is_webp = m]
              PROVE  /\ webp'.vary = webp.vary
                     /\ webp'.origin_content_type = webp.origin_content_type
          BY <2>0, <4>1 DEF Contexts
        <4>. QED BY <2>1, <4>1 DEF PushStatus
      <3>. QED BY <3>1, <3>2 DEF HInv, VaryHeld, TypeHeld, HeadersPreserved
    <2>2. CASE PushHeader
      <3>1. phase = "headers" /\ ~out.finished /\ ~out'.finished
        BY <2>2, PushQuiet DEF AInv, Unanswered
      <3>2. VaryHeld' /\ TypeHeld'
        BY <2>2, <3>1, PushHeld DEF HInv
      <3>. QED BY <3>1, <3>2 DEF HInv, HeadersPreserved
    <2>3. CASE HandleError
      <3>1. phase' = "ended" /\ ~out.finished /\ out'.finished = out.finished
        BY <2>0, <2>3 DEF HandleError, Outputs, AInv, Unanswered
      <3>. QED BY <3>1 DEF HInv, HeadersPreserved
    <2>4. ASSUME NEW len \in Chunks, KwebpWrite(len)
          PROVE  HInv'
      <3>1. /\ phase = "gate_body" /\ phase' = "gate_body"
            /\ UNCHANGED <<webp, out>> /\ up'.lines = up.lines
        BY <2>0, <2>4 DEF KwebpWrite, Upstreams
      <3>. QED BY <3>1 DEF HInv, VaryHeld, TypeHeld, HeadersPreserved
    <2>5. CASE Encode
      BY <2>5, EncodeFields DEF HInv, HeadersPreserved
    <2>6. CASE Pass
      BY <2>6, PassFields DEF HInv, HeadersPreserved
    <2>7. CASE FreeCtx
      <3>1. /\ phase' = "freed" /\ UNCHANGED <<up, out>>
            /\ webp'.no_encode = webp.no_encode
        BY <2>7, FreeAInv DEF FreeCtx
      <3>. QED BY <3>1 DEF HInv, HeadersPreserved
    <2>8. CASE UNCHANGED gvars
      BY <2>8 DEF gvars, HInv, VaryHeld, TypeHeld, HeadersPreserved
    <2>. QED BY <2>1, <2>2, <2>3, <2>4, <2>5, <2>6, <2>7, <2>8, FinishHInv,
                CloseHInv DEF Next
  <1>. QED BY <1>1, <1>2, Inductive, InductiveA, InductiveL, PTL DEF Spec

(* An upstream that does not repeat itself has its type and its Vary sent  *)
(* on, whether the lines were forwarded or held and sent back.             *)
THEOREM UpstreamLinesKept == Spec => []HeadersPreserved
  <1>1. HInv => HeadersPreserved
    BY DEF HInv
  <1>. QED BY <1>1, InductiveH, PTL
=============================================================================
