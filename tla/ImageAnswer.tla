---------------------------- MODULE ImageAnswer ----------------------------
(***************************************************************************)
(* What kwebp promises about one answer of its response filter, as a       *)
(* client or a cache sees it: ImageResponse is the abstract filter that    *)
(* keeps the promise step by step, PushGate implements it, and WebpCache   *)
(* relies on it.                                                           *)
(***************************************************************************)

(* The head of an answer: whether it renews a cached object (304), whether *)
(* the upstream declared an image, and nothing else (200); whether the     *)
(* answer has the Vary mark, and the type image/webp made by a conversion. *)
Heads ==
  [renews : BOOLEAN, image : BOOLEAN, marked : BOOLEAN, converted : BOOLEAN]

(* A conversion is for a client that asked for it, and marked.  An image   *)
(* is without the mark only after a conversion that failed.                *)
HeadAllowed(accept, head) ==
  /\ head \in Heads
  /\ head.image /\ ~head.marked => accept
  /\ head.converted => accept /\ head.marked /\ ~head.renews

Bodies == {"nothing", "original", "webp"}

(* The body is of the kind that the head says; the bytes of an image that  *)
(* another client may get converted carry the mark.                        *)
BodyAllowed(head, body) ==
  /\ body = "webp" => head.converted
  /\ body = "original" => ~head.converted /\ (head.image => head.marked)
  /\ body \in Bodies

(* The complete answers, not renewing anything, to a request for an image. *)
ImageAnswers(accept) ==
  { a \in Heads \X Bodies :
      /\ a[1].image /\ ~a[1].renews
      /\ HeadAllowed(accept, a[1]) /\ BodyAllowed(a[1], a[2])
      /\ a[1].converted => a[2] = "webp" }
=============================================================================
