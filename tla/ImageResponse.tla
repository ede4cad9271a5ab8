--------------------------- MODULE ImageResponse ---------------------------
(***************************************************************************)
(* The abstract response filter: an answer has a head first, then a body   *)
(* of one kind, then at most one close.  How the filter decides, collects  *)
(* and converts is left open; PushGate shows that it implements Answering. *)
(***************************************************************************)
EXTENDS ImageAnswer

CONSTANTS
  Results,  (* a result that a body is closed with, OK one of them           *)
  OK,
  NULL      (* not a result                                                  *)

VARIABLES
  accept,   (* the client asked for WebP                                     *)
  head,     (* the finished head, or NULL                                    *)
  body,     (* the kind of the bytes sent so far                             *)
  closed    (* the result the body was closed with, or NULL                  *)

rvars == <<accept, head, body, closed>>

Init ==
  /\ accept \in BOOLEAN
  /\ head = NULL
  /\ body = "nothing"
  /\ closed = NULL

SendHead ==
  /\ head = NULL /\ closed = NULL
  /\ head' \in Heads
  /\ HeadAllowed(accept, head')
  /\ UNCHANGED <<accept, body, closed>>

(* More bytes, a close, or both.  A conversion closes well only with its   *)
(* bytes sent.                                                             *)
SendBody ==
  /\ head # NULL /\ closed = NULL
  /\ body' \in {body, "original", "webp"}
  /\ body # "nothing" => body' = body
  /\ body' # body => BodyAllowed(head, body')
  /\ closed' \in Results \cup {NULL}
  /\ closed' = OK /\ head.converted => body' = "webp"
  /\ UNCHANGED <<accept, head>>

(* An error page instead of an answer. *)
Refuse ==
  /\ head = NULL /\ closed = NULL
  /\ closed' \in Results \ {OK}
  /\ UNCHANGED <<accept, head, body>>

Next == SendHead \/ SendBody \/ Refuse

Answering == Init /\ [][Next]_rvars
=============================================================================
