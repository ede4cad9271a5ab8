----------------------------- MODULE WebpCache -----------------------------
(***************************************************************************)
(* Several requests around kangle's cache.  For each request access.c      *)
(* decides whether the response filter is installed and whether the client *)
(* supports WebP; vary.c computes the key under which a marked object is   *)
(* stored and found; the filter answers as ImageAnswer promises; and       *)
(* push_status keeps the mark of an object that a 304 renews.              *)
(*                                                                         *)
(* The cache is kangle's.  It is modelled by what these functions suppose  *)
(* of it: an object without the mark is for everybody, a marked one for    *)
(* requests with its key, and a renewed object has the mark that the 304   *)
(* has on leaving the filter.  It stores and drops objects as it likes.    *)
(***************************************************************************)
EXTENDS ImageAnswer, Naturals, FiniteSets

CONSTANTS
  Requests,
  Urls,       (* of images, each with its query string                       *)
  FullUrls,   (* those of them with _wpq= and a number of 100 or more        *)
  NULL,
  MaxObjects  (* bound: objects in the cache                                 *)

ASSUME CacheAssumption == FullUrls \subseteq Urls /\ MaxObjects \in Nat

(* The Accept header of a client: without image/webp, with it, or with it  *)
(* but longer than the buffers of 512 bytes that it is read into.          *)
Accepts == {"other", "webp", "webp_too_long"}

VARIABLES
  req,     (* the requests in progress                                       *)
  cache,   (* the objects stored                                             *)
  blind    (* history: a renewal did not get to see the mark of its object   *)

cvars == <<req, cache, blind>>

(* made_for: history, whether the client that had it fetched was taken to  *)
(* support WebP; filtered: history, whether it came through the filter.    *)
Objects ==
  [url : Urls, key : {"", "webp"}, marked : BOOLEAN, body : Bodies,
   long_vary : BOOLEAN, made_for : BOOLEAN, filtered : BOOLEAN]

(* get_variable(..., "Accept", ...) and is_support_webp *)
SupportsWebp(accept) == accept = "webp"

(* Mutants of BuildVary: a longer buffer than that of process; what        *)
(* response_vary writes.                                                   *)
BuildVaryLong(accept) == IF accept = "other" THEN "" ELSE "webp"
BuildVaryName(accept) == IF SupportsWebp(accept) THEN "Accept" ELSE ""

BuildVary(accept) == IF SupportsWebp(accept) THEN "webp" ELSE ""

(* Mutant of AcceptSupport: a longer buffer than that of build_vary. *)
AcceptSupportLong(accept) == accept # "other"

AcceptSupport(accept) == SupportsWebp(accept)

NewRequest(url, accept, filtered) ==
  [pc |-> "lookup", url |-> url, accept |-> accept, filtered |-> filtered,
   accept_support |-> filtered /\ AcceptSupport(accept), old |-> NULL,
   got |-> NULL]

Init ==
  /\ req = [r \in Requests |-> NULL]
  /\ cache = {}
  /\ blind = FALSE

(* process: no filter for a quality of 100, or when kangle refuses it *)
Process(r, url, accept) ==
  /\ req[r] = NULL
  /\ \E registered \in BOOLEAN :
       req' = [req EXCEPT ![r] =
         NewRequest(url, accept, registered /\ url \notin FullUrls)]
  /\ UNCHANGED <<cache, blind>>

(* o is an answer to the request q: its key is compared if it is marked. *)
Matches(q, o) == o.url = q.url /\ (o.marked => o.key = BuildVary(q.accept))

Serve(r, o) ==
  req' = [req EXCEPT ![r].pc = "served", ![r].old = NULL, ![r].got = o]

Hit(r, o) ==
  /\ req[r] # NULL /\ req[r].pc = "lookup"
  /\ Matches(req[r], o)
  /\ Serve(r, o)
  /\ UNCHANGED <<cache, blind>>

(* webp_open, with nothing to renew or with the stale object o *)
OpenUpstream(r, o) ==
  /\ req[r] # NULL /\ req[r].pc = "lookup"
  /\ o # NULL => Matches(req[r], o)
  /\ req' = [req EXCEPT ![r].pc = "upstream", ![r].old = o]
  /\ UNCHANGED <<cache, blind>>

(* Only a marked object needs its key, and the length of its Vary. *)
Fetched(q, marked, body, long_vary) ==
  [url |-> q.url, key |-> IF marked THEN BuildVary(q.accept) ELSE "",
   marked |-> marked, body |-> body, long_vary |-> marked /\ long_vary,
   made_for |-> SupportsWebp(q.accept), filtered |-> q.filtered]

Store(o) ==
  cache' \in {cache} \cup
            (IF Cardinality(cache \cup {o}) <= MaxObjects
             THEN {cache \cup {o}} ELSE {})

(* A 200 through the filter, and one without. *)
AnswerFiltered(r, a, long_vary) ==
  LET o == Fetched(req[r], a[1].marked, a[2], long_vary) IN
  /\ req[r] # NULL /\ req[r].pc = "upstream" /\ req[r].filtered
  /\ a \in ImageAnswers(req[r].accept_support)
  /\ Serve(r, o) /\ Store(o)
  /\ UNCHANGED blind

AnswerPlain(r) ==
  LET o == Fetched(req[r], FALSE, "original", FALSE) IN
  /\ req[r] # NULL /\ req[r].pc = "upstream" /\ ~req[r].filtered
  /\ Serve(r, o) /\ Store(o)
  /\ UNCHANGED blind

(* Mutant of Renewed: the mark is not kept. *)
RenewedUnmarked(q, o) == [o EXCEPT !.marked = FALSE]

(* push_status on a 304, with begin_response_header: the mark is found     *)
(* only by the filter, and in a Vary of less than 255 bytes.               *)
Renewed(q, o) == [o EXCEPT !.marked = @ /\ q.filtered /\ ~o.long_vary]

Renew(r) ==
  LET o == req[r].old IN
  /\ req[r] # NULL /\ req[r].pc = "upstream" /\ req[r].old # NULL
  /\ Serve(r, Renewed(req[r], o))
  /\ cache' = IF o \in cache THEN (cache \ {o}) \cup {Renewed(req[r], o)}
              ELSE cache
  /\ blind' = (blind \/ (o.marked /\ (~req[r].filtered \/ o.long_vary)))

(* The answer was not complete, or the client has it. *)
Finish(r) ==
  /\ req[r] # NULL
  /\ req[r].pc \in {"upstream", "served"}
  /\ req' = [req EXCEPT ![r] = NULL]
  /\ UNCHANGED <<cache, blind>>

Drop(o) == cache' = cache \ {o} /\ UNCHANGED <<req, blind>>

Next ==
  \/ \E r \in Requests :
       \/ \E url \in Urls, accept \in Accepts : Process(r, url, accept)
       \/ \E o \in cache : Hit(r, o)
       \/ \E o \in cache \cup {NULL} : OpenUpstream(r, o)
       \/ \E a \in Heads \X Bodies, long \in BOOLEAN : AnswerFiltered(r, a, long)
       \/ AnswerPlain(r)
       \/ Renew(r)
       \/ Finish(r)
  \/ \E o \in cache : Drop(o)

Spec == Init /\ [][Next]_cvars

-----------------------------------------------------------------------------
(* Properties *)

RequestRecords ==
  [pc : {"lookup", "upstream", "served"}, url : Urls, accept : Accepts,
   filtered : BOOLEAN, accept_support : BOOLEAN, old : Objects \cup {NULL},
   got : Objects \cup {NULL}]

TypeOK ==
  /\ req \in [Requests -> RequestRecords \cup {NULL}]
  /\ cache \subseteq Objects
  /\ blind \in BOOLEAN

Served(r) == req[r] # NULL /\ req[r].pc = "served"

(* No client gets WebP that did not list it, from the filter or from the   *)
(* cache, fresh or renewed: the key from the request (vary.c:12-24) and    *)
(* the support from the request (access.c:90-94) go together with the mark *)
(* from the response, across concurrent requests.  Only a renewal that     *)
(* cannot see the mark breaks this: when the filter could not be           *)
(* installed, or the stored Vary does not fit 255 bytes (push_gate.c:158). *)
WebpOnlyToSupporting ==
  blind \/ \A r \in Requests :
    Served(r) /\ req[r].got.body = "webp" => req[r].accept # "other"

(* A client taken to support WebP is not served the original that was      *)
(* fetched for one that does not, nor the other way round, as long as      *)
(* every request gets the filter: originals are marked for the very reason *)
(* that others may have them converted (upstream.h:22-26).                 *)
OwnKind ==
  blind \/ \A r \in Requests :
    Served(r) /\ req[r].got.filtered /\ req[r].got.body # "nothing" =>
      req[r].got.made_for = SupportsWebp(req[r].accept)
=============================================================================
