-------------------------- MODULE WebpCache_proof --------------------------
(***************************************************************************)
(* Proofs about WebpCache, for any number of requests, URLs and objects.   *)
(***************************************************************************)
EXTENDS WebpCache, TLAPS

(* The object o may be served to the request q. *)
Suits(q, o) ==
  /\ o.body = "webp" => SupportsWebp(q.accept)
  /\ o.filtered /\ o.body # "nothing" => o.made_for = SupportsWebp(q.accept)

(* o is marked if others must not find it, and under the right key. *)
Good(o) ==
  /\ o.body = "webp" => o.marked /\ o.key = "webp"
  /\ o.filtered /\ o.body # "nothing" => o.marked
  /\ o.marked => o.made_for = (o.key = "webp")

Sound(q) ==
  /\ q.accept_support => SupportsWebp(q.accept)
  /\ q.old # NULL => Good(q.old) /\ Matches(q, q.old)
  /\ q.pc = "served" => Suits(q, q.got)

Safe ==
  /\ \A o \in cache : Good(o)
  /\ \A r \in Requests : req[r] # NULL => Sound(req[r])

IInv == TypeOK /\ (blind \/ Safe)

(* A good object that a request finds may be served to it. *)
LEMMA GoodSuits ==
  ASSUME NEW q \in RequestRecords, NEW o \in Objects, Good(o), Matches(q, o)
  PROVE  Suits(q, o)
  <1>1. o.marked => ((o.key = "webp") <=> SupportsWebp(q.accept))
    BY DEF Matches, BuildVary, SupportsWebp
  <1>2. o.made_for \in BOOLEAN
    BY DEF Objects
  <1>. QED BY <1>1, <1>2 DEF Good, Suits, SupportsWebp

(* Answers of the filter give objects that are good and suit the client. *)
LEMMA FilteredGood ==
  ASSUME NEW q \in RequestRecords, NEW a \in ImageAnswers(q.accept_support),
         NEW long \in BOOLEAN
  PROVE  LET o == Fetched(q, a[1].marked, a[2], long)
         IN  /\ o \in Objects
             /\ (q.accept_support => SupportsWebp(q.accept))
                  => Good(o) /\ Suits(q, o)
  <1>. DEFINE o == Fetched(q, a[1].marked, a[2], long)
  <1>1. /\ a[1] \in Heads /\ a[2] \in Bodies
        /\ a[1].image
        /\ a[1].converted => q.accept_support /\ a[1].marked
        /\ a[2] = "webp" => a[1].converted
        /\ a[2] = "original" => (a[1].image => a[1].marked)
    BY DEF ImageAnswers, HeadAllowed, BodyAllowed
  <1>2. a[1].marked \in BOOLEAN
    BY <1>1 DEF Heads
  <1>3. /\ q.url \in Urls /\ q.filtered \in BOOLEAN
        /\ BuildVary(q.accept) \in {"", "webp"}
        /\ SupportsWebp(q.accept) \in BOOLEAN
        /\ (BuildVary(q.accept) = "webp") = SupportsWebp(q.accept)
    BY DEF RequestRecords, BuildVary, SupportsWebp
  <1>4. o \in Objects
    BY <1>1, <1>2, <1>3 DEF Fetched, Objects
  <1>5. /\ o.body = a[2] /\ o.marked = a[1].marked
        /\ o.marked => o.key = BuildVary(q.accept)
        /\ o.made_for = SupportsWebp(q.accept)
    BY DEF Fetched
  <1>. HIDE DEF o
  <1>6. ASSUME q.accept_support => SupportsWebp(q.accept)
        PROVE  Good(o) /\ Suits(q, o)
    <2>1. a[2] \in {"nothing", "original", "webp"}
      BY <1>1 DEF Bodies
    <2>2. o.body = "webp" => o.marked /\ o.key = "webp" /\ SupportsWebp(q.accept)
      BY <1>1, <1>3, <1>5, <1>6
    <2>3. o.body # "nothing" => o.marked
      BY <1>1, <1>5, <2>1
    <2>4. o.marked => o.made_for = (o.key = "webp")
      BY <1>3, <1>5
    <2>. QED BY <2>2, <2>3, <2>4, <1>5 DEF Good, Suits
  <1>. QED BY <1>4, <1>6 DEF o

LEMMA PlainGood ==
  ASSUME NEW q \in RequestRecords, ~q.filtered
  PROVE  LET o == Fetched(q, FALSE, "original", FALSE)
         IN  o \in Objects /\ Good(o) /\ Suits(q, o)
  BY DEF Fetched, Objects, RequestRecords, Bodies, SupportsWebp, Good, Suits

(* Serving keeps a request sound if the object suits it. *)
LEMMA ServeSound ==
  ASSUME TypeOK, NEW r \in Requests, req[r] # NULL, NEW o \in Objects,
         Serve(r, o)
  PROVE  /\ req' \in [Requests -> RequestRecords \cup {NULL}]
         /\ Safe /\ Suits(req[r], o) =>
              \A s \in Requests : req'[s] # NULL => Sound(req'[s])
  <1>. DEFINE q == [req[r] EXCEPT !.pc = "served", !.old = NULL, !.got = o]
  <1>1. req[r] \in RequestRecords
    BY DEF TypeOK
  <1>2. /\ req' = [req EXCEPT ![r] = q]
        /\ q \in RequestRecords
        /\ q.accept = req[r].accept /\ q.accept_support = req[r].accept_support
        /\ q.old = NULL /\ q.got = o
    BY <1>1 DEF Serve, RequestRecords
  <1>. HIDE DEF q
  <1>3. ASSUME Safe, Suits(req[r], o)
        PROVE  Sound(q)
    BY <1>2, <1>3 DEF Safe, Sound, Suits
  <1>. QED BY <1>2, <1>3 DEF TypeOK, Safe

LEMMA StoreSound ==
  ASSUME cache \subseteq Objects, NEW o \in Objects, Store(o)
  PROVE  /\ cache' \subseteq Objects
         /\ \A x \in cache' : x \in cache \/ x = o
  BY DEF Store

-----------------------------------------------------------------------------
LEMMA InitSafe == Init => IInv
  BY DEF Init, IInv, TypeOK, Safe

LEMMA ProcessSafe ==
  ASSUME IInv, NEW r \in Requests, NEW url \in Urls, NEW accept \in Accepts,
         Process(r, url, accept)
  PROVE  IInv'
  <1>1. PICK registered \in BOOLEAN :
          req' = [req EXCEPT ![r] =
            NewRequest(url, accept, registered /\ url \notin FullUrls)]
    BY DEF Process
  <1>. DEFINE filtered == registered /\ url \notin FullUrls
              q == NewRequest(url, accept, filtered)
  <1>2. filtered \in BOOLEAN /\ AcceptSupport(accept) \in BOOLEAN
    BY DEF AcceptSupport, SupportsWebp
  <1>3. q \in RequestRecords
    <2>1. (filtered /\ AcceptSupport(accept)) \in BOOLEAN
      BY <1>2
    <2>. QED BY <1>2, <2>1 DEF NewRequest, RequestRecords
  <1>4. Sound(q)
    BY DEF NewRequest, Sound, AcceptSupport
  <1>. HIDE DEF q
  <1>5. TypeOK'
    BY <1>1, <1>3 DEF IInv, TypeOK, Process, q
  <1>6. Safe => Safe'
    BY <1>1, <1>4 DEF IInv, TypeOK, Safe, Process, q
  <1>. QED BY <1>5, <1>6 DEF IInv, Process

LEMMA HitSafe ==
  ASSUME IInv, NEW r \in Requests, NEW o \in cache, Hit(r, o)
  PROVE  IInv'
  <1>1. /\ req[r] \in RequestRecords /\ o \in Objects /\ req[r] # NULL
        /\ Matches(req[r], o) /\ Serve(r, o) /\ UNCHANGED <<cache, blind>>
        /\ TypeOK
    BY DEF IInv, TypeOK, Hit
  <1>2. TypeOK'
    BY <1>1, ServeSound DEF TypeOK
  <1>3. Safe => Safe'
    BY <1>1, GoodSuits, ServeSound DEF Safe
  <1>. QED BY <1>1, <1>2, <1>3 DEF IInv

LEMMA OpenSafe ==
  ASSUME IInv, NEW r \in Requests, NEW o \in cache \cup {NULL},
         OpenUpstream(r, o)
  PROVE  IInv'
  <1>. DEFINE q == [req[r] EXCEPT !.pc = "upstream", !.old = o]
  <1>1. req[r] \in RequestRecords /\ req[r] # NULL
    BY DEF IInv, TypeOK, OpenUpstream
  <1>2. o \in Objects \cup {NULL}
    BY DEF IInv, TypeOK
  <1>3. /\ req' = [req EXCEPT ![r] = q]
        /\ q \in RequestRecords
        /\ q.accept = req[r].accept /\ q.accept_support = req[r].accept_support
        /\ q.url = req[r].url /\ q.old = o /\ q.pc = "upstream"
    BY <1>1, <1>2 DEF OpenUpstream, RequestRecords
  <1>. HIDE DEF q
  <1>4. ASSUME Safe PROVE Sound(q)
    BY <1>1, <1>3, <1>4 DEF Safe, Sound, OpenUpstream, Matches
  <1>5. TypeOK'
    BY <1>3 DEF IInv, TypeOK, OpenUpstream
  <1>6. Safe => Safe'
    BY <1>3, <1>4 DEF IInv, TypeOK, Safe, OpenUpstream
  <1>. QED BY <1>5, <1>6 DEF IInv, OpenUpstream

(* An answer that is served and stored. *)
LEMMA FetchedSafe ==
  ASSUME IInv, NEW r \in Requests, req[r] # NULL, NEW o \in Objects,
         Serve(r, o), Store(o), UNCHANGED blind,
         Safe => Good(o) /\ Suits(req[r], o)
  PROVE  IInv'
  <1>1. TypeOK /\ cache \subseteq Objects
    BY DEF IInv, TypeOK
  <1>2. TypeOK'
    BY <1>1, ServeSound, StoreSound DEF TypeOK
  <1>3. Safe => Safe'
    BY <1>1, ServeSound, StoreSound DEF Safe
  <1>. QED BY <1>2, <1>3 DEF IInv

LEMMA AnswerFilteredSafe ==
  ASSUME IInv, NEW r \in Requests, NEW a \in Heads \X Bodies,
         NEW long \in BOOLEAN, AnswerFiltered(r, a, long)
  PROVE  IInv'
  <1>. DEFINE o == Fetched(req[r], a[1].marked, a[2], long)
  <1>1. /\ req[r] \in RequestRecords /\ req[r] # NULL
        /\ a \in ImageAnswers(req[r].accept_support)
        /\ Serve(r, o) /\ Store(o) /\ UNCHANGED blind
    BY DEF IInv, TypeOK, AnswerFiltered
  <1>2. o \in Objects
    BY <1>1, FilteredGood
  <1>3. Safe => Good(o) /\ Suits(req[r], o)
    <2>1. Safe => (req[r].accept_support => SupportsWebp(req[r].accept))
      BY <1>1 DEF Safe, Sound
    <2>. QED BY <1>1, <2>1, FilteredGood
  <1>. HIDE DEF o
  <1>. QED BY <1>1, <1>2, <1>3, FetchedSafe

LEMMA AnswerPlainSafe ==
  ASSUME IInv, NEW r \in Requests, AnswerPlain(r)
  PROVE  IInv'
  <1>. DEFINE o == Fetched(req[r], FALSE, "original", FALSE)
  <1>1. /\ req[r] \in RequestRecords /\ req[r] # NULL /\ ~req[r].filtered
        /\ Serve(r, o) /\ Store(o) /\ UNCHANGED blind
    BY DEF IInv, TypeOK, AnswerPlain
  <1>2. o \in Objects /\ Good(o) /\ Suits(req[r], o)
    BY <1>1, PlainGood
  <1>. HIDE DEF o
  <1>. QED BY <1>1, <1>2, FetchedSafe

(* Unless it was blind, a renewal leaves its object as it is. *)
LEMMA RenewSafe ==
  ASSUME IInv, NEW r \in Requests, Renew(r)
  PROVE  IInv'
  <1>. DEFINE o == req[r].old
              n == Renewed(req[r], o)
  <1>1. /\ TypeOK /\ req[r] \in RequestRecords /\ req[r] # NULL
        /\ o \in Objects /\ o # NULL
        /\ Serve(r, n)
        /\ cache' = IF o \in cache THEN (cache \ {o}) \cup {n} ELSE cache
        /\ blind' = (blind \/ (o.marked /\ (~req[r].filtered \/ o.long_vary)))
    BY DEF IInv, TypeOK, Renew, RequestRecords
  <1>2. /\ o.marked \in BOOLEAN /\ o.long_vary \in BOOLEAN
        /\ req[r].filtered \in BOOLEAN
    BY <1>1 DEF Objects, RequestRecords
  <1>3. n \in Objects
    <2>1. (o.marked /\ req[r].filtered /\ ~o.long_vary) \in BOOLEAN
      BY <1>2
    <2>2. n = [o EXCEPT !.marked = o.marked /\ req[r].filtered /\ ~o.long_vary]
      BY DEF Renewed
    <2>. QED BY <1>1, <2>1, <2>2 DEF Objects
  <1>4. ASSUME ~blind'
        PROVE  n = o
    <2>1. (o.marked /\ req[r].filtered /\ ~o.long_vary) = o.marked
      BY <1>1, <1>2, <1>4
    <2>2. n = [o EXCEPT !.marked = o.marked]
      BY <2>1 DEF Renewed
    <2>3. o = [o EXCEPT !.marked = o.marked]
      BY <1>1 DEF Objects
    <2>. QED BY <2>2, <2>3
  <1>. HIDE DEF n
  <1>5. TypeOK'
    <2>1. cache' \subseteq Objects
      BY <1>1, <1>3 DEF TypeOK
    <2>2. blind' \in BOOLEAN
      BY <1>1, <1>2 DEF TypeOK
    <2>. QED BY <1>1, <1>3, <2>1, <2>2, ServeSound DEF TypeOK
  <1>6. ASSUME ~blind'
        PROVE  Safe'
    <2>1. Safe
      BY <1>1, <1>6 DEF IInv
    <2>2. Good(o) /\ Matches(req[r], o)
      BY <2>1, <1>1 DEF Safe, Sound
    <2>3. Suits(req[r], o)
      BY <2>2, <1>1, GoodSuits
    <2>4. cache' = cache
      BY <1>1, <1>4, <1>6
    <2>. QED BY <2>1, <2>3, <2>4, <1>1, <1>3, <1>4, <1>6, ServeSound DEF Safe
  <1>. QED BY <1>5, <1>6 DEF IInv

LEMMA FinishSafe ==
  ASSUME IInv, NEW r \in Requests, Finish(r)
  PROVE  IInv'
  BY DEF IInv, TypeOK, Safe, Finish

LEMMA DropSafe ==
  ASSUME IInv, NEW o \in cache, Drop(o)
  PROVE  IInv'
  BY DEF IInv, TypeOK, Safe, Drop

LEMMA Inductive == Spec => []IInv
  <1>1. Init => IInv
    BY InitSafe
  <1>2. IInv /\ [Next]_cvars => IInv'
    <2>. SUFFICES ASSUME IInv, [Next]_cvars
                  PROVE  IInv'
      OBVIOUS
    <2>1. CASE UNCHANGED cvars
      BY <2>1 DEF cvars, IInv, TypeOK, Safe
    <2>2. ASSUME NEW r \in Requests, NEW url \in Urls, NEW accept \in Accepts,
                 Process(r, url, accept)
          PROVE  IInv'
      BY <2>2, ProcessSafe
    <2>3. ASSUME NEW r \in Requests, NEW o \in cache, Hit(r, o)
          PROVE  IInv'
      BY <2>3, HitSafe
    <2>4. ASSUME NEW r \in Requests, NEW o \in cache \cup {NULL},
                 OpenUpstream(r, o)
          PROVE  IInv'
      BY <2>4, OpenSafe
    <2>5. ASSUME NEW r \in Requests, NEW a \in Heads \X Bodies,
                 NEW long \in BOOLEAN, AnswerFiltered(r, a, long)
          PROVE  IInv'
      BY <2>5, AnswerFilteredSafe
    <2>6. ASSUME NEW r \in Requests, AnswerPlain(r)
          PROVE  IInv'
      BY <2>6, AnswerPlainSafe
    <2>7. ASSUME NEW r \in Requests, Renew(r)
          PROVE  IInv'
      BY <2>7, RenewSafe
    <2>8. ASSUME NEW r \in Requests, Finish(r)
          PROVE  IInv'
      BY <2>8, FinishSafe
    <2>9. ASSUME NEW o \in cache, Drop(o)
          PROVE  IInv'
      BY <2>9, DropSafe
    <2>. QED BY <2>1, <2>2, <2>3, <2>4, <2>5, <2>6, <2>7, <2>8, <2>9 DEF Next
  <1>. QED BY <1>1, <1>2, PTL DEF Spec

(* However many requests run at the same time, requests and objects keep   *)
(* the shape that process, build_vary and push_status give them.           *)
THEOREM CacheTypeCorrect == Spec => []TypeOK
  BY Inductive, PTL DEF IInv

(* The mark from the response and the key from the request keep WebP away  *)
(* from clients without it, for any number of requests, images and objects *)
(* (access.c:90-94, vary.c:12-24, push_gate.c:147-168).                    *)
THEOREM WebpKeptFromOthers == Spec => []WebpOnlyToSupporting
  <1>1. IInv => WebpOnlyToSupporting
    BY DEF IInv, Safe, Sound, Suits, WebpOnlyToSupporting, Served, SupportsWebp
  <1>. QED BY <1>1, Inductive, PTL

(* Through the cache, too, a client gets what the filter would have made   *)
(* for a client of its kind.                                               *)
THEOREM OwnKindServed == Spec => []OwnKind
  <1>1. IInv => OwnKind
    BY DEF IInv, Safe, Sound, Suits, OwnKind, Served
  <1>. QED BY <1>1, Inductive, PTL
=============================================================================
