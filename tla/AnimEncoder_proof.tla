------------------------- MODULE AnimEncoder_proof -------------------------
(***************************************************************************)
(* What the operations of AnimEncoder do to an encoder, for any canvases,  *)
(* durations and options: lemmas that AnimInvariant_proof puts together to *)
(* the invariants of a whole series of additions.                          *)
(***************************************************************************)
EXTENDS AnimEncoder, SequenceTheorems, TLAPS

Disposals == {"none", "background"}
Deltas == Penalties \cup {DELTA_INFINITY}
RectsOrNone == Rects \cup {<<>>}
CanvasesOrNone == Canvases \cup {KEYFRAME_NONE}
Overs == [dispose : Disposals, rect : RectsOrNone, canvas : CanvasesOrNone]

Encoders ==
  [start : Nat, frames : Seq(FrameSet), flush_count : Nat, best_delta : Deltas,
   keyframe : Int, prev_canvas : CanvasesOrNone, prev_rect : RectsOrNone,
   count_since_key_frame : Nat, prev_candidate_undecided : BOOLEAN,
   is_first_frame : BOOLEAN, got_null_frame : BOOLEAN, in_frame_count : Nat,
   out_frame_count : Nat, elapsed : Nat]

ShownFrames ==
  [is_key_frame : BOOLEAN, padding : BOOLEAN, canvas : Canvases, over : Overs,
   dispose : Disposals, duration : 0..(MAX_DURATION - 1), rect : Rects]

Additions == [canvas : Canvases, duration : Nat]

(* the animation that m and the cached frames of e make *)
ShownOf(m, e) == m \o [i \in 1..count(e) |-> Chosen(e.frames[i])]

(* the position of the chosen key frame, if there is one *)
HasKey(e) == e.keyframe # KEYFRAME_NONE
Key(e) == e.keyframe + 1

-----------------------------------------------------------------------------
(* What is known of an encoder e whose mux holds m, with the parts that    *)
(* hold in the middle of an addition, too.                                 *)

Typed(m, e) == m \in Seq(ShownFrames) /\ e \in Encoders

Numbered(m, e) ==
  /\ e.out_frame_count = Len(m)
  /\ \A i \in 1..count(e) : e.frames[i].id = Len(m) + i

(* f has no disposal, whichever of its variants is chosen *)
Kept(f) == f.sub_frame.dispose = "none" /\ f.key_frame.dispose = "none"

(* the last frame shows canvas and is what prev_rect says *)
LastShows(e, canvas) ==
  LET f == e.frames[count(e)] IN
  /\ count(e) > 0
  /\ f.canvas = canvas /\ Chosen(f).rect = e.prev_rect /\ Kept(f)
  /\ Key(e) = count(e) => e.prev_candidate_undecided

LastCached(e) == LastShows(e, e.prev_canvas)

(* keyframe points at a key frame that can still become a sub-frame *)
Pointed(e) ==
  HasKey(e) => /\ Key(e) \in 1..count(e)
               /\ e.frames[Key(e)].is_key_frame /\ Kept(e.frames[Key(e)])

(* from position first on there is no other key frame *)
OneKey(e, first) ==
  \A i \in 1..count(e) :
    i >= first /\ e.frames[i].is_key_frame => i = Key(e)

(* f was encoded for being shown over x *)
Fits(x, f) ==
  /\ f.over.canvas = x.canvas /\ f.over.dispose = x.dispose
  /\ f.over.dispose = "background" => f.over.rect = x.rect

Decodable(s) ==
  \A i \in 1..Len(s) :
    ~s[i].is_key_frame => i > 1 /\ Fits(s[i - 1], s[i])

(* the chosen key frame could be shown as a sub-frame *)
Demotable(m, e) ==
  HasKey(e) =>
    /\ Len(m) + Key(e) > 1
    /\ Fits(ShownOf(m, e)[(Len(m) + Key(e)) - 1], e.frames[Key(e)])

(* both variants of a frame last equally long, but for padding frames *)
SameLong(e) ==
  \A i \in 1..count(e) :
    IF e.frames[i].padding THEN ~e.frames[i].is_key_frame
    ELSE e.frames[i].sub_frame.duration = e.frames[i].key_frame.duration

Sound(m, e) ==
  /\ Typed(m, e) /\ Numbered(m, e) /\ Pointed(e)
  /\ Decodable(ShownOf(m, e)) /\ Demotable(m, e) /\ SameLong(e)

(* e can be flushed: what is left has at most one choice to make *)
Ready(m, e, canvas) ==
  /\ Sound(m, e) /\ LastShows(e, canvas)
  /\ e.flush_count < count(e) /\ OneKey(e, e.flush_count + 2)

(* the options that SanitizeEncoderOptions leaves *)
SaneOptions(o) ==
  /\ o \in [minimize_size : BOOLEAN, kmin : 0..INT_MAX, kmax : 0..INT_MAX]
  /\ \/ o.kmin = 0 /\ o.kmax = 0
     \/ o.kmax >= 2 /\ o.kmin < o.kmax

NoPaddingIn(s) == \A i \in 1..Len(s) : ~s[i].padding

-----------------------------------------------------------------------------
(* Types and the cached frames *)

LEMMA Durable == MAX_DURATION \in Nat /\ MAX_DURATION > 0
  BY EncoderAssumption

LEMMA FrameFields ==
  ASSUME NEW f \in FrameSet
  PROVE  /\ f.id \in Nat /\ f.is_key_frame \in BOOLEAN /\ f.padding \in BOOLEAN
         /\ f.canvas \in Canvases /\ f.over \in Overs
         /\ f.sub_frame \in InfoSet /\ f.key_frame \in InfoSet
  BY DEF FrameSet, Overs, Disposals, RectsOrNone, CanvasesOrNone

LEMMA ChosenFields ==
  ASSUME NEW f \in FrameSet
  PROVE  LET c == Chosen(f)
             info == IF f.is_key_frame THEN f.key_frame ELSE f.sub_frame
         IN  /\ c \in ShownFrames
             /\ c.is_key_frame = f.is_key_frame /\ c.padding = f.padding
             /\ c.canvas = f.canvas /\ c.over = f.over
             /\ c.dispose = info.dispose /\ c.duration = info.duration
             /\ c.rect = <<f.id, IF f.is_key_frame THEN "key" ELSE "sub">>
  <1>. DEFINE info == IF f.is_key_frame THEN f.key_frame ELSE f.sub_frame
              rect == <<f.id, IF f.is_key_frame THEN "key" ELSE "sub">>
  <1>1. info \in InfoSet
    BY FrameFields
  <1>2. info.dispose \in Disposals /\ info.duration \in 0..(MAX_DURATION - 1)
    BY <1>1 DEF InfoSet, Disposals
  <1>3. rect \in Rects
    BY FrameFields DEF Rects
  <1>4. Chosen(f) = [is_key_frame |-> f.is_key_frame, padding |-> f.padding,
                     canvas |-> f.canvas, over |-> f.over,
                     dispose |-> info.dispose, duration |-> info.duration,
                     rect |-> rect]
    BY DEF Chosen, Rect
  <1>. HIDE DEF info, rect
  <1>5. Chosen(f) \in ShownFrames
    BY <1>2, <1>3, <1>4, FrameFields DEF ShownFrames
  <1>6. /\ Chosen(f).is_key_frame = f.is_key_frame
        /\ Chosen(f).padding = f.padding /\ Chosen(f).canvas = f.canvas
        /\ Chosen(f).over = f.over /\ Chosen(f).dispose = info.dispose
        /\ Chosen(f).duration = info.duration /\ Chosen(f).rect = rect
    BY <1>4
  <1>. QED BY <1>5, <1>6 DEF info, rect

LEMMA EncoderFields ==
  ASSUME NEW e \in Encoders
  PROVE  /\ e.start \in Nat /\ e.frames \in Seq(FrameSet)
         /\ e.flush_count \in Nat /\ e.best_delta \in Deltas
         /\ e.keyframe \in Int /\ e.prev_canvas \in CanvasesOrNone
         /\ e.prev_rect \in RectsOrNone /\ e.count_since_key_frame \in Nat
         /\ e.prev_candidate_undecided \in BOOLEAN
         /\ e.is_first_frame \in BOOLEAN /\ e.got_null_frame \in BOOLEAN
         /\ e.in_frame_count \in Nat /\ e.out_frame_count \in Nat
         /\ e.elapsed \in Nat /\ count(e) \in Nat
         /\ \A i \in 1..count(e) : e.frames[i] \in FrameSet
  BY DEF Encoders, count

(* an encoder whose cached frames were replaced *)
LEMMA ShownFields ==
  ASSUME NEW m \in Seq(ShownFrames), NEW e \in Encoders
  PROVE  /\ ShownOf(m, e) \in Seq(ShownFrames)
         /\ Len(ShownOf(m, e)) = Len(m) + count(e)
         /\ \A i \in 1..Len(m) : ShownOf(m, e)[i] = m[i]
         /\ \A i \in 1..count(e) :
              ShownOf(m, e)[Len(m) + i] = Chosen(e.frames[i])
  <1>. DEFINE t == [i \in 1..count(e) |-> Chosen(e.frames[i])]
  <1>1. count(e) \in Nat /\ \A i \in 1..count(e) : Chosen(e.frames[i]) \in ShownFrames
    BY EncoderFields, ChosenFields
  <1>2. t \in Seq(ShownFrames) /\ Len(t) = count(e)
    BY <1>1
  <1>3. \A i \in 1..count(e) : t[i] = Chosen(e.frames[i])
    OBVIOUS
  <1>4. ShownOf(m, e) = m \o t
    BY DEF ShownOf
  <1>. HIDE DEF t
  <1>5. /\ m \o t \in Seq(ShownFrames) /\ Len(m \o t) = Len(m) + Len(t)
        /\ \A i \in 1..Len(m) : (m \o t)[i] = m[i]
        /\ \A i \in 1..Len(t) : (m \o t)[Len(m) + i] = t[i]
    BY <1>2
  <1>. QED BY <1>2, <1>3, <1>4, <1>5

(* position i of what is shown: pushed or cached *)
LEMMA ShownCases ==
  ASSUME NEW m \in Seq(ShownFrames), NEW e \in Encoders,
         NEW i \in 1..Len(ShownOf(m, e))
  PROVE  \/ i \in 1..Len(m) /\ ShownOf(m, e)[i] = m[i]
         \/ \E j \in 1..count(e) :
              i = Len(m) + j /\ ShownOf(m, e)[i] = Chosen(e.frames[j])
  <1>1. Len(m) \in Nat /\ count(e) \in Nat
    BY EncoderFields
  <1>2. i \in 1..(Len(m) + count(e))
    BY ShownFields
  <1>3. CASE i <= Len(m)
    <2>1. i \in 1..Len(m)
      BY <1>1, <1>2, <1>3
    <2>. QED BY <2>1, ShownFields
  <1>4. CASE i > Len(m)
    <2>1. i - Len(m) \in 1..count(e) /\ i = Len(m) + (i - Len(m))
      BY <1>1, <1>2, <1>4
    <2>. QED BY <2>1, ShownFields
  <1>. QED BY <1>1, <1>2, <1>3, <1>4

-----------------------------------------------------------------------------
(* Sequences *)

LEMMA ConcatFields ==
  ASSUME NEW S, NEW s \in Seq(S), NEW t \in Seq(S)
  PROVE  /\ s \o t \in Seq(S) /\ Len(s \o t) = Len(s) + Len(t)
         /\ \A i \in 1..Len(s) : (s \o t)[i] = s[i]
         /\ \A i \in 1..Len(t) : (s \o t)[Len(s) + i] = t[i]
  OBVIOUS

(* what is left of s without its first n elements *)
LEMMA DropFields ==
  ASSUME NEW S, NEW s \in Seq(S), NEW n \in Nat, n <= Len(s)
  PROVE  LET t == SubSeq(s, n + 1, Len(s))
         IN  /\ t \in Seq(S) /\ Len(t) = Len(s) - n
             /\ \A i \in 1..Len(t) : t[i] = s[n + i]
  <1>. DEFINE k == Len(s)
              t == SubSeq(s, n + 1, k)
  <1>1. k \in Nat /\ n <= k
    OBVIOUS
  <1>2. \A i \in (n + 1)..k : s[i] \in S
    BY <1>1
  <1>3. /\ t \in Seq(S)
        /\ Len(t) = IF n + 1 <= k THEN k - (n + 1) + 1 ELSE 0
        /\ \A i \in 1..(k - (n + 1) + 1) : t[i] = s[(n + 1) + i - 1]
    BY <1>1, <1>2, SubSeqProperties
  <1>. HIDE DEF k, t
  <1>4. Len(t) = k - n
    BY <1>1, <1>3
  <1>5. k - (n + 1) + 1 = k - n
    BY <1>1
  <1>6. ASSUME NEW i \in 1..(k - n) PROVE t[i] = s[n + i]
    <2>1. t[i] = s[(n + 1) + i - 1]
      BY <1>3, <1>5
    <2>2. (n + 1) + i - 1 = n + i
      BY <1>1
    <2>. QED BY <2>1, <2>2
  <1>. QED BY <1>3, <1>4, <1>6 DEF k, t

(* moving the first n elements of t to the end of m *)
LEMMA Regrouped ==
  ASSUME NEW S, NEW m \in Seq(S), NEW t \in Seq(S), NEW p \in Seq(S),
         NEW r \in Seq(S), Len(p) <= Len(t), Len(r) = Len(t) - Len(p),
         \A i \in 1..Len(p) : p[i] = t[i],
         \A i \in 1..Len(r) : r[i] = t[Len(p) + i]
  PROVE  (m \o p) \o r = m \o t
  <1>1. Len(m) \in Nat /\ Len(p) \in Nat /\ Len(t) \in Nat /\ Len(r) \in Nat
    OBVIOUS
  <1>. DEFINE a == m \o p
              x == a \o r
              y == m \o t
  <1>2. a \in Seq(S) /\ Len(a) = Len(m) + Len(p)
    BY ConcatFields
  <1>3. \A i \in 1..Len(m) : a[i] = m[i]
    BY ConcatFields
  <1>4. \A i \in 1..Len(p) : a[Len(m) + i] = p[i]
    BY ConcatFields
  <1>. HIDE DEF a
  <1>5. x \in Seq(S) /\ Len(x) = Len(a) + Len(r)
    BY <1>2, ConcatFields
  <1>6. \A i \in 1..Len(a) : x[i] = a[i]
    BY <1>2, ConcatFields
  <1>7. \A i \in 1..Len(r) : x[Len(a) + i] = r[i]
    BY <1>2, ConcatFields
  <1>8. y \in Seq(S) /\ Len(y) = Len(m) + Len(t)
    BY ConcatFields
  <1>9. \A i \in 1..Len(m) : y[i] = m[i]
    BY ConcatFields
  <1>10. \A i \in 1..Len(t) : y[Len(m) + i] = t[i]
    BY ConcatFields
  <1>. HIDE DEF x, y
  <1>11. Len(x) = Len(y)
    BY <1>1, <1>2, <1>5, <1>8
  <1>12. ASSUME NEW i \in 1..Len(y) PROVE x[i] = y[i]
    <2>1. CASE i <= Len(m)
      <3>1. i \in 1..Len(m) /\ i \in 1..Len(a)
        BY <1>1, <1>2, <1>8, <2>1
      <3>. QED BY <1>3, <1>6, <1>9, <3>1
    <2>2. CASE i > Len(m) /\ i <= Len(m) + Len(p)
      <3>1. PICK j \in Int : i = Len(m) + j
        <4>1. i - Len(m) \in Int /\ i = Len(m) + (i - Len(m))
          BY <1>1
        <4>. QED BY <4>1
      <3>2. j \in 1..Len(p) /\ j \in 1..Len(t) /\ i \in 1..Len(a)
        BY <1>1, <1>2, <1>8, <2>2, <3>1
      <3>3. x[i] = p[j]
        BY <1>4, <1>6, <3>1, <3>2
      <3>4. y[i] = t[j]
        BY <1>10, <3>1, <3>2
      <3>. QED BY <3>2, <3>3, <3>4
    <2>3. CASE i > Len(m) + Len(p)
      <3>1. PICK j \in Int : i = Len(m) + Len(p) + j
        <4>1. /\ i - Len(m) - Len(p) \in Int
              /\ i = Len(m) + Len(p) + (i - Len(m) - Len(p))
          BY <1>1
        <4>. QED BY <4>1
      <3>2. /\ j \in 1..Len(r) /\ Len(p) + j \in 1..Len(t)
            /\ i = Len(m) + (Len(p) + j) /\ i = Len(a) + j
        BY <1>1, <1>2, <1>8, <2>3, <3>1
      <3>3. x[i] = r[j]
        BY <1>7, <3>2
      <3>4. y[i] = t[Len(p) + j]
        BY <1>10, <3>2
      <3>. QED BY <3>2, <3>3, <3>4
    <2>. QED BY <1>1, <1>8, <2>1, <2>2, <2>3
  <1>13. x = y
    BY <1>5, <1>8, <1>11, <1>12, SeqEqual
  <1>. QED BY <1>13 DEF x, y, a

-----------------------------------------------------------------------------
(* Flushing moves frames from the window to the mux and changes nothing    *)
(* that is shown.                                                          *)

LEMMA FlushedFields ==
  ASSUME NEW e \in Encoders, e.flush_count <= count(e)
  PROVE  LET g == Flushed(e)
         IN  /\ g \in Encoders /\ count(g) = count(e) - e.flush_count
             /\ \A i \in 1..count(g) : g.frames[i] = e.frames[e.flush_count + i]
             /\ g.flush_count = 0
             /\ g.out_frame_count = e.out_frame_count + e.flush_count
             /\ g.keyframe = IF e.keyframe < e.flush_count THEN KEYFRAME_NONE
                             ELSE e.keyframe - e.flush_count
             /\ g.start = IF count(g) = 1 THEN 0 ELSE e.start + e.flush_count
             /\ g.best_delta = e.best_delta /\ g.prev_canvas = e.prev_canvas
             /\ g.prev_rect = e.prev_rect
             /\ g.count_since_key_frame = e.count_since_key_frame
             /\ g.prev_candidate_undecided = e.prev_candidate_undecided
             /\ g.is_first_frame = e.is_first_frame
             /\ g.got_null_frame = e.got_null_frame
             /\ g.in_frame_count = e.in_frame_count /\ g.elapsed = e.elapsed
  <1>. DEFINE n == e.flush_count
              left == SubSeq(e.frames, n + 1, count(e))
              key == IF e.keyframe < n THEN KEYFRAME_NONE ELSE e.keyframe - n
              start == IF Len(left) = 1 THEN 0 ELSE e.start + n
              out == e.out_frame_count + n
              g == Flushed(e)
  <1>1. n \in Nat /\ count(e) \in Nat /\ e.frames \in Seq(FrameSet)
        /\ count(e) = Len(e.frames) /\ n <= count(e)
    BY EncoderFields DEF count
  <1>2. /\ left \in Seq(FrameSet) /\ Len(left) = count(e) - n
        /\ \A i \in 1..Len(left) : left[i] = e.frames[n + i]
    BY <1>1, DropFields
  <1>3. g = [e EXCEPT !.frames = left, !.flush_count = 0,
               !.out_frame_count = out, !.keyframe = key, !.start = start]
    BY DEF Flushed
  <1>4. key \in Int /\ start \in Nat /\ out \in Nat
    <2>1. e.keyframe \in Int /\ e.start \in Nat /\ e.out_frame_count \in Nat
      BY EncoderFields
    <2>. QED BY <1>1, <2>1 DEF KEYFRAME_NONE
  <1>. HIDE DEF left, g, key, start, out
  <1>5. g \in Encoders
    BY <1>2, <1>3, <1>4 DEF Encoders
  <1>6. /\ g.frames = left /\ g.flush_count = 0
        /\ g.out_frame_count = out /\ g.keyframe = key /\ g.start = start
        /\ g.best_delta = e.best_delta /\ g.prev_canvas = e.prev_canvas
        /\ g.prev_rect = e.prev_rect
        /\ g.count_since_key_frame = e.count_since_key_frame
        /\ g.prev_candidate_undecided = e.prev_candidate_undecided
        /\ g.is_first_frame = e.is_first_frame
        /\ g.got_null_frame = e.got_null_frame
        /\ g.in_frame_count = e.in_frame_count /\ g.elapsed = e.elapsed
    BY <1>3 DEF Encoders
  <1>7. count(g) = Len(left)
    BY <1>6 DEF count
  <1>8. count(g) = count(e) - n
    BY <1>2, <1>7
  <1>9. \A i \in 1..count(g) : g.frames[i] = e.frames[n + i]
    BY <1>2, <1>6, <1>7
  <1>10. g.start = IF count(g) = 1 THEN 0 ELSE e.start + n
    BY <1>6, <1>7 DEF start
  <1>. QED BY <1>5, <1>6, <1>8, <1>9, <1>10 DEF g, key, out

(* the mux when the first frames of e have been pushed *)
Pushed(m, e) == m \o [i \in 1..e.flush_count |-> Chosen(e.frames[i])]

LEMMA FlushKeeps ==
  ASSUME NEW m, NEW e, Sound(m, e), e.flush_count <= count(e)
  PROVE  /\ ShownOf(Pushed(m, e), Flushed(e)) = ShownOf(m, e)
         /\ Sound(Pushed(m, e), Flushed(e))
         /\ Len(Pushed(m, e)) = Len(m) + e.flush_count
         /\ OneKey(e, e.flush_count + 2) => OneKey(Flushed(e), 2)
         /\ LastCached(e) /\ e.flush_count < count(e) => LastCached(Flushed(e))
  <1>. DEFINE n == e.flush_count
              g == Flushed(e)
              m2 == Pushed(m, e)
              p == [i \in 1..n |-> Chosen(e.frames[i])]
              t == [i \in 1..count(e) |-> Chosen(e.frames[i])]
              r == [i \in 1..count(g) |-> Chosen(g.frames[i])]
              s == ShownOf(m, e)
  <1>1. m \in Seq(ShownFrames) /\ e \in Encoders
    BY DEF Sound, Typed
  <1>2. /\ n \in Nat /\ count(e) \in Nat /\ Len(m) \in Nat /\ n <= count(e)
        /\ e.keyframe \in Int /\ KEYFRAME_NONE = -1
    BY <1>1, EncoderFields DEF KEYFRAME_NONE
  <1>3. g \in Encoders /\ count(g) = count(e) - n /\ count(g) \in Nat
    BY <1>1, <1>2, FlushedFields
  <1>4. \A i \in 1..count(g) : g.frames[i] = e.frames[n + i]
    BY <1>1, FlushedFields
  <1>5. /\ g.out_frame_count = e.out_frame_count + n
        /\ g.keyframe = IF e.keyframe < n THEN KEYFRAME_NONE ELSE e.keyframe - n
        /\ g.prev_canvas = e.prev_canvas /\ g.prev_rect = e.prev_rect
        /\ g.prev_candidate_undecided = e.prev_candidate_undecided
    BY <1>1, FlushedFields
  <1>6. \A i \in 1..count(e) : Chosen(e.frames[i]) \in ShownFrames
    BY <1>1, EncoderFields, ChosenFields
  <1>7. \A i \in 1..count(g) : Chosen(g.frames[i]) \in ShownFrames
    BY <1>3, EncoderFields, ChosenFields
  <1>8. t \in Seq(ShownFrames) /\ Len(t) = count(e)
    BY <1>2, <1>6
  <1>9. r \in Seq(ShownFrames) /\ Len(r) = count(g)
    BY <1>3, <1>7
  <1>10. p \in Seq(ShownFrames) /\ Len(p) = n
    <2>1. 1..n \subseteq 1..count(e)
      BY <1>2
    <2>2. \A i \in 1..n : Chosen(e.frames[i]) \in ShownFrames
      BY <1>6, <2>1
    <2>. QED BY <1>2, <2>2
  <1>11. \A i \in 1..n : p[i] = t[i]
    BY <1>2
  <1>12. \A i \in 1..count(g) : n + i \in 1..count(e)
    BY <1>2, <1>3
  <1>13. \A i \in 1..count(g) : r[i] = t[n + i]
    BY <1>4, <1>12
  <1>14. s = m \o t /\ ShownOf(m2, g) = m2 \o r /\ m2 = m \o p
    BY DEF ShownOf, Pushed
  <1>. HIDE DEF n, g, m2, p, t, r
  <1>15. m2 \in Seq(ShownFrames) /\ Len(m2) = Len(m) + n
    BY <1>1, <1>10, <1>14, ConcatFields
  <1>16. ShownOf(m2, g) = s
    <2>1. Len(p) <= Len(t) /\ Len(r) = Len(t) - Len(p)
      BY <1>2, <1>3, <1>8, <1>9, <1>10
    <2>2. \A i \in 1..Len(p) : p[i] = t[i]
      BY <1>10, <1>11
    <2>3. \A i \in 1..Len(r) : r[i] = t[Len(p) + i]
      BY <1>9, <1>10, <1>13
    <2>4. (m \o p) \o r = m \o t
      BY <1>1, <1>8, <1>9, <1>10, <2>1, <2>2, <2>3, Regrouped
    <2>. QED BY <1>14, <2>4
  <1>. HIDE DEF s
  <1>17. Numbered(m2, g)
    <2>1. ASSUME NEW i \in 1..count(g) PROVE g.frames[i].id = Len(m2) + i
      <3>1. e.frames[n + i].id = Len(m) + (n + i)
        BY <1>12 DEF Sound, Numbered
      <3>2. g.frames[i].id = Len(m) + (n + i)
        BY <1>4, <3>1
      <3>3. Len(m) + (n + i) = Len(m2) + i
        <4>1. i \in Int /\ n \in Int /\ Len(m) \in Int /\ Len(m2) = Len(m) + n
          BY <1>2, <1>15
        <4>. QED BY <4>1
      <3>. QED BY <3>2, <3>3
    <2>2. e.out_frame_count = Len(m)
      BY DEF Sound, Numbered
    <2>3. g.out_frame_count = Len(m2)
      BY <1>5, <1>15, <2>2
    <2>. QED BY <2>1, <2>3 DEF Numbered
  <1>18. HasKey(g) => /\ HasKey(e) /\ Key(g) = Key(e) - n
                      /\ Key(g) \in 1..count(g) /\ Key(e) \in Int
                      /\ g.frames[Key(g)] = e.frames[Key(e)]
    <2>. SUFFICES ASSUME HasKey(g)
                  PROVE  /\ HasKey(e) /\ Key(g) = Key(e) - n
                         /\ Key(g) \in 1..count(g) /\ Key(e) \in Int
                         /\ g.frames[Key(g)] = e.frames[Key(e)]
      OBVIOUS
    <2>1. ~(e.keyframe < n)
      BY <1>5 DEF HasKey
    <2>2. g.keyframe = e.keyframe - n
      BY <1>5, <2>1
    <2>3. e.keyframe # KEYFRAME_NONE
      BY <1>2, <2>1
    <2>4. Key(e) \in 1..count(e)
      BY <2>3 DEF Sound, Pointed, HasKey
    <2>5. Key(g) = Key(e) - n /\ Key(g) \in 1..count(g) /\ n + Key(g) = Key(e)
      BY <1>2, <1>3, <2>1, <2>2, <2>4 DEF Key
    <2>6. g.frames[Key(g)] = e.frames[Key(e)]
      BY <1>4, <2>5
    <2>. QED BY <2>3, <2>4, <2>5, <2>6 DEF HasKey
  <1>19. Pointed(g)
    BY <1>18 DEF Sound, Pointed
  <1>20. Demotable(m2, g)
    <2>. DEFINE a == Len(m) + Key(e)
                b == Len(m2) + Key(g)
    <2>. SUFFICES ASSUME HasKey(g)
                  PROVE  /\ Len(m2) + Key(g) > 1
                         /\ Fits(s[(Len(m2) + Key(g)) - 1], g.frames[Key(g)])
      BY <1>16 DEF Demotable
    <2>1. b = a
      <3>1. /\ Len(m) \in Int /\ n \in Int /\ Len(m2) = Len(m) + n
            /\ Key(e) \in Int /\ Key(g) = Key(e) - n
        BY <1>2, <1>15, <1>18
      <3>. QED BY <3>1
    <2>2. a > 1 /\ Fits(s[a - 1], e.frames[Key(e)])
      BY <1>18 DEF Sound, Demotable, s
    <2>3. g.frames[Key(g)] = e.frames[Key(e)]
      BY <1>18
    <2>. HIDE DEF a, b
    <2>4. b > 1 /\ Fits(s[b - 1], g.frames[Key(g)])
      BY <2>1, <2>2, <2>3
    <2>. QED BY <2>4 DEF b
  <1>21. SameLong(g)
    <2>. SUFFICES ASSUME NEW i \in 1..count(g)
                  PROVE  IF g.frames[i].padding THEN ~g.frames[i].is_key_frame
                         ELSE g.frames[i].sub_frame.duration
                                = g.frames[i].key_frame.duration
      BY DEF SameLong
    <2>. QED BY <1>4, <1>12 DEF Sound, SameLong
  <1>22. Sound(m2, g)
    <2>1. Decodable(s)
      BY DEF Sound, s
    <2>. QED BY <1>3, <1>15, <1>16, <1>17, <1>19, <1>20, <1>21, <2>1
             DEF Sound, Typed
  <1>23. OneKey(e, n + 2) => OneKey(g, 2)
    <2>. SUFFICES ASSUME OneKey(e, n + 2), NEW i \in 1..count(g), i >= 2,
                         g.frames[i].is_key_frame
                  PROVE  i = Key(g)
      BY DEF OneKey
    <2>1. n + i \in 1..count(e) /\ n + i >= n + 2
      BY <1>2, <1>3
    <2>2. e.frames[n + i].is_key_frame
      BY <1>4
    <2>3. n + i = Key(e)
      BY <2>1, <2>2 DEF OneKey
    <2>4. n + i = e.keyframe + 1
      BY <2>3 DEF Key
    <2>5. ~(e.keyframe < n) /\ i = e.keyframe - n + 1
      <3>1. i \in Int /\ n \in Int /\ e.keyframe \in Int
        BY <1>2
      <3>. QED BY <2>4, <3>1
    <2>6. g.keyframe = e.keyframe - n
      BY <1>5, <2>5
    <2>. QED BY <2>5, <2>6 DEF Key
  <1>24. LastCached(e) /\ n < count(e) => LastCached(g)
    <2>. SUFFICES ASSUME LastCached(e), n < count(e) PROVE LastCached(g)
      OBVIOUS
    <2>1. count(g) > 0 /\ count(g) \in 1..count(g) /\ n + count(g) = count(e)
      BY <1>2, <1>3
    <2>2. g.frames[count(g)] = e.frames[count(e)]
      BY <1>4, <2>1
    <2>3. Key(g) = count(g) => Key(e) = count(e)
      BY <1>2, <1>3, <1>5 DEF Key
    <2>. QED BY <1>5, <2>1, <2>2, <2>3 DEF LastCached, LastShows
  <1>. QED BY <1>15, <1>16, <1>22, <1>23, <1>24 DEF n, g, m2, s

-----------------------------------------------------------------------------
(* What the steps of an addition do to the cached frames: replace one of   *)
(* them, append one, or leave them alone.                                  *)

(* how long the variants of f last *)
SameDurations(f) ==
  IF f.padding THEN ~f.is_key_frame
  ELSE f.sub_frame.duration = f.key_frame.duration

LEMMA SameLongFrames ==
  ASSUME NEW e
  PROVE  SameLong(e) <=> \A i \in 1..count(e) : SameDurations(e.frames[i])
  BY DEF SameLong, SameDurations

LEMMA Untouched ==
  ASSUME NEW m, NEW e, Sound(m, e), NEW e2 \in Encoders,
         e2.frames = e.frames, e2.out_frame_count = e.out_frame_count,
         e2.keyframe = e.keyframe \/ ~HasKey(e2)
  PROVE  /\ Sound(m, e2) /\ ShownOf(m, e2) = ShownOf(m, e)
         /\ count(e2) = count(e)
  <1>1. count(e2) = count(e)
    BY DEF count
  <1>2. ShownOf(m, e2) = ShownOf(m, e)
    BY <1>1 DEF ShownOf
  <1>3. Typed(m, e2)
    BY DEF Sound, Typed
  <1>4. Numbered(m, e2)
    BY <1>1 DEF Sound, Numbered
  <1>5. HasKey(e2) => HasKey(e) /\ Key(e2) = Key(e)
    BY DEF HasKey, Key
  <1>6. Pointed(e2)
    BY <1>1, <1>5 DEF Sound, Pointed
  <1>7. Demotable(m, e2)
    BY <1>2, <1>5 DEF Sound, Demotable
  <1>8. SameLong(e2)
    BY <1>1 DEF Sound, SameLong
  <1>. QED BY <1>1, <1>2, <1>3, <1>4, <1>6, <1>7, <1>8 DEF Sound

(* f takes the place of the n-th cached frame *)
LEMMA Replaces ==
  ASSUME NEW m, NEW e, Sound(m, e), NEW e2 \in Encoders,
         NEW n \in 1..count(e), NEW f \in FrameSet,
         e2.frames = [e.frames EXCEPT ![n] = f],
         e2.out_frame_count = e.out_frame_count,
         e2.keyframe = e.keyframe \/ ~HasKey(e2),
         f.id = e.frames[n].id, f.over = e.frames[n].over,
         f.canvas = e.frames[n].canvas, SameDurations(f),
         ~f.is_key_frame => ~e.frames[n].is_key_frame \/ Key(e) = n,
         HasKey(e2) /\ Key(e2) = n => f.is_key_frame /\ Kept(f),
         \/ n = count(e)
         \/ Chosen(f).dispose = "none" /\ Chosen(e.frames[n]).dispose = "none"
  PROVE  /\ Sound(m, e2) /\ count(e2) = count(e)
         /\ ShownOf(m, e2) = [ShownOf(m, e) EXCEPT ![Len(m) + n] = Chosen(f)]
  <1>. DEFINE s == ShownOf(m, e)
              s2 == ShownOf(m, e2)
              p == Len(m) + n
  <1>1. m \in Seq(ShownFrames) /\ e \in Encoders
    BY DEF Sound, Typed
  <1>2. e.frames \in Seq(FrameSet) /\ Len(e.frames) = count(e)
        /\ count(e) \in Nat /\ Len(m) \in Nat
    BY <1>1, EncoderFields DEF count
  <1>3. /\ Len(e2.frames) = Len(e.frames) /\ e2.frames[n] = f
        /\ \A i \in 1..count(e) : i # n => e2.frames[i] = e.frames[i]
    BY <1>2
  <1>4. count(e2) = count(e)
    BY <1>2, <1>3 DEF count
  <1>5. s \in Seq(ShownFrames) /\ Len(s) = Len(m) + count(e)
    BY <1>1, ShownFields
  <1>6. \A i \in 1..Len(m) : s[i] = m[i]
    BY <1>1, ShownFields
  <1>7. \A i \in 1..count(e) : s[Len(m) + i] = Chosen(e.frames[i])
    BY <1>1, ShownFields
  <1>8. s2 \in Seq(ShownFrames) /\ Len(s2) = Len(m) + count(e)
    BY <1>1, <1>4, ShownFields
  <1>9. \A i \in 1..Len(m) : s2[i] = m[i]
    BY <1>1, ShownFields
  <1>10. \A i \in 1..count(e) : s2[Len(m) + i] = Chosen(e2.frames[i])
    BY <1>1, <1>4, ShownFields
  <1>. HIDE DEF s, s2
  <1>11. p \in 1..Len(s) /\ p \in Int /\ Len(s) = Len(s2) /\ Len(s) \in Nat
    BY <1>2, <1>5, <1>8
  <1>12. s2[p] = Chosen(f)
    BY <1>3, <1>10
  <1>13. ASSUME NEW i \in 1..Len(s), i # p PROVE s2[i] = s[i]
    <2>1. CASE i <= Len(m)
      <3>1. i \in 1..Len(m)
        BY <1>2, <2>1
      <3>. QED BY <1>6, <1>9, <3>1
    <2>2. CASE i > Len(m)
      <3>1. PICK j \in Int : i = Len(m) + j
        <4>1. i - Len(m) \in Int /\ i = Len(m) + (i - Len(m))
          BY <1>2
        <4>. QED BY <4>1
      <3>2. j \in 1..count(e)
        <4>1. i \in 1..(Len(m) + count(e))
          BY <1>5
        <4>. QED BY <1>2, <2>2, <3>1, <4>1
      <3>3. j # n
        BY <1>13, <3>1
      <3>. QED BY <1>3, <1>7, <1>10, <3>1, <3>2, <3>3
    <2>. QED BY <1>2, <2>1, <2>2
  <1>14. s2 = [s EXCEPT ![p] = Chosen(f)]
    <2>. DEFINE x == [s EXCEPT ![p] = Chosen(f)]
    <2>1. Chosen(f) \in ShownFrames
      BY ChosenFields
    <2>2. x \in Seq(ShownFrames) /\ Len(x) = Len(s) /\ x[p] = Chosen(f)
          /\ \A i \in 1..Len(s) : i # p => x[i] = s[i]
      BY <1>5, <1>11, <2>1
    <2>. HIDE DEF x
    <2>3. \A i \in 1..Len(s) : s2[i] = x[i]
      BY <1>12, <1>13, <2>2
    <2>4. s2 = x
      BY <1>8, <1>11, <2>2, <2>3, SeqEqual
    <2>. QED BY <2>4 DEF x
  <1>15. Numbered(m, e2)
    BY <1>3, <1>4 DEF Sound, Numbered
  <1>16. HasKey(e2) => HasKey(e) /\ Key(e2) = Key(e)
    BY DEF HasKey, Key
  <1>17. Pointed(e2)
    <2>. SUFFICES ASSUME HasKey(e2)
                  PROVE  /\ Key(e2) \in 1..count(e2)
                         /\ e2.frames[Key(e2)].is_key_frame
                         /\ Kept(e2.frames[Key(e2)])
      BY DEF Pointed
    <2>1. /\ Key(e2) = Key(e) /\ Key(e) \in 1..count(e)
          /\ e.frames[Key(e)].is_key_frame /\ Kept(e.frames[Key(e)])
      BY <1>16 DEF Sound, Pointed
    <2>2. CASE Key(e2) = n
      BY <1>3, <1>4, <2>1, <2>2
    <2>3. CASE Key(e2) # n
      BY <1>3, <1>4, <2>1, <2>3
    <2>. QED BY <2>2, <2>3
  <1>18. /\ Chosen(f).over = f.over /\ Chosen(f).canvas = f.canvas
         /\ Chosen(f).is_key_frame = f.is_key_frame
    BY ChosenFields
  <1>19. /\ s[p] = Chosen(e.frames[n]) /\ s[p].over = f.over
         /\ s[p].canvas = f.canvas /\ s[p].is_key_frame = e.frames[n].is_key_frame
    BY <1>1, <1>7, EncoderFields, ChosenFields
  <1>20. \A x : Fits(x, s[p]) => Fits(x, Chosen(f))
    BY <1>18, <1>19 DEF Fits
  <1>21. \A x : p < Len(s) /\ Fits(s[p], x) => Fits(s2[p], x)
    <2>. SUFFICES ASSUME NEW x, p < Len(s), Fits(s[p], x) PROVE Fits(s2[p], x)
      OBVIOUS
    <2>1. n # count(e)
      BY <1>2, <1>5
    <2>2. Chosen(f).dispose = "none" /\ s[p].dispose = "none"
      BY <1>19, <2>1
    <2>3. s[p].canvas = Chosen(f).canvas
      BY <1>18, <1>19
    <2>. QED BY <1>12, <2>2, <2>3 DEF Fits
  <1>22. Decodable(s) /\ Demotable(m, e)
    BY DEF Sound, s
  <1>23. Demotable(m, e2)
    <2>. SUFFICES ASSUME HasKey(e2)
                  PROVE  /\ Len(m) + Key(e2) > 1
                         /\ Fits(s2[(Len(m) + Key(e2)) - 1], e2.frames[Key(e2)])
      BY DEF Demotable, s2
    <2>. DEFINE k == Key(e)
                q == (Len(m) + k) - 1
    <2>1. k \in 1..count(e) /\ Key(e2) = k
      BY <1>16 DEF Sound, Pointed
    <2>2. Len(m) + k > 1 /\ Fits(s[q], e.frames[k])
      BY <1>16, <1>22 DEF Demotable, s
    <2>3. q \in 1..Len(s) /\ q < Len(s)
      BY <1>2, <1>5, <2>1, <2>2
    <2>. HIDE DEF q, k
    <2>4. Fits(s2[q], e.frames[k])
      BY <1>13, <1>21, <2>2, <2>3
    <2>5. e2.frames[k].over = e.frames[k].over
      BY <1>3, <2>1
    <2>6. Fits(s2[q], e2.frames[k])
      BY <2>4, <2>5 DEF Fits
    <2>. QED BY <2>1, <2>2, <2>6 DEF q
  <1>24. Decodable(s2)
    <2>. SUFFICES ASSUME NEW i \in 1..Len(s2), ~s2[i].is_key_frame
                  PROVE  i > 1 /\ Fits(s2[i - 1], s2[i])
      BY DEF Decodable
    <2>1. i > 1 /\ Fits(s[i - 1], s2[i])
      <3>1. CASE i # p
        <4>1. s2[i] = s[i] /\ i \in 1..Len(s)
          BY <1>11, <1>13, <3>1
        <4>. QED BY <1>22, <4>1 DEF Decodable
      <3>2. CASE i = p /\ ~e.frames[n].is_key_frame
        <4>1. p > 1 /\ Fits(s[p - 1], s[p])
          BY <1>11, <1>19, <1>22, <3>2 DEF Decodable
        <4>. QED BY <1>12, <1>20, <3>2, <4>1
      <3>3. CASE i = p /\ e.frames[n].is_key_frame
        <4>1. ~f.is_key_frame
          BY <1>12, <1>18, <3>3
        <4>2. Key(e) = n
          BY <3>3, <4>1
        <4>3. HasKey(e)
          BY <1>2, <4>2 DEF HasKey, Key, KEYFRAME_NONE
        <4>4. p > 1 /\ Fits(s[p - 1], e.frames[n])
          BY <1>22, <4>2, <4>3 DEF Demotable, s
        <4>5. Fits(s[p - 1], Chosen(f))
          BY <1>18, <4>4 DEF Fits
        <4>. QED BY <1>12, <3>3, <4>4, <4>5
      <3>. QED BY <3>1, <3>2, <3>3
    <2>2. i - 1 \in 1..Len(s) /\ i - 1 < Len(s)
      BY <1>11, <2>1
    <2>3. CASE i - 1 # p
      BY <1>13, <2>1, <2>2, <2>3
    <2>4. CASE i - 1 = p
      BY <1>21, <2>1, <2>2, <2>4
    <2>. QED BY <2>1, <2>3, <2>4
  <1>25. SameLong(e2)
    <2>1. \A i \in 1..count(e) : SameDurations(e.frames[i])
      BY SameLongFrames DEF Sound
    <2>2. \A i \in 1..count(e2) : SameDurations(e2.frames[i])
      BY <1>3, <1>4, <2>1
    <2>. QED BY <2>2, SameLongFrames
  <1>26. Typed(m, e2)
    BY <1>1 DEF Typed
  <1>27. Sound(m, e2)
    BY <1>15, <1>17, <1>23, <1>24, <1>25, <1>26 DEF Sound, s2
  <1>. QED BY <1>4, <1>14, <1>27 DEF s, s2

LEMMA AppendFields ==
  ASSUME NEW S, NEW s \in Seq(S), NEW x \in S
  PROVE  /\ Append(s, x) \in Seq(S) /\ Len(Append(s, x)) = Len(s) + 1
         /\ \A i \in 1..Len(s) : Append(s, x)[i] = s[i]
         /\ Append(s, x)[Len(s) + 1] = x
  OBVIOUS

(* f is appended to the cached frames *)
LEMMA Appends ==
  ASSUME NEW m, NEW e, Sound(m, e), NEW e2 \in Encoders, NEW f \in FrameSet,
         e2.frames = Append(e.frames, f),
         e2.out_frame_count = e.out_frame_count,
         f.id = Len(m) + count(e) + 1, SameDurations(f),
         \/ f.is_key_frame
         \/ count(e) > 0 /\ Fits(Chosen(e.frames[count(e)]), f),
         \/ e2.keyframe = e.keyframe
         \/ ~HasKey(e2)
         \/ /\ e2.keyframe = count(e) /\ f.is_key_frame /\ Kept(f)
            /\ count(e) > 0 /\ Fits(Chosen(e.frames[count(e)]), f)
  PROVE  /\ Sound(m, e2) /\ count(e2) = count(e) + 1
         /\ ShownOf(m, e2) = Append(ShownOf(m, e), Chosen(f))
         /\ e2.frames[count(e2)] = f
         /\ \A i \in 1..count(e) : e2.frames[i] = e.frames[i]
  <1>. DEFINE s == ShownOf(m, e)
              s2 == ShownOf(m, e2)
              k == count(e)
              x == Append(s, Chosen(f))
  <1>1. m \in Seq(ShownFrames) /\ e \in Encoders
    BY DEF Sound, Typed
  <1>2. e.frames \in Seq(FrameSet) /\ Len(e.frames) = k /\ k \in Nat
        /\ Len(m) \in Nat
    BY <1>1, EncoderFields DEF count
  <1>3. count(e2) = k + 1 /\ e2.frames[k + 1] = f
        /\ \A i \in 1..k : e2.frames[i] = e.frames[i]
    <2>1. Len(e2.frames) = k + 1
      BY <1>2, AppendFields
    <2>2. e2.frames[k + 1] = f
      BY <1>2, AppendFields
    <2>3. \A i \in 1..k : e2.frames[i] = e.frames[i]
      BY <1>2, AppendFields
    <2>. QED BY <2>1, <2>2, <2>3 DEF count
  <1>4. s \in Seq(ShownFrames) /\ Len(s) = Len(m) + k
    BY <1>1, ShownFields
  <1>5. \A i \in 1..Len(m) : s[i] = m[i]
    BY <1>1, ShownFields
  <1>6. \A i \in 1..k : s[Len(m) + i] = Chosen(e.frames[i])
    BY <1>1, ShownFields
  <1>7. s2 \in Seq(ShownFrames) /\ Len(s2) = Len(m) + count(e2)
    BY <1>1, ShownFields
  <1>8. \A i \in 1..Len(m) : s2[i] = m[i]
    BY <1>1, ShownFields
  <1>9. \A i \in 1..count(e2) : s2[Len(m) + i] = Chosen(e2.frames[i])
    BY <1>1, ShownFields
  <1>. HIDE DEF s, s2
  <1>10. Len(s2) = Len(s) + 1 /\ Len(s) \in Nat
    BY <1>2, <1>3, <1>4, <1>7
  <1>11. s2[Len(s) + 1] = Chosen(f)
    <2>1. k + 1 \in 1..count(e2) /\ Len(m) + (k + 1) = Len(s) + 1
      BY <1>2, <1>3, <1>4
    <2>2. s2[Len(m) + (k + 1)] = Chosen(e2.frames[k + 1])
      BY <1>9, <2>1
    <2>. QED BY <1>3, <2>1, <2>2
  <1>12. ASSUME NEW i \in 1..Len(s) PROVE s2[i] = s[i]
    <2>1. CASE i <= Len(m)
      <3>1. i \in 1..Len(m)
        BY <1>2, <2>1
      <3>. QED BY <1>5, <1>8, <3>1
    <2>2. CASE i > Len(m)
      <3>1. PICK j \in Int : i = Len(m) + j
        <4>1. i - Len(m) \in Int /\ i = Len(m) + (i - Len(m))
          BY <1>2
        <4>. QED BY <4>1
      <3>2. j \in 1..k
        <4>1. i \in 1..(Len(m) + k)
          BY <1>4
        <4>. QED BY <1>2, <2>2, <3>1, <4>1
      <3>3. j \in 1..count(e2)
        BY <1>2, <1>3, <3>2
      <3>. QED BY <1>3, <1>6, <1>9, <3>1, <3>2, <3>3
    <2>. QED BY <1>2, <2>1, <2>2
  <1>13. s2 = x
    <2>1. Chosen(f) \in ShownFrames
      BY ChosenFields
    <2>2. x \in Seq(ShownFrames) /\ Len(x) = Len(s) + 1
      BY <1>4, <2>1, AppendFields
    <2>3. x[Len(s) + 1] = Chosen(f)
      BY <1>4, <2>1, AppendFields
    <2>4. \A i \in 1..Len(s) : x[i] = s[i]
      BY <1>4, <2>1, AppendFields
    <2>. HIDE DEF x
    <2>5. ASSUME NEW i \in 1..Len(x) PROVE s2[i] = x[i]
      <3>1. i \in 1..Len(s) \/ i = Len(s) + 1
        BY <1>10, <2>2
      <3>. QED BY <1>11, <1>12, <2>3, <2>4, <3>1
    <2>. QED BY <1>7, <1>10, <2>2, <2>5, SeqEqual
  <1>. HIDE DEF x
  <1>14. Numbered(m, e2)
    <2>1. ASSUME NEW i \in 1..count(e2) PROVE e2.frames[i].id = Len(m) + i
      <3>1. CASE i \in 1..k
        BY <1>3, <3>1 DEF Sound, Numbered
      <3>2. CASE i = k + 1
        <4>1. Len(m) + k + 1 = Len(m) + (k + 1)
          BY <1>2
        <4>. QED BY <1>3, <3>2, <4>1
      <3>. QED BY <1>2, <1>3, <3>1, <3>2
    <2>. QED BY <2>1 DEF Sound, Numbered
  <1>15. Typed(m, e2)
    BY <1>1 DEF Typed
  <1>16. SameLong(e2)
    <2>1. \A i \in 1..k : SameDurations(e.frames[i])
      BY SameLongFrames DEF Sound
    <2>2. ASSUME NEW i \in 1..count(e2) PROVE SameDurations(e2.frames[i])
      <3>1. i \in 1..k \/ i = k + 1
        BY <1>2, <1>3
      <3>. QED BY <1>3, <2>1, <3>1
    <2>. QED BY <2>2, SameLongFrames
  <1>17. k > 0 => s[Len(s)] = Chosen(e.frames[k])
    <2>. SUFFICES ASSUME k > 0 PROVE s[Len(s)] = Chosen(e.frames[k])
      OBVIOUS
    <2>1. k \in 1..k
      BY <1>2
    <2>. QED BY <1>4, <1>6, <2>1
  <1>18. /\ Chosen(f).over = f.over /\ Chosen(f).is_key_frame = f.is_key_frame
    BY ChosenFields
  <1>19. Decodable(s) /\ Demotable(m, e)
    BY DEF Sound, s
  <1>20. Decodable(s2)
    <2>. SUFFICES ASSUME NEW i \in 1..Len(s2), ~s2[i].is_key_frame
                  PROVE  i > 1 /\ Fits(s2[i - 1], s2[i])
      BY DEF Decodable
    <2>1. CASE i \in 1..Len(s)
      <3>1. i > 1 /\ Fits(s[i - 1], s[i])
        BY <1>12, <1>19, <2>1 DEF Decodable
      <3>2. i - 1 \in 1..Len(s)
        BY <1>10, <2>1, <3>1
      <3>. QED BY <1>12, <2>1, <3>1, <3>2
    <2>2. CASE i = Len(s) + 1
      <3>1. ~f.is_key_frame
        BY <1>11, <1>18, <2>2
      <3>2. k > 0 /\ Fits(s[Len(s)], f)
        BY <1>17, <3>1
      <3>3. Fits(s[Len(s)], Chosen(f))
        BY <1>18, <3>2 DEF Fits
      <3>4. Len(s) \in 1..Len(s) /\ i - 1 = Len(s) /\ i > 1
        BY <1>2, <1>4, <1>10, <2>2, <3>2
      <3>5. s2[i - 1] = s[Len(s)]
        BY <1>12, <3>4
      <3>. QED BY <1>11, <2>2, <3>3, <3>4, <3>5
    <2>. QED BY <1>10, <2>1, <2>2
  <1>21. HasKey(e2) =>
           \/ /\ HasKey(e) /\ Key(e2) = Key(e) /\ Key(e) \in 1..k
           \/ /\ Key(e2) = k + 1 /\ f.is_key_frame /\ Kept(f)
              /\ k > 0 /\ Fits(s[Len(s)], f)
    <2>. SUFFICES ASSUME HasKey(e2)
                  PROVE
           \/ /\ HasKey(e) /\ Key(e2) = Key(e) /\ Key(e) \in 1..k
           \/ /\ Key(e2) = k + 1 /\ f.is_key_frame /\ Kept(f)
              /\ k > 0 /\ Fits(s[Len(s)], f)
      OBVIOUS
    <2>1. CASE e2.keyframe = e.keyframe
      <3>1. HasKey(e) /\ Key(e2) = Key(e)
        BY <2>1 DEF HasKey, Key
      <3>. QED BY <3>1 DEF Sound, Pointed
    <2>2. CASE /\ e2.keyframe = count(e) /\ f.is_key_frame /\ Kept(f)
               /\ count(e) > 0 /\ Fits(Chosen(e.frames[count(e)]), f)
      BY <1>17, <2>2 DEF Key
    <2>. QED BY <2>1, <2>2
  <1>22. Pointed(e2)
    <2>. SUFFICES ASSUME HasKey(e2)
                  PROVE  /\ Key(e2) \in 1..count(e2)
                         /\ e2.frames[Key(e2)].is_key_frame
                         /\ Kept(e2.frames[Key(e2)])
      BY DEF Pointed
    <2>1. CASE HasKey(e) /\ Key(e2) = Key(e) /\ Key(e) \in 1..k
      <3>1. e.frames[Key(e)].is_key_frame /\ Kept(e.frames[Key(e)])
        BY <2>1 DEF Sound, Pointed
      <3>2. Key(e) \in 1..count(e2)
        BY <1>2, <1>3, <2>1
      <3>. QED BY <1>3, <2>1, <3>1, <3>2
    <2>2. CASE Key(e2) = k + 1 /\ f.is_key_frame /\ Kept(f)
      <3>1. k + 1 \in 1..count(e2)
        BY <1>2, <1>3
      <3>. QED BY <1>3, <2>2, <3>1
    <2>. QED BY <1>21, <2>1, <2>2
  <1>23. Demotable(m, e2)
    <2>. SUFFICES ASSUME HasKey(e2)
                  PROVE  /\ Len(m) + Key(e2) > 1
                         /\ Fits(s2[(Len(m) + Key(e2)) - 1], e2.frames[Key(e2)])
      BY DEF Demotable, s2
    <2>. DEFINE j == Key(e2)
                q == (Len(m) + j) - 1
    <2>1. CASE HasKey(e) /\ j = Key(e) /\ Key(e) \in 1..k
      <3>1. Len(m) + j > 1 /\ Fits(s[q], e.frames[j])
        BY <1>19, <2>1 DEF Demotable, s
      <3>2. q \in 1..Len(s)
        BY <1>2, <1>4, <2>1, <3>1
      <3>3. e2.frames[j] = e.frames[j]
        BY <1>3, <2>1
      <3>. HIDE DEF q, j
      <3>4. Fits(s2[q], e2.frames[j])
        BY <1>12, <3>1, <3>2, <3>3
      <3>. QED BY <3>1, <3>4 DEF q, j
    <2>2. CASE j = k + 1 /\ k > 0 /\ Fits(s[Len(s)], f)
      <3>1. q = Len(s) /\ q \in 1..Len(s) /\ Len(m) + j > 1
        BY <1>2, <1>4, <2>2
      <3>2. e2.frames[j] = f
        BY <1>3, <2>2
      <3>. HIDE DEF q, j
      <3>3. Fits(s2[q], e2.frames[j])
        BY <1>12, <2>2, <3>1, <3>2
      <3>. QED BY <3>1, <3>3 DEF q, j
    <2>. QED BY <1>21, <2>1, <2>2
  <1>24. Sound(m, e2)
    BY <1>14, <1>15, <1>16, <1>20, <1>22, <1>23 DEF Sound, s2
  <1>. QED BY <1>3, <1>13, <1>24 DEF s, s2, x

-----------------------------------------------------------------------------
(* The steps of an addition *)

(* the previous frame with a disposal, where it has been decided on *)
Disposed(e, f, d) ==
  LET both == e.prev_candidate_undecided
      Set(info, chosen) ==
        IF both \/ chosen THEN [info EXCEPT !.dispose = d] ELSE info
  IN  [f EXCEPT !.sub_frame = Set(f.sub_frame, ~f.is_key_frame),
                !.key_frame = Set(f.key_frame, f.is_key_frame)]

LEMMA DisposedFrame ==
  ASSUME NEW e \in Encoders, count(e) > 0, NEW d \in Disposals
  PROVE  LET n == count(e)
         IN  SetPreviousDisposeMethod(e, d) =
               [e EXCEPT !.frames =
                  [e.frames EXCEPT ![n] = Disposed(e, e.frames[n], d)]]
  <1>. DEFINE n == count(e)
              fs == e.frames
              f == fs[n]
              both == e.prev_candidate_undecided
              Set(info, chosen) ==
                IF both \/ chosen THEN [info EXCEPT !.dispose = d] ELSE info
  <1>1. fs \in Seq(FrameSet) /\ n \in 1..Len(fs) /\ f \in FrameSet
    BY EncoderFields DEF count
  <1>2. Disposed(e, f, d) =
            [f EXCEPT !.sub_frame = Set(@, ~f.is_key_frame),
                      !.key_frame = Set(@, f.is_key_frame)]
    BY <1>1 DEF Disposed, FrameSet
  <1>3. SetPreviousDisposeMethod(e, d) =
          [e EXCEPT !.frames[n] =
            [f EXCEPT !.sub_frame = Set(@, ~f.is_key_frame),
                      !.key_frame = Set(@, f.is_key_frame)]]
    BY DEF SetPreviousDisposeMethod
  <1>4. \A g : [e EXCEPT !.frames[n] = g] = [e EXCEPT !.frames = [fs EXCEPT ![n] = g]]
    OBVIOUS
  <1>. QED BY <1>2, <1>3, <1>4, Zenon

LEMMA InfoFields == Info \in InfoSet /\ Info.dispose = "none" /\ Info.duration = 0
  <1>1. 0 \in 0..(MAX_DURATION - 1)
    BY Durable
  <1>. QED BY <1>1 DEF Info, InfoSet

(* a new frame, encoded over the last one *)
LEMMA SubFrameFields ==
  ASSUME NEW e \in Encoders, NEW canvas \in Canvases, NEW d \in Disposals
  PROVE  LET f == SubFrame(e, canvas, d)
         IN  /\ f \in FrameSet /\ f.id = e.out_frame_count + count(e) + 1
             /\ ~f.is_key_frame /\ ~f.padding /\ f.canvas = canvas
             /\ f.sub_frame = Info /\ f.key_frame = Info
             /\ f.over.canvas = e.prev_canvas /\ f.over.dispose = d
             /\ f.over.rect = e.prev_rect
             /\ Kept(f) /\ SameDurations(f)
             /\ Chosen(f).rect = Rect(f, "sub") /\ Rect(f, "sub") \in Rects
  <1>. DEFINE f == SubFrame(e, canvas, d)
              id == e.out_frame_count + count(e) + 1
              over == [dispose |-> d, rect |-> e.prev_rect,
                       canvas |-> e.prev_canvas]
  <1>1. id \in Nat
    BY EncoderFields
  <1>2. over \in Overs
    BY EncoderFields DEF Overs
  <1>3. f = [id |-> id, is_key_frame |-> FALSE, padding |-> FALSE,
             canvas |-> canvas, sub_frame |-> Info, key_frame |-> Info,
             over |-> over]
    BY DEF SubFrame
  <1>4. over.canvas = e.prev_canvas /\ over.dispose = d /\ over.rect = e.prev_rect
    OBVIOUS
  <1>. HIDE DEF f, id, over
  <1>5. f \in FrameSet
    BY <1>1, <1>2, <1>3, InfoFields
       DEF FrameSet, Overs, Disposals, RectsOrNone, CanvasesOrNone
  <1>6. /\ f.id = id /\ ~f.is_key_frame /\ ~f.padding /\ f.canvas = canvas
        /\ f.sub_frame = Info /\ f.key_frame = Info /\ f.over = over
    BY <1>3
  <1>7. Kept(f) /\ SameDurations(f)
    BY <1>6, InfoFields DEF Kept, SameDurations
  <1>8. Chosen(f).rect = Rect(f, "sub") /\ Rect(f, "sub") \in Rects
    BY <1>1, <1>5, <1>6, ChosenFields DEF Rect, Rects
  <1>. QED BY <1>4, <1>5, <1>6, <1>7, <1>8 DEF f, id

(* the same frame, as the key frame *)
LEMMA KeyFrameFields ==
  ASSUME NEW f \in FrameSet, ~f.padding, f.sub_frame = Info, f.key_frame = Info
  PROVE  LET k == [f EXCEPT !.is_key_frame = TRUE]
         IN  /\ k \in FrameSet /\ k.is_key_frame /\ k.id = f.id
             /\ k.canvas = f.canvas /\ k.over = f.over /\ ~k.padding
             /\ k.sub_frame = Info /\ k.key_frame = Info
             /\ Kept(k) /\ SameDurations(k)
             /\ Chosen(k).rect = Rect(f, "key") /\ Rect(f, "key") \in Rects
  <1>. DEFINE k == [f EXCEPT !.is_key_frame = TRUE]
  <1>1. k \in FrameSet
    BY DEF FrameSet
  <1>2. /\ k.is_key_frame /\ k.id = f.id /\ k.canvas = f.canvas
        /\ k.over = f.over /\ ~k.padding /\ k.sub_frame = Info /\ k.key_frame = Info
    BY DEF FrameSet
  <1>. HIDE DEF k
  <1>3. Kept(k) /\ SameDurations(k)
    BY <1>2, InfoFields DEF Kept, SameDurations
  <1>4. Chosen(k).rect = Rect(f, "key") /\ Rect(f, "key") \in Rects
    BY <1>1, <1>2, ChosenFields, FrameFields DEF Rect, Rects
  <1>. QED BY <1>1, <1>2, <1>3, <1>4 DEF k

(* the frame that takes over what the last one's duration does not hold *)
LEMMA PaddingFields ==
  ASSUME NEW e \in Encoders, e.prev_canvas \in Canvases,
         NEW t \in 0..(MAX_DURATION - 1)
  PROVE  LET f == [SubFrame(e, e.prev_canvas, "none") EXCEPT
                     !.padding = TRUE, !.sub_frame.duration = t]
         IN  /\ f \in FrameSet /\ f.id = e.out_frame_count + count(e) + 1
             /\ ~f.is_key_frame /\ f.padding /\ f.canvas = e.prev_canvas
             /\ f.over.canvas = e.prev_canvas /\ f.over.dispose = "none"
             /\ f.sub_frame.duration = t /\ Kept(f) /\ SameDurations(f)
             /\ Chosen(f).rect = Rect(f, "sub") /\ Rect(f, "sub") \in Rects
  <1>. DEFINE g == SubFrame(e, e.prev_canvas, "none")
              info == [dispose |-> "none", duration |-> t]
              f == [g EXCEPT !.padding = TRUE, !.sub_frame.duration = t]
  <1>1. /\ g \in FrameSet /\ g.id = e.out_frame_count + count(e) + 1
        /\ ~g.is_key_frame /\ g.canvas = e.prev_canvas
        /\ g.sub_frame = Info /\ g.key_frame = Info
        /\ g.over.canvas = e.prev_canvas /\ g.over.dispose = "none"
    BY SubFrameFields DEF Disposals
  <1>. HIDE DEF g
  <1>2. info \in InfoSet /\ info.duration = t /\ info.dispose = "none"
    BY DEF InfoSet
  <1>3. [g.sub_frame EXCEPT !.duration = t] = info
    BY <1>1 DEF Info
  <1>4. f = [g EXCEPT !.padding = TRUE, !.sub_frame = info]
    <2>1. f = [g EXCEPT !.padding = TRUE,
                        !.sub_frame = [g.sub_frame EXCEPT !.duration = t]]
      BY <1>1 DEF FrameSet
    <2>. QED BY <1>3, <2>1, Zenon
  <1>. HIDE DEF f, info
  <1>5. f \in FrameSet
    BY <1>1, <1>2, <1>4 DEF FrameSet
  <1>6. /\ f.id = g.id /\ f.is_key_frame = g.is_key_frame /\ f.padding
        /\ f.canvas = g.canvas /\ f.over = g.over
        /\ f.sub_frame = info /\ f.key_frame = g.key_frame
    BY <1>1, <1>4 DEF FrameSet
  <1>7. Kept(f) /\ SameDurations(f)
    BY <1>1, <1>2, <1>6, InfoFields DEF Kept, SameDurations
  <1>8. Chosen(f).rect = Rect(f, "sub") /\ Rect(f, "sub") \in Rects
    BY <1>1, <1>5, <1>6, ChosenFields, FrameFields DEF Rect, Rects
  <1>. QED BY <1>1, <1>2, <1>5, <1>6, <1>7, <1>8 DEF f, g

(* an encoder with other frames, or with none of the fields of its window *)
LEMMA LastFrame ==
  ASSUME NEW e \in Encoders, count(e) > 0
  PROVE  /\ count(e) \in 1..count(e) /\ e.frames[count(e)] \in FrameSet
         /\ Last(e.frames) = e.frames[count(e)]
         /\ e.frames \in Seq(FrameSet) /\ Len(e.frames) = count(e)
  BY EncoderFields DEF count, Last

LEMMA LastOfShown ==
  ASSUME NEW m, NEW e, Sound(m, e), LastCached(e)
  PROVE  LET s == ShownOf(m, e)
         IN  /\ Len(s) = Len(m) + count(e) /\ Len(s) \in 1..Len(s)
             /\ s[Len(s)] = Chosen(e.frames[count(e)])
             /\ s[Len(s)].canvas = e.prev_canvas /\ e.prev_canvas \in Canvases
             /\ s \in Seq(ShownFrames)
  <1>. DEFINE s == ShownOf(m, e)
              n == count(e)
  <1>1. m \in Seq(ShownFrames) /\ e \in Encoders /\ n > 0 /\ n \in Nat
        /\ Len(m) \in Nat
    BY EncoderFields DEF Sound, Typed, LastCached, LastShows
  <1>2. s \in Seq(ShownFrames) /\ Len(s) = Len(m) + n
        /\ \A i \in 1..n : s[Len(m) + i] = Chosen(e.frames[i])
    BY <1>1, ShownFields
  <1>3. n \in 1..n /\ e.frames[n] \in FrameSet /\ e.frames[n].canvas = e.prev_canvas
    BY <1>1, EncoderFields DEF LastCached, LastShows
  <1>4. /\ Chosen(e.frames[n]).canvas = e.prev_canvas
        /\ e.prev_canvas \in Canvases
    BY <1>3, ChosenFields, FrameFields
  <1>. HIDE DEF s, n
  <1>5. Len(s) \in 1..Len(s)
    BY <1>1, <1>2
  <1>. QED BY <1>2, <1>3, <1>4, <1>5 DEF s, n

(* The last frame of s lasts t longer, by itself or with a padding frame *)
Longer(s2, s, t) ==
  LET l == Len(s)
  IN  \/ /\ s[l].duration + t \in 0..(MAX_DURATION - 1)
         /\ s2 = [s EXCEPT ![l] = [s[l] EXCEPT !.duration = s[l].duration + t]]
      \/ \E p \in ShownFrames :
           /\ p.padding /\ p.canvas = s[l].canvas /\ p.duration = t
           /\ s2 = Append(s, p)

(* what IncreasePreviousDuration leaves of e *)
Increases(m, e, a, t) ==
  /\ Ready(m, a, e.prev_canvas) /\ a \in Encoders /\ OneKey(a, 2)
  /\ a.prev_canvas = e.prev_canvas /\ a.start = e.start
  /\ a.best_delta = e.best_delta /\ a.keyframe = e.keyframe
  /\ a.is_first_frame = e.is_first_frame
  /\ a.got_null_frame = e.got_null_frame
  /\ a.in_frame_count = e.in_frame_count
  /\ Longer(ShownOf(m, a), ShownOf(m, e), t)
  /\ IF Overflows(e, t)
     THEN /\ count(a) = count(e) + 1 /\ a.flush_count = count(e)
          /\ a.count_since_key_frame = e.count_since_key_frame + 1
          /\ ~NoPaddingIn(ShownOf(m, a))
     ELSE /\ count(a) = count(e) /\ a.flush_count = 0
          /\ a.count_since_key_frame = e.count_since_key_frame

(* IncreasePreviousDuration where the last frame can last longer *)
LEMMA Prolonged ==
  ASSUME NEW m, NEW e, Sound(m, e), LastCached(e), OneKey(e, 2),
         e.flush_count = 0, NEW t \in Nat, ~Overflows(e, t)
  PROVE  /\ Increases(m, e, IncreasePreviousDuration(e, t), t)
         /\ IncreasePreviousDuration(e, t).elapsed = e.elapsed
  <1>. DEFINE a == IncreasePreviousDuration(e, t)
              n == count(e)
              l == Len(m) + n
              s == ShownOf(m, e)
              f == e.frames[n]
              new == f.sub_frame.duration + t
              sub == [f.sub_frame EXCEPT !.duration = new]
              key == [f.key_frame EXCEPT !.duration = new]
              g == [f EXCEPT !.sub_frame = sub, !.key_frame = key]
  <1>1. m \in Seq(ShownFrames) /\ e \in Encoders /\ n > 0
    BY DEF Sound, Typed, LastCached, LastShows
  <1>2. /\ n \in 1..n /\ f \in FrameSet /\ Last(e.frames) = f
        /\ e.frames \in Seq(FrameSet) /\ Len(e.frames) = n
    BY <1>1, LastFrame
  <1>3. f.sub_frame \in InfoSet /\ f.key_frame \in InfoSet
    BY <1>2, FrameFields
  <1>4. new \in 0..(MAX_DURATION - 1)
    <2>1. f.sub_frame.duration \in 0..(MAX_DURATION - 1)
      BY <1>3 DEF InfoSet
    <2>2. ~(new >= MAX_DURATION)
      BY <1>2 DEF Overflows
    <2>. QED BY <2>1, <2>2, Durable
  <1>. HIDE DEF new
  <1>5. /\ sub \in InfoSet /\ sub.duration = new
        /\ sub.dispose = f.sub_frame.dispose
    BY <1>3, <1>4 DEF InfoSet
  <1>6. /\ key \in InfoSet /\ key.duration = new
        /\ key.dispose = f.key_frame.dispose
    BY <1>3, <1>4 DEF InfoSet
  <1>7. a = [e EXCEPT !.frames = [e.frames EXCEPT ![n] = g]]
    <2>1. g = [f EXCEPT !.sub_frame.duration = new, !.key_frame.duration = new]
      BY <1>2 DEF FrameSet
    <2>2. a = [e EXCEPT !.frames[n] = [f EXCEPT !.sub_frame.duration = new,
                                                !.key_frame.duration = new]]
      BY DEF IncreasePreviousDuration, new
    <2>3. \A x : [e EXCEPT !.frames[n] = x]
                   = [e EXCEPT !.frames = [e.frames EXCEPT ![n] = x]]
      OBVIOUS
    <2>. HIDE DEF g
    <2>. QED BY <2>1, <2>2, <2>3, Zenon
  <1>. HIDE DEF sub, key, a
  <1>8. g \in FrameSet
    BY <1>2, <1>5, <1>6 DEF FrameSet
  <1>9. /\ g.id = f.id /\ g.is_key_frame = f.is_key_frame
        /\ g.padding = f.padding /\ g.canvas = f.canvas /\ g.over = f.over
        /\ g.sub_frame = sub /\ g.key_frame = key
    BY <1>2 DEF FrameSet
  <1>. HIDE DEF g
  <1>10. [e.frames EXCEPT ![n] = g] \in Seq(FrameSet)
    BY <1>2, <1>8
  <1>11. a \in Encoders
    BY <1>1, <1>7, <1>10 DEF Encoders
  <1>12. /\ a.frames = [e.frames EXCEPT ![n] = g]
         /\ a.start = e.start /\ a.flush_count = e.flush_count
         /\ a.best_delta = e.best_delta /\ a.keyframe = e.keyframe
         /\ a.prev_canvas = e.prev_canvas /\ a.prev_rect = e.prev_rect
         /\ a.count_since_key_frame = e.count_since_key_frame
         /\ a.prev_candidate_undecided = e.prev_candidate_undecided
         /\ a.is_first_frame = e.is_first_frame
         /\ a.got_null_frame = e.got_null_frame
         /\ a.in_frame_count = e.in_frame_count
         /\ a.out_frame_count = e.out_frame_count /\ a.elapsed = e.elapsed
    BY <1>1, <1>7 DEF Encoders
  <1>13. Kept(f) /\ f.canvas = e.prev_canvas /\ Chosen(f).rect = e.prev_rect
         /\ (Key(e) = n => e.prev_candidate_undecided)
    BY DEF LastCached, LastShows
  <1>14. Kept(g)
    BY <1>5, <1>6, <1>9, <1>13 DEF Kept
  <1>15. SameDurations(f)
    BY <1>2, SameLongFrames DEF Sound
  <1>16. SameDurations(g)
    BY <1>5, <1>6, <1>9, <1>15 DEF SameDurations
  <1>17. Key(a) = Key(e)
    BY <1>12 DEF Key
  <1>18. HasKey(a) /\ Key(a) = n => g.is_key_frame
    <2>. SUFFICES ASSUME HasKey(a), Key(a) = n PROVE g.is_key_frame
      OBVIOUS
    <2>1. HasKey(e) /\ Key(e) = n
      BY <1>12, <1>17 DEF HasKey
    <2>. QED BY <1>9, <2>1 DEF Sound, Pointed
  <1>19. /\ Sound(m, a) /\ count(a) = n
         /\ ShownOf(m, a) = [s EXCEPT ![l] = Chosen(g)]
    BY <1>2, <1>8, <1>9, <1>11, <1>12, <1>14, <1>16, <1>18, Replaces
  <1>20. a.frames[n] = g /\ \A i \in 1..n : i # n => a.frames[i] = e.frames[i]
    BY <1>2, <1>12
  <1>21. OneKey(a, 2)
    BY <1>9, <1>17, <1>19, <1>20 DEF OneKey
  <1>22. Chosen(g).rect = Chosen(f).rect
    <2>1. Chosen(g).rect = <<g.id, IF g.is_key_frame THEN "key" ELSE "sub">>
      BY <1>8, ChosenFields
    <2>2. Chosen(f).rect = <<f.id, IF f.is_key_frame THEN "key" ELSE "sub">>
      BY <1>2, ChosenFields
    <2>. QED BY <1>9, <2>1, <2>2
  <1>23. LastShows(a, e.prev_canvas)
    BY <1>1, <1>9, <1>12, <1>13, <1>14, <1>17, <1>19, <1>20, <1>22
       DEF LastShows
  <1>24. s[l] = Chosen(f) /\ Chosen(f) \in ShownFrames
    BY <1>1, <1>2, ShownFields, ChosenFields
  <1>25. Chosen(f).duration = f.sub_frame.duration
    BY <1>2, <1>15, ChosenFields DEF SameDurations
  <1>26. Chosen(g) = [Chosen(f) EXCEPT !.duration = new]
    <2>1. /\ Chosen(g).is_key_frame = Chosen(f).is_key_frame
          /\ Chosen(g).padding = Chosen(f).padding
          /\ Chosen(g).canvas = Chosen(f).canvas /\ Chosen(g).over = Chosen(f).over
      BY <1>2, <1>8, <1>9, ChosenFields
    <2>2. Chosen(g).dispose = Chosen(f).dispose
      BY <1>2, <1>5, <1>6, <1>8, <1>9, ChosenFields
    <2>3. Chosen(g).duration = new
      BY <1>5, <1>6, <1>8, <1>9, ChosenFields
    <2>4. Chosen(g) \in ShownFrames
      BY <1>8, ChosenFields
    <2>. QED BY <1>22, <1>24, <2>1, <2>2, <2>3, <2>4 DEF ShownFrames
  <1>27. new = s[l].duration + t
    BY <1>24, <1>25 DEF new
  <1>28. ShownOf(m, a) =
           [s EXCEPT ![l] = [s[l] EXCEPT !.duration = s[l].duration + t]]
    BY <1>19, <1>24, <1>26, <1>27
  <1>29. Ready(m, a, e.prev_canvas)
    <2>1. a.flush_count = 0 /\ 0 < count(a) /\ 0 + 2 = 2
      BY <1>1, <1>12, <1>19
    <2>. QED BY <1>19, <1>21, <1>23, <2>1 DEF Ready
  <1>30. Longer(ShownOf(m, a), s, t)
    <2>1. Len(s) = l
      BY <1>1, ShownFields
    <2>. HIDE DEF s, l
    <2>. QED BY <1>4, <1>27, <1>28, <2>1 DEF Longer
  <1>. QED BY <1>11, <1>12, <1>19, <1>21, <1>29, <1>30 DEF Increases, a, s

(* IncreasePreviousDuration where the last frame gets a padding frame *)
LEMMA Padded ==
  ASSUME NEW m, NEW e, Sound(m, e), LastCached(e), OneKey(e, 2),
         NEW t \in 0..(MAX_DURATION - 1), Overflows(e, t)
  PROVE  /\ Increases(m, e, IncreasePreviousDuration(e, t), t)
         /\ IncreasePreviousDuration(e, t).elapsed = e.elapsed
  <1>. DEFINE a == IncreasePreviousDuration(e, t)
              n == count(e)
              s == ShownOf(m, e)
              f == [SubFrame(e, e.prev_canvas, "none") EXCEPT
                      !.padding = TRUE, !.sub_frame.duration = t]
  <1>1. /\ m \in Seq(ShownFrames) /\ e \in Encoders /\ n > 0 /\ n \in Nat
        /\ e.prev_canvas \in Canvases
    BY EncoderFields, LastOfShown DEF Sound, Typed, LastCached, LastShows
  <1>2. /\ n \in 1..n /\ e.frames[n] \in FrameSet
        /\ e.frames \in Seq(FrameSet) /\ Len(e.frames) = n
    BY <1>1, LastFrame
  <1>3. /\ f \in FrameSet /\ f.id = e.out_frame_count + n + 1
        /\ ~f.is_key_frame /\ f.padding /\ f.canvas = e.prev_canvas
        /\ f.over.canvas = e.prev_canvas /\ f.over.dispose = "none"
        /\ f.sub_frame.duration = t /\ Kept(f) /\ SameDurations(f)
        /\ Chosen(f).rect = Rect(f, "sub") /\ Rect(f, "sub") \in Rects
    BY <1>1, PaddingFields
  <1>4. a = [e EXCEPT !.frames = Append(@, f),
                      !.count_since_key_frame = @ + 1,
                      !.flush_count = n, !.prev_candidate_undecided = FALSE,
                      !.prev_rect = Rect(f, "sub")]
    BY DEF IncreasePreviousDuration, WithPaddingFrame
  <1>. HIDE DEF f, a
  <1>5. Append(e.frames, f) \in Seq(FrameSet)
    BY <1>2, <1>3
  <1>6. e.count_since_key_frame + 1 \in Nat
    BY <1>1, EncoderFields
  <1>7. a \in Encoders
    BY <1>1, <1>3, <1>4, <1>5, <1>6 DEF Encoders, RectsOrNone
  <1>8. /\ a.frames = Append(e.frames, f)
        /\ a.start = e.start /\ a.flush_count = n
        /\ a.best_delta = e.best_delta /\ a.keyframe = e.keyframe
        /\ a.prev_canvas = e.prev_canvas /\ a.prev_rect = Rect(f, "sub")
        /\ a.count_since_key_frame = e.count_since_key_frame + 1
        /\ a.prev_candidate_undecided = FALSE
        /\ a.is_first_frame = e.is_first_frame
        /\ a.got_null_frame = e.got_null_frame
        /\ a.in_frame_count = e.in_frame_count
        /\ a.out_frame_count = e.out_frame_count /\ a.elapsed = e.elapsed
    BY <1>1, <1>4 DEF Encoders
  <1>9. e.out_frame_count = Len(m)
    BY DEF Sound, Numbered
  <1>10. Fits(Chosen(e.frames[n]), f)
    <2>1. e.frames[n].canvas = e.prev_canvas /\ Kept(e.frames[n])
      BY DEF LastCached, LastShows
    <2>2. /\ Chosen(e.frames[n]).canvas = e.prev_canvas
          /\ Chosen(e.frames[n]).dispose = "none"
      BY <1>2, <2>1, ChosenFields DEF Kept
    <2>. QED BY <1>3, <2>2 DEF Fits
  <1>11. /\ Sound(m, a) /\ count(a) = n + 1 /\ a.frames[count(a)] = f
         /\ ShownOf(m, a) = Append(s, Chosen(f))
    <2>1. f.id = Len(m) + count(e) + 1 /\ f \in FrameSet /\ SameDurations(f)
      BY <1>3, <1>9
    <2>2. a \in Encoders /\ a.frames = Append(e.frames, f)
          /\ a.out_frame_count = e.out_frame_count /\ a.keyframe = e.keyframe
      BY <1>7, <1>8
    <2>3. count(e) > 0 /\ Fits(Chosen(e.frames[count(e)]), f)
      BY <1>1, <1>10
    <2>4. Sound(m, a)
      BY <2>1, <2>2, <2>3, Appends
    <2>5. count(a) = n + 1
      BY <2>1, <2>2, <2>3, Appends
    <2>6. a.frames[count(a)] = f
      <3>1. Append(e.frames, f)[Len(e.frames) + 1] = f
        BY <1>2, <1>3, AppendFields
      <3>2. count(a) = Len(e.frames) + 1
        BY <1>2, <2>5
      <3>. QED BY <1>8, <3>1, <3>2
    <2>7. ShownOf(m, a) = Append(s, Chosen(f))
      BY <2>1, <2>2, <2>3, Appends
    <2>. QED BY <2>4, <2>5, <2>6, <2>7
  <1>12. Chosen(f) \in ShownFrames /\ Chosen(f).padding
         /\ Chosen(f).canvas = e.prev_canvas /\ Chosen(f).duration = t
    BY <1>3, ChosenFields
  <1>13. Key(a) # count(a)
    <2>1. CASE HasKey(e)
      <3>1. Key(e) \in 1..n
        BY <2>1 DEF Sound, Pointed
      <3>. QED BY <1>1, <1>8, <1>11, <3>1 DEF Key
    <2>2. CASE ~HasKey(e)
      BY <1>1, <1>8, <1>11, <2>2 DEF Key, HasKey, KEYFRAME_NONE
    <2>. QED BY <2>1, <2>2
  <1>14. LastShows(a, e.prev_canvas)
    BY <1>1, <1>3, <1>8, <1>11, <1>13 DEF LastShows
  <1>15. OneKey(a, a.flush_count + 2)
    BY <1>1, <1>8, <1>11 DEF OneKey
  <1>17. OneKey(a, 2)
    <2>. SUFFICES ASSUME NEW i \in 1..count(a), i >= 2,
                         a.frames[i].is_key_frame
                  PROVE  i = Key(a)
      BY DEF OneKey
    <2>1. i # n + 1
      BY <1>3, <1>11
    <2>2. i \in 1..n
      BY <1>1, <1>11, <2>1
    <2>3. a.frames[i] = e.frames[i]
      BY <1>2, <1>3, <1>8, <2>2, AppendFields
    <2>. QED BY <1>8, <2>2, <2>3 DEF OneKey, Key
  <1>16. Ready(m, a, e.prev_canvas)
    <2>1. a.flush_count < count(a)
      BY <1>1, <1>8, <1>11
    <2>. QED BY <1>11, <1>14, <1>15, <2>1 DEF Ready
  <1>18. s \in Seq(ShownFrames) /\ s[Len(s)].canvas = e.prev_canvas
    BY LastOfShown
  <1>. HIDE DEF s
  <1>19. Longer(ShownOf(m, a), s, t)
    BY <1>11, <1>12, <1>18 DEF Longer
  <1>20. ~NoPaddingIn(ShownOf(m, a))
    <2>. DEFINE p == Chosen(f)
    <2>1. /\ Len(Append(s, p)) = Len(s) + 1 /\ Append(s, p)[Len(s) + 1] = p
          /\ Len(s) + 1 \in 1..(Len(s) + 1)
      BY <1>12, <1>18, AppendFields
    <2>. QED BY <1>11, <1>12, <2>1 DEF NoPaddingIn
  <1>. QED BY <1>7, <1>8, <1>11, <1>16, <1>17, <1>19, <1>20
           DEF Increases, a, s

LEMMA DisposedFields ==
  ASSUME NEW e \in Encoders, NEW f \in FrameSet, NEW d \in Disposals
  PROVE  LET g == Disposed(e, f, d)
         IN  /\ g \in FrameSet /\ g.id = f.id
             /\ g.is_key_frame = f.is_key_frame /\ g.padding = f.padding
             /\ g.canvas = f.canvas /\ g.over = f.over
             /\ g.sub_frame.duration = f.sub_frame.duration
             /\ g.key_frame.duration = f.key_frame.duration
             /\ Chosen(g).dispose = d /\ Chosen(g).rect = Chosen(f).rect
             /\ Chosen(g) = [Chosen(f) EXCEPT !.dispose = d]
             /\ Kept(f) /\ d = "none" => Kept(g)
  <1>. DEFINE g == Disposed(e, f, d)
              both == e.prev_candidate_undecided
              Set(info, chosen) ==
                IF both \/ chosen THEN [info EXCEPT !.dispose = d] ELSE info
              sub == Set(f.sub_frame, ~f.is_key_frame)
              key == Set(f.key_frame, f.is_key_frame)
  <1>1. f.sub_frame \in InfoSet /\ f.key_frame \in InfoSet
    BY FrameFields
  <1>2. /\ sub \in InfoSet /\ sub.duration = f.sub_frame.duration
        /\ sub.dispose = IF both \/ ~f.is_key_frame THEN d
                         ELSE f.sub_frame.dispose
    BY <1>1 DEF InfoSet, Disposals
  <1>3. /\ key \in InfoSet /\ key.duration = f.key_frame.duration
        /\ key.dispose = IF both \/ f.is_key_frame THEN d
                         ELSE f.key_frame.dispose
    BY <1>1 DEF InfoSet, Disposals
  <1>4. g = [f EXCEPT !.sub_frame = sub, !.key_frame = key]
    BY DEF Disposed
  <1>. HIDE DEF g, sub, key
  <1>5. g \in FrameSet
    BY <1>2, <1>3, <1>4 DEF FrameSet
  <1>6. /\ g.id = f.id /\ g.is_key_frame = f.is_key_frame
        /\ g.padding = f.padding /\ g.canvas = f.canvas /\ g.over = f.over
        /\ g.sub_frame = sub /\ g.key_frame = key
    BY <1>4 DEF FrameSet
  <1>7. Chosen(g).dispose = d
    BY <1>2, <1>3, <1>5, <1>6, ChosenFields
  <1>8. Chosen(g).rect = Chosen(f).rect
    <2>1. Chosen(g).rect = <<g.id, IF g.is_key_frame THEN "key" ELSE "sub">>
      BY <1>5, ChosenFields
    <2>2. Chosen(f).rect = <<f.id, IF f.is_key_frame THEN "key" ELSE "sub">>
      BY ChosenFields
    <2>. QED BY <1>6, <2>1, <2>2
  <1>9. Kept(f) /\ d = "none" => Kept(g)
    BY <1>2, <1>3, <1>6 DEF Kept
  <1>10. Chosen(g) = [Chosen(f) EXCEPT !.dispose = d]
    <2>1. /\ Chosen(g).is_key_frame = Chosen(f).is_key_frame
          /\ Chosen(g).padding = Chosen(f).padding
          /\ Chosen(g).canvas = Chosen(f).canvas /\ Chosen(g).over = Chosen(f).over
      BY <1>5, <1>6, ChosenFields
    <2>2. Chosen(g).duration = Chosen(f).duration
      BY <1>2, <1>3, <1>5, <1>6, ChosenFields
    <2>3. Chosen(g) \in ShownFrames /\ Chosen(f) \in ShownFrames
      BY <1>5, ChosenFields
    <2>. QED BY <1>7, <1>8, <2>1, <2>2, <2>3 DEF ShownFrames
  <1>. QED BY <1>2, <1>3, <1>5, <1>6, <1>7, <1>8, <1>9, <1>10 DEF g

(* what adding a frame to the window leaves alone *)
SameCounters(a, b) ==
  /\ a.start = b.start /\ a.out_frame_count = b.out_frame_count
  /\ a.is_first_frame = b.is_first_frame
  /\ a.got_null_frame = b.got_null_frame
  /\ a.in_frame_count = b.in_frame_count /\ a.elapsed = b.elapsed

(* x and y show the same canvas equally long *)
ShowsSame(x, y) ==
  x.canvas = y.canvas /\ x.duration = y.duration /\ x.padding = y.padding

(* s2 has the key frames of s, but for position old *)
KeepsKeys(s2, s, old) ==
  /\ \A i \in 1..Len(s) : i # old => s2[i].is_key_frame = s[i].is_key_frame
  /\ old \in 1..Len(s) => ~s2[old].is_key_frame

(* the last frame of g, which was the last one of e, has the disposal d *)
LastDisposed(g, e, d) ==
  LET f == g.frames[count(e)]
  IN  /\ Chosen(f).canvas = e.prev_canvas /\ Chosen(f).dispose = d
      /\ Chosen(f).rect = e.prev_rect
      /\ Key(g) = count(e) => d = "none"

SameKeyFrames(g, e) ==
  \A i \in 1..count(e) : g.frames[i].is_key_frame = e.frames[i].is_key_frame

(* SetPreviousDisposeMethod, for a disposal the last frame can have *)
LEMMA Disposes ==
  ASSUME NEW m, NEW e, Sound(m, e), LastCached(e), NEW d \in DisposalOf(e)
  PROVE  LET g == SetPreviousDisposeMethod(e, d)
             n == count(e)
             s == ShownOf(m, e)
             s2 == ShownOf(m, g)
         IN  /\ Sound(m, g) /\ g \in Encoders /\ count(g) = n
             /\ SameCounters(g, e) /\ g.flush_count = e.flush_count
             /\ g.best_delta = e.best_delta /\ g.keyframe = e.keyframe
             /\ g.prev_canvas = e.prev_canvas /\ g.prev_rect = e.prev_rect
             /\ g.count_since_key_frame = e.count_since_key_frame
             /\ SameKeyFrames(g, e)
             /\ Len(s2) = Len(s)
             /\ \A i \in 1..Len(s) : ShowsSame(s2[i], s[i])
             /\ \A i \in 1..Len(s) : s2[i].is_key_frame = s[i].is_key_frame
             /\ LastDisposed(g, e, d)
  <1>. DEFINE g == SetPreviousDisposeMethod(e, d)
              n == count(e)
              l == Len(m) + n
              s == ShownOf(m, e)
              s2 == ShownOf(m, g)
              f == e.frames[n]
              h == Disposed(e, f, d)
  <1>1. m \in Seq(ShownFrames) /\ e \in Encoders /\ n > 0 /\ n \in Nat
    BY EncoderFields DEF Sound, Typed, LastCached, LastShows
  <1>2. /\ n \in 1..n /\ f \in FrameSet
        /\ e.frames \in Seq(FrameSet) /\ Len(e.frames) = n
    BY <1>1, LastFrame
  <1>3. d \in Disposals /\ (e.prev_candidate_undecided => d = "none")
    BY DEF DisposalOf, Disposals
  <1>4. /\ h \in FrameSet /\ h.id = f.id
        /\ h.is_key_frame = f.is_key_frame /\ h.padding = f.padding
        /\ h.canvas = f.canvas /\ h.over = f.over
        /\ h.sub_frame.duration = f.sub_frame.duration
        /\ h.key_frame.duration = f.key_frame.duration
        /\ Chosen(h).dispose = d /\ Chosen(h).rect = Chosen(f).rect
        /\ Chosen(h) = [Chosen(f) EXCEPT !.dispose = d]
        /\ Kept(f) /\ d = "none" => Kept(h)
    BY <1>1, <1>2, <1>3, DisposedFields
  <1>5. g = [e EXCEPT !.frames = [e.frames EXCEPT ![n] = h]]
    BY <1>1, <1>3, DisposedFrame
  <1>. HIDE DEF g, h
  <1>6. [e.frames EXCEPT ![n] = h] \in Seq(FrameSet)
    BY <1>2, <1>4
  <1>7. g \in Encoders
    BY <1>1, <1>5, <1>6 DEF Encoders
  <1>8. /\ g.frames = [e.frames EXCEPT ![n] = h]
        /\ g.flush_count = e.flush_count
        /\ g.best_delta = e.best_delta /\ g.keyframe = e.keyframe
        /\ g.prev_canvas = e.prev_canvas /\ g.prev_rect = e.prev_rect
        /\ g.count_since_key_frame = e.count_since_key_frame
        /\ g.out_frame_count = e.out_frame_count
    BY <1>1, <1>5 DEF Encoders
  <1>9. SameCounters(g, e)
    BY <1>1, <1>5 DEF Encoders, SameCounters
  <1>10. f.canvas = e.prev_canvas /\ Chosen(f).rect = e.prev_rect /\ Kept(f)
         /\ (Key(e) = n => e.prev_candidate_undecided)
    BY DEF LastCached, LastShows
  <1>11. SameDurations(f)
    BY <1>2, SameLongFrames DEF Sound
  <1>12. SameDurations(h)
    BY <1>4, <1>11 DEF SameDurations
  <1>13. Key(g) = Key(e)
    BY <1>8 DEF Key
  <1>14. Key(g) = n => d = "none"
    BY <1>3, <1>10, <1>13
  <1>15. HasKey(g) /\ Key(g) = n => h.is_key_frame /\ Kept(h)
    <2>. SUFFICES ASSUME HasKey(g), Key(g) = n
                  PROVE  h.is_key_frame /\ Kept(h)
      OBVIOUS
    <2>1. HasKey(e) /\ Key(e) = n
      BY <1>8, <1>13 DEF HasKey
    <2>2. f.is_key_frame
      BY <2>1 DEF Sound, Pointed
    <2>. QED BY <1>4, <1>10, <1>14, <2>2
  <1>16. /\ Sound(m, g) /\ count(g) = n
         /\ s2 = [s EXCEPT ![l] = Chosen(h)]
    BY <1>2, <1>4, <1>7, <1>8, <1>12, <1>15, Replaces
  <1>17. g.frames[n] = h /\ \A i \in 1..n : i # n => g.frames[i] = e.frames[i]
    BY <1>2, <1>8
  <1>18. SameKeyFrames(g, e)
    BY <1>4, <1>17 DEF SameKeyFrames
  <1>19. s \in Seq(ShownFrames) /\ Len(s) = Len(m) + n /\ l \in 1..Len(s)
         /\ s[l] = Chosen(f)
    <2>1. s \in Seq(ShownFrames) /\ Len(s) = Len(m) + n
      BY <1>1, ShownFields
    <2>2. l \in 1..Len(s)
      BY <1>1, <2>1
    <2>. QED BY <1>1, <1>2, <2>1, <2>2, ShownFields
  <1>20. Chosen(h) \in ShownFrames /\ Chosen(f) \in ShownFrames
         /\ Chosen(h).canvas = h.canvas
    BY <1>2, <1>4, ChosenFields
  <1>. HIDE DEF s, s2, l
  <1>21. Len(s2) = Len(s) /\ s2[l] = Chosen(h)
         /\ \A i \in 1..Len(s) : i # l => s2[i] = s[i]
    BY <1>16, <1>19
  <1>22. ShowsSame(Chosen(h), Chosen(f))
         /\ Chosen(h).is_key_frame = Chosen(f).is_key_frame
    BY <1>4, <1>20 DEF ShowsSame, ShownFrames
  <1>23. \A i \in 1..Len(s) : ShowsSame(s2[i], s[i])
    BY <1>19, <1>21, <1>22 DEF ShowsSame
  <1>24. \A i \in 1..Len(s) : s2[i].is_key_frame = s[i].is_key_frame
    BY <1>19, <1>21, <1>22
  <1>25. Chosen(h).canvas = e.prev_canvas /\ Chosen(h).rect = e.prev_rect
    BY <1>4, <1>10, <1>20
  <1>26. LastDisposed(g, e, d)
    BY <1>4, <1>14, <1>17, <1>25 DEF LastDisposed
  <1>. QED BY <1>7, <1>8, <1>9, <1>16, <1>18, <1>21, <1>23, <1>24, <1>26
           DEF g, s, s2

(* the chosen key frame becomes a sub-frame again *)
Demoted(e) ==
  [e EXCEPT !.frames = [e.frames EXCEPT
                          ![Key(e)] = [@ EXCEPT !.is_key_frame = FALSE]],
            !.keyframe = KEYFRAME_NONE]

LEMMA Demotes ==
  ASSUME NEW m, NEW e, Sound(m, e), HasKey(e)
  PROVE  LET g == Demoted(e)
             s == ShownOf(m, e)
             s2 == ShownOf(m, g)
         IN  /\ Sound(m, g) /\ g \in Encoders /\ count(g) = count(e)
             /\ g.frames = [e.frames EXCEPT ![Key(e)].is_key_frame = FALSE]
             /\ g.out_frame_count = e.out_frame_count
             /\ Len(s2) = Len(s) /\ Len(m) + Key(e) \in 1..Len(s)
             /\ \A i \in 1..Len(s) : ShowsSame(s2[i], s[i])
             /\ KeepsKeys(s2, s, Len(m) + Key(e))
             /\ Chosen(g.frames[Key(e)]).canvas = Chosen(e.frames[Key(e)]).canvas
             /\ Chosen(g.frames[Key(e)]).dispose = "none"
             /\ \A i \in 1..count(e) : i # Key(e) => g.frames[i] = e.frames[i]
  <1>. DEFINE g == Demoted(e)
              n == Key(e)
              l == Len(m) + n
              s == ShownOf(m, e)
              s2 == ShownOf(m, g)
              f == e.frames[n]
              h == [f EXCEPT !.is_key_frame = FALSE]
  <1>1. m \in Seq(ShownFrames) /\ e \in Encoders /\ count(e) \in Nat
    BY EncoderFields DEF Sound, Typed
  <1>2. n \in 1..count(e) /\ f.is_key_frame /\ Kept(f) /\ f \in FrameSet
    BY <1>1, EncoderFields DEF Sound, Pointed
  <1>3. e.frames \in Seq(FrameSet) /\ Len(e.frames) = count(e)
    BY <1>1, EncoderFields DEF count
  <1>4. h \in FrameSet
    BY <1>2 DEF FrameSet
  <1>5. /\ h.id = f.id /\ h.padding = f.padding /\ h.canvas = f.canvas
        /\ h.over = f.over /\ h.sub_frame = f.sub_frame
        /\ h.key_frame = f.key_frame /\ ~h.is_key_frame
    BY <1>2 DEF FrameSet
  <1>6. g = [e EXCEPT !.frames = [e.frames EXCEPT ![n] = h],
                      !.keyframe = KEYFRAME_NONE]
    BY DEF Demoted
  <1>7. [e.frames EXCEPT ![n] = h] = [e.frames EXCEPT ![n].is_key_frame = FALSE]
    OBVIOUS
  <1>8. KEYFRAME_NONE \in Int
    BY DEF KEYFRAME_NONE
  <1>. HIDE DEF g, h, n
  <1>9. [e.frames EXCEPT ![n] = h] \in Seq(FrameSet)
    BY <1>2, <1>3, <1>4
  <1>10. g \in Encoders
    BY <1>1, <1>6, <1>8, <1>9 DEF Encoders
  <1>11. /\ g.frames = [e.frames EXCEPT ![n] = h]
         /\ g.keyframe = KEYFRAME_NONE
         /\ g.out_frame_count = e.out_frame_count
    BY <1>1, <1>6 DEF Encoders
  <1>12. SameDurations(f)
    BY <1>2, SameLongFrames DEF Sound
  <1>13. SameDurations(h) /\ f.sub_frame.duration = f.key_frame.duration
    BY <1>2, <1>5, <1>12 DEF SameDurations
  <1>14. /\ Chosen(f) \in ShownFrames /\ Chosen(f).canvas = f.canvas
         /\ Chosen(f).dispose = "none" /\ Chosen(f).padding = f.padding
         /\ Chosen(f).duration = f.key_frame.duration
    BY <1>2, ChosenFields DEF Kept
  <1>15. /\ Chosen(h) \in ShownFrames /\ Chosen(h).canvas = f.canvas
         /\ Chosen(h).dispose = "none" /\ Chosen(h).padding = f.padding
         /\ Chosen(h).duration = f.sub_frame.duration
         /\ ~Chosen(h).is_key_frame
    BY <1>2, <1>4, <1>5, ChosenFields DEF Kept
  <1>16. ~HasKey(g)
    BY <1>11 DEF HasKey
  <1>17. /\ Sound(m, g) /\ count(g) = count(e)
         /\ s2 = [s EXCEPT ![l] = Chosen(h)]
    BY <1>2, <1>4, <1>5, <1>10, <1>11, <1>13, <1>14, <1>15, <1>16, Replaces
       DEF n
  <1>18. g.frames[n] = h
         /\ \A i \in 1..count(e) : i # n => g.frames[i] = e.frames[i]
    BY <1>2, <1>3, <1>11
  <1>19. s \in Seq(ShownFrames) /\ Len(s) = Len(m) + count(e)
         /\ l \in 1..Len(s) /\ s[l] = Chosen(f)
    <2>1. s \in Seq(ShownFrames) /\ Len(s) = Len(m) + count(e)
      BY <1>1, ShownFields
    <2>2. l \in 1..Len(s)
      BY <1>1, <1>2, <2>1
    <2>. QED BY <1>1, <1>2, <2>1, <2>2, ShownFields
  <1>. HIDE DEF s, s2, l
  <1>20. Len(s2) = Len(s) /\ s2[l] = Chosen(h)
         /\ \A i \in 1..Len(s) : i # l => s2[i] = s[i]
    BY <1>17, <1>19
  <1>21. ShowsSame(Chosen(h), Chosen(f))
    BY <1>13, <1>14, <1>15 DEF ShowsSame
  <1>22. \A i \in 1..Len(s) : ShowsSame(s2[i], s[i])
    BY <1>19, <1>20, <1>21 DEF ShowsSame
  <1>23. KeepsKeys(s2, s, l)
    BY <1>15, <1>20 DEF KeepsKeys
  <1>. QED BY <1>7, <1>10, <1>11, <1>14, <1>15, <1>17, <1>18, <1>19, <1>20,
              <1>22, <1>23 DEF g, s, s2, l, n

(* s2 is s with one more frame that shows canvas *)
Grows(s2, s, canvas) ==
  /\ Len(s2) = Len(s) + 1
  /\ \A i \in 1..Len(s) : ShowsSame(s2[i], s[i])
  /\ s2[Len(s) + 1].canvas = canvas /\ s2[Len(s) + 1].duration = 0
  /\ ~s2[Len(s) + 1].padding

(* e2 is e with the frame f behind the last one, which f was encoded over *)
Caching(m, e, f, e2) ==
  /\ Sound(m, e) /\ count(e) > 0 /\ f \in FrameSet /\ e2 \in Encoders
  /\ f.id = Len(m) + count(e) + 1
  /\ f.sub_frame = Info /\ f.key_frame = Info /\ ~f.padding
  /\ Fits(Chosen(e.frames[count(e)]), f)
  /\ e2.frames = Append(e.frames, f) /\ e2.out_frame_count = e.out_frame_count
  /\ \/ e2.keyframe = e.keyframe
     \/ ~HasKey(e2)
     \/ e2.keyframe = count(e) /\ f.is_key_frame

Cached(m, e, f, e2) ==
  LET s == ShownOf(m, e)
      s2 == ShownOf(m, e2)
  IN  /\ Sound(m, e2) /\ count(e2) = count(e) + 1
      /\ e2.frames[count(e) + 1] = f
      /\ \A i \in 1..count(e) : e2.frames[i] = e.frames[i]
      /\ Grows(s2, s, f.canvas)
      /\ s2[Len(s) + 1].is_key_frame = f.is_key_frame
      /\ \A i \in 1..Len(s) : s2[i] = s[i]

LEMMA Caches ==
  ASSUME NEW m, NEW e, NEW f, NEW e2, Caching(m, e, f, e2)
  PROVE  Cached(m, e, f, e2)
  <1>. DEFINE s == ShownOf(m, e)
              s2 == ShownOf(m, e2)
              c == Chosen(f)
  <1>1. /\ Sound(m, e) /\ count(e) > 0 /\ f \in FrameSet /\ e2 \in Encoders
        /\ f.id = Len(m) + count(e) + 1
        /\ f.sub_frame = Info /\ f.key_frame = Info /\ ~f.padding
        /\ Fits(Chosen(e.frames[count(e)]), f)
        /\ e2.frames = Append(e.frames, f)
        /\ e2.out_frame_count = e.out_frame_count
    BY DEF Caching
  <1>2. m \in Seq(ShownFrames) /\ e \in Encoders /\ e.frames \in Seq(FrameSet)
        /\ Len(e.frames) = count(e)
    BY <1>1, EncoderFields DEF Sound, Typed, count
  <1>3. Kept(f) /\ SameDurations(f)
    BY <1>1, InfoFields DEF Kept, SameDurations
  <1>4. \/ e2.keyframe = e.keyframe
        \/ ~HasKey(e2)
        \/ e2.keyframe = count(e) /\ f.is_key_frame
    BY DEF Caching
  <1>5. /\ c \in ShownFrames /\ c.canvas = f.canvas /\ c.duration = 0
        /\ ~c.padding /\ c.is_key_frame = f.is_key_frame
    BY <1>1, InfoFields, ChosenFields
  <1>6. Sound(m, e2)
    BY <1>1, <1>3, <1>4, Appends
  <1>7. count(e2) = count(e) + 1
    BY <1>1, <1>3, <1>4, Appends
  <1>8. s2 = Append(s, c)
    BY <1>1, <1>3, <1>4, Appends
  <1>9. Append(e.frames, f)[count(e) + 1] = f
        /\ \A i \in 1..count(e) : Append(e.frames, f)[i] = e.frames[i]
    BY <1>1, <1>2, AppendFields
  <1>10. s \in Seq(ShownFrames)
    BY <1>2, ShownFields
  <1>. HIDE DEF s, s2, c
  <1>11. Len(s2) = Len(s) + 1
    BY <1>5, <1>8, <1>10, AppendFields
  <1>12. s2[Len(s) + 1] = c
    BY <1>5, <1>8, <1>10, AppendFields
  <1>13. \A i \in 1..Len(s) : s2[i] = s[i]
    BY <1>5, <1>8, <1>10, AppendFields
  <1>14. Grows(s2, s, f.canvas)
    BY <1>5, <1>11, <1>12, <1>13 DEF Grows, ShowsSame
  <1>. QED BY <1>1, <1>5, <1>6, <1>7, <1>9, <1>12, <1>13, <1>14
           DEF Cached, s, s2

LEMMA GrowsFrom ==
  ASSUME NEW s1, NEW s, NEW s2, NEW canvas, Len(s1) = Len(s),
         \A i \in 1..Len(s) : ShowsSame(s1[i], s[i]), Grows(s2, s1, canvas)
  PROVE  Grows(s2, s, canvas)
  BY DEF Grows, ShowsSame

LEMMA CachesSub ==
  ASSUME NEW m, NEW e, Sound(m, e), LastCached(e), NEW canvas \in Canvases,
         NEW d \in DisposalOf(e)
  PROVE  LET c == CachedSub(e, canvas, d)
             s == ShownOf(m, e)
             s2 == ShownOf(m, c)
         IN  /\ Ready(m, c, canvas) /\ c \in Encoders
             /\ c.prev_canvas = canvas /\ c.start = e.start
             /\ c.best_delta = e.best_delta /\ c.keyframe = e.keyframe
             /\ c.count_since_key_frame = e.count_since_key_frame + 1
             /\ ~c.is_first_frame /\ c.got_null_frame = e.got_null_frame
             /\ c.in_frame_count = e.in_frame_count + 1
             /\ c.elapsed = e.elapsed
             /\ count(c) = count(e) + 1 /\ c.flush_count = count(e)
             /\ Grows(s2, s, canvas) /\ KeepsKeys(s2, s, 0)
             /\ ~s2[Len(s) + 1].is_key_frame
  <1>. DEFINE n == count(e)
              f == SubFrame(e, canvas, d)
              g == SetPreviousDisposeMethod(e, d)
              c == CachedSub(e, canvas, d)
              s == ShownOf(m, e)
              s1 == ShownOf(m, g)
              s2 == ShownOf(m, c)
  <1>1. m \in Seq(ShownFrames) /\ e \in Encoders /\ n > 0 /\ n \in Nat
        /\ d \in Disposals /\ e.out_frame_count = Len(m)
    BY EncoderFields
       DEF Sound, Typed, Numbered, LastCached, LastShows, DisposalOf, Disposals
  <1>2. /\ f \in FrameSet /\ f.id = e.out_frame_count + n + 1
        /\ ~f.is_key_frame /\ ~f.padding /\ f.canvas = canvas
        /\ f.sub_frame = Info /\ f.key_frame = Info
        /\ f.over.canvas = e.prev_canvas /\ f.over.dispose = d
        /\ f.over.rect = e.prev_rect
        /\ Kept(f) /\ SameDurations(f)
        /\ Chosen(f).rect = Rect(f, "sub") /\ Rect(f, "sub") \in Rects
    BY <1>1, SubFrameFields
  <1>3. /\ Sound(m, g) /\ g \in Encoders /\ count(g) = n
        /\ SameCounters(g, e)
        /\ g.best_delta = e.best_delta /\ g.keyframe = e.keyframe
        /\ g.count_since_key_frame = e.count_since_key_frame
        /\ Len(s1) = Len(s)
    BY Disposes
  <1>4. /\ \A i \in 1..Len(s) : ShowsSame(s1[i], s[i])
        /\ \A i \in 1..Len(s) : s1[i].is_key_frame = s[i].is_key_frame
    BY Disposes
  <1>5. LastDisposed(g, e, d)
    BY Disposes
  <1>6. c = [g EXCEPT !.frames = Append(@, f), !.flush_count = n,
                      !.count_since_key_frame = @ + 1,
                      !.prev_candidate_undecided = FALSE,
                      !.prev_rect = Rect(f, "sub"), !.prev_canvas = canvas,
                      !.is_first_frame = FALSE, !.in_frame_count = @ + 1]
    BY <1>3 DEF CachedSub, Took, Encoders
  <1>. HIDE DEF f, g, c, s, s1, s2
  <1>7. Append(g.frames, f) \in Seq(FrameSet)
    BY <1>2, <1>3, EncoderFields
  <1>8. g.count_since_key_frame + 1 \in Nat /\ g.in_frame_count + 1 \in Nat
    BY <1>3, EncoderFields
  <1>9. c \in Encoders
    BY <1>1, <1>2, <1>3, <1>6, <1>7, <1>8
       DEF Encoders, RectsOrNone, CanvasesOrNone
  <1>10. /\ c.frames = Append(g.frames, f) /\ c.flush_count = n
         /\ c.best_delta = g.best_delta /\ c.keyframe = g.keyframe
         /\ c.prev_canvas = canvas /\ c.prev_rect = Rect(f, "sub")
         /\ c.count_since_key_frame = g.count_since_key_frame + 1
         /\ c.prev_candidate_undecided = FALSE
         /\ c.is_first_frame = FALSE /\ c.got_null_frame = g.got_null_frame
         /\ c.in_frame_count = g.in_frame_count + 1
         /\ c.out_frame_count = g.out_frame_count /\ c.elapsed = g.elapsed
         /\ c.start = g.start
    BY <1>3, <1>6 DEF Encoders
  <1>11. Fits(Chosen(g.frames[n]), f)
    BY <1>2, <1>5 DEF Fits, LastDisposed
  <1>12. f.id = Len(m) + n + 1
    BY <1>1, <1>2
  <1>13. /\ Sound(m, c) /\ count(c) = n + 1 /\ c.frames[n + 1] = f
         /\ Grows(s2, s1, canvas) /\ ~s2[Len(s1) + 1].is_key_frame
         /\ \A i \in 1..Len(s1) : s2[i] = s1[i]
    <2>1. count(g) > 0 /\ f.id = Len(m) + count(g) + 1
          /\ Fits(Chosen(g.frames[count(g)]), f)
      BY <1>1, <1>3, <1>11, <1>12
    <2>2. Caching(m, g, f, c)
      BY <1>2, <1>3, <1>9, <1>10, <2>1 DEF Caching
    <2>3. Cached(m, g, f, c)
      BY <2>2, Caches
    <2>. QED BY <1>2, <1>3, <2>3 DEF Cached, s1, s2
  <1>14. Grows(s2, s, canvas)
    BY <1>3, <1>4, <1>13, GrowsFrom
  <1>15. KeepsKeys(s2, s, 0) /\ ~s2[Len(s) + 1].is_key_frame
    BY <1>3, <1>4, <1>13 DEF KeepsKeys
  <1>16. Key(c) # count(c)
    <2>1. CASE HasKey(g)
      <3>1. Key(g) \in 1..n
        BY <1>3, <2>1 DEF Sound, Pointed
      <3>. QED BY <1>1, <1>10, <1>13, <3>1 DEF Key
    <2>2. CASE ~HasKey(g)
      BY <1>1, <1>10, <1>13, <2>2 DEF Key, HasKey, KEYFRAME_NONE
    <2>. QED BY <2>1, <2>2
  <1>17. LastShows(c, canvas)
    BY <1>1, <1>2, <1>10, <1>13, <1>16 DEF LastShows
  <1>18. OneKey(c, c.flush_count + 2)
    BY <1>1, <1>10, <1>13 DEF OneKey
  <1>19. c.flush_count < count(c)
    BY <1>1, <1>10, <1>13
  <1>20. Ready(m, c, canvas)
    BY <1>13, <1>17, <1>18, <1>19 DEF Ready
  <1>. QED BY <1>3, <1>9, <1>10, <1>13, <1>14, <1>15, <1>20
           DEF SameCounters, c, s, s2

(* where the chosen key frame is shown *)
OldKey(m, e) == IF HasKey(e) THEN Len(m) + Key(e) ELSE 0

(* what both outcomes of a comparison of penalties have in common *)
Compared(m, e, c, canvas) ==
  LET s == ShownOf(m, e)
      s2 == ShownOf(m, c)
  IN  /\ Ready(m, c, canvas) /\ c \in Encoders /\ SameCounters(c, e)
      /\ c.count_since_key_frame = e.count_since_key_frame + 1
      /\ count(c) = count(e) + 1 /\ Grows(s2, s, canvas)

Comparing(e, d) ==
  [SetPreviousDisposeMethod(e, d) EXCEPT !.count_since_key_frame = @ + 1]

LEMMA Compares ==
  ASSUME NEW m, NEW e, Ready(m, e, e.prev_canvas), NEW d \in DisposalOf(e)
  PROVE  LET g == Comparing(e, d)
             n == count(e)
             s == ShownOf(m, e)
             s1 == ShownOf(m, g)
         IN  /\ Sound(m, g) /\ g \in Encoders /\ count(g) = n
             /\ n > 0 /\ n \in Nat
             /\ SameCounters(g, e) /\ g.flush_count = e.flush_count
             /\ g.best_delta = e.best_delta /\ g.keyframe = e.keyframe
             /\ g.count_since_key_frame = e.count_since_key_frame + 1
             /\ SameKeyFrames(g, e)
             /\ Len(s1) = Len(s)
             /\ \A i \in 1..Len(s) : ShowsSame(s1[i], s[i])
             /\ \A i \in 1..Len(s) : s1[i].is_key_frame = s[i].is_key_frame
             /\ LastDisposed(g, e, d)
  <1>. DEFINE h == SetPreviousDisposeMethod(e, d)
              g == Comparing(e, d)
              n == count(e)
              s == ShownOf(m, e)
              s1 == ShownOf(m, g)
  <1>1. Sound(m, e) /\ LastCached(e)
    BY DEF Ready, LastCached
  <1>2. /\ Sound(m, h) /\ h \in Encoders /\ count(h) = n
        /\ SameCounters(h, e) /\ h.flush_count = e.flush_count
        /\ h.best_delta = e.best_delta /\ h.keyframe = e.keyframe
        /\ h.count_since_key_frame = e.count_since_key_frame
    BY <1>1, Disposes
  <1>3. /\ SameKeyFrames(h, e)
        /\ Len(ShownOf(m, h)) = Len(s)
        /\ \A i \in 1..Len(s) : ShowsSame(ShownOf(m, h)[i], s[i])
        /\ \A i \in 1..Len(s) :
             ShownOf(m, h)[i].is_key_frame = s[i].is_key_frame
    BY <1>1, Disposes
  <1>4. LastDisposed(h, e, d)
    BY <1>1, Disposes
  <1>5. g = [h EXCEPT !.count_since_key_frame = @ + 1]
    BY DEF Comparing
  <1>. HIDE DEF h, g
  <1>6. h.count_since_key_frame + 1 \in Nat
    BY <1>2, EncoderFields
  <1>7. g \in Encoders
    BY <1>2, <1>5, <1>6 DEF Encoders
  <1>8. /\ g.frames = h.frames /\ g.flush_count = h.flush_count
        /\ g.best_delta = h.best_delta /\ g.keyframe = h.keyframe
        /\ g.count_since_key_frame = h.count_since_key_frame + 1
        /\ g.out_frame_count = h.out_frame_count /\ SameCounters(g, h)
    BY <1>2, <1>5 DEF Encoders, SameCounters
  <1>9. Sound(m, g) /\ s1 = ShownOf(m, h) /\ count(g) = count(h)
    BY <1>2, <1>7, <1>8, Untouched
  <1>10. SameCounters(g, e)
    BY <1>2, <1>8 DEF SameCounters
  <1>11. LastDisposed(g, e, d) /\ SameKeyFrames(g, e)
    BY <1>3, <1>4, <1>8 DEF LastDisposed, SameKeyFrames, Key
  <1>12. n > 0 /\ n \in Nat
    BY <1>1, EncoderFields DEF Sound, Typed, LastCached, LastShows
  <1>. QED BY <1>2, <1>3, <1>7, <1>8, <1>9, <1>10, <1>11, <1>12 DEF g

(* the new frame is the best candidate so far *)
LEMMA Picks ==
  ASSUME NEW m, NEW e, Ready(m, e, e.prev_canvas), NEW canvas \in Canvases,
         NEW d \in DisposalOf(e), NEW penalty \in Penalties
  PROVE  LET c == PickedKeyframe(Comparing(e, d), SubFrame(e, canvas, d), penalty)
             s == ShownOf(m, e)
             s2 == ShownOf(m, c)
         IN  /\ Compared(m, e, c, canvas)
             /\ c.best_delta = penalty /\ c.keyframe = count(e)
             /\ c.flush_count = count(e)
             /\ s2[Len(s) + 1].is_key_frame /\ KeepsKeys(s2, s, OldKey(m, e))
  <1>. DEFINE n == count(e)
              f == SubFrame(e, canvas, d)
              k == [f EXCEPT !.is_key_frame = TRUE]
              g == Comparing(e, d)
              h == IF HasKey(g) THEN Demoted(g) ELSE g
              c == PickedKeyframe(g, f, penalty)
              old == OldKey(m, e)
              s == ShownOf(m, e)
              s1 == ShownOf(m, g)
              sh == ShownOf(m, h)
              s2 == ShownOf(m, c)
  <1>1. /\ m \in Seq(ShownFrames) /\ e \in Encoders /\ d \in Disposals
        /\ e.out_frame_count = Len(m) /\ Len(m) \in Nat
    BY DEF Ready, Sound, Typed, Numbered, DisposalOf, Disposals
  <1>2. /\ f \in FrameSet /\ f.id = e.out_frame_count + n + 1
        /\ ~f.padding /\ f.canvas = canvas
        /\ f.sub_frame = Info /\ f.key_frame = Info
        /\ f.over.canvas = e.prev_canvas /\ f.over.dispose = d
        /\ f.over.rect = e.prev_rect
    BY <1>1, SubFrameFields
  <1>. HIDE DEF f
  <1>3. /\ k \in FrameSet /\ k.is_key_frame /\ k.id = f.id
        /\ k.canvas = f.canvas /\ k.over = f.over /\ ~k.padding
        /\ k.sub_frame = Info /\ k.key_frame = Info
        /\ Kept(k) /\ SameDurations(k)
        /\ Chosen(k).rect = Rect(f, "key") /\ Rect(f, "key") \in Rects
    BY <1>2, KeyFrameFields
  <1>4. /\ Sound(m, g) /\ g \in Encoders /\ count(g) = n
        /\ n > 0 /\ n \in Nat /\ SameCounters(g, e)
        /\ g.keyframe = e.keyframe
        /\ g.count_since_key_frame = e.count_since_key_frame + 1
        /\ Len(s1) = Len(s)
    BY Compares
  <1>5. /\ \A i \in 1..Len(s) : ShowsSame(s1[i], s[i])
        /\ \A i \in 1..Len(s) : s1[i].is_key_frame = s[i].is_key_frame
    BY Compares
  <1>6. LastDisposed(g, e, d)
    BY Compares
  <1>7. Key(g) = Key(e) /\ (HasKey(g) <=> HasKey(e))
    BY <1>4 DEF Key, HasKey
  <1>. HIDE DEF g, s, s1
  <1>8. /\ Sound(m, h) /\ h \in Encoders /\ count(h) = n
        /\ h.out_frame_count = g.out_frame_count
    <2>1. CASE HasKey(g)
      BY <1>4, <2>1, Demotes
    <2>2. CASE ~HasKey(g)
      BY <1>4, <2>2
    <2>. QED BY <2>1, <2>2
  <1>9. /\ Len(sh) = Len(s) /\ KeepsKeys(sh, s, old)
        /\ \A i \in 1..Len(s) : ShowsSame(sh[i], s[i])
    <2>1. CASE HasKey(g)
      <3>. DEFINE sd == ShownOf(m, Demoted(g))
      <3>1. sh = sd /\ old = Len(m) + Key(g)
        BY <1>7, <2>1 DEF OldKey
      <3>2. /\ Len(sd) = Len(s1) /\ KeepsKeys(sd, s1, Len(m) + Key(g))
            /\ \A i \in 1..Len(s1) : ShowsSame(sd[i], s1[i])
        BY <1>4, <2>1, Demotes DEF s1
      <3>. HIDE DEF sd, sh, old
      <3>3. Len(sh) = Len(s) /\ KeepsKeys(sh, s, old)
        BY <1>4, <1>5, <3>1, <3>2 DEF KeepsKeys
      <3>. QED BY <1>4, <1>5, <3>1, <3>2, <3>3 DEF ShowsSame
    <2>2. CASE ~HasKey(g)
      <3>1. sh = s1 /\ old = 0
        BY <1>7, <2>2 DEF OldKey, s1
      <3>. HIDE DEF sh, old
      <3>. QED BY <1>4, <1>5, <3>1 DEF KeepsKeys
    <2>. QED BY <2>1, <2>2
  <1>10. c = [g EXCEPT !.frames = Append(h.frames, k),
                       !.prev_candidate_undecided = TRUE,
                       !.keyframe = n, !.best_delta = penalty,
                       !.flush_count = n, !.prev_rect = Rect(f, "key")]
    <2>1. h.frames = IF g.keyframe = KEYFRAME_NONE THEN g.frames
                     ELSE [g.frames EXCEPT ![g.keyframe + 1].is_key_frame = FALSE]
      <3>1. CASE HasKey(g)
        BY <1>4, <3>1, Demotes DEF HasKey, Key
      <3>2. CASE ~HasKey(g)
        BY <3>2 DEF HasKey
      <3>. QED BY <3>1, <3>2
    <2>. HIDE DEF h
    <2>. QED BY <1>4, <2>1 DEF PickedKeyframe
  <1>11. Fits(Chosen(h.frames[n]), k)
    <2>1. CASE HasKey(g) /\ Key(g) = n
      <3>1. /\ Chosen(h.frames[n]).canvas = Chosen(g.frames[n]).canvas
            /\ Chosen(h.frames[n]).dispose = "none"
        BY <1>4, <2>1, Demotes
      <3>2. d = "none"
        BY <1>6, <2>1 DEF LastDisposed
      <3>. QED BY <1>2, <1>3, <1>6, <3>1, <3>2 DEF Fits, LastDisposed
    <2>2. CASE ~(HasKey(g) /\ Key(g) = n)
      <3>1. h.frames[n] = g.frames[n]
        <4>1. CASE HasKey(g)
          <5>1. \A i \in 1..count(g) :
                  i # Key(g) => Demoted(g).frames[i] = g.frames[i]
            BY <1>4, <4>1, Demotes
          <5>2. n \in 1..count(g) /\ n # Key(g)
            BY <1>4, <2>2, <4>1
          <5>. QED BY <4>1, <5>1, <5>2
        <4>2. CASE ~HasKey(g)
          BY <4>2
        <4>. QED BY <4>1, <4>2
      <3>. QED BY <1>2, <1>3, <1>6, <3>1 DEF Fits, LastDisposed
    <2>. QED BY <2>1, <2>2
  <1>. HIDE DEF h, c, k, sh, s2, old
  <1>12. Append(h.frames, k) \in Seq(FrameSet)
    BY <1>3, <1>8, EncoderFields
  <1>13. c \in Encoders
    <2>1. penalty \in Deltas /\ Rect(f, "key") \in RectsOrNone /\ n \in Int
      BY <1>3, <1>4 DEF Deltas, RectsOrNone
    <2>. QED BY <1>4, <1>10, <1>12, <2>1 DEF Encoders
  <1>14. /\ c.frames = Append(h.frames, k)
         /\ c.prev_candidate_undecided = TRUE /\ c.keyframe = n
         /\ c.best_delta = penalty /\ c.flush_count = n
         /\ c.prev_rect = Rect(f, "key")
         /\ c.out_frame_count = g.out_frame_count
         /\ c.count_since_key_frame = g.count_since_key_frame
         /\ SameCounters(c, g)
    BY <1>4, <1>10 DEF Encoders, SameCounters
  <1>15. Caching(m, h, k, c)
    <2>1. k.id = Len(m) + n + 1
      BY <1>1, <1>2, <1>3
    <2>. QED BY <1>3, <1>4, <1>8, <1>11, <1>13, <1>14, <2>1 DEF Caching
  <1>16. Cached(m, h, k, c)
    BY <1>15, Caches
  <1>17. /\ Sound(m, c) /\ count(c) = n + 1 /\ c.frames[n + 1] = k
         /\ Grows(s2, sh, canvas) /\ s2[Len(sh) + 1].is_key_frame
         /\ \A i \in 1..Len(sh) : s2[i] = sh[i]
    BY <1>2, <1>3, <1>8, <1>16 DEF Cached, s2, sh
  <1>18. Grows(s2, s, canvas)
    BY <1>9, <1>17, GrowsFrom
  <1>19. s2[Len(s) + 1].is_key_frame /\ KeepsKeys(s2, s, old)
    BY <1>9, <1>17 DEF KeepsKeys
  <1>20. LastShows(c, canvas)
    BY <1>2, <1>3, <1>4, <1>14, <1>17 DEF LastShows
  <1>21. OneKey(c, c.flush_count + 2)
    BY <1>4, <1>14, <1>17 DEF OneKey
  <1>22. Ready(m, c, canvas)
    <2>1. c.flush_count < count(c)
      BY <1>4, <1>14, <1>17
    <2>. QED BY <1>17, <1>20, <1>21, <2>1 DEF Ready
  <1>23. SameCounters(c, e)
    BY <1>4, <1>14 DEF SameCounters
  <1>24. Compared(m, e, c, canvas)
    BY <1>4, <1>13, <1>14, <1>17, <1>18, <1>22, <1>23 DEF Compared, s, s2
  <1>. QED BY <1>14, <1>19, <1>24 DEF c, f, g, s, s2, old

(* the new frame stays a sub-frame *)
LEMMA NotPicks ==
  ASSUME NEW m, NEW e, Ready(m, e, e.prev_canvas), NEW canvas \in Canvases,
         NEW d \in DisposalOf(e)
  PROVE  LET c == NotPickedKeyframe(Comparing(e, d), SubFrame(e, canvas, d))
             s == ShownOf(m, e)
             s2 == ShownOf(m, c)
         IN  /\ Compared(m, e, c, canvas)
             /\ c.best_delta = e.best_delta /\ c.keyframe = e.keyframe
             /\ c.flush_count = e.flush_count
             /\ ~s2[Len(s) + 1].is_key_frame /\ KeepsKeys(s2, s, 0)
  <1>. DEFINE n == count(e)
              f == SubFrame(e, canvas, d)
              g == Comparing(e, d)
              c == NotPickedKeyframe(g, f)
              s == ShownOf(m, e)
              s1 == ShownOf(m, g)
              s2 == ShownOf(m, c)
  <1>1. /\ m \in Seq(ShownFrames) /\ e \in Encoders /\ d \in Disposals
        /\ e.out_frame_count = Len(m) /\ Len(m) \in Nat
        /\ e.flush_count < n /\ OneKey(e, e.flush_count + 2)
    BY DEF Ready, Sound, Typed, Numbered, DisposalOf, Disposals
  <1>2. /\ f \in FrameSet /\ f.id = e.out_frame_count + n + 1
        /\ ~f.is_key_frame /\ ~f.padding /\ f.canvas = canvas
        /\ f.sub_frame = Info /\ f.key_frame = Info
        /\ f.over.canvas = e.prev_canvas /\ f.over.dispose = d
        /\ f.over.rect = e.prev_rect
        /\ Kept(f) /\ SameDurations(f)
        /\ Chosen(f).rect = Rect(f, "sub") /\ Rect(f, "sub") \in Rects
    BY <1>1, SubFrameFields
  <1>3. /\ Sound(m, g) /\ g \in Encoders /\ count(g) = n
        /\ n > 0 /\ n \in Nat /\ SameCounters(g, e)
        /\ g.best_delta = e.best_delta /\ g.flush_count = e.flush_count
        /\ g.keyframe = e.keyframe
        /\ g.count_since_key_frame = e.count_since_key_frame + 1
        /\ Len(s1) = Len(s)
    BY Compares
  <1>4. /\ \A i \in 1..Len(s) : ShowsSame(s1[i], s[i])
        /\ \A i \in 1..Len(s) : s1[i].is_key_frame = s[i].is_key_frame
    BY Compares
  <1>5. LastDisposed(g, e, d)
    BY Compares
  <1>6. SameKeyFrames(g, e)
    BY Compares
  <1>7. c = [g EXCEPT !.frames = Append(@, f),
                      !.prev_candidate_undecided = FALSE,
                      !.prev_rect = Rect(f, "sub")]
    BY DEF NotPickedKeyframe
  <1>. HIDE DEF f, g, c, s, s1, s2
  <1>8. Append(g.frames, f) \in Seq(FrameSet)
    BY <1>2, <1>3, EncoderFields
  <1>9. c \in Encoders
    BY <1>2, <1>3, <1>7, <1>8 DEF Encoders, RectsOrNone
  <1>10. /\ c.frames = Append(g.frames, f) /\ c.keyframe = g.keyframe
         /\ c.prev_candidate_undecided = FALSE
         /\ c.best_delta = g.best_delta /\ c.flush_count = g.flush_count
         /\ c.prev_rect = Rect(f, "sub")
         /\ c.out_frame_count = g.out_frame_count
         /\ c.count_since_key_frame = g.count_since_key_frame
         /\ SameCounters(c, g)
    BY <1>3, <1>7 DEF Encoders, SameCounters
  <1>11. Caching(m, g, f, c)
    <2>1. f.id = Len(m) + n + 1
      BY <1>1, <1>2
    <2>2. Fits(Chosen(g.frames[n]), f)
      BY <1>2, <1>5 DEF Fits, LastDisposed
    <2>. QED BY <1>2, <1>3, <1>9, <1>10, <2>1, <2>2 DEF Caching
  <1>12. Cached(m, g, f, c)
    BY <1>11, Caches
  <1>13. /\ Sound(m, c) /\ count(c) = n + 1 /\ c.frames[n + 1] = f
         /\ Grows(s2, s1, canvas) /\ ~s2[Len(s1) + 1].is_key_frame
         /\ \A i \in 1..Len(s1) : s2[i] = s1[i]
         /\ \A i \in 1..n : c.frames[i] = g.frames[i]
    BY <1>2, <1>3, <1>12 DEF Cached, s2, s1
  <1>14. Grows(s2, s, canvas)
    BY <1>3, <1>4, <1>13, GrowsFrom
  <1>15. ~s2[Len(s) + 1].is_key_frame /\ KeepsKeys(s2, s, 0)
    BY <1>3, <1>4, <1>13 DEF KeepsKeys
  <1>16. Key(c) # count(c)
    <2>1. CASE HasKey(g)
      <3>1. Key(g) \in 1..n
        BY <1>3, <2>1 DEF Sound, Pointed
      <3>. QED BY <1>3, <1>10, <1>13, <3>1 DEF Key
    <2>2. CASE ~HasKey(g)
      BY <1>3, <1>10, <1>13, <2>2 DEF Key, HasKey, KEYFRAME_NONE
    <2>. QED BY <2>1, <2>2
  <1>17. LastShows(c, canvas)
    BY <1>2, <1>3, <1>10, <1>13, <1>16 DEF LastShows
  <1>18. OneKey(c, c.flush_count + 2)
    <2>. SUFFICES ASSUME NEW i \in 1..count(c), i >= c.flush_count + 2,
                         c.frames[i].is_key_frame
                  PROVE  i = Key(c)
      BY DEF OneKey
    <2>1. i # n + 1
      BY <1>2, <1>13
    <2>2. i \in 1..n
      BY <1>3, <1>13, <2>1
    <2>3. e.frames[i].is_key_frame
      BY <1>6, <1>13, <2>2 DEF SameKeyFrames
    <2>4. i = Key(e)
      BY <1>1, <1>3, <1>10, <2>2, <2>3 DEF OneKey
    <2>. QED BY <1>3, <1>10, <2>4 DEF Key
  <1>19. c.flush_count < count(c)
    <2>1. c.flush_count = e.flush_count /\ e.flush_count \in Nat
      BY <1>1, <1>3, <1>10, EncoderFields
    <2>. QED BY <1>1, <1>3, <1>13, <2>1
  <1>20. Ready(m, c, canvas)
    BY <1>13, <1>17, <1>18, <1>19 DEF Ready
  <1>21. SameCounters(c, e)
    BY <1>3, <1>10 DEF SameCounters
  <1>22. Compared(m, e, c, canvas)
    BY <1>3, <1>9, <1>10, <1>13, <1>14, <1>20, <1>21 DEF Compared, s, s2
  <1>. QED BY <1>3, <1>10, <1>15, <1>22 DEF c, f, g, s, s2

(* c is e, with the round closed after kmax frames *)
RoundClosed(e, c) ==
  IF e.count_since_key_frame >= options.kmax
  THEN /\ c.count_since_key_frame = 0 /\ ~HasKey(c)
       /\ c.best_delta = DELTA_INFINITY /\ c.flush_count = count(e) - 1
  ELSE /\ c.count_since_key_frame = e.count_since_key_frame
       /\ c.keyframe = e.keyframe /\ c.best_delta = e.best_delta
       /\ c.flush_count = e.flush_count

LEMMA Closes ==
  ASSUME NEW m, NEW e, NEW canvas \in Canvases, Ready(m, e, canvas),
         e \in Encoders, options.kmax \in Int
  PROVE  LET c == Took(ClosedAtKmax(e), canvas)
         IN  /\ Ready(m, c, canvas) /\ c \in Encoders
             /\ c.prev_canvas = canvas /\ c.start = e.start
             /\ ~c.is_first_frame /\ c.got_null_frame = e.got_null_frame
             /\ c.in_frame_count = e.in_frame_count + 1
             /\ c.elapsed = e.elapsed
             /\ count(c) = count(e) /\ ShownOf(m, c) = ShownOf(m, e)
             /\ RoundClosed(e, c)
  <1>. DEFINE n == count(e)
              closed == e.count_since_key_frame >= options.kmax
              c == Took(ClosedAtKmax(e), canvas)
              b == IF closed
                   THEN [e EXCEPT !.flush_count = n - 1,
                                  !.count_since_key_frame = 0,
                                  !.keyframe = KEYFRAME_NONE,
                                  !.best_delta = DELTA_INFINITY]
                   ELSE e
  <1>1. /\ Sound(m, e) /\ LastShows(e, canvas) /\ OneKey(e, e.flush_count + 2)
        /\ n > 0 /\ n \in Nat /\ e.flush_count < n
    BY EncoderFields DEF Ready, LastShows
  <1>2. /\ e.count_since_key_frame \in Nat /\ e.in_frame_count \in Nat
        /\ e.flush_count \in Nat
    BY EncoderFields
  <1>3. closed <=> ~(e.count_since_key_frame < options.kmax)
    BY <1>2
  <1>4. ClosedAtKmax(e) = b
    BY <1>3 DEF ClosedAtKmax
  <1>5. KEYFRAME_NONE \in Int /\ DELTA_INFINITY \in Deltas /\ n - 1 \in Nat
    BY <1>1 DEF Deltas, KEYFRAME_NONE
  <1>. HIDE DEF n, closed
  <1>6. b \in Encoders
    BY <1>5 DEF Encoders
  <1>7. /\ closed => /\ b.count_since_key_frame = 0
                     /\ b.keyframe = KEYFRAME_NONE
                     /\ b.best_delta = DELTA_INFINITY
                     /\ b.flush_count = n - 1
        /\ ~closed => b = e
        /\ b.frames = e.frames /\ b.prev_rect = e.prev_rect
        /\ b.prev_candidate_undecided = e.prev_candidate_undecided
        /\ SameCounters(b, e)
    BY DEF Encoders, SameCounters
  <1>. HIDE DEF b
  <1>8. c = [b EXCEPT !.prev_canvas = canvas, !.is_first_frame = FALSE,
                      !.in_frame_count = @ + 1]
    BY <1>4 DEF Took
  <1>. HIDE DEF c
  <1>9. b.in_frame_count + 1 \in Nat
    BY <1>6, EncoderFields
  <1>10. c \in Encoders
    BY <1>6, <1>8, <1>9 DEF Encoders, CanvasesOrNone
  <1>11. /\ c.frames = b.frames /\ c.prev_rect = b.prev_rect
         /\ c.prev_candidate_undecided = b.prev_candidate_undecided
         /\ c.count_since_key_frame = b.count_since_key_frame
         /\ c.keyframe = b.keyframe /\ c.best_delta = b.best_delta
         /\ c.flush_count = b.flush_count /\ c.prev_canvas = canvas
         /\ c.start = b.start /\ c.out_frame_count = b.out_frame_count
         /\ c.is_first_frame = FALSE /\ c.got_null_frame = b.got_null_frame
         /\ c.in_frame_count = b.in_frame_count + 1 /\ c.elapsed = b.elapsed
    BY <1>6, <1>8 DEF Encoders
  <1>12. /\ c.frames = e.frames /\ c.out_frame_count = e.out_frame_count
         /\ c.keyframe = e.keyframe \/ ~HasKey(c)
    BY <1>7, <1>11 DEF SameCounters, HasKey
  <1>13. /\ Sound(m, c) /\ ShownOf(m, c) = ShownOf(m, e) /\ count(c) = n
    BY <1>1, <1>10, <1>12, Untouched DEF n
  <1>14. Key(c) = n => Key(e) = n
    BY <1>1, <1>12 DEF Key, HasKey, KEYFRAME_NONE
  <1>15. LastShows(c, canvas)
    BY <1>1, <1>7, <1>11, <1>13, <1>14 DEF LastShows, n
  <1>16. c.flush_count < n
    BY <1>1, <1>7, <1>11
  <1>17. OneKey(c, c.flush_count + 2)
    <2>1. CASE closed
      <3>1. c.flush_count + 2 = n + 1
        BY <1>1, <1>7, <1>11, <2>1
      <3>. QED BY <1>1, <1>13, <3>1 DEF OneKey
    <2>2. CASE ~closed
      BY <1>1, <1>7, <1>11, <1>13, <2>2 DEF OneKey, Key, n
    <2>. QED BY <2>1, <2>2
  <1>18. Ready(m, c, canvas)
    BY <1>13, <1>15, <1>16, <1>17 DEF Ready
  <1>19. RoundClosed(e, c)
    BY <1>7, <1>11 DEF RoundClosed, HasKey, closed, n
  <1>. QED BY <1>7, <1>10, <1>11, <1>13, <1>18, <1>19
           DEF SameCounters, c, n
LEMMA IncreasesDuration ==
  ASSUME NEW m, NEW e, Sound(m, e), LastCached(e), OneKey(e, 2),
         e.flush_count = 0, NEW t \in 0..(MAX_DURATION - 1)
  PROVE  /\ Increases(m, e, IncreasePreviousDuration(e, t), t)
         /\ IncreasePreviousDuration(e, t).elapsed = e.elapsed
  <1>1. t \in Nat
    BY Durable
  <1>2. CASE ~Overflows(e, t)
    BY <1>1, <1>2, Prolonged
  <1>3. CASE Overflows(e, t)
    BY <1>3, Padded
  <1>. QED BY <1>2, <1>3

-----------------------------------------------------------------------------
(* What an addition does to the encoder, before its frames are flushed *)

LEMMA Advances ==
  ASSUME ~enc.is_first_frame, Sound(mux, enc), LastCached(enc),
         OneKey(enc, 2), enc.flush_count = 0, NEW t \in 0..(MAX_DURATION - 1)
  PROVE  LET a == Advanced(t)
         IN  Increases(mux, enc, a, t) /\ a.elapsed = enc.elapsed + t
             /\ LastCached(a)
  <1>. DEFINE b == IncreasePreviousDuration(enc, t)
              a == Advanced(t)
  <1>1. Increases(mux, enc, b, t) /\ b.elapsed = enc.elapsed
    BY IncreasesDuration
  <1>2. a = [b EXCEPT !.elapsed = @ + t]
    BY DEF Advanced
  <1>. HIDE DEF a, b
  <1>3. b \in Encoders /\ Ready(mux, b, enc.prev_canvas) /\ OneKey(b, 2)
        /\ b.prev_canvas = enc.prev_canvas
    BY <1>1 DEF Increases
  <1>4. b.elapsed + t \in Nat
    BY <1>3, EncoderFields, Durable
  <1>5. a \in Encoders
    BY <1>2, <1>3, <1>4 DEF Encoders
  <1>6. /\ a.frames = b.frames /\ a.out_frame_count = b.out_frame_count
        /\ a.start = b.start /\ a.flush_count = b.flush_count
        /\ a.best_delta = b.best_delta /\ a.keyframe = b.keyframe
        /\ a.prev_canvas = b.prev_canvas /\ a.prev_rect = b.prev_rect
        /\ a.count_since_key_frame = b.count_since_key_frame
        /\ a.prev_candidate_undecided = b.prev_candidate_undecided
        /\ a.is_first_frame = b.is_first_frame
        /\ a.got_null_frame = b.got_null_frame
        /\ a.in_frame_count = b.in_frame_count /\ a.elapsed = b.elapsed + t
    BY <1>2, <1>3 DEF Encoders
  <1>7. Sound(mux, b)
    BY <1>3 DEF Ready
  <1>8. Sound(mux, a) /\ ShownOf(mux, a) = ShownOf(mux, b) /\ count(a) = count(b)
    BY <1>5, <1>6, <1>7, Untouched
  <1>9. OneKey(a, 2) /\ (OneKey(b, b.flush_count + 2) => OneKey(a, a.flush_count + 2))
    BY <1>3, <1>6, <1>8 DEF OneKey, Key
  <1>10. LastShows(a, enc.prev_canvas)
    BY <1>3, <1>6, <1>8 DEF Ready, LastShows, Key
  <1>11. Ready(mux, a, enc.prev_canvas)
    BY <1>3, <1>6, <1>8, <1>9, <1>10 DEF Ready
  <1>12. Increases(mux, enc, a, t)
    BY <1>1, <1>5, <1>6, <1>8, <1>9, <1>11 DEF Increases
  <1>13. LastCached(a)
    BY <1>3, <1>6, <1>10 DEF LastCached
  <1>. QED BY <1>1, <1>6, <1>12, <1>13 DEF a

(* the additions that cache a frame of canvas behind those of e *)
Takes(m, e, c, canvas) ==
  /\ Ready(m, c, canvas) /\ c \in Encoders
  /\ c.prev_canvas = canvas /\ c.start = e.start
  /\ ~c.is_first_frame /\ c.got_null_frame = e.got_null_frame
  /\ c.in_frame_count = e.in_frame_count + 1 /\ c.elapsed = e.elapsed
  /\ count(c) = count(e) + 1
  /\ Grows(ShownOf(m, c), ShownOf(m, e), canvas)

(* ... as a sub-frame only *)
TakesSub(m, e, c) ==
  LET s == ShownOf(m, e)
      s2 == ShownOf(m, c)
  IN  /\ c.best_delta = e.best_delta /\ c.keyframe = e.keyframe
      /\ c.count_since_key_frame = e.count_since_key_frame + 1
      /\ c.flush_count = count(e)
      /\ ~s2[Len(s) + 1].is_key_frame /\ KeepsKeys(s2, s, 0)

LEMMA AddsSub ==
  ASSUME NEW m, NEW e, Ready(m, e, e.prev_canvas), NEW canvas \in Canvases,
         NEW d \in DisposalOf(e)
  PROVE  LET c == CachedSub(e, canvas, d)
         IN  Takes(m, e, c, canvas) /\ TakesSub(m, e, c)
  <1>1. Sound(m, e) /\ LastCached(e)
    BY DEF Ready, LastCached
  <1>. DEFINE c == CachedSub(e, canvas, d)
              s == ShownOf(m, e)
              s2 == ShownOf(m, c)
  <1>2. /\ Ready(m, c, canvas) /\ c \in Encoders
        /\ c.prev_canvas = canvas /\ c.start = e.start
        /\ c.best_delta = e.best_delta /\ c.keyframe = e.keyframe
        /\ c.count_since_key_frame = e.count_since_key_frame + 1
        /\ ~c.is_first_frame /\ c.got_null_frame = e.got_null_frame
    BY <1>1, CachesSub
  <1>3. /\ c.in_frame_count = e.in_frame_count + 1
        /\ c.elapsed = e.elapsed
        /\ count(c) = count(e) + 1 /\ c.flush_count = count(e)
        /\ Grows(s2, s, canvas) /\ KeepsKeys(s2, s, 0)
        /\ ~s2[Len(s) + 1].is_key_frame
    BY <1>1, CachesSub
  <1>. HIDE DEF c
  <1>. QED BY <1>2, <1>3 DEF Takes, TakesSub, c

(* ... as a key frame, if it is the best candidate, and as a sub-frame *)
TakesBoth(m, e, c, penalty) ==
  LET picked == penalty <= e.best_delta
      closed == e.count_since_key_frame + 1 >= options.kmax
      s == ShownOf(m, e)
      s2 == ShownOf(m, c)
  IN  /\ s2[Len(s) + 1].is_key_frame <=> picked
      /\ KeepsKeys(s2, s, IF picked THEN OldKey(m, e) ELSE 0)
      /\ IF closed
         THEN /\ c.count_since_key_frame = 0 /\ ~HasKey(c)
              /\ c.best_delta = DELTA_INFINITY /\ c.flush_count = count(e)
         ELSE /\ c.count_since_key_frame = e.count_since_key_frame + 1
              /\ c.keyframe = IF picked THEN count(e) ELSE e.keyframe
              /\ c.best_delta = IF picked THEN penalty ELSE e.best_delta
              /\ c.flush_count = IF picked THEN count(e) ELSE e.flush_count

LEMMA AddsBoth ==
  ASSUME NEW m, NEW e, Ready(m, e, e.prev_canvas), NEW canvas \in Canvases,
         NEW d \in DisposalOf(e), NEW penalty \in Penalties,
         options.kmax \in Int
  PROVE  LET c == CachedBoth(e, canvas, d, penalty)
         IN  Takes(m, e, c, canvas) /\ TakesBoth(m, e, c, penalty)
  <1>. DEFINE c == CachedBoth(e, canvas, d, penalty)
              f == SubFrame(e, canvas, d)
              g == Comparing(e, d)
              picked == penalty <= e.best_delta
              b == IF picked THEN PickedKeyframe(g, f, penalty)
                             ELSE NotPickedKeyframe(g, f)
              s == ShownOf(m, e)
              sb == ShownOf(m, b)
              s2 == ShownOf(m, c)
              old == IF picked THEN OldKey(m, e) ELSE 0
  <1>1. g.best_delta = e.best_delta
    BY Compares
  <1>2. c = Took(ClosedAtKmax(b), canvas)
    BY <1>1 DEF CachedBoth, Comparing
  <1>4. /\ Compared(m, e, b, canvas)
        /\ sb[Len(s) + 1].is_key_frame <=> picked
        /\ KeepsKeys(sb, s, old)
        /\ b.keyframe = IF picked THEN count(e) ELSE e.keyframe
        /\ b.best_delta = IF picked THEN penalty ELSE e.best_delta
        /\ b.flush_count = IF picked THEN count(e) ELSE e.flush_count
    <2>1. CASE picked
      <3>. DEFINE p == PickedKeyframe(g, f, penalty)
      <3>1. b = p /\ old = OldKey(m, e)
        BY <2>1
      <3>2. /\ Compared(m, e, p, canvas)
            /\ p.best_delta = penalty /\ p.keyframe = count(e)
            /\ p.flush_count = count(e)
            /\ ShownOf(m, p)[Len(s) + 1].is_key_frame
            /\ KeepsKeys(ShownOf(m, p), s, OldKey(m, e))
        BY Picks
      <3>. HIDE DEF p, b, s, old, picked
      <3>. QED BY <2>1, <3>1, <3>2
    <2>2. CASE ~picked
      <3>. DEFINE p == NotPickedKeyframe(g, f)
      <3>1. b = p /\ old = 0
        BY <2>2
      <3>2. /\ Compared(m, e, p, canvas)
            /\ p.best_delta = e.best_delta /\ p.keyframe = e.keyframe
            /\ p.flush_count = e.flush_count
            /\ ~ShownOf(m, p)[Len(s) + 1].is_key_frame
            /\ KeepsKeys(ShownOf(m, p), s, 0)
        BY NotPicks
      <3>. HIDE DEF p, b, s, old, picked
      <3>. QED BY <2>2, <3>1, <3>2
    <2>. QED BY <2>1, <2>2
  <1>. HIDE DEF b, picked, c, s, old
  <1>5. /\ Ready(m, b, canvas) /\ b \in Encoders /\ SameCounters(b, e)
        /\ b.count_since_key_frame = e.count_since_key_frame + 1
        /\ count(b) = count(e) + 1 /\ Grows(sb, s, canvas)
    BY <1>4 DEF Compared, s
  <1>6. /\ Ready(m, c, canvas) /\ c \in Encoders
        /\ c.prev_canvas = canvas /\ c.start = b.start
        /\ ~c.is_first_frame /\ c.got_null_frame = b.got_null_frame
        /\ c.in_frame_count = b.in_frame_count + 1
        /\ c.elapsed = b.elapsed
        /\ count(c) = count(b) /\ s2 = sb
    BY <1>2, <1>5, Closes
  <1>7. RoundClosed(b, c)
    BY <1>2, <1>5, Closes
  <1>8. count(b) - 1 = count(e)
    <2>1. count(e) \in Nat
      BY EncoderFields DEF Ready, Sound, Typed
    <2>. QED BY <1>5, <2>1
  <1>. HIDE DEF sb, s2
  <1>9. Takes(m, e, c, canvas)
    BY <1>5, <1>6 DEF Takes, SameCounters, s, s2
  <1>10. TakesBoth(m, e, c, penalty)
    BY <1>4, <1>5, <1>6, <1>7, <1>8
       DEF TakesBoth, RoundClosed, s, s2, old, picked
  <1>. QED BY <1>9, <1>10 DEF c

(* a skipped canvas is only counted *)
LEMMA Skips ==
  ASSUME NEW m, NEW e, Ready(m, e, e.prev_canvas)
  PROVE  LET c == Skipped(e)
         IN  /\ Ready(m, c, c.prev_canvas) /\ c \in Encoders
             /\ c.prev_canvas = e.prev_canvas /\ c.start = e.start
             /\ c.best_delta = e.best_delta /\ c.keyframe = e.keyframe
             /\ c.count_since_key_frame = e.count_since_key_frame
             /\ c.is_first_frame = e.is_first_frame
             /\ c.got_null_frame = e.got_null_frame
             /\ c.in_frame_count = e.in_frame_count + 1
             /\ c.elapsed = e.elapsed /\ c.flush_count = e.flush_count
             /\ count(c) = count(e) /\ ShownOf(m, c) = ShownOf(m, e)
             /\ OneKey(e, 2) => OneKey(c, 2)
  <1>. DEFINE c == Skipped(e)
  <1>1. Sound(m, e) /\ e \in Encoders /\ e.in_frame_count + 1 \in Nat
    BY EncoderFields DEF Ready, Sound, Typed
  <1>2. c = [e EXCEPT !.in_frame_count = @ + 1]
    BY DEF Skipped
  <1>. HIDE DEF c
  <1>3. c \in Encoders
    BY <1>1, <1>2 DEF Encoders
  <1>4. /\ c.frames = e.frames /\ c.out_frame_count = e.out_frame_count
        /\ c.prev_canvas = e.prev_canvas /\ c.prev_rect = e.prev_rect
        /\ c.start = e.start
        /\ c.prev_candidate_undecided = e.prev_candidate_undecided
        /\ c.best_delta = e.best_delta /\ c.keyframe = e.keyframe
        /\ c.count_since_key_frame = e.count_since_key_frame
        /\ c.is_first_frame = e.is_first_frame
        /\ c.got_null_frame = e.got_null_frame
        /\ c.in_frame_count = e.in_frame_count + 1
        /\ c.elapsed = e.elapsed /\ c.flush_count = e.flush_count
    BY <1>1, <1>2 DEF Encoders
  <1>5. Sound(m, c) /\ ShownOf(m, c) = ShownOf(m, e) /\ count(c) = count(e)
    BY <1>1, <1>3, <1>4, Untouched
  <1>6. LastShows(c, c.prev_canvas)
    BY <1>4, <1>5 DEF Ready, LastShows, Key
  <1>7. /\ OneKey(e, 2) => OneKey(c, 2)
        /\ OneKey(c, c.flush_count + 2)
    BY <1>4, <1>5 DEF Ready, OneKey, Key
  <1>8. Ready(m, c, c.prev_canvas)
    BY <1>4, <1>5, <1>6, <1>7 DEF Ready
  <1>. QED BY <1>3, <1>4, <1>5, <1>7, <1>8 DEF c

LEMMA NoFrames == Sound(<<>>, NewEncoder) /\ NewEncoder \in Encoders
  <1>. DEFINE e == NewEncoder
  <1>1. /\ DELTA_INFINITY \in Deltas /\ KEYFRAME_NONE \in Int
        /\ KEYFRAME_NONE \in CanvasesOrNone /\ <<>> \in RectsOrNone
        /\ <<>> \in Seq(FrameSet)
    BY DEF Deltas, KEYFRAME_NONE, CanvasesOrNone, RectsOrNone
  <1>2. e \in Encoders
    BY <1>1 DEF NewEncoder, Encoders
  <1>3. e.frames = <<>> /\ e.out_frame_count = 0 /\ ~HasKey(e)
    BY DEF NewEncoder, HasKey
  <1>. HIDE DEF e
  <1>4. count(e) = 0
    BY <1>3 DEF count
  <1>5. <<>> \in Seq(ShownFrames) /\ Len(<<>>) = 0
    OBVIOUS
  <1>6. Len(ShownOf(<<>>, e)) = 0
    <2>1. Len(ShownOf(<<>>, e)) = Len(<<>>) + count(e)
      BY <1>2, <1>5, ShownFields
    <2>. QED BY <1>4, <1>5, <2>1
  <1>7. Typed(<<>>, e)
    BY <1>2, <1>5 DEF Typed
  <1>8. Numbered(<<>>, e)
    BY <1>3, <1>4, <1>5 DEF Numbered
  <1>9. Pointed(e) /\ Demotable(<<>>, e)
    BY <1>3 DEF Pointed, Demotable
  <1>10. Decodable(ShownOf(<<>>, e))
    BY <1>6 DEF Decodable
  <1>11. SameLong(e)
    BY <1>4 DEF SameLong
  <1>. QED BY <1>2, <1>7, <1>8, <1>9, <1>10, <1>11 DEF Sound, e

(* the first canvas becomes a key frame *)
LEMMA AddsFirst ==
  ASSUME NEW canvas \in Canvases
  PROVE  LET c == CachedFirst(NewEncoder, canvas)
             s == ShownOf(<<>>, c)
         IN  /\ Ready(<<>>, c, canvas) /\ c \in Encoders
             /\ c.prev_canvas = canvas /\ c.start = 0
             /\ c.best_delta = DELTA_INFINITY /\ ~HasKey(c)
             /\ c.count_since_key_frame = 0 /\ c.flush_count = 0
             /\ ~c.is_first_frame /\ ~c.got_null_frame
             /\ c.in_frame_count = 1 /\ c.elapsed = 0 /\ count(c) = 1
             /\ Len(s) = 1 /\ s[1].canvas = canvas /\ s[1].duration = 0
             /\ ~s[1].padding /\ s[1].is_key_frame
  <1>. DEFINE e == NewEncoder
              f == SubFrame(e, canvas, "none")
              k == [f EXCEPT !.is_key_frame = TRUE]
              b == [e EXCEPT !.frames = <<k>>, !.flush_count = 0,
                             !.count_since_key_frame = 0,
                             !.prev_candidate_undecided = FALSE,
                             !.prev_rect = Rect(k, "key")]
              c == CachedFirst(e, canvas)
              s == ShownOf(<<>>, c)
  <1>1. /\ e.frames = <<>> /\ e.out_frame_count = 0 /\ e.keyframe = KEYFRAME_NONE
        /\ e.start = 0 /\ e.best_delta = DELTA_INFINITY
        /\ e.got_null_frame = FALSE /\ e.in_frame_count = 0 /\ e.elapsed = 0
    BY DEF NewEncoder
  <1>2. Sound(<<>>, e) /\ e \in Encoders
    BY NoFrames
  <1>3. count(e) = 0
    BY <1>1 DEF count
  <1>21. c = [b EXCEPT !.prev_canvas = canvas, !.is_first_frame = FALSE,
                       !.in_frame_count = @ + 1]
    <2>1. c = Took(b, canvas)
      <3>. HIDE DEF e
      <3>. QED BY DEF CachedFirst
    <2>. HIDE DEF b, c
    <2>. QED BY <2>1 DEF Took
  <1>. HIDE DEF e
  <1>4. /\ f \in FrameSet /\ f.id = e.out_frame_count + count(e) + 1
        /\ ~f.padding /\ f.canvas = canvas
        /\ f.sub_frame = Info /\ f.key_frame = Info
    BY <1>2, SubFrameFields DEF Disposals
  <1>. HIDE DEF f
  <1>5. /\ k \in FrameSet /\ k.is_key_frame /\ k.id = f.id
        /\ k.canvas = f.canvas /\ ~k.padding
        /\ k.sub_frame = Info /\ k.key_frame = Info
        /\ Kept(k) /\ SameDurations(k)
        /\ Chosen(k).rect = Rect(k, "key") /\ Rect(k, "key") \in Rects
    BY <1>4, KeyFrameFields DEF Rect
  <1>6. c = [e EXCEPT !.frames = <<k>>, !.flush_count = 0,
                      !.count_since_key_frame = 0,
                      !.prev_candidate_undecided = FALSE,
                      !.prev_rect = Rect(k, "key"), !.prev_canvas = canvas,
                      !.is_first_frame = FALSE, !.in_frame_count = @ + 1]
    <2>. HIDE DEF c, k
    <2>. QED BY <1>2, <1>21 DEF Encoders
  <1>. HIDE DEF b, c, k, s
  <1>7. <<k>> \in Seq(FrameSet) /\ Append(<<>>, k) = <<k>>
    BY <1>5
  <1>8. e.in_frame_count + 1 \in Nat
    BY <1>1
  <1>9. c \in Encoders
    BY <1>2, <1>5, <1>6, <1>7, <1>8 DEF Encoders, RectsOrNone, CanvasesOrNone
  <1>10. /\ c.frames = <<k>> /\ c.flush_count = 0 /\ c.start = e.start
         /\ c.count_since_key_frame = 0 /\ c.prev_candidate_undecided = FALSE
         /\ c.prev_rect = Rect(k, "key") /\ c.prev_canvas = canvas
         /\ c.is_first_frame = FALSE /\ c.in_frame_count = e.in_frame_count + 1
         /\ c.best_delta = e.best_delta /\ c.keyframe = e.keyframe
         /\ c.got_null_frame = e.got_null_frame /\ c.elapsed = e.elapsed
         /\ c.out_frame_count = e.out_frame_count
    BY <1>2, <1>6 DEF Encoders
  <1>11. c.frames = Append(e.frames, k)
    BY <1>1, <1>7, <1>10
  <1>12. k.id = Len(<<>>) + count(e) + 1
    BY <1>1, <1>3, <1>4, <1>5
  <1>13. Sound(<<>>, c)
    BY <1>2, <1>5, <1>9, <1>10, <1>11, <1>12, Appends
  <1>14. count(c) = 1 /\ c.frames[1] = k
    BY <1>5, <1>10 DEF count
  <1>15. Len(s) = 1 /\ s[1] = Chosen(k)
    <2>1. <<>> \in Seq(ShownFrames) /\ Len(<<>>) = 0
      OBVIOUS
    <2>2. Len(s) = Len(<<>>) + count(c)
      BY <1>9, <2>1, ShownFields DEF s
    <2>3. \A i \in 1..count(c) : s[Len(<<>>) + i] = Chosen(c.frames[i])
      BY <1>9, <2>1, ShownFields DEF s
    <2>4. s[0 + 1] = Chosen(c.frames[1])
      BY <1>14, <2>1, <2>3
    <2>. QED BY <1>14, <2>1, <2>2, <2>4
  <1>16. /\ Chosen(k).canvas = canvas /\ Chosen(k).duration = 0
         /\ ~Chosen(k).padding /\ Chosen(k).is_key_frame
    BY <1>4, <1>5, InfoFields, ChosenFields
  <1>17. ~HasKey(c) /\ Key(c) = 0
    BY <1>1, <1>10 DEF HasKey, Key, KEYFRAME_NONE
  <1>18. LastShows(c, canvas)
    BY <1>4, <1>5, <1>10, <1>14, <1>17 DEF LastShows
  <1>19. OneKey(c, c.flush_count + 2)
    BY <1>10, <1>14 DEF OneKey
  <1>20. Ready(<<>>, c, canvas)
    BY <1>10, <1>13, <1>14, <1>18, <1>19 DEF Ready
  <1>. QED BY <1>1, <1>9, <1>10, <1>14, <1>15, <1>16, <1>17, <1>20
           DEF c, s, e

-----------------------------------------------------------------------------
(* The options *)

LEMMA Halves == \A k \in Nat : k \div 2 \in Nat
  OBVIOUS

LEMMA LimitedFields ==
  ASSUME NEW o \in [minimize_size : BOOLEAN, kmin : 0..INT_MAX, kmax : Int],
         o.kmax >= 2, o.kmax <= INT_MAX
  PROVE  LimitedKmin(o) \in Nat /\ LimitedKmin(o) < o.kmax
  <1>. DEFINE half == o.kmax \div 2 + 1
  <1>1. o.kmax \in Nat /\ o.kmin \in Nat /\ INT_MAX \in Nat
        /\ MAX_CACHED_FRAMES \in Nat /\ MAX_CACHED_FRAMES > 0
    BY EncoderAssumption
  <1>2. half \in Nat
    BY <1>1, Halves
  <1>3. RaisedKmin(o) = IF o.kmin >= o.kmax THEN o.kmax - 1
                        ELSE IF o.kmin < half /\ half < o.kmax THEN half
                        ELSE o.kmin
    BY DEF RaisedKmin
  <1>. HIDE DEF half
  <1>4. RaisedKmin(o) \in Nat /\ RaisedKmin(o) < o.kmax
    BY <1>1, <1>2, <1>3
  <1>. QED BY <1>1, <1>4 DEF LimitedKmin

LEMMA Sanitized ==
  ASSUME NEW asked \in OptionSet
  PROVE  SaneOptions(SanitizeEncoderOptions(asked))
  <1>. DEFINE All == [minimize_size : BOOLEAN, kmin : 0..INT_MAX, kmax : Int]
              o == IF asked.minimize_size \/ asked.kmax <= 0
                   THEN DisableKeyframes(asked) ELSE asked
  <1>1. INT_MAX \in Nat /\ INT_MAX > 1
    BY EncoderAssumption
  <1>2. asked \in All /\ asked.kmax <= INT_MAX /\ asked.kmax \in Int
    BY EncoderAssumption
  <1>3. INT_MAX - 1 \in 0..INT_MAX
    BY <1>1
  <1>4. o \in All /\ o.kmax \in 1..INT_MAX
    <2>1. CASE asked.minimize_size \/ asked.kmax <= 0
      <3>1. o = [asked EXCEPT !.kmax = INT_MAX, !.kmin = INT_MAX - 1]
        BY <2>1 DEF DisableKeyframes
      <3>2. INT_MAX \in Int /\ INT_MAX \in 1..INT_MAX
        BY <1>1
      <3>. HIDE DEF o
      <3>3. o \in All
        BY <1>2, <1>3, <3>1, <3>2
      <3>4. o.kmax = INT_MAX
        BY <1>2, <3>1
      <3>. QED BY <3>2, <3>3, <3>4
    <2>2. CASE ~(asked.minimize_size \/ asked.kmax <= 0)
      <3>1. o = asked
        BY <2>2
      <3>2. asked.kmax > 0
        BY <1>2, <2>2
      <3>3. asked.kmax \in 1..INT_MAX
        BY <1>1, <1>2, <3>2
      <3>. HIDE DEF o
      <3>. QED BY <1>2, <3>1, <3>3
    <2>. QED BY <2>1, <2>2
  <1>5. SanitizeEncoderOptions(asked) =
          IF o.kmax = 1 THEN [o EXCEPT !.kmin = 0, !.kmax = 0]
          ELSE [o EXCEPT !.kmin = LimitedKmin(o)]
    BY DEF SanitizeEncoderOptions
  <1>. HIDE DEF o
  <1>6. CASE o.kmax = 1
    <2>1. 0 \in 0..INT_MAX
      BY <1>1
    <2>. QED BY <1>4, <1>5, <1>6, <2>1 DEF SaneOptions
  <1>7. CASE o.kmax # 1
    <2>1. o.kmax >= 2 /\ o.kmax <= INT_MAX /\ o.kmax \in Int
      BY <1>1, <1>4, <1>7
    <2>2. LimitedKmin(o) \in Nat /\ LimitedKmin(o) < o.kmax
      BY <1>4, <2>1, LimitedFields
    <2>3. LimitedKmin(o) \in 0..INT_MAX /\ o.kmax \in 0..INT_MAX
      BY <1>1, <2>1, <2>2
    <2>. DEFINE k == LimitedKmin(o)
                p == [o EXCEPT !.kmin = k]
    <2>4. SanitizeEncoderOptions(asked) = p
      BY <1>5, <1>7
    <2>. HIDE DEF k
    <2>5. /\ p \in [minimize_size : BOOLEAN, kmin : 0..INT_MAX, kmax : 0..INT_MAX]
          /\ p.kmin = k /\ p.kmax = o.kmax
      BY <1>4, <2>3 DEF k
    <2>. QED BY <2>1, <2>2, <2>4, <2>5 DEF SaneOptions, k
  <1>. QED BY <1>6, <1>7
=============================================================================
