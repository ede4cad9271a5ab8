------------------------ MODULE AnimInvariant_proof ------------------------
(***************************************************************************)
(* The invariants of AnimEncoder, for any canvases, durations and options  *)
(* and any number of additions: what an addition does to the encoder is in *)
(* AnimEncoder_proof, what that means for the properties is here.          *)
(***************************************************************************)
EXTENDS AnimEncoder_proof, NaturalsInduction, WellFoundedInduction

-----------------------------------------------------------------------------
(* The state between two calls *)

(* the time that passed between n canvases; the NULL frame counts as one *)
Elapsed(e) ==
  e.elapsed <= (MAX_DURATION - 1)
                 * (IF e.got_null_frame \/ e.in_frame_count = 0
                    THEN e.in_frame_count ELSE e.in_frame_count - 1)

IInv ==
  /\ phase \in Phases
  /\ SaneOptions(options)
  /\ input \in Seq(Additions) /\ enc.in_frame_count = Len(input)
  /\ Sound(mux, enc) /\ OneKey(enc, 2) /\ Elapsed(enc)
  /\ enc.is_first_frame =>
       /\ enc = [NewEncoder EXCEPT !.got_null_frame = enc.got_null_frame]
       /\ mux = <<>>
  /\ ~enc.is_first_frame =>
       /\ enc.in_frame_count > 0
       /\ phase # "assembled" => LastCached(enc)
  /\ \/ enc.flush_count = 0
     \/ enc.got_null_frame /\ enc.flush_count < count(enc)
  /\ phase \in {"adding", "overrun"} => ~enc.got_null_frame

LEMMA InitIInv == Init => IInv
  <1>. SUFFICES ASSUME Init PROVE IInv
    OBVIOUS
  <1>1. phase = "adding" /\ enc = NewEncoder /\ mux = <<>> /\ input = <<>>
    BY DEF Init
  <1>2. PICK asked \in OptionSet : options = SanitizeEncoderOptions(asked)
    BY DEF Init
  <1>3. SaneOptions(options)
    BY <1>2, Sanitized
  <1>4. Sound(mux, enc)
    BY <1>1, NoFrames
  <1>5. /\ enc.in_frame_count = 0 /\ enc.elapsed = 0 /\ enc.flush_count = 0
        /\ ~enc.got_null_frame /\ enc.is_first_frame /\ count(enc) = 0
        /\ enc = [NewEncoder EXCEPT !.got_null_frame = enc.got_null_frame]
    BY <1>1 DEF NewEncoder, count
  <1>6. OneKey(enc, 2)
    BY <1>5 DEF OneKey
  <1>7. Elapsed(enc)
    BY <1>5, Durable DEF Elapsed
  <1>8. input \in Seq(Additions) /\ Len(input) = 0
    BY <1>1
  <1>. QED BY <1>1, <1>3, <1>4, <1>5, <1>6, <1>7, <1>8 DEF IInv, Phases

-----------------------------------------------------------------------------
(* Flushing *)

(* g, with the mux p, is what FlushFrames leaves of c and m *)
Flushes(m, c, p, g) ==
  /\ Sound(p, g) /\ OneKey(g, 2) /\ LastCached(g) /\ g \in Encoders
  /\ ShownOf(p, g) = ShownOf(m, c) /\ g.flush_count = 0
  /\ Len(p) = Len(m) + c.flush_count /\ count(g) = count(c) - c.flush_count
  /\ g.keyframe = IF c.keyframe < c.flush_count THEN KEYFRAME_NONE
                  ELSE c.keyframe - c.flush_count
  /\ g.start = IF count(g) = 1 THEN 0 ELSE c.start + c.flush_count
  /\ g.best_delta = c.best_delta /\ g.prev_canvas = c.prev_canvas
  /\ g.count_since_key_frame = c.count_since_key_frame
  /\ g.is_first_frame = c.is_first_frame
  /\ g.got_null_frame = c.got_null_frame
  /\ g.in_frame_count = c.in_frame_count /\ g.elapsed = c.elapsed

LEMMA Flushing ==
  ASSUME NEW m, NEW c, Ready(m, c, c.prev_canvas)
  PROVE  Flushes(m, c, Pushed(m, c), Flushed(c))
  <1>1. c \in Encoders /\ Sound(m, c) /\ c.flush_count < count(c)
        /\ OneKey(c, c.flush_count + 2) /\ LastCached(c)
    BY DEF Ready, Sound, Typed, LastCached
  <1>2. c.flush_count \in Nat /\ count(c) \in Nat
    BY <1>1, EncoderFields
  <1>3. c.flush_count <= count(c)
    BY <1>1, <1>2
  <1>. DEFINE g == Flushed(c)
              p == Pushed(m, c)
  <1>4. Sound(p, g) /\ ShownOf(p, g) = ShownOf(m, c)
        /\ Len(p) = Len(m) + c.flush_count /\ OneKey(g, 2) /\ LastCached(g)
    BY <1>1, <1>3, FlushKeeps
  <1>5. /\ g \in Encoders /\ count(g) = count(c) - c.flush_count
        /\ g.flush_count = 0
        /\ g.keyframe = IF c.keyframe < c.flush_count THEN KEYFRAME_NONE
                        ELSE c.keyframe - c.flush_count
        /\ g.start = IF count(g) = 1 THEN 0 ELSE c.start + c.flush_count
        /\ g.best_delta = c.best_delta /\ g.prev_canvas = c.prev_canvas
        /\ g.count_since_key_frame = c.count_since_key_frame
        /\ g.is_first_frame = c.is_first_frame
        /\ g.got_null_frame = c.got_null_frame
        /\ g.in_frame_count = c.in_frame_count /\ g.elapsed = c.elapsed
    BY <1>1, <1>3, FlushedFields
  <1>. HIDE DEF g, p
  <1>6. Flushes(m, c, p, g)
    BY <1>4, <1>5 DEF Flushes
  <1>. QED BY <1>6 DEF g, p

(* FlushFrames of an encoder in the middle of an addition *)
LEMMA FlushingStep ==
  ASSUME NEW c, Ready(mux, c, c.prev_canvas), FlushFrames(c)
  PROVE  Flushes(mux, c, mux', enc')
  BY Flushing DEF FlushFrames, Pushed

-----------------------------------------------------------------------------
(* Time *)

LEMMA Distributes == \A k, x \in Int : k * (x - 1) + k = k * x
  OBVIOUS

LEMMA TimedFields ==
  ASSUME input \in Seq(Additions), NEW t \in Nat
  PROVE  /\ Timed(t) \in Seq(Additions) /\ Len(Timed(t)) = Len(input)
         /\ \A i \in 1..Len(input) : Timed(t)[i].canvas = input[i].canvas
         /\ \A i \in 1..Len(input) : i # Len(input) => Timed(t)[i] = input[i]
         /\ input # <<>> => Timed(t)[Len(input)].duration = t
  <1>1. CASE input = <<>>
    BY <1>1 DEF Timed
  <1>2. CASE input # <<>>
    <2>. DEFINE n == Len(input)
                x == [input[n] EXCEPT !.duration = t]
    <2>1. n \in 1..n /\ input[n] \in Additions
      BY <1>2
    <2>2. /\ x \in Additions /\ x.canvas = input[n].canvas /\ x.duration = t
      BY <2>1 DEF Additions
    <2>3. Timed(t) = [input EXCEPT ![n] = x]
      BY <1>2 DEF Timed
    <2>. HIDE DEF x
    <2>. QED BY <1>2, <2>1, <2>2, <2>3
  <1>. QED BY <1>1, <1>2

LEMMA AcceptedDuration ==
  ASSUME NEW t \in Durations, Accepts(t), ~enc.is_first_frame
  PROVE  t \in 0..(MAX_DURATION - 1) /\ t \in Nat
  BY Durable, EncoderAssumption DEF Accepts

(* what is added is what the encoder counts *)
LEMMA BegunFields ==
  ASSUME input \in Seq(Additions), NEW canvas \in Canvases, NEW t \in Nat,
         BeginAdd(canvas, t)
  PROVE  /\ input' \in Seq(Additions) /\ Len(input') = Len(input) + 1
         /\ phase = "adding" /\ phase' = "adding" /\ options' = options
         /\ Accepts(t) /\ SlotsSuffice(t)
  <1>. DEFINE x == [canvas |-> canvas, duration |-> 0]
  <1>1. x \in Additions
    BY DEF Additions
  <1>2. Timed(t) \in Seq(Additions) /\ Len(Timed(t)) = Len(input)
    BY TimedFields
  <1>3. input' = Append(Timed(t), x) /\ phase = "adding"
        /\ phase' = phase /\ options' = options /\ Accepts(t) /\ SlotsSuffice(t)
    BY DEF BeginAdd
  <1>. HIDE DEF x
  <1>. QED BY <1>1, <1>2, <1>3, AppendFields

-----------------------------------------------------------------------------
(* The invariant is inductive *)

LEMMA Advancing ==
  ASSUME IInv, phase = "adding", ~enc.is_first_frame,
         NEW t \in 0..(MAX_DURATION - 1)
  PROVE  LET a == Advanced(t)
         IN  /\ Increases(mux, enc, a, t) /\ a.elapsed = enc.elapsed + t
             /\ LastCached(a) /\ Ready(mux, a, a.prev_canvas)
             /\ ~a.is_first_frame /\ ~a.got_null_frame
             /\ a.in_frame_count = enc.in_frame_count /\ a \in Encoders
             /\ enc.in_frame_count > 0 /\ enc.in_frame_count \in Nat
             /\ enc.elapsed <= (MAX_DURATION - 1) * (enc.in_frame_count - 1)
             /\ OneKey(a, 2)
             /\ a.flush_count = 0 \/ a.flush_count < count(a)
  <1>. DEFINE a == Advanced(t)
  <1>1. /\ Sound(mux, enc) /\ LastCached(enc) /\ OneKey(enc, 2)
        /\ enc.flush_count = 0 /\ ~enc.got_null_frame /\ Elapsed(enc)
        /\ enc.in_frame_count > 0
    BY DEF IInv
  <1>2. Increases(mux, enc, a, t) /\ a.elapsed = enc.elapsed + t /\ LastCached(a)
    BY <1>1, Advances
  <1>3. enc \in Encoders
    BY <1>1 DEF Sound, Typed
  <1>4. enc.in_frame_count \in Nat
    BY <1>3, EncoderFields
  <1>5. enc.elapsed <= (MAX_DURATION - 1) * (enc.in_frame_count - 1)
    BY <1>1, <1>4 DEF Elapsed
  <1>. HIDE DEF a
  <1>6. /\ Ready(mux, a, a.prev_canvas) /\ ~a.is_first_frame
        /\ ~a.got_null_frame /\ a.in_frame_count = enc.in_frame_count
        /\ a \in Encoders /\ OneKey(a, 2)
    BY <1>1, <1>2 DEF Increases
  <1>7. a.flush_count < count(a)
    BY <1>6 DEF Ready
  <1>. QED BY <1>1, <1>2, <1>4, <1>5, <1>6, <1>7 DEF a

(* every addition but the first *)
LEMMA AddedIInv ==
  ASSUME IInv, NEW canvas \in Canvases, NEW t \in Durations,
         ~enc.is_first_frame, BeginAdd(canvas, t),
         NEW c, Ready(mux, c, c.prev_canvas), FlushFrames(c),
         c.in_frame_count = enc.in_frame_count + 1, ~c.is_first_frame,
         ~c.got_null_frame, c.elapsed = enc.elapsed + t
  PROVE  IInv'
  <1>1. t \in Nat /\ input \in Seq(Additions) /\ enc.in_frame_count = Len(input)
        /\ SaneOptions(options)
    BY EncoderAssumption DEF IInv
  <1>2. /\ input' \in Seq(Additions) /\ Len(input') = Len(input) + 1
        /\ phase = "adding" /\ phase' = "adding" /\ options' = options
        /\ Accepts(t)
    BY <1>1, BegunFields
  <1>3. t \in 0..(MAX_DURATION - 1)
    BY <1>2, AcceptedDuration
  <1>4. Flushes(mux, c, mux', enc')
    BY FlushingStep
  <1>5. /\ Sound(mux', enc') /\ OneKey(enc', 2) /\ LastCached(enc')
        /\ enc' \in Encoders /\ enc'.flush_count = 0 /\ ~enc'.is_first_frame
        /\ ~enc'.got_null_frame /\ enc'.elapsed = enc.elapsed + t
        /\ enc'.in_frame_count = enc.in_frame_count + 1
    BY <1>4 DEF Flushes
  <1>6. /\ enc.in_frame_count > 0 /\ enc.in_frame_count \in Nat
        /\ enc.elapsed <= (MAX_DURATION - 1) * (enc.in_frame_count - 1)
        /\ enc \in Encoders
    BY <1>2, <1>3, Advancing DEF IInv, Sound, Typed
  <1>7. Elapsed(enc')
    <2>. DEFINE k == MAX_DURATION - 1
                n == enc.in_frame_count
    <2>1. k \in Nat /\ n \in Nat /\ n > 0 /\ enc.elapsed \in Nat
          /\ t \in 0..k /\ enc.elapsed <= k * (n - 1)
      BY <1>3, <1>6, Durable, EncoderFields
    <2>2. k * (n - 1) + k = k * n
      BY <2>1, Distributes
    <2>3. k * (n - 1) \in Int /\ k * n \in Int
      BY <2>1
    <2>. HIDE DEF k, n
    <2>4. enc.elapsed + t <= k * n
      BY <2>1, <2>2, <2>3
    <2>5. enc'.in_frame_count # 0 /\ enc'.in_frame_count - 1 = n
      BY <1>5, <1>6, <2>1 DEF n
    <2>. QED BY <1>5, <2>4, <2>5 DEF Elapsed, k
  <1>8. enc'.in_frame_count > 0 /\ enc'.in_frame_count = Len(input')
    BY <1>1, <1>2, <1>5, <1>6
  <1>. QED BY <1>1, <1>2, <1>5, <1>7, <1>8 DEF IInv, Phases

(* c, made from the advanced encoder, is flushed *)
Adds(canvas, t, c) ==
  /\ ~enc.is_first_frame /\ BeginAdd(canvas, t) /\ t \in 0..(MAX_DURATION - 1)
  /\ Increases(mux, enc, Advanced(t), t)
  /\ Advanced(t) \in Encoders /\ Ready(mux, Advanced(t), Advanced(t).prev_canvas)
  /\ FlushFrames(c) /\ Flushes(mux, c, mux', enc') /\ c \in Encoders

(* the addition skips the canvas *)
Skipping(m, a, c, canvas) ==
  /\ <<a.prev_canvas, canvas>> \in Similar
  /\ c.prev_canvas = a.prev_canvas /\ c.start = a.start
  /\ c.best_delta = a.best_delta /\ c.keyframe = a.keyframe
  /\ c.count_since_key_frame = a.count_since_key_frame
  /\ c.flush_count = a.flush_count /\ c.is_first_frame = a.is_first_frame
  /\ count(c) = count(a) /\ ShownOf(m, c) = ShownOf(m, a)

LEMMA BeginsAdd ==
  ASSUME IInv, NEW canvas \in Canvases, NEW t \in Durations,
         ~enc.is_first_frame, BeginAdd(canvas, t)
  PROVE  /\ phase = "adding" /\ t \in 0..(MAX_DURATION - 1)
         /\ phase' = "adding" /\ options' = options /\ SlotsSuffice(t)
         /\ SaneOptions(options) /\ input \in Seq(Additions)
  <1>1. t \in Nat /\ input \in Seq(Additions) /\ SaneOptions(options)
    BY EncoderAssumption DEF IInv
  <1>. QED BY <1>1, BegunFields, AcceptedDuration

LEMMA SkippingStep ==
  ASSUME IInv, NEW canvas \in Canvases, NEW t \in Durations,
         AddSkipped(canvas, t)
  PROVE  /\ Adds(canvas, t, Skipped(Advanced(t)))
         /\ Skipping(mux, Advanced(t), Skipped(Advanced(t)), canvas)
         /\ IInv'
  <1>. DEFINE a == Advanced(t)
              c == Skipped(a)
  <1>1. /\ ~enc.is_first_frame /\ BeginAdd(canvas, t) /\ FlushFrames(c)
        /\ <<a.prev_canvas, canvas>> \in Similar
    BY DEF AddSkipped, IsSkipped
  <1>2. phase = "adding" /\ t \in 0..(MAX_DURATION - 1)
    BY <1>1, BeginsAdd
  <1>3. /\ Increases(mux, enc, a, t) /\ a.elapsed = enc.elapsed + t
        /\ Ready(mux, a, a.prev_canvas) /\ ~a.is_first_frame
        /\ ~a.got_null_frame /\ a.in_frame_count = enc.in_frame_count
        /\ a \in Encoders
    BY <1>1, <1>2, Advancing
  <1>. HIDE DEF a
  <1>4. /\ Ready(mux, c, c.prev_canvas) /\ c \in Encoders
        /\ c.prev_canvas = a.prev_canvas /\ c.start = a.start
        /\ c.best_delta = a.best_delta /\ c.keyframe = a.keyframe
        /\ c.count_since_key_frame = a.count_since_key_frame
        /\ c.is_first_frame = a.is_first_frame
        /\ c.got_null_frame = a.got_null_frame
        /\ c.in_frame_count = a.in_frame_count + 1
        /\ c.elapsed = a.elapsed /\ c.flush_count = a.flush_count
        /\ count(c) = count(a) /\ ShownOf(mux, c) = ShownOf(mux, a)
    BY <1>3, Skips
  <1>. HIDE DEF c
  <1>5. Flushes(mux, c, mux', enc')
    BY <1>1, <1>4, FlushingStep
  <1>6. Skipping(mux, a, c, canvas)
    BY <1>1, <1>4 DEF Skipping
  <1>7. /\ c.in_frame_count = enc.in_frame_count + 1 /\ ~c.is_first_frame
        /\ ~c.got_null_frame /\ c.elapsed = enc.elapsed + t
    BY <1>3, <1>4
  <1>8. IInv'
    BY <1>1, <1>4, <1>7, AddedIInv
  <1>9. Adds(canvas, t, c)
    BY <1>1, <1>2, <1>3, <1>4, <1>5 DEF Adds, a
  <1>. QED BY <1>6, <1>8, <1>9 DEF a, c

LEMMA TakingStep ==
  ASSUME IInv, NEW canvas \in Canvases, NEW t \in Durations,
         ~enc.is_first_frame, BeginAdd(canvas, t),
         NEW c, Takes(mux, Advanced(t), c, canvas), FlushFrames(c)
  PROVE  Adds(canvas, t, c) /\ IInv'
  <1>. DEFINE a == Advanced(t)
  <1>1. phase = "adding" /\ t \in 0..(MAX_DURATION - 1)
    BY BeginsAdd
  <1>2. /\ Increases(mux, enc, a, t) /\ a.elapsed = enc.elapsed + t
        /\ Ready(mux, a, a.prev_canvas) /\ ~a.is_first_frame
        /\ ~a.got_null_frame /\ a.in_frame_count = enc.in_frame_count
        /\ a \in Encoders
    BY <1>1, Advancing
  <1>3. Takes(mux, a, c, canvas)
    OBVIOUS
  <1>. HIDE DEF a
  <1>4. /\ Ready(mux, c, c.prev_canvas) /\ c \in Encoders
        /\ ~c.is_first_frame /\ c.got_null_frame = a.got_null_frame
        /\ c.in_frame_count = a.in_frame_count + 1 /\ c.elapsed = a.elapsed
    BY <1>3 DEF Takes
  <1>5. Flushes(mux, c, mux', enc')
    BY <1>4, FlushingStep
  <1>6. /\ c.in_frame_count = enc.in_frame_count + 1
        /\ ~c.got_null_frame /\ c.elapsed = enc.elapsed + t
    BY <1>2, <1>4
  <1>7. IInv'
    BY <1>4, <1>6, AddedIInv
  <1>8. Adds(canvas, t, c)
    BY <1>1, <1>2, <1>4, <1>5 DEF Adds, a
  <1>. QED BY <1>7, <1>8

LEMMA SubStep ==
  ASSUME IInv, NEW canvas \in Canvases, NEW t \in Durations, AddSub(canvas, t)
  PROVE  /\ IInv'
         /\ \E c : /\ Adds(canvas, t, c) /\ Takes(mux, Advanced(t), c, canvas)
                   /\ TakesSub(mux, Advanced(t), c)
                   /\ Advanced(t).count_since_key_frame + 1 <= options.kmin
  <1>. DEFINE a == Advanced(t)
  <1>1. /\ ~enc.is_first_frame /\ BeginAdd(canvas, t)
        /\ a.count_since_key_frame + 1 <= options.kmin
    BY DEF AddSub
  <1>2. PICK d \in DisposalOf(a) : FlushFrames(CachedSub(a, canvas, d))
    BY DEF AddSub
  <1>3. Ready(mux, a, a.prev_canvas)
    BY <1>1, BeginsAdd, Advancing
  <1>. DEFINE c == CachedSub(a, canvas, d)
  <1>4. Takes(mux, a, c, canvas) /\ TakesSub(mux, a, c)
    <2>. HIDE DEF a
    <2>. QED BY <1>2, <1>3, AddsSub
  <1>5. FlushFrames(c)
    BY <1>2
  <1>. HIDE DEF c
  <1>6. Adds(canvas, t, c) /\ IInv'
    BY <1>1, <1>4, <1>5, TakingStep
  <1>. QED BY <1>1, <1>4, <1>6

LEMMA BothStep ==
  ASSUME IInv, NEW canvas \in Canvases, NEW t \in Durations, AddBoth(canvas, t)
  PROVE  /\ IInv'
         /\ \E c : \E penalty \in Penalties :
              /\ Adds(canvas, t, c) /\ Takes(mux, Advanced(t), c, canvas)
              /\ TakesBoth(mux, Advanced(t), c, penalty)
              /\ Advanced(t).count_since_key_frame + 1 > options.kmin
  <1>. DEFINE a == Advanced(t)
  <1>1. /\ ~enc.is_first_frame /\ BeginAdd(canvas, t)
        /\ a.count_since_key_frame + 1 > options.kmin
    BY DEF AddBoth
  <1>2. PICK d \in DisposalOf(a), penalty \in Penalties :
          FlushFrames(CachedBoth(a, canvas, d, penalty))
    BY DEF AddBoth
  <1>3. Ready(mux, a, a.prev_canvas) /\ options.kmax \in Int
    BY <1>1, BeginsAdd, Advancing, EncoderAssumption DEF SaneOptions
  <1>. DEFINE c == CachedBoth(a, canvas, d, penalty)
  <1>4. Takes(mux, a, c, canvas) /\ TakesBoth(mux, a, c, penalty)
    <2>. HIDE DEF a
    <2>. QED BY <1>2, <1>3, AddsBoth
  <1>5. FlushFrames(c)
    BY <1>2
  <1>. HIDE DEF c
  <1>6. Adds(canvas, t, c) /\ IInv'
    BY <1>1, <1>4, <1>5, TakingStep
  <1>. QED BY <1>1, <1>4, <1>6

LEMMA SameFlag ==
  ASSUME NEW e \in Encoders
  PROVE  [e EXCEPT !.got_null_frame = e.got_null_frame] = e
  BY DEF Encoders

(* an encoder that has seen no canvas, but perhaps the NULL frame *)
LEMMA NewEncoderFields ==
  ASSUME NEW b \in BOOLEAN
  PROVE  LET x == [NewEncoder EXCEPT !.got_null_frame = b]
         IN  /\ x \in Encoders /\ x.got_null_frame = b
             /\ x.frames = NewEncoder.frames
             /\ x.keyframe = NewEncoder.keyframe
             /\ x.out_frame_count = NewEncoder.out_frame_count
             /\ x.in_frame_count = 0 /\ x.elapsed = 0 /\ x.flush_count = 0
             /\ x.is_first_frame /\ count(x) = 0
             /\ x.count_since_key_frame = 0
             /\ x.start = 0 /\ x.best_delta = DELTA_INFINITY
             /\ x = [NewEncoder EXCEPT !.got_null_frame = x.got_null_frame]
             /\ b = FALSE => x = NewEncoder
  <1>. DEFINE x == [NewEncoder EXCEPT !.got_null_frame = b]
  <1>1. /\ NewEncoder.in_frame_count = 0 /\ NewEncoder.elapsed = 0
        /\ NewEncoder.flush_count = 0 /\ NewEncoder.is_first_frame
        /\ NewEncoder.got_null_frame = FALSE
        /\ NewEncoder.frames = <<>>
        /\ NewEncoder.count_since_key_frame = 0 /\ NewEncoder.start = 0
        /\ NewEncoder.best_delta = DELTA_INFINITY
    BY DEF NewEncoder
  <1>2. NewEncoder \in Encoders
    BY NoFrames
  <1>3. x \in Encoders
    BY <1>2 DEF Encoders
  <1>4. /\ x.got_null_frame = b /\ x.frames = NewEncoder.frames
        /\ x.keyframe = NewEncoder.keyframe
        /\ x.out_frame_count = NewEncoder.out_frame_count
        /\ x.in_frame_count = 0 /\ x.elapsed = 0 /\ x.flush_count = 0
        /\ x.is_first_frame /\ x.count_since_key_frame = 0
        /\ x.start = 0 /\ x.best_delta = DELTA_INFINITY
    BY <1>1, <1>2 DEF Encoders
  <1>5. b = FALSE => x = NewEncoder
    BY <1>1, <1>2, SameFlag
  <1>6. x = [NewEncoder EXCEPT !.got_null_frame = x.got_null_frame]
    <2>1. x = [NewEncoder EXCEPT !.got_null_frame = b]
      OBVIOUS
    <2>. HIDE DEF x
    <2>. QED BY <1>4, <2>1
  <1>7. count(x) = 0
    <2>. HIDE DEF x
    <2>. QED BY <1>1, <1>4 DEF count
  <1>. QED BY <1>3, <1>4, <1>5, <1>6, <1>7

(* the first canvas *)
LEMMA FirstStep ==
  ASSUME IInv, NEW canvas \in Canvases, AddFirst(canvas)
  PROVE  LET c == CachedFirst(NewEncoder, canvas)
         IN  /\ IInv' /\ enc = NewEncoder /\ mux = <<>> /\ c \in Encoders
             /\ Flushes(<<>>, c, mux', enc') /\ mux' = <<>>
             /\ phase' = "adding" /\ options' = options /\ SaneOptions(options)
             /\ input' = <<[canvas |-> canvas, duration |-> 0]>>
  <1>. DEFINE c == CachedFirst(NewEncoder, canvas)
  <1>1. /\ enc.is_first_frame /\ BeginAdd(canvas, 0)
        /\ FlushFrames(CachedFirst(enc, canvas))
    BY DEF AddFirst
  <1>2. /\ phase' = "adding" /\ phase = "adding" /\ options' = options
        /\ input' \in Seq(Additions) /\ Len(input') = Len(input) + 1
    BY <1>1, BegunFields DEF IInv
  <1>3. /\ enc = [NewEncoder EXCEPT !.got_null_frame = enc.got_null_frame]
        /\ mux = <<>> /\ enc.got_null_frame = FALSE /\ SaneOptions(options)
        /\ enc.in_frame_count = Len(input) /\ enc \in Encoders
    BY <1>1, <1>2, EncoderFields DEF IInv, Sound, Typed
  <1>4. NewEncoder.in_frame_count = 0
        /\ [NewEncoder EXCEPT !.got_null_frame = FALSE] = NewEncoder
    BY NewEncoderFields DEF NewEncoder
  <1>5. enc = NewEncoder
    BY <1>3, <1>4
  <1>6. Len(input) = 0 /\ input = <<>>
    BY <1>3, <1>4, <1>5 DEF IInv
  <1>7. input' = <<[canvas |-> canvas, duration |-> 0]>>
    BY <1>1, <1>6 DEF BeginAdd, Timed
  <1>8. /\ Ready(<<>>, c, canvas) /\ c \in Encoders /\ c.prev_canvas = canvas
        /\ c.start = 0 /\ c.flush_count = 0 /\ ~c.is_first_frame
        /\ ~c.got_null_frame /\ c.in_frame_count = 1 /\ c.elapsed = 0
    BY AddsFirst
  <1>9. FlushFrames(c)
    BY <1>1, <1>5
  <1>. HIDE DEF c
  <1>10. Flushes(<<>>, c, mux', enc')
    BY <1>3, <1>8, <1>9, FlushingStep
  <1>11. /\ Sound(mux', enc') /\ OneKey(enc', 2) /\ LastCached(enc')
         /\ enc'.flush_count = 0 /\ ~enc'.is_first_frame /\ mux' \in Seq(ShownFrames)
         /\ ~enc'.got_null_frame /\ enc'.elapsed = 0 /\ enc'.in_frame_count = 1
         /\ Len(mux') = 0
    BY <1>8, <1>10 DEF Flushes, Sound, Typed
  <1>12. mux' = <<>>
    BY <1>11
  <1>13. Elapsed(enc')
    BY <1>11, Durable DEF Elapsed
  <1>14. Len(input') = 1
    BY <1>2, <1>6
  <1>15. IInv'
    BY <1>2, <1>3, <1>11, <1>13, <1>14 DEF IInv, Phases
  <1>. QED BY <1>2, <1>3, <1>5, <1>7, <1>8, <1>10, <1>12, <1>15 DEF c

(* the NULL frame; what it makes ready is flushed by the assembly only *)
LEMMA NullStep ==
  ASSUME IInv, NEW t \in Durations, AddNull(t)
  PROVE  /\ IInv' /\ phase' = "ended" /\ mux' = mux /\ options' = options
         /\ input' = Timed(t) /\ input \in Seq(Additions) /\ t \in Nat
         /\ enc'.got_null_frame /\ enc'.is_first_frame = enc.is_first_frame
         /\ ShownOf(mux, enc') = ShownOf(mux, Advanced(t))
         /\ ~enc.is_first_frame =>
              /\ Increases(mux, enc, Advanced(t), t)
              /\ enc'.count_since_key_frame = Advanced(t).count_since_key_frame
              /\ enc'.keyframe = Advanced(t).keyframe
         /\ enc.is_first_frame => Len(input) = 0
  <1>. DEFINE a == Advanced(t)
              c == [a EXCEPT !.got_null_frame = TRUE]
  <1>1. /\ phase = "adding" /\ Accepts(t) /\ phase' = "ended" /\ enc' = c
        /\ input' = Timed(t) /\ options' = options /\ mux' = mux
    BY DEF AddNull
  <1>2. /\ t \in Nat /\ input \in Seq(Additions) /\ SaneOptions(options)
        /\ enc.in_frame_count = Len(input) /\ Sound(mux, enc)
        /\ OneKey(enc, 2) /\ enc.flush_count = 0 /\ ~enc.got_null_frame
        /\ Elapsed(enc) /\ enc \in Encoders
    BY <1>1, EncoderAssumption DEF IInv, Sound, Typed
  <1>3. Timed(t) \in Seq(Additions) /\ Len(Timed(t)) = Len(input)
    BY <1>2, TimedFields
  <1>4. enc.in_frame_count \in Nat /\ enc.is_first_frame \in BOOLEAN
    BY <1>2, EncoderFields
  <1>5. CASE enc.is_first_frame
    <2>1. a = enc /\ enc = [NewEncoder EXCEPT !.got_null_frame = enc.got_null_frame]
          /\ mux = <<>> /\ enc.got_null_frame = FALSE
      BY <1>2, <1>4, <1>5, EncoderFields DEF Advanced, IInv
    <2>2. enc = NewEncoder
      BY <2>1, NewEncoderFields
    <2>3. c = [NewEncoder EXCEPT !.got_null_frame = TRUE]
      BY <2>1, <2>2
    <2>. HIDE DEF c
    <2>4. /\ c \in Encoders /\ c.frames = NewEncoder.frames
          /\ c.keyframe = NewEncoder.keyframe
          /\ c.out_frame_count = NewEncoder.out_frame_count
      BY <2>3, NewEncoderFields
    <2>5. /\ c.got_null_frame = TRUE /\ c.in_frame_count = 0 /\ c.elapsed = 0
          /\ c.flush_count = 0 /\ c.is_first_frame /\ count(c) = 0
          /\ c = [NewEncoder EXCEPT !.got_null_frame = c.got_null_frame]
      BY <2>3, NewEncoderFields
    <2>6. NewEncoder.in_frame_count = 0
      BY DEF NewEncoder
    <2>7. Sound(mux, c) /\ ShownOf(mux, c) = ShownOf(mux, enc)
      BY <1>2, <2>2, <2>4, Untouched
    <2>8. OneKey(c, 2)
      BY <2>5 DEF OneKey
    <2>9. Elapsed(c)
      BY <2>5, Durable DEF Elapsed
    <2>10. enc.in_frame_count = 0
      BY <2>2, <2>6
    <2>. HIDE DEF a
    <2>11. IInv'
      BY <1>1, <1>2, <1>3, <2>1, <2>5, <2>7, <2>8, <2>9, <2>10 DEF IInv, Phases
    <2>. QED BY <1>1, <1>2, <1>5, <2>1, <2>5, <2>7, <2>10, <2>11 DEF a
  <1>6. CASE ~enc.is_first_frame
    <2>1. t \in 0..(MAX_DURATION - 1)
      BY <1>1, <1>6, AcceptedDuration
    <2>2. /\ Increases(mux, enc, a, t) /\ a.elapsed = enc.elapsed + t
          /\ LastCached(a) /\ Ready(mux, a, a.prev_canvas)
          /\ ~a.is_first_frame /\ a.in_frame_count = enc.in_frame_count
          /\ enc.in_frame_count > 0 /\ a \in Encoders /\ OneKey(a, 2)
          /\ enc.elapsed <= (MAX_DURATION - 1) * (enc.in_frame_count - 1)
      BY <1>1, <1>6, <2>1, Advancing
    <2>. HIDE DEF a
    <2>3. c \in Encoders
      BY <2>2 DEF Encoders
    <2>4. /\ c.frames = a.frames /\ c.out_frame_count = a.out_frame_count
          /\ c.keyframe = a.keyframe /\ c.got_null_frame = TRUE
          /\ c.in_frame_count = a.in_frame_count /\ c.elapsed = a.elapsed
          /\ c.flush_count = a.flush_count
          /\ c.is_first_frame = a.is_first_frame
          /\ c.prev_canvas = a.prev_canvas /\ c.prev_rect = a.prev_rect
          /\ c.prev_candidate_undecided = a.prev_candidate_undecided
          /\ c.count_since_key_frame = a.count_since_key_frame
      BY <2>2 DEF Encoders
    <2>5. Sound(mux, a) /\ a.flush_count < count(a)
      BY <2>2 DEF Ready
    <2>. HIDE DEF c
    <2>6. /\ Sound(mux, c) /\ ShownOf(mux, c) = ShownOf(mux, a)
          /\ count(c) = count(a)
      BY <2>3, <2>4, <2>5, Untouched
    <2>7. OneKey(c, 2) /\ LastCached(c)
      BY <2>2, <2>4, <2>6 DEF OneKey, LastCached, LastShows, Key
    <2>8. Elapsed(c)
      <3>. DEFINE k == MAX_DURATION - 1
                  n == enc.in_frame_count
      <3>1. k \in Nat /\ n \in Nat /\ n > 0 /\ enc.elapsed \in Nat
            /\ t \in 0..k /\ enc.elapsed <= k * (n - 1)
        BY <1>2, <1>4, <2>1, <2>2, Durable, EncoderFields
      <3>2. k * (n - 1) + k = k * n
        BY <3>1, Distributes
      <3>3. k * (n - 1) \in Int /\ k * n \in Int
        BY <3>1
      <3>. HIDE DEF k, n
      <3>4. enc.elapsed + t <= k * n
        BY <3>1, <3>2, <3>3
      <3>. QED BY <2>2, <2>4, <3>4 DEF Elapsed, k, n
    <2>9. IInv'
      BY <1>1, <1>2, <1>3, <2>2, <2>4, <2>5, <2>6, <2>7, <2>8 DEF IInv, Phases
    <2>10. a.is_first_frame = enc.is_first_frame
      BY <2>2 DEF Increases
    <2>. QED BY <1>1, <1>2, <1>6, <2>2, <2>4, <2>6, <2>9, <2>10 DEF a
  <1>. QED BY <1>4, <1>5, <1>6

(* Overrun, AddFails, AddNullFails and AssembleFails only end the series. *)
LEMMA EndingStep ==
  ASSUME IInv, phase' \in {"ended", "failed", "overrun"},
         phase' = "overrun" => phase = "adding", phase # "assembled",
         UNCHANGED <<options, enc, mux, input>>
  PROVE  IInv'
  <1>1. /\ options' = options /\ enc' = enc /\ mux' = mux /\ input' = input
    OBVIOUS
  <1>2. phase' \in Phases /\ phase' # "assembled" /\ phase' # "adding"
    BY DEF Phases
  <1>3. phase' = "overrun" => ~enc.got_null_frame
    BY DEF IInv
  <1>. QED BY <1>1, <1>2, <1>3 DEF IInv

LEMMA StutterStep == IInv /\ UNCHANGED vars => IInv'
  BY DEF IInv, vars

-----------------------------------------------------------------------------
(* The assembly *)

LEMMA Averages ==
  \A k, n, x \in Nat : n > 0 /\ x <= k * n => x \div n \in 0..k
  OBVIOUS

(* the encoder when the last canvas has its duration *)
Completed == IF NeedsAverage THEN IncreasePreviousDuration(enc, average) ELSE enc

LEMMA Completes ==
  ASSUME IInv, phase = "ended", enc.in_frame_count > 0
  PROVE  /\ ~enc.is_first_frame /\ LastCached(enc) /\ Sound(mux, enc)
         /\ enc \in Encoders /\ Sound(mux, Completed) /\ Completed \in Encoders
         /\ Completed.in_frame_count = enc.in_frame_count
         /\ Completed.got_null_frame = enc.got_null_frame
         /\ Completed.is_first_frame = enc.is_first_frame
         /\ Completed.elapsed = enc.elapsed
         /\ IF NeedsAverage
            THEN /\ average \in 0..(MAX_DURATION - 1)
                 /\ Increases(mux, enc, Completed, average)
            ELSE Completed = enc
  <1>1. Sound(mux, enc) /\ enc \in Encoders /\ OneKey(enc, 2) /\ Elapsed(enc)
    BY DEF IInv, Sound, Typed
  <1>2. enc.in_frame_count \in Nat /\ enc.elapsed \in Nat
        /\ enc.is_first_frame \in BOOLEAN
    BY <1>1, EncoderFields
  <1>3. ~enc.is_first_frame
    <2>1. ASSUME enc.is_first_frame PROVE FALSE
      <3>1. /\ enc = [NewEncoder EXCEPT !.got_null_frame = enc.got_null_frame]
            /\ enc.got_null_frame \in BOOLEAN
        BY <1>1, <2>1, EncoderFields DEF IInv
      <3>2. enc.in_frame_count = 0
        BY <3>1, NewEncoderFields
      <3>. QED BY <3>2
    <2>. QED BY <2>1
  <1>4. LastCached(enc)
    BY <1>3 DEF IInv
  <1>5. CASE ~NeedsAverage
    BY <1>1, <1>3, <1>4, <1>5 DEF Completed
  <1>6. CASE NeedsAverage
    <2>1. ~enc.got_null_frame /\ enc.in_frame_count > 1 /\ enc.flush_count = 0
      BY <1>6 DEF NeedsAverage, IInv
    <2>. DEFINE n == enc.in_frame_count - 1
                k == MAX_DURATION - 1
    <2>2. n \in Nat /\ n > 0 /\ k \in Nat /\ enc.elapsed <= k * n
      BY <1>1, <1>2, <2>1, Durable DEF Elapsed
    <2>3. average \in 0..k
      <3>. HIDE DEF k
      <3>1. average = enc.elapsed \div n
        BY DEF average
      <3>. HIDE DEF n
      <3>. QED BY <1>2, <2>2, <3>1, Averages
    <2>4. /\ Increases(mux, enc, IncreasePreviousDuration(enc, average), average)
          /\ IncreasePreviousDuration(enc, average).elapsed = enc.elapsed
      BY <1>1, <1>4, <2>1, <2>3, IncreasesDuration
    <2>5. Completed = IncreasePreviousDuration(enc, average)
      BY <1>6 DEF Completed
    <2>6. Increases(mux, enc, Completed, average) /\ Completed.elapsed = enc.elapsed
      BY <2>4, <2>5
    <2>7. /\ Completed.in_frame_count = enc.in_frame_count
          /\ Completed.got_null_frame = enc.got_null_frame
          /\ Completed.is_first_frame = enc.is_first_frame
          /\ Sound(mux, Completed) /\ Completed \in Encoders
      BY <2>6 DEF Increases, Ready
    <2>. QED BY <1>1, <1>3, <1>4, <1>6, <2>3, <2>6, <2>7
  <1>. QED BY <1>5, <1>6

LEMMA AssembleStep ==
  ASSUME IInv, WebPAnimEncoderAssemble
  PROVE  /\ IInv' /\ phase = "ended" /\ phase' = "assembled"
         /\ enc.in_frame_count > 0 /\ options' = options
         /\ ShownOf(mux', enc') = ShownOf(mux, Completed) /\ count(enc') = 0
         /\ input' = IF NeedsAverage THEN Timed(average) ELSE input
         /\ ~enc'.is_first_frame
  <1>. DEFINE e == Completed
              f == [e EXCEPT !.flush_count = count(e)]
  <1>1. /\ phase = "ended" /\ phase' = "assembled" /\ options' = options
        /\ enc.in_frame_count > 0 /\ FlushFrames(f)
        /\ input' = IF NeedsAverage THEN Timed(average) ELSE input
    BY DEF WebPAnimEncoderAssemble, Completed
  <1>2. /\ ~enc.is_first_frame /\ enc \in Encoders /\ Sound(mux, e)
        /\ e \in Encoders /\ e.in_frame_count = enc.in_frame_count
        /\ e.got_null_frame = enc.got_null_frame
        /\ e.is_first_frame = enc.is_first_frame /\ e.elapsed = enc.elapsed
        /\ NeedsAverage => average \in 0..(MAX_DURATION - 1)
    BY <1>1, Completes
  <1>3. count(e) \in Nat
    BY <1>2, EncoderFields
  <1>. HIDE DEF e
  <1>4. f \in Encoders
    BY <1>2, <1>3 DEF Encoders
  <1>5. /\ f.frames = e.frames /\ f.out_frame_count = e.out_frame_count
        /\ f.keyframe = e.keyframe /\ f.flush_count = count(e)
        /\ f.in_frame_count = e.in_frame_count /\ f.elapsed = e.elapsed
        /\ f.is_first_frame = e.is_first_frame
        /\ f.got_null_frame = e.got_null_frame
    BY <1>2, <1>3 DEF Encoders
  <1>. HIDE DEF f
  <1>6. Sound(mux, f) /\ ShownOf(mux, f) = ShownOf(mux, e) /\ count(f) = count(e)
    BY <1>2, <1>4, <1>5, Untouched
  <1>7. f.flush_count <= count(f) /\ count(f) - f.flush_count = 0
    BY <1>3, <1>5, <1>6
  <1>8. mux' = Pushed(mux, f) /\ enc' = Flushed(f)
    BY <1>1 DEF FlushFrames, Pushed
  <1>9. Sound(mux', enc') /\ ShownOf(mux', enc') = ShownOf(mux, f)
    BY <1>6, <1>7, <1>8, FlushKeeps
  <1>10. /\ enc'.in_frame_count = enc.in_frame_count
         /\ enc'.elapsed = enc.elapsed /\ count(enc') = 0
         /\ enc'.is_first_frame = enc.is_first_frame
         /\ enc'.got_null_frame = enc.got_null_frame /\ enc'.flush_count = 0
    BY <1>2, <1>4, <1>5, <1>7, <1>8, FlushedFields
  <1>11. OneKey(enc', 2)
    BY <1>10 DEF OneKey
  <1>12. Elapsed(enc')
    BY <1>10 DEF Elapsed, IInv
  <1>13. input' \in Seq(Additions) /\ Len(input') = Len(input)
    <2>1. input \in Seq(Additions)
      BY DEF IInv
    <2>2. NeedsAverage => average \in Nat
      BY <1>2, Durable
    <2>. QED BY <1>1, <2>1, <2>2, TimedFields
  <1>14. IInv'
    BY <1>1, <1>2, <1>9, <1>10, <1>11, <1>12, <1>13 DEF IInv, Phases
  <1>. QED BY <1>1, <1>2, <1>6, <1>9, <1>10, <1>14 DEF e

-----------------------------------------------------------------------------
(* Every step, and the first three theorems *)

LEMMA NextIInv == IInv /\ [Next]_vars => IInv'
  <1>. SUFFICES ASSUME IInv, [Next]_vars PROVE IInv'
    OBVIOUS
  <1>1. ASSUME NEW canvas \in Canvases, AddFirst(canvas) PROVE IInv'
    BY <1>1, FirstStep
  <1>2. ASSUME NEW canvas \in Canvases, NEW t \in Durations,
               AddSkipped(canvas, t)
        PROVE  IInv'
    BY <1>2, SkippingStep
  <1>3. ASSUME NEW canvas \in Canvases, NEW t \in Durations, AddSub(canvas, t)
        PROVE  IInv'
    BY <1>3, SubStep
  <1>4. ASSUME NEW canvas \in Canvases, NEW t \in Durations, AddBoth(canvas, t)
        PROVE  IInv'
    BY <1>4, BothStep
  <1>5. ASSUME NEW t \in Durations, Overrun(t) PROVE IInv'
    BY <1>5, EndingStep DEF Overrun
  <1>6. ASSUME NEW t \in Durations, AddNull(t) PROVE IInv'
    BY <1>6, NullStep
  <1>7. ASSUME NEW t \in Durations, AddNullFails(t) PROVE IInv'
    BY <1>7, EndingStep DEF AddNullFails
  <1>8. CASE AddFails
    BY <1>8, EndingStep DEF AddFails
  <1>9. CASE WebPAnimEncoderAssemble
    BY <1>9, AssembleStep
  <1>10. CASE AssembleFails
    BY <1>10, EndingStep DEF AssembleFails
  <1>11. CASE UNCHANGED vars
    BY <1>11, StutterStep
  <1>. QED BY <1>1, <1>2, <1>3, <1>4, <1>5, <1>6, <1>7, <1>8, <1>9, <1>10,
              <1>11 DEF Next

LEMMA SpecIInv == Spec => []IInv
  BY InitIInv, NextIInv, PTL DEF Spec

LEMMA IInvTypeOK == IInv => TypeOK
  <1>. SUFFICES ASSUME IInv PROVE TypeOK
    OBVIOUS
  <1>1. /\ phase \in Phases /\ SaneOptions(options) /\ Sound(mux, enc)
        /\ input \in Seq(Additions)
        /\ enc.flush_count = 0 \/ enc.flush_count < count(enc)
    BY DEF IInv
  <1>2. enc \in Encoders /\ enc.out_frame_count = Len(mux)
    BY <1>1 DEF Sound, Typed, Numbered
  <1>3. /\ enc.start \in Nat /\ enc.frames \in Seq(FrameSet)
        /\ enc.flush_count \in Nat /\ enc.best_delta \in Deltas
        /\ enc.keyframe \in Int /\ enc.prev_canvas \in CanvasesOrNone
        /\ enc.prev_rect \in RectsOrNone /\ enc.count_since_key_frame \in Nat
        /\ enc.prev_candidate_undecided \in BOOLEAN
        /\ enc.is_first_frame \in BOOLEAN /\ enc.got_null_frame \in BOOLEAN
        /\ enc.in_frame_count \in Nat /\ enc.elapsed \in Nat
        /\ count(enc) \in Nat
    BY <1>2, EncoderFields
  <1>4. enc.flush_count \in 0..count(enc)
    BY <1>1, <1>3
  <1>5. options.kmin \in 0..INT_MAX /\ options.kmax \in 0..INT_MAX
    BY <1>1 DEF SaneOptions
  <1>. QED BY <1>1, <1>2, <1>3, <1>4, <1>5
           DEF TypeOK, Additions, Deltas, CanvasesOrNone, RectsOrNone

LEMMA IInvDecodable == IInv => SubFramesDecodable
  <1>. SUFFICES ASSUME IInv, NEW i \in 1..Len(Shown), ~Shown[i].is_key_frame
                PROVE  /\ i > 1
                       /\ Shown[i].over.canvas = Shown[i - 1].canvas
                       /\ Shown[i].over.dispose = Shown[i - 1].dispose
                       /\ Shown[i].over.dispose = "background" =>
                            Shown[i].over.rect = Shown[i - 1].rect
    BY DEF SubFramesDecodable
  <1>1. Decodable(ShownOf(mux, enc))
    BY DEF IInv, Sound
  <1>2. Shown = ShownOf(mux, enc)
    BY DEF Shown, ShownOf
  <1>3. i > 1 /\ Fits(Shown[i - 1], Shown[i])
    BY <1>1, <1>2 DEF Decodable
  <1>. QED BY <1>3 DEF Fits

LEMMA IInvIndexed == IInv => KeyframeIndexed
  <1>. SUFFICES ASSUME IInv PROVE KeyframeIndexed
    OBVIOUS
  <1>1. Pointed(enc) /\ OneKey(enc, 2) /\ enc \in Encoders
    BY DEF IInv, Sound, Typed
  <1>2. enc.keyframe # KEYFRAME_NONE =>
          /\ enc.keyframe + 1 \in 1..count(enc)
          /\ enc.frames[enc.keyframe + 1].is_key_frame
    BY <1>1 DEF Pointed, HasKey, Key
  <1>3. \A i \in 2..count(enc) :
          enc.frames[i].is_key_frame => i = enc.keyframe + 1
    <2>. SUFFICES ASSUME NEW i \in 2..count(enc), enc.frames[i].is_key_frame
                  PROVE  i = enc.keyframe + 1
      OBVIOUS
    <2>1. count(enc) \in Nat
      BY <1>1, EncoderFields
    <2>2. i \in 1..count(enc) /\ i >= 2
      BY <2>1
    <2>. QED BY <1>1, <2>2 DEF OneKey, Key
  <1>. QED BY <1>2, <1>3 DEF KeyframeIndexed

(* Whatever is added, every field of the encoder keeps its type and no     *)
(* frame's duration reaches MAX_DURATION (IncreasePreviousDuration and the *)
(* average of WebPAnimEncoderAssemble).                                    *)
THEOREM EncoderTypeOK == Spec => []TypeOK
  BY SpecIInv, IInvTypeOK, PTL

(* Whatever is merged, demoted, disposed of or split, every sub-frame is   *)
(* shown over the canvas, the disposal and the rectangle it was encoded    *)
(* against (CacheFrame, SetPreviousDisposeMethod, FlushFrames).            *)
THEOREM EncoderSubFramesDecodable == Spec => []SubFramesDecodable
  BY SpecIInv, IInvDecodable, PTL

(* keyframe_ points at a cached key frame whenever CacheFrame demotes it,  *)
(* and FlushFrames moves it with the window.                               *)
THEOREM EncoderKeyframeIndexed == Spec => []KeyframeIndexed
  BY SpecIInv, IInvIndexed, PTL

-----------------------------------------------------------------------------
(* The window *)

(* slots of the window that are used or lie before it *)
Used(e) == e.start + count(e)

(* Penalties are compared only among the candidates of a round, and only   *)
(* those take a slot each.                                                 *)
RoomLeft(e) ==
  /\ e.count_since_key_frame <= options.kmin => e.best_delta = DELTA_INFINITY
  /\ Used(e) <= IF /\ options.kmin < e.count_since_key_frame
                   /\ e.count_since_key_frame < options.kmax
                THEN e.count_since_key_frame - options.kmin ELSE 1

WInv ==
  /\ phase # "assembled" /\ ~enc.got_null_frame => RoomLeft(enc)
  /\ phase = "overrun" => size = 2


LEMMA SizeFields ==
  ASSUME SaneOptions(options)
  PROVE  /\ options.kmin \in Nat /\ options.kmax \in Nat /\ size \in Nat
         /\ size >= 2
         /\ IF options.kmax = 0 THEN options.kmin = 0 /\ size = 2
            ELSE /\ options.kmin < options.kmax
                 /\ size = (options.kmax - options.kmin) + 1
  <1>1. /\ options.kmin \in Nat /\ options.kmax \in Nat
        /\ \/ options.kmin = 0 /\ options.kmax = 0
           \/ options.kmax >= 2 /\ options.kmin < options.kmax
    BY EncoderAssumption DEF SaneOptions
  <1>. DEFINE n == options.kmax - options.kmin + 1
  <1>2. size = IF n < 2 THEN 2 ELSE n
    BY DEF size
  <1>3. n = (options.kmax - options.kmin) + 1
    BY <1>1
  <1>. HIDE DEF n
  <1>. QED BY <1>1, <1>2, <1>3

LEMMA UsedFields ==
  ASSUME NEW e \in Encoders
  PROVE  /\ Used(e) \in Nat /\ e.start \in Nat /\ count(e) \in Nat
         /\ Used(e) = e.start + count(e) /\ e.count_since_key_frame \in Nat
         /\ e.flush_count \in Nat
  BY EncoderFields DEF Used

(* flushing frees slots only when a single frame is left *)
LEMMA UsedAfter ==
  ASSUME NEW m, NEW c \in Encoders, NEW p, NEW g, Flushes(m, c, p, g)
  PROVE  /\ Used(g) = IF count(g) = 1 THEN 1 ELSE Used(c)
         /\ count(g) = count(c) - c.flush_count /\ count(g) \in Nat
  <1>1. /\ g \in Encoders /\ count(g) = count(c) - c.flush_count
        /\ g.start = IF count(g) = 1 THEN 0 ELSE c.start + c.flush_count
    BY DEF Flushes
  <1>2. /\ c.start \in Nat /\ count(c) \in Nat /\ c.flush_count \in Nat
        /\ Used(c) = c.start + count(c) /\ Used(g) = g.start + count(g)
        /\ count(g) \in Nat
    BY <1>1, UsedFields
  <1>. QED BY <1>1, <1>2

(* a window that holds a single frame has room left *)
LEMMA RoomForOne ==
  ASSUME SaneOptions(options), NEW g \in Encoders, Used(g) <= 1,
         g.count_since_key_frame <= options.kmin => g.best_delta = DELTA_INFINITY
  PROVE  RoomLeft(g)
  <1>1. /\ options.kmin \in Nat /\ options.kmax \in Nat
        /\ g.count_since_key_frame \in Nat /\ Used(g) \in Nat
    BY SizeFields, UsedFields
  <1>. QED BY <1>1 DEF RoomLeft

LEMMA RoomGivesSlot ==
  ASSUME SaneOptions(options), NEW e \in Encoders, RoomLeft(e)
  PROVE  /\ HasSlot(e)
         /\ Used(e) + 1 >= size => size = 2
  <1>1. /\ options.kmin \in Nat /\ options.kmax \in Nat
        /\ e.count_since_key_frame \in Nat /\ Used(e) \in Nat
        /\ size \in Nat /\ size >= 2
        /\ IF options.kmax = 0 THEN options.kmin = 0 /\ size = 2
           ELSE /\ options.kmin < options.kmax
                /\ size = (options.kmax - options.kmin) + 1
    BY SizeFields, UsedFields
  <1>2. Used(e) <= IF /\ options.kmin < e.count_since_key_frame
                      /\ e.count_since_key_frame < options.kmax
                   THEN e.count_since_key_frame - options.kmin ELSE 1
    BY DEF RoomLeft
  <1>3. Used(e) < size /\ (Used(e) + 1 >= size => size = 2)
    BY <1>1, <1>2
  <1>4. HasSlot(e) <=> Used(e) < size
    BY DEF HasSlot, Used
  <1>. QED BY <1>3, <1>4

LEMMA AdvancedRoom ==
  ASSUME SaneOptions(options), NEW m, NEW a, NEW t, enc \in Encoders,
         RoomLeft(enc), Increases(m, enc, a, t)
  PROVE  /\ a \in Encoders /\ a.best_delta = enc.best_delta
         /\ a.count_since_key_frame <= options.kmin =>
              a.best_delta = DELTA_INFINITY
         /\ IF Overflows(enc, t)
            THEN /\ a.flush_count = count(enc) /\ count(a) = count(enc) + 1
                 /\ Used(a) = Used(enc) + 1
                 /\ a.count_since_key_frame = enc.count_since_key_frame + 1
            ELSE /\ a.flush_count = 0 /\ count(a) = count(enc)
                 /\ Used(a) = Used(enc)
                 /\ a.count_since_key_frame = enc.count_since_key_frame
  <1>1. /\ a \in Encoders /\ a.best_delta = enc.best_delta /\ a.start = enc.start
        /\ IF Overflows(enc, t)
           THEN /\ count(a) = count(enc) + 1 /\ a.flush_count = count(enc)
                /\ a.count_since_key_frame = enc.count_since_key_frame + 1
           ELSE /\ count(a) = count(enc) /\ a.flush_count = 0
                /\ a.count_since_key_frame = enc.count_since_key_frame
    BY DEF Increases
  <1>2. /\ Used(a) = a.start + count(a) /\ Used(enc) = enc.start + count(enc)
        /\ enc.start \in Nat /\ count(enc) \in Nat
        /\ enc.count_since_key_frame \in Nat /\ options.kmin \in Nat
    BY <1>1, UsedFields, SizeFields
  <1>3. enc.count_since_key_frame <= options.kmin => enc.best_delta = DELTA_INFINITY
    BY DEF RoomLeft
  <1>. QED BY <1>1, <1>2, <1>3

LEMMA SkippingRoom ==
  ASSUME SaneOptions(options), enc \in Encoders, RoomLeft(enc),
         NEW canvas, NEW t, NEW c, Adds(canvas, t, c),
         Skipping(mux, Advanced(t), c, canvas)
  PROVE  RoomLeft(enc')
  <1>. DEFINE a == Advanced(t)
              g == enc'
  <1>1. /\ Increases(mux, enc, a, t) /\ Flushes(mux, c, mux', g) /\ c \in Encoders
    BY DEF Adds
  <1>2. /\ c.start = a.start /\ c.best_delta = a.best_delta
        /\ c.count_since_key_frame = a.count_since_key_frame
        /\ c.flush_count = a.flush_count /\ count(c) = count(a)
    BY DEF Skipping
  <1>3. /\ g \in Encoders /\ g.best_delta = c.best_delta
        /\ g.count_since_key_frame = c.count_since_key_frame
    BY <1>1 DEF Flushes
  <1>4. /\ Used(g) = IF count(g) = 1 THEN 1 ELSE Used(c)
        /\ count(g) = count(c) - c.flush_count /\ count(g) \in Nat
    BY <1>1, UsedAfter
  <1>. HIDE DEF a
  <1>5. /\ a \in Encoders
        /\ a.count_since_key_frame <= options.kmin =>
             a.best_delta = DELTA_INFINITY
        /\ IF Overflows(enc, t)
           THEN /\ a.flush_count = count(enc) /\ count(a) = count(enc) + 1
                /\ Used(a) = Used(enc) + 1
                /\ a.count_since_key_frame = enc.count_since_key_frame + 1
           ELSE /\ a.flush_count = 0 /\ count(a) = count(enc)
                /\ Used(a) = Used(enc)
                /\ a.count_since_key_frame = enc.count_since_key_frame
    BY <1>1, AdvancedRoom
  <1>6. Used(c) = Used(a)
    BY <1>2 DEF Used
  <1>. HIDE DEF g
  <1>7. count(enc) \in Nat
    BY EncoderFields
  <1>8. CASE count(g) = 1
    <2>1. Used(g) <= 1
      BY <1>4, <1>8
    <2>. QED BY <1>2, <1>3, <1>5, <2>1, RoomForOne DEF g
  <1>9. CASE count(g) # 1
    <2>1. ~Overflows(enc, t)
      BY <1>2, <1>4, <1>5, <1>7, <1>9
    <2>2. Used(g) = Used(enc) /\ g.count_since_key_frame = enc.count_since_key_frame
      BY <1>2, <1>3, <1>4, <1>5, <1>6, <1>9, <2>1
    <2>. QED BY <1>2, <1>3, <1>5, <2>2 DEF RoomLeft, g
  <1>. QED BY <1>8, <1>9

LEMMA TakingSubRoom ==
  ASSUME SaneOptions(options), enc \in Encoders, RoomLeft(enc),
         NEW canvas, NEW t, NEW c, Adds(canvas, t, c),
         Takes(mux, Advanced(t), c, canvas), TakesSub(mux, Advanced(t), c),
         Advanced(t).count_since_key_frame + 1 <= options.kmin
  PROVE  RoomLeft(enc')
  <1>. DEFINE a == Advanced(t)
              g == enc'
  <1>1. /\ Increases(mux, enc, a, t) /\ Flushes(mux, c, mux', g) /\ c \in Encoders
    BY DEF Adds
  <1>2. /\ c.best_delta = a.best_delta /\ c.flush_count = count(a)
        /\ c.count_since_key_frame = a.count_since_key_frame + 1
        /\ count(c) = count(a) + 1
    BY DEF Takes, TakesSub
  <1>3. /\ g \in Encoders /\ g.best_delta = c.best_delta
        /\ g.count_since_key_frame = c.count_since_key_frame
    BY <1>1 DEF Flushes
  <1>4. /\ Used(g) = IF count(g) = 1 THEN 1 ELSE Used(c)
        /\ count(g) = count(c) - c.flush_count /\ count(g) \in Nat
    BY <1>1, UsedAfter
  <1>5. /\ a \in Encoders
        /\ a.count_since_key_frame <= options.kmin =>
             a.best_delta = DELTA_INFINITY
    BY <1>1, AdvancedRoom
  <1>6. a.count_since_key_frame + 1 <= options.kmin
    OBVIOUS
  <1>. HIDE DEF a, g
  <1>7. /\ count(a) \in Nat /\ a.count_since_key_frame \in Nat
        /\ options.kmin \in Nat
    BY <1>5, EncoderFields, SizeFields
  <1>8. Used(g) <= 1
    BY <1>2, <1>4, <1>7
  <1>9. g.best_delta = DELTA_INFINITY
    BY <1>2, <1>3, <1>5, <1>6, <1>7
  <1>. QED BY <1>3, <1>8, <1>9, RoomForOne DEF g

LEMMA TakingBothRoom ==
  ASSUME SaneOptions(options), enc \in Encoders, RoomLeft(enc),
         NEW canvas, NEW t, NEW c, NEW penalty \in Penalties, Adds(canvas, t, c),
         Takes(mux, Advanced(t), c, canvas),
         TakesBoth(mux, Advanced(t), c, penalty),
         Advanced(t).count_since_key_frame + 1 > options.kmin
  PROVE  RoomLeft(enc')
  <1>. DEFINE a == Advanced(t)
              g == enc'
              closed == a.count_since_key_frame + 1 >= options.kmax
              picked == penalty <= a.best_delta
  <1>1. /\ Increases(mux, enc, a, t) /\ Flushes(mux, c, mux', g) /\ c \in Encoders
    BY DEF Adds
  <1>2. /\ count(c) = count(a) + 1 /\ c.start = a.start
        /\ IF closed
           THEN /\ c.count_since_key_frame = 0
                /\ c.best_delta = DELTA_INFINITY /\ c.flush_count = count(a)
           ELSE /\ c.count_since_key_frame = a.count_since_key_frame + 1
                /\ c.flush_count = IF picked THEN count(a) ELSE a.flush_count
    BY DEF Takes, TakesBoth
  <1>3. /\ g \in Encoders /\ g.best_delta = c.best_delta
        /\ g.count_since_key_frame = c.count_since_key_frame
    BY <1>1 DEF Flushes
  <1>4. /\ Used(g) = IF count(g) = 1 THEN 1 ELSE Used(c)
        /\ count(g) = count(c) - c.flush_count /\ count(g) \in Nat
    BY <1>1, UsedAfter
  <1>5. /\ a \in Encoders /\ a.best_delta = enc.best_delta
        /\ IF Overflows(enc, t)
           THEN /\ a.flush_count = count(enc) /\ count(a) = count(enc) + 1
                /\ Used(a) = Used(enc) + 1
                /\ a.count_since_key_frame = enc.count_since_key_frame + 1
           ELSE /\ a.flush_count = 0 /\ count(a) = count(enc)
                /\ Used(a) = Used(enc)
                /\ a.count_since_key_frame = enc.count_since_key_frame
    BY <1>1, AdvancedRoom
  <1>6. a.count_since_key_frame + 1 > options.kmin
    OBVIOUS
  <1>7. penalty \in Int /\ penalty < DELTA_INFINITY /\ DELTA_INFINITY \in Int
    BY EncoderAssumption
  <1>8. ~picked => enc.count_since_key_frame > options.kmin
    <2>. SUFFICES ASSUME ~picked PROVE enc.count_since_key_frame > options.kmin
      OBVIOUS
    <2>1. enc.best_delta # DELTA_INFINITY
      BY <1>5, <1>7
    <2>2. ~(enc.count_since_key_frame <= options.kmin)
      BY <2>1 DEF RoomLeft
    <2>3. enc.count_since_key_frame \in Nat /\ options.kmin \in Nat
      BY EncoderFields, SizeFields
    <2>. QED BY <2>2, <2>3
  <1>. HIDE DEF a, g, picked
  <1>9. /\ options.kmin \in Nat /\ options.kmax \in Nat
        /\ count(a) \in Nat /\ a.count_since_key_frame \in Nat
        /\ count(enc) \in Nat /\ enc.count_since_key_frame \in Nat
        /\ Used(enc) \in Nat /\ Used(a) \in Nat /\ a.start \in Nat
    BY <1>5, UsedFields, SizeFields
  <1>10. CASE closed
    <2>1. Used(g) <= 1 /\ g.best_delta = DELTA_INFINITY
      BY <1>2, <1>3, <1>4, <1>9, <1>10
    <2>. QED BY <1>3, <2>1, RoomForOne DEF g
  <1>11. CASE ~closed
    <2>1. /\ g.count_since_key_frame = a.count_since_key_frame + 1
          /\ g.count_since_key_frame > options.kmin
          /\ g.count_since_key_frame < options.kmax
      BY <1>2, <1>3, <1>6, <1>9, <1>11
    <2>2. Used(g) <= g.count_since_key_frame - options.kmin
      <3>1. CASE count(g) = 1
        BY <1>4, <1>9, <2>1, <3>1
      <3>2. CASE count(g) # 1
        <4>1. ~picked
          BY <1>2, <1>4, <1>9, <1>11, <3>2
        <4>2. Used(c) = Used(a) + 1
          <5>1. Used(c) = c.start + count(c) /\ Used(a) = a.start + count(a)
            BY DEF Used
          <5>. QED BY <1>2, <1>9, <5>1
        <4>3. enc.count_since_key_frame < options.kmax
          BY <1>5, <1>9, <2>1
        <4>4. Used(enc) <= enc.count_since_key_frame - options.kmin
          BY <1>8, <4>1, <4>3 DEF RoomLeft
        <4>5. Used(g) = Used(a) + 1
          BY <1>4, <3>2, <4>2
        <4>. QED BY <1>5, <1>9, <2>1, <4>4, <4>5
      <3>. QED BY <3>1, <3>2
    <2>. QED BY <1>9, <2>1, <2>2 DEF RoomLeft, g
  <1>. QED BY <1>10, <1>11

(* GetFrame's assertion only stops an encoder with two slots. *)
LEMMA OverrunRoom ==
  ASSUME SaneOptions(options), enc \in Encoders, RoomLeft(enc),
         NEW t, ~SlotsSuffice(t), ~enc.is_first_frame => Increases(mux, enc, Advanced(t), t)
  PROVE  size = 2
  <1>1. HasSlot(enc) /\ (Used(enc) + 1 >= size => size = 2)
    BY RoomGivesSlot
  <1>2. ~HasSlot(Advanced(t))
    BY <1>1 DEF SlotsSuffice
  <1>3. CASE enc.is_first_frame
    BY <1>1, <1>2, <1>3 DEF Advanced
  <1>4. CASE ~enc.is_first_frame
    <2>. DEFINE a == Advanced(t)
    <2>1. Increases(mux, enc, a, t)
      BY <1>4
    <2>. HIDE DEF a
    <2>2. /\ a \in Encoders
          /\ Used(a) = Used(enc) + 1 \/ Used(a) = Used(enc)
      BY <2>1, AdvancedRoom
    <2>3. Used(a) \in Nat /\ Used(enc) \in Nat /\ size \in Nat
      BY <2>2, UsedFields, SizeFields
    <2>4. ~(Used(a) < size) /\ Used(enc) < size
      BY <1>1, <1>2 DEF HasSlot, Used, a
    <2>. QED BY <1>1, <2>2, <2>3, <2>4
  <1>. QED BY <1>3, <1>4

LEMMA NextWInv == IInv /\ WInv /\ [Next]_vars => WInv'
  <1>. SUFFICES ASSUME IInv, WInv, [Next]_vars PROVE WInv'
    OBVIOUS
  <1>1. SaneOptions(options) /\ enc \in Encoders
    BY DEF IInv, Sound, Typed
  <1>2. phase = "adding" => RoomLeft(enc)
    BY DEF WInv, IInv
  <1>3. ASSUME RoomLeft(enc'), options' = options, phase' = "adding" PROVE WInv'
    BY <1>3 DEF WInv, RoomLeft
  <1>4. ASSUME phase' # "overrun", phase # "assembled",
               UNCHANGED <<options, enc, mux, input>>
        PROVE  WInv'
    BY <1>4 DEF WInv, RoomLeft
  <1>5. ASSUME NEW canvas \in Canvases, NEW t \in Durations,
               ~enc.is_first_frame, BeginAdd(canvas, t)
        PROVE  RoomLeft(enc) /\ options' = options /\ phase' = "adding"
    BY <1>2, <1>5, BeginsAdd
  <1>6. ASSUME NEW canvas \in Canvases, AddFirst(canvas) PROVE WInv'
    <2>. DEFINE c == CachedFirst(NewEncoder, canvas)
    <2>1. /\ Flushes(<<>>, c, mux', enc') /\ c \in Encoders
          /\ phase' = "adding" /\ options' = options
      BY <1>6, FirstStep
    <2>2. /\ c.start = 0 /\ c.best_delta = DELTA_INFINITY /\ count(c) = 1
          /\ c.flush_count = 0
      BY AddsFirst
    <2>. HIDE DEF c
    <2>3. Used(enc') <= 1
      BY <2>1, <2>2, UsedAfter
    <2>4. enc' \in Encoders /\ enc'.best_delta = DELTA_INFINITY
      BY <2>1, <2>2 DEF Flushes
    <2>5. RoomLeft(enc')
      BY <1>1, <2>3, <2>4, RoomForOne
    <2>. QED BY <1>3, <2>1, <2>5
  <1>7. ASSUME NEW canvas \in Canvases, NEW t \in Durations,
               AddSkipped(canvas, t)
        PROVE  WInv'
    <2>. DEFINE c == Skipped(Advanced(t))
    <2>1. Adds(canvas, t, c) /\ Skipping(mux, Advanced(t), c, canvas)
      BY <1>7, SkippingStep
    <2>. HIDE DEF c
    <2>2. RoomLeft(enc) /\ options' = options /\ phase' = "adding"
      BY <1>5, <2>1 DEF Adds
    <2>. QED BY <1>1, <1>3, <2>1, <2>2, SkippingRoom
  <1>8. ASSUME NEW canvas \in Canvases, NEW t \in Durations, AddSub(canvas, t)
        PROVE  WInv'
    <2>1. PICK c : /\ Adds(canvas, t, c) /\ Takes(mux, Advanced(t), c, canvas)
                   /\ TakesSub(mux, Advanced(t), c)
                   /\ Advanced(t).count_since_key_frame + 1 <= options.kmin
      BY <1>8, SubStep
    <2>2. RoomLeft(enc) /\ options' = options /\ phase' = "adding"
      BY <1>5, <2>1 DEF Adds
    <2>. QED BY <1>1, <1>3, <2>1, <2>2, TakingSubRoom
  <1>9. ASSUME NEW canvas \in Canvases, NEW t \in Durations, AddBoth(canvas, t)
        PROVE  WInv'
    <2>1. PICK c : \E penalty \in Penalties :
                     /\ Adds(canvas, t, c)
                     /\ Takes(mux, Advanced(t), c, canvas)
                     /\ TakesBoth(mux, Advanced(t), c, penalty)
                     /\ Advanced(t).count_since_key_frame + 1 > options.kmin
      BY <1>9, BothStep
    <2>2. RoomLeft(enc) /\ options' = options /\ phase' = "adding"
      BY <1>5, <2>1 DEF Adds
    <2>. QED BY <1>1, <1>3, <2>1, <2>2, TakingBothRoom
  <1>10. ASSUME NEW t \in Durations, Overrun(t) PROVE WInv'
    <2>1. /\ phase = "adding" /\ ~SlotsSuffice(t) /\ phase' = "overrun"
          /\ Accepts(t) /\ UNCHANGED <<options, enc, mux, input>>
      BY <1>10 DEF Overrun
    <2>2. ~enc.is_first_frame => Increases(mux, enc, Advanced(t), t)
      BY <2>1, AcceptedDuration, Advancing
    <2>3. size = 2
      BY <1>1, <1>2, <2>1, <2>2, OverrunRoom
    <2>. QED BY <1>2, <2>1, <2>3 DEF WInv, RoomLeft, size
  <1>11. ASSUME NEW t \in Durations, AddNull(t) PROVE WInv'
    BY <1>11, NullStep DEF WInv
  <1>12. ASSUME NEW t \in Durations, AddNullFails(t) PROVE WInv'
    BY <1>4, <1>12 DEF AddNullFails
  <1>13. CASE AddFails
    BY <1>4, <1>13 DEF AddFails
  <1>14. CASE WebPAnimEncoderAssemble
    BY <1>14 DEF WebPAnimEncoderAssemble, WInv
  <1>15. CASE AssembleFails
    BY <1>4, <1>15 DEF AssembleFails
  <1>16. CASE UNCHANGED vars
    BY <1>16 DEF vars, WInv, RoomLeft, size
  <1>. QED BY <1>6, <1>7, <1>8, <1>9, <1>10, <1>11, <1>12, <1>13, <1>14, <1>15,
              <1>16 DEF Next

LEMMA InitWInv == Init => WInv
  <1>. SUFFICES ASSUME Init PROVE WInv
    OBVIOUS
  <1>1. phase = "adding" /\ enc = NewEncoder
    BY DEF Init
  <1>2. SaneOptions(options)
    BY InitIInv DEF IInv
  <1>3. /\ NewEncoder \in Encoders /\ NewEncoder.start = 0
        /\ count(NewEncoder) = 0 /\ NewEncoder.best_delta = DELTA_INFINITY
    BY NoFrames DEF NewEncoder, count
  <1>4. Used(NewEncoder) <= 1
    BY <1>3 DEF Used
  <1>5. RoomLeft(enc)
    BY <1>1, <1>2, <1>3, <1>4, RoomForOne
  <1>. QED BY <1>1, <1>5 DEF WInv

LEMMA WInvRoom == IInv /\ WInv => RoomForNext
  <1>. SUFFICES ASSUME IInv, WInv PROVE RoomForNext
    OBVIOUS
  <1>1. SaneOptions(options) /\ enc \in Encoders
    BY DEF IInv, Sound, Typed
  <1>2. phase \in {"adding", "ended"} /\ ~enc.got_null_frame => RoomLeft(enc)
    BY DEF WInv
  <1>. QED BY <1>1, <1>2, RoomGivesSlot DEF RoomForNext, WInv

(* However the key frame moves in the window and whatever is split, a slot *)
(* is free for the next frame between two additions, and GetFrame's        *)
(* assertion can only stop an encoder whose window has two slots.          *)
THEOREM EncoderRoomForNext == Spec => []RoomForNext
  <1>1. Init => IInv /\ WInv
    BY InitIInv, InitWInv
  <1>2. IInv /\ WInv /\ [Next]_vars => (IInv /\ WInv)'
    BY NextIInv, NextWInv
  <1>3. IInv /\ WInv => RoomForNext
    BY WInvRoom
  <1>. QED BY <1>1, <1>2, <1>3, PTL DEF Spec

-----------------------------------------------------------------------------
(* Key frames: K holds the positions of the key frames among n frames *)

KeysOf(s) == {i \in 1..Len(s) : s[i].is_key_frame}

(* b is the first key frame behind a *)
Follows(K, a, b) ==
  a \in K /\ b \in K /\ a < b /\ \A x \in K : ~(a < x /\ x < b)

LastIn(K, a) == a \in K /\ \A x \in K : x <= a

(* how far two neighbouring key frames may be apart *)
Distance(d) ==
  /\ d > options.kmin
  /\ options.kmax > 0 => d < 2 * options.kmax - options.kmin
  /\ options.kmax = 0 => d = 1

Spaced(K) == \A a, b \in K : Follows(K, a, b) => Distance(b - a)

(* one of the kmax newest frames is a key frame *)
Recent(K, n) ==
  \E a \in K : n - a < IF options.kmax = 0 THEN 1 ELSE options.kmax

Regular(s) == Spaced(KeysOf(s)) /\ Recent(KeysOf(s), Len(s))

(* a may be the key frame of the round that ended at position b *)
KeyOfRound(a, b) == a <= b /\ (a = b \/ b - a < options.kmax - options.kmin)

(* key is the key frame chosen so far in the round that began behind base *)
Candidate(K, key, base) ==
  /\ key > base + options.kmin /\ LastIn(K, key)
  /\ \E a \in K : KeyOfRound(a, base) /\ Follows(K, a, key)

(* c frames into a round *)
Rounds(K, n, key, c) ==
  /\ Spaced(K) /\ n - c > 0 /\ (c < options.kmax \/ c = 0)
  /\ c <= options.kmin => \E a \in K : KeyOfRound(a, n - c) /\ LastIn(K, a)
  /\ c > options.kmin => Candidate(K, key, n - c)

InRounds(m, e) ==
  LET s == ShownOf(m, e)
  IN  /\ Rounds(KeysOf(s), Len(s), Len(m) + Key(e), e.count_since_key_frame)
      /\ HasKey(e) <=> e.count_since_key_frame > options.kmin

KInv ==
  ~enc.is_first_frame /\ NoPaddingIn(ShownOf(mux, enc)) =>
    /\ phase # "assembled" => InRounds(mux, enc)
    /\ Regular(ShownOf(mux, enc))

(* n + 1 becomes the only key frame behind a *)
LEMMA SpacedBehind ==
  ASSUME NEW n \in Nat, NEW K \in SUBSET (1..n), Spaced(K), NEW a \in K,
         NEW L \in SUBSET K, a \in L, \A x \in K : x \notin L => x > a,
         \A x \in L : x <= a, Distance(n + 1 - a)
  PROVE  /\ Spaced(L \cup {n + 1}) /\ Follows(L \cup {n + 1}, a, n + 1)
         /\ LastIn(L \cup {n + 1}, n + 1)
  <1>. DEFINE M == L \cup {n + 1}
  <1>1. /\ \A x \in K : x \in Int /\ x <= n
        /\ a \in Int /\ a <= n /\ n \in Int /\ n + 1 \in Int
    OBVIOUS
  <1>2. \A x \in L : x \in K /\ x \in Int /\ x <= n
    BY <1>1
  <1>3. Follows(M, a, n + 1)
    <2>1. a \in M /\ n + 1 \in M /\ a < n + 1
      BY <1>1
    <2>2. \A x \in M : ~(a < x /\ x < n + 1)
      BY <1>1, <1>2
    <2>. QED BY <2>1, <2>2 DEF Follows
  <1>4. LastIn(M, n + 1)
    BY <1>1, <1>2 DEF LastIn
  <1>5. ASSUME NEW x \in M, NEW y \in M, Follows(M, x, y)
        PROVE  Distance(y - x)
    <2>1. /\ x < y /\ \A z \in M : ~(x < z /\ z < y)
      BY <1>5 DEF Follows
    <2>2. CASE y = n + 1
      <3>1. x \in L
        BY <1>1, <2>1, <2>2
      <3>2. x = a
        <4>1. ~(x < a /\ a < y)
          BY <2>1
        <4>2. x <= a /\ x \in Int
          BY <1>2, <3>1
        <4>. QED BY <1>1, <2>2, <4>1, <4>2
      <3>. QED BY <2>2, <3>2
    <2>3. CASE y # n + 1
      <3>1. y \in L /\ y \in K /\ y <= a /\ y \in Int /\ y <= n
        BY <1>2, <2>3
      <3>2. x \in L /\ x \in K
        BY <1>1, <1>2, <2>1, <3>1
      <3>3. \A z \in K : ~(x < z /\ z < y)
        <4>. SUFFICES ASSUME NEW z \in K, x < z, z < y PROVE FALSE
          OBVIOUS
        <4>1. z \in M => FALSE
          BY <2>1
        <4>2. z \notin L
          BY <4>1
        <4>3. z > a /\ z \in Int
          BY <1>1, <4>2
        <4>. QED BY <1>1, <3>1, <4>3
      <3>4. Follows(K, x, y)
        BY <2>1, <3>1, <3>2, <3>3 DEF Follows
      <3>. QED BY <3>1, <3>2, <3>4 DEF Spaced
    <2>. QED BY <2>2, <2>3
  <1>6. Spaced(M)
    BY <1>5 DEF Spaced
  <1>. QED BY <1>3, <1>4, <1>6

LEMMA RoundDistance ==
  ASSUME SaneOptions(options), NEW n \in Nat, NEW c \in Nat, NEW a \in Int,
         c < options.kmax \/ c = 0, KeyOfRound(a, n - c), c >= options.kmin
  PROVE  Distance(n + 1 - a)
  <1>1. /\ options.kmin \in Nat /\ options.kmax \in Nat
        /\ IF options.kmax = 0 THEN options.kmin = 0
           ELSE options.kmin < options.kmax
    BY SizeFields
  <1>2. /\ a <= n - c
        /\ a = n - c \/ (n - c) - a < options.kmax - options.kmin
    BY DEF KeyOfRound
  <1>. DEFINE d == n + 1 - a
              p == options.kmin
              q == options.kmax
  <1>3. d = (n + 1) - a
    OBVIOUS
  <1>4. d > p
    BY <1>1, <1>2
  <1>5. q > 0 => d < 2 * q - p
    BY <1>1, <1>2
  <1>6. q = 0 => d = 1
    BY <1>1, <1>2
  <1>. QED BY <1>4, <1>5, <1>6 DEF Distance

(* a sub-frame that cannot be the key frame of the round *)
LEMMA RoundsSub ==
  ASSUME SaneOptions(options), NEW n \in Nat, NEW c \in Nat, NEW K, NEW key,
         NEW key2, Rounds(K, n, key, c), c + 1 <= options.kmin
  PROVE  Rounds(K, n + 1, key2, c + 1)
  <1>1. /\ options.kmin \in Nat /\ options.kmax \in Nat
        /\ IF options.kmax = 0 THEN options.kmin = 0
           ELSE options.kmin < options.kmax
    BY SizeFields
  <1>2. (n + 1) - (c + 1) = n - c
    OBVIOUS
  <1>3. c <= options.kmin /\ ~(c + 1 > options.kmin) /\ c + 1 < options.kmax
    BY <1>1
  <1>4. Spaced(K) /\ n - c > 0
        /\ \E a \in K : KeyOfRound(a, n - c) /\ LastIn(K, a)
    BY <1>3 DEF Rounds
  <1>. QED BY <1>2, <1>3, <1>4 DEF Rounds

(* The new frame is the key frame of the round, in the place of the one    *)
(* chosen so far.                                                          *)
LEMMA RoundsPick ==
  ASSUME SaneOptions(options), NEW n \in Nat, NEW c \in Nat,
         NEW K \in SUBSET (1..n), NEW key, Rounds(K, n, key, c),
         c + 1 > options.kmin,
         NEW L, L = IF c > options.kmin THEN K \ {key} ELSE K
  PROVE  /\ Spaced(L \cup {n + 1})
         /\ Candidate(L \cup {n + 1}, n + 1, n - c)
  <1>. DEFINE M == L \cup {n + 1}
  <1>1. options.kmin \in Nat /\ options.kmax \in Nat
    BY SizeFields
  <1>2. Spaced(K) /\ (c < options.kmax \/ c = 0)
    BY DEF Rounds
  <1>3. \A x \in K : x \in Int /\ x <= n
    OBVIOUS
  <1>4. PICK a \in L : /\ KeyOfRound(a, n - c) /\ \A x \in L : x <= a
                       /\ \A x \in K : x \notin L => x > a
    <2>1. CASE c > options.kmin
      <3>1. LastIn(K, key) /\ \E a \in K : KeyOfRound(a, n - c) /\ Follows(K, a, key)
        BY <2>1 DEF Rounds, Candidate
      <3>2. PICK a \in K : KeyOfRound(a, n - c) /\ Follows(K, a, key)
        BY <3>1
      <3>3. key \in K /\ a < key /\ \A x \in K : ~(a < x /\ x < key)
        BY <3>2 DEF Follows
      <3>4. \A x \in K : x <= key
        BY <3>1 DEF LastIn
      <3>5. L = K \ {key}
        BY <2>1
      <3>6. a \in L
        BY <1>3, <3>3, <3>5
      <3>7. ASSUME NEW x \in L PROVE x <= a
        <4>1. x \in K /\ x # key /\ x \in Int /\ key \in Int /\ a \in Int
          BY <1>3, <3>3, <3>5
        <4>2. x <= key /\ ~(a < x /\ x < key)
          BY <3>3, <3>4, <4>1
        <4>. QED BY <4>1, <4>2
      <3>. QED BY <3>2, <3>3, <3>5, <3>6, <3>7
    <2>2. CASE ~(c > options.kmin)
      <3>1. c <= options.kmin
        BY <1>1, <2>2
      <3>2. PICK a \in K : KeyOfRound(a, n - c) /\ LastIn(K, a)
        BY <3>1 DEF Rounds
      <3>. QED BY <2>2, <3>2 DEF LastIn
    <2>. QED BY <2>1, <2>2
  <1>5. L \in SUBSET K /\ a \in K /\ a \in Int
    BY <1>3
  <1>6. Distance(n + 1 - a)
    <2>1. c >= options.kmin
      BY <1>1
    <2>. QED BY <1>2, <1>4, <1>5, <2>1, RoundDistance
  <1>7. Spaced(M) /\ Follows(M, a, n + 1) /\ LastIn(M, n + 1)
    BY <1>2, <1>4, <1>5, <1>6, SpacedBehind
  <1>8. n + 1 > (n - c) + options.kmin
    BY <1>1
  <1>. QED BY <1>4, <1>7, <1>8 DEF Candidate

(* the round goes on, or the candidate is the final choice *)
LEMMA RoundsGoOn ==
  ASSUME SaneOptions(options), NEW n \in Nat, NEW c \in Nat,
         NEW M \in SUBSET (1..(n + 1)), NEW key, Spaced(M),
         Candidate(M, key, n - c), n - c > 0, c < options.kmax \/ c = 0,
         c + 1 > options.kmin, NEW key2,
         NEW c2, c2 = IF c + 1 >= options.kmax THEN 0 ELSE c + 1,
         c + 1 < options.kmax => key2 = key
  PROVE  Rounds(M, n + 1, key2, c2) /\ (c2 > options.kmin <=> c + 1 < options.kmax)
  <1>1. /\ options.kmin \in Nat /\ options.kmax \in Nat
        /\ IF options.kmax = 0 THEN options.kmin = 0
           ELSE options.kmin < options.kmax
    BY SizeFields
  <1>2. LastIn(M, key) /\ key > (n - c) + options.kmin
    BY DEF Candidate
  <1>3. key \in M /\ key \in Int /\ key <= n + 1
    BY <1>2 DEF LastIn
  <1>4. CASE c + 1 < options.kmax
    <2>1. c2 = c + 1 /\ key2 = key /\ (n + 1) - c2 = n - c
      BY <1>1, <1>4
    <2>. QED BY <1>1, <1>4, <2>1 DEF Rounds
  <1>5. CASE ~(c + 1 < options.kmax)
    <2>1. c2 = 0 /\ (n + 1) - c2 = n + 1 /\ n + 1 > 0
      BY <1>1, <1>5
    <2>2. key = n + 1 \/ (n + 1) - key < options.kmax - options.kmin
      BY <1>1, <1>2, <1>3, <1>5
    <2>3. KeyOfRound(key, n + 1)
      BY <1>3, <2>2 DEF KeyOfRound
    <2>4. 0 <= options.kmin /\ ~(0 > options.kmin)
      BY <1>1
    <2>. QED BY <1>1, <1>2, <1>3, <1>5, <2>1, <2>3, <2>4 DEF Rounds
  <1>. QED BY <1>4, <1>5

LEMMA SameKeysOf ==
  ASSUME NEW s, NEW s2, Len(s2) = Len(s),
         \A i \in 1..Len(s) : s2[i].is_key_frame = s[i].is_key_frame
  PROVE  KeysOf(s2) = KeysOf(s)
  BY DEF KeysOf

LEMMA GrownKeys ==
  ASSUME NEW s \in Seq(ShownFrames), NEW s2, NEW canvas, NEW old \in Nat,
         Grows(s2, s, canvas), KeepsKeys(s2, s, old)
  PROVE  KeysOf(s2) = (KeysOf(s) \ {old})
                        \cup (IF s2[Len(s) + 1].is_key_frame
                              THEN {Len(s) + 1} ELSE {})
  <1>1. Len(s) \in Nat /\ Len(s2) = Len(s) + 1
    BY DEF Grows
  <1>2. /\ \A i \in 1..Len(s) : i # old => s2[i].is_key_frame = s[i].is_key_frame
        /\ old \in 1..Len(s) => ~s2[old].is_key_frame
    BY DEF KeepsKeys
  <1>3. \A i \in 1..(Len(s) + 1) : i \in 1..Len(s) \/ i = Len(s) + 1
    BY <1>1
  <1>4. \A i \in 1..Len(s) : i \in 1..(Len(s) + 1) /\ i # Len(s) + 1
    BY <1>1
  <1>5. Len(s) + 1 \in 1..(Len(s) + 1)
    BY <1>1
  <1>. DEFINE K == KeysOf(s)
              K2 == KeysOf(s2)
              M == (K \ {old}) \cup (IF s2[Len(s) + 1].is_key_frame
                                     THEN {Len(s) + 1} ELSE {})
  <1>6. /\ \A i : i \in K <=> i \in 1..Len(s) /\ s[i].is_key_frame
        /\ \A i : i \in K2 <=> i \in 1..(Len(s) + 1) /\ s2[i].is_key_frame
    BY <1>1 DEF KeysOf
  <1>7. ASSUME NEW i PROVE i \in M <=> \/ i \in K /\ i # old
                                       \/ i = Len(s) + 1 /\ s2[i].is_key_frame
    OBVIOUS
  <1>. HIDE DEF K, K2, M
  <1>8. ASSUME NEW i PROVE i \in K2 <=> i \in M
    <2>1. CASE i \in 1..Len(s) /\ i # old
      BY <1>2, <1>4, <1>6, <1>7, <2>1
    <2>2. CASE i \in 1..Len(s) /\ i = old
      BY <1>2, <1>4, <1>6, <1>7, <2>2
    <2>3. CASE i \notin 1..Len(s)
      BY <1>3, <1>5, <1>6, <1>7, <2>3
    <2>. QED BY <2>1, <2>2, <2>3
  <1>9. K2 = M
    BY <1>8
  <1>. QED BY <1>9 DEF K2, M, K

LEMMA GrownPadding ==
  ASSUME NEW s \in Seq(ShownFrames), NEW s2, NEW canvas, Grows(s2, s, canvas),
         NoPaddingIn(s2)
  PROVE  NoPaddingIn(s)
  <1>1. Len(s) \in Nat /\ Len(s2) = Len(s) + 1
    BY DEF Grows
  <1>2. ASSUME NEW i \in 1..Len(s) PROVE ~s[i].padding
    <2>1. i \in 1..Len(s2)
      BY <1>1
    <2>2. s2[i].padding = s[i].padding
      BY DEF Grows, ShowsSame
    <2>. QED BY <2>1, <2>2 DEF NoPaddingIn
  <1>. QED BY <1>2 DEF NoPaddingIn

LEMMA LongerKeys ==
  ASSUME NEW s \in Seq(ShownFrames), Len(s) \in 1..Len(s), NEW s2, NEW t,
         Longer(s2, s, t), NoPaddingIn(s2)
  PROVE  /\ NoPaddingIn(s) /\ KeysOf(s2) = KeysOf(s) /\ Len(s2) = Len(s)
         /\ s2 \in Seq(ShownFrames)
  <1>. DEFINE l == Len(s)
              x == [s[l] EXCEPT !.duration = s[l].duration + t]
  <1>1. CASE \E p \in ShownFrames : p.padding /\ s2 = Append(s, p)
    <2>1. PICK p \in ShownFrames : p.padding /\ s2 = Append(s, p)
      BY <1>1
    <2>2. Len(s2) = Len(s) + 1 /\ s2[Len(s) + 1].padding
      BY <2>1, AppendFields
    <2>3. Len(s) + 1 \in 1..Len(s2)
      BY <2>2
    <2>. QED BY <2>2, <2>3 DEF NoPaddingIn
  <1>2. CASE s[l].duration + t \in 0..(MAX_DURATION - 1) /\ s2 = [s EXCEPT ![l] = x]
    <2>1. s[l] \in ShownFrames
      OBVIOUS
    <2>2. /\ x \in ShownFrames /\ x.is_key_frame = s[l].is_key_frame
          /\ x.padding = s[l].padding
      BY <1>2, <2>1 DEF ShownFrames
    <2>. HIDE DEF x
    <2>3. /\ Len(s2) = Len(s) /\ s2 \in Seq(ShownFrames)
          /\ \A i \in 1..Len(s) : s2[i] = IF i = l THEN x ELSE s[i]
      BY <1>2, <2>2
    <2>4. \A i \in 1..Len(s) : /\ s2[i].is_key_frame = s[i].is_key_frame
                               /\ s2[i].padding = s[i].padding
      BY <2>2, <2>3
    <2>5. KeysOf(s2) = KeysOf(s)
      BY <2>3, <2>4, SameKeysOf
    <2>6. NoPaddingIn(s)
      BY <2>3, <2>4 DEF NoPaddingIn
    <2>. QED BY <2>3, <2>5, <2>6
  <1>. QED BY <1>1, <1>2 DEF Longer

LEMMA AdvancedRounds ==
  ASSUME NEW m, NEW e, Sound(m, e), LastCached(e), NEW a, NEW t,
         Increases(m, e, a, t), NoPaddingIn(ShownOf(m, a))
  PROVE  /\ NoPaddingIn(ShownOf(m, e))
         /\ KeysOf(ShownOf(m, a)) = KeysOf(ShownOf(m, e))
         /\ Len(ShownOf(m, a)) = Len(ShownOf(m, e))
         /\ InRounds(m, e) => InRounds(m, a)
         /\ a.flush_count = 0 /\ a.best_delta = e.best_delta
         /\ a.count_since_key_frame = e.count_since_key_frame
         /\ Sound(m, a) /\ a \in Encoders
  <1>1. /\ ShownOf(m, e) \in Seq(ShownFrames)
        /\ Len(ShownOf(m, e)) \in 1..Len(ShownOf(m, e))
    BY LastOfShown
  <1>2. /\ Longer(ShownOf(m, a), ShownOf(m, e), t) /\ a.keyframe = e.keyframe
        /\ a.best_delta = e.best_delta /\ a \in Encoders /\ Sound(m, a)
        /\ IF Overflows(e, t) THEN ~NoPaddingIn(ShownOf(m, a))
           ELSE /\ a.flush_count = 0
                /\ a.count_since_key_frame = e.count_since_key_frame
    BY DEF Increases, Ready
  <1>3. /\ NoPaddingIn(ShownOf(m, e))
        /\ KeysOf(ShownOf(m, a)) = KeysOf(ShownOf(m, e))
        /\ Len(ShownOf(m, a)) = Len(ShownOf(m, e))
    BY <1>1, <1>2, LongerKeys
  <1>4. Key(a) = Key(e) /\ (HasKey(a) <=> HasKey(e))
        /\ a.count_since_key_frame = e.count_since_key_frame /\ a.flush_count = 0
    BY <1>2 DEF Key, HasKey
  <1>5. InRounds(m, e) => InRounds(m, a)
    BY <1>3, <1>4 DEF InRounds
  <1>. QED BY <1>2, <1>3, <1>4, <1>5

LEMMA FlushedRounds ==
  ASSUME SaneOptions(options), NEW m \in Seq(ShownFrames), NEW c \in Encoders,
         NEW p, NEW g, Flushes(m, c, p, g), InRounds(m, c),
         HasKey(c) => c.keyframe >= c.flush_count
  PROVE  InRounds(p, g)
  <1>1. /\ ShownOf(p, g) = ShownOf(m, c) /\ Len(p) = Len(m) + c.flush_count
        /\ g.keyframe = IF c.keyframe < c.flush_count THEN KEYFRAME_NONE
                        ELSE c.keyframe - c.flush_count
        /\ g.count_since_key_frame = c.count_since_key_frame
    BY DEF Flushes
  <1>2. /\ c.keyframe \in Int /\ c.flush_count \in Nat /\ Len(m) \in Nat
        /\ c.count_since_key_frame \in Nat /\ options.kmin \in Nat
    BY EncoderFields, SizeFields
  <1>. DEFINE s == ShownOf(m, c)
              k == Len(m) + Key(c)
  <1>3. /\ Rounds(KeysOf(s), Len(s), k, c.count_since_key_frame)
        /\ HasKey(c) <=> c.count_since_key_frame > options.kmin
    BY DEF InRounds
  <1>. HIDE DEF s, k
  <1>4. CASE HasKey(c)
    <2>1. g.keyframe = c.keyframe - c.flush_count /\ g.keyframe >= 0
      BY <1>1, <1>2, <1>4
    <2>2. HasKey(g)
      BY <2>1 DEF HasKey, KEYFRAME_NONE
    <2>3. Len(p) + Key(g) = k
      BY <1>1, <1>2, <2>1 DEF Key, k
    <2>. QED BY <1>1, <1>3, <1>4, <2>2, <2>3 DEF InRounds, s
  <1>5. CASE ~HasKey(c)
    <2>1. g.keyframe = KEYFRAME_NONE
      BY <1>1, <1>2, <1>5 DEF HasKey, KEYFRAME_NONE
    <2>2. c.count_since_key_frame <= options.kmin
          /\ ~(c.count_since_key_frame > options.kmin)
      BY <1>2, <1>3, <1>5
    <2>3. Rounds(KeysOf(s), Len(s), Len(p) + Key(g), c.count_since_key_frame)
      BY <1>3, <2>2 DEF Rounds
    <2>. QED BY <1>1, <2>1, <2>2, <2>3 DEF InRounds, HasKey, s
  <1>. QED BY <1>4, <1>5

LEMMA ShownNumbers ==
  ASSUME NEW m, NEW e, Sound(m, e)
  PROVE  LET s == ShownOf(m, e)
         IN  /\ s \in Seq(ShownFrames) /\ m \in Seq(ShownFrames) /\ e \in Encoders
             /\ Len(s) = Len(m) + count(e) /\ Len(s) \in Nat /\ Len(m) \in Nat
             /\ count(e) \in Nat /\ KeysOf(s) \in SUBSET (1..Len(s))
             /\ e.count_since_key_frame \in Nat
  <1>1. m \in Seq(ShownFrames) /\ e \in Encoders
    BY DEF Sound, Typed
  <1>2. /\ ShownOf(m, e) \in Seq(ShownFrames)
        /\ Len(ShownOf(m, e)) = Len(m) + count(e)
        /\ count(e) \in Nat /\ e.count_since_key_frame \in Nat
    BY <1>1, ShownFields, EncoderFields
  <1>3. KeysOf(ShownOf(m, e)) \in SUBSET (1..Len(ShownOf(m, e)))
    BY DEF KeysOf
  <1>. QED BY <1>1, <1>2, <1>3

LEMMA SkippingRounds ==
  ASSUME SaneOptions(options), NEW m, NEW a, NEW c, NEW canvas, NEW p, NEW g,
         Sound(m, a), InRounds(m, a), a.flush_count = 0,
         Skipping(m, a, c, canvas), c \in Encoders, Flushes(m, c, p, g)
  PROVE  InRounds(p, g)
  <1>1. /\ c.keyframe = a.keyframe /\ c.flush_count = a.flush_count
        /\ c.count_since_key_frame = a.count_since_key_frame
        /\ ShownOf(m, c) = ShownOf(m, a)
    BY DEF Skipping
  <1>2. InRounds(m, c)
    BY <1>1 DEF InRounds, HasKey, Key
  <1>3. HasKey(c) => c.keyframe >= c.flush_count
    <2>1. HasKey(a) => Key(a) \in 1..count(a)
      BY DEF Sound, Pointed
    <2>2. a.keyframe \in Int /\ count(a) \in Nat
      BY EncoderFields DEF Sound, Typed
    <2>. QED BY <1>1, <2>1, <2>2 DEF HasKey, Key
  <1>4. m \in Seq(ShownFrames)
    BY DEF Sound, Typed
  <1>. QED BY <1>2, <1>3, <1>4, FlushedRounds

LEMMA TakingSubRounds ==
  ASSUME SaneOptions(options), NEW m, NEW a, NEW c, NEW canvas, NEW p, NEW g,
         Sound(m, a), InRounds(m, a), Takes(m, a, c, canvas), TakesSub(m, a, c),
         a.count_since_key_frame + 1 <= options.kmin, c \in Encoders,
         Flushes(m, c, p, g)
  PROVE  InRounds(p, g)
  <1>. DEFINE s == ShownOf(m, a)
              s2 == ShownOf(m, c)
  <1>1. /\ s \in Seq(ShownFrames) /\ m \in Seq(ShownFrames) /\ Len(s) \in Nat
        /\ a.count_since_key_frame \in Nat /\ KeysOf(s) \in SUBSET (1..Len(s))
    BY ShownNumbers
  <1>2. /\ c.keyframe = a.keyframe
        /\ c.count_since_key_frame = a.count_since_key_frame + 1
        /\ Grows(s2, s, canvas) /\ ~s2[Len(s) + 1].is_key_frame
        /\ KeepsKeys(s2, s, 0)
    BY DEF Takes, TakesSub
  <1>3. /\ Rounds(KeysOf(s), Len(s), Len(m) + Key(a), a.count_since_key_frame)
        /\ HasKey(a) <=> a.count_since_key_frame > options.kmin
    BY DEF InRounds
  <1>. HIDE DEF s, s2
  <1>4. KeysOf(s2) = KeysOf(s)
    <2>1. KeysOf(s2) = (KeysOf(s) \ {0}) \cup {}
      BY <1>1, <1>2, GrownKeys
    <2>. QED BY <1>1, <2>1
  <1>5. Len(s2) = Len(s) + 1
    BY <1>2 DEF Grows
  <1>6. options.kmin \in Nat
    BY SizeFields
  <1>7. a.count_since_key_frame + 1 <= options.kmin
    OBVIOUS
  <1>8. /\ ~HasKey(c) /\ ~(c.count_since_key_frame > options.kmin)
    BY <1>1, <1>2, <1>3, <1>6, <1>7 DEF HasKey
  <1>9. Rounds(KeysOf(s), Len(s) + 1, Len(m) + Key(c), a.count_since_key_frame + 1)
    BY <1>1, <1>3, <1>7, RoundsSub
  <1>10. InRounds(m, c)
    BY <1>2, <1>4, <1>5, <1>8, <1>9 DEF InRounds, s2
  <1>. QED BY <1>1, <1>8, <1>10, FlushedRounds

LEMMA TakingBothRounds ==
  ASSUME SaneOptions(options), NEW m, NEW a, NEW c, NEW canvas, NEW p, NEW g,
         NEW penalty \in Penalties, Sound(m, a), InRounds(m, a),
         a.flush_count = 0, Takes(m, a, c, canvas), TakesBoth(m, a, c, penalty),
         a.count_since_key_frame + 1 > options.kmin, c \in Encoders,
         a.count_since_key_frame <= options.kmin =>
           a.best_delta = DELTA_INFINITY,
         Flushes(m, c, p, g)
  PROVE  InRounds(p, g)
  <1>. DEFINE s == ShownOf(m, a)
              s2 == ShownOf(m, c)
              n == Len(s)
              k == a.count_since_key_frame
              picked == penalty <= a.best_delta
              closed == k + 1 >= options.kmax
              L == IF k > options.kmin THEN KeysOf(s) \ {Len(m) + Key(a)}
                   ELSE KeysOf(s)
              M == IF picked THEN L \cup {n + 1} ELSE KeysOf(s)
              key == IF picked THEN n + 1 ELSE Len(m) + Key(a)
  <1>1. /\ s \in Seq(ShownFrames) /\ m \in Seq(ShownFrames) /\ n \in Nat
        /\ k \in Nat /\ KeysOf(s) \in SUBSET (1..n) /\ n = Len(m) + count(a)
        /\ Len(m) \in Nat /\ count(a) \in Nat
    BY ShownNumbers
  <1>2. /\ Grows(s2, s, canvas) /\ (s2[n + 1].is_key_frame <=> picked)
        /\ KeepsKeys(s2, s, IF picked THEN OldKey(m, a) ELSE 0)
        /\ IF closed
           THEN c.count_since_key_frame = 0 /\ ~HasKey(c)
           ELSE /\ c.count_since_key_frame = k + 1
                /\ c.keyframe = IF picked THEN count(a) ELSE a.keyframe
                /\ c.flush_count = IF picked THEN count(a) ELSE a.flush_count
    BY DEF Takes, TakesBoth
  <1>3. /\ Rounds(KeysOf(s), n, Len(m) + Key(a), k)
        /\ HasKey(a) <=> k > options.kmin
    BY DEF InRounds
  <1>4. options.kmin \in Nat /\ options.kmax \in Nat
    BY SizeFields
  <1>5. HasKey(a) => Key(a) \in 1..count(a) /\ a.keyframe >= 0
    <2>1. HasKey(a) => Key(a) \in 1..count(a)
      BY DEF Sound, Pointed
    <2>2. a.keyframe \in Int
      BY EncoderFields DEF Sound, Typed
    <2>. QED BY <1>1, <2>1, <2>2 DEF Key
  <1>6. ~picked => k > options.kmin
    <2>1. penalty \in Int /\ penalty < DELTA_INFINITY /\ DELTA_INFINITY \in Int
      BY EncoderAssumption
    <2>. QED BY <1>1, <1>4, <2>1
  <1>7. k + 1 > options.kmin /\ a.flush_count = 0
    OBVIOUS
  <1>. HIDE DEF s, s2, n, k, picked
  <1>8. KeysOf(s2) = M
    <2>1. CASE picked
      <3>1. OldKey(m, a) \in Nat
        BY <1>1, <1>5 DEF OldKey
      <3>2. KeysOf(s2) = (KeysOf(s) \ {OldKey(m, a)}) \cup {n + 1}
        BY <1>1, <1>2, <2>1, <3>1, GrownKeys DEF n
      <3>3. KeysOf(s) \ {OldKey(m, a)} = L
        BY <1>1, <1>3 DEF OldKey
      <3>. QED BY <2>1, <3>2, <3>3
    <2>2. CASE ~picked
      <3>1. KeysOf(s2) = (KeysOf(s) \ {0}) \cup {}
        BY <1>1, <1>2, <2>2, GrownKeys DEF n
      <3>. QED BY <1>1, <2>2, <3>1
    <2>. QED BY <2>1, <2>2
  <1>9. Len(s2) = n + 1
    BY <1>2 DEF Grows, n
  <1>10. /\ Spaced(KeysOf(s)) /\ n - k > 0 /\ (k < options.kmax \/ k = 0)
         /\ k > options.kmin => Candidate(KeysOf(s), Len(m) + Key(a), n - k)
    BY <1>3 DEF Rounds
  <1>11. Spaced(M) /\ Candidate(M, key, n - k)
    <2>1. CASE picked
      <3>1. /\ Spaced(L \cup {n + 1})
            /\ Candidate(L \cup {n + 1}, n + 1, n - k)
        BY <1>1, <1>3, <1>7, RoundsPick
      <3>. QED BY <2>1, <3>1
    <2>2. CASE ~picked
      BY <1>6, <1>10, <2>2
    <2>. QED BY <2>1, <2>2
  <1>12. M \in SUBSET (1..(n + 1))
    <2>1. KeysOf(s) \in SUBSET (1..(n + 1)) /\ n + 1 \in 1..(n + 1)
      BY <1>1
    <2>. QED BY <2>1
  <1>13. c.count_since_key_frame = IF closed THEN 0 ELSE k + 1
    BY <1>2
  <1>14. ~closed => /\ Len(m) + Key(c) = key /\ HasKey(c)
                    /\ c.keyframe >= c.flush_count
    <2>. SUFFICES ASSUME ~closed
                  PROVE  /\ Len(m) + Key(c) = key /\ HasKey(c)
                         /\ c.keyframe >= c.flush_count
      OBVIOUS
    <2>1. CASE picked
      <3>1. c.keyframe = count(a) /\ c.flush_count = count(a)
        BY <1>2, <2>1
      <3>. QED BY <1>1, <2>1, <3>1 DEF Key, HasKey, KEYFRAME_NONE
    <2>2. CASE ~picked
      <3>1. HasKey(a) /\ c.keyframe = a.keyframe /\ c.flush_count = 0
        BY <1>2, <1>3, <1>6, <1>7, <2>2
      <3>. QED BY <1>5, <2>2, <3>1 DEF Key, HasKey
    <2>. QED BY <2>1, <2>2
  <1>15. closed <=> ~(k + 1 < options.kmax)
    BY <1>1, <1>4
  <1>. HIDE DEF M, key, closed, L
  <1>16. /\ Rounds(M, n + 1, Len(m) + Key(c), c.count_since_key_frame)
         /\ c.count_since_key_frame > options.kmin <=> k + 1 < options.kmax
    BY <1>1, <1>7, <1>10, <1>11, <1>12, <1>13, <1>14, <1>15, RoundsGoOn DEF closed
  <1>17. HasKey(c) <=> c.count_since_key_frame > options.kmin
    BY <1>2, <1>14, <1>15, <1>16
  <1>18. InRounds(m, c)
    BY <1>8, <1>9, <1>16, <1>17 DEF InRounds, s2
  <1>19. HasKey(c) => c.keyframe >= c.flush_count
    BY <1>2, <1>14
  <1>. QED BY <1>1, <1>18, <1>19, FlushedRounds

(* the options never change *)
LEMMA SameRounds ==
  ASSUME options' = options,
         ~enc'.is_first_frame /\ NoPaddingIn(ShownOf(mux', enc')) =>
           /\ phase' # "assembled" => InRounds(mux', enc')
           /\ Regular(ShownOf(mux', enc'))
  PROVE  KInv'
  BY DEF KInv, InRounds, Rounds, Regular, Spaced, Recent, Distance, Candidate,
         KeyOfRound

LEMMA RoundsRecent ==
  ASSUME SaneOptions(options), NEW n \in Nat, NEW c \in Nat,
         NEW K \in SUBSET (1..n), NEW key, Rounds(K, n, key, c)
  PROVE  Recent(K, n)
  <1>1. /\ options.kmin \in Nat /\ options.kmax \in Nat
        /\ IF options.kmax = 0 THEN options.kmin = 0
           ELSE options.kmin < options.kmax
    BY SizeFields
  <1>2. c < options.kmax \/ c = 0
    BY DEF Rounds
  <1>3. CASE c <= options.kmin
    <2>1. PICK a \in K : KeyOfRound(a, n - c)
      BY <1>3 DEF Rounds
    <2>2. a \in Int /\ a <= n - c
          /\ (a = n - c \/ (n - c) - a < options.kmax - options.kmin)
      BY <2>1 DEF KeyOfRound
    <2>3. n - a < IF options.kmax = 0 THEN 1 ELSE options.kmax
      BY <1>1, <1>2, <1>3, <2>2
    <2>. QED BY <2>3 DEF Recent
  <1>4. CASE c > options.kmin
    <2>1. key > (n - c) + options.kmin /\ key \in K
      BY <1>4 DEF Rounds, Candidate, LastIn
    <2>2. key \in Int /\ key <= n
      BY <2>1
    <2>3. n - key < IF options.kmax = 0 THEN 1 ELSE options.kmax
      BY <1>1, <1>2, <1>4, <2>1, <2>2
    <2>. QED BY <2>1, <2>3 DEF Recent
  <1>. QED BY <1>1, <1>3, <1>4

LEMMA RoundsRegular ==
  ASSUME NEW m, NEW e, SaneOptions(options), Sound(m, e), InRounds(m, e)
  PROVE  Regular(ShownOf(m, e))
  <1>. DEFINE s == ShownOf(m, e)
  <1>1. /\ Len(s) \in Nat /\ KeysOf(s) \in SUBSET (1..Len(s))
        /\ e.count_since_key_frame \in Nat
    BY ShownNumbers
  <1>2. Rounds(KeysOf(s), Len(s), Len(m) + Key(e), e.count_since_key_frame)
    BY DEF InRounds
  <1>. HIDE DEF s
  <1>3. Recent(KeysOf(s), Len(s))
    BY <1>1, <1>2, RoundsRecent
  <1>4. Spaced(KeysOf(s))
    BY <1>2 DEF Rounds
  <1>. QED BY <1>3, <1>4 DEF Regular, s

LEMMA AddedKInv ==
  ASSUME IInv, IInv', WInv, KInv, NEW canvas \in Canvases, NEW t \in Durations,
         NEW c, Adds(canvas, t, c),
         NoPaddingIn(ShownOf(mux, c)) => NoPaddingIn(ShownOf(mux, Advanced(t))),
         /\ InRounds(mux, Advanced(t)) /\ Advanced(t).flush_count = 0
         /\ Sound(mux, Advanced(t))
         /\ Advanced(t).count_since_key_frame <= options.kmin =>
              Advanced(t).best_delta = DELTA_INFINITY
         => InRounds(mux', enc')
  PROVE  KInv'
  <1>. DEFINE a == Advanced(t)
  <1>1. /\ ~enc.is_first_frame /\ BeginAdd(canvas, t) /\ Increases(mux, enc, a, t)
        /\ ShownOf(mux', enc') = ShownOf(mux, c)
    BY DEF Adds, Flushes
  <1>2. phase = "adding" /\ options' = options /\ SaneOptions(options)
    BY <1>1, BeginsAdd
  <1>3. /\ Sound(mux, enc) /\ LastCached(enc) /\ enc \in Encoders
        /\ ~enc.got_null_frame
    BY <1>1, <1>2 DEF IInv, Sound, Typed
  <1>4. ASSUME NoPaddingIn(ShownOf(mux', enc')) PROVE InRounds(mux', enc')
    <2>1. NoPaddingIn(ShownOf(mux, a))
      BY <1>1, <1>4
    <2>. HIDE DEF a
    <2>2. /\ NoPaddingIn(ShownOf(mux, enc)) /\ a.flush_count = 0 /\ Sound(mux, a)
          /\ InRounds(mux, enc) => InRounds(mux, a)
      BY <1>1, <1>3, <2>1, AdvancedRounds
    <2>3. InRounds(mux, enc)
      BY <1>1, <1>2, <2>2 DEF KInv
    <2>4. RoomLeft(enc)
      BY <1>2, <1>3 DEF WInv
    <2>5. a.count_since_key_frame <= options.kmin => a.best_delta = DELTA_INFINITY
      BY <1>1, <1>2, <1>3, <2>4, AdvancedRoom
    <2>. QED BY <2>2, <2>3, <2>5 DEF a
  <1>5. InRounds(mux', enc') => Regular(ShownOf(mux', enc'))
    BY <1>2, RoundsRegular DEF IInv
  <1>. QED BY <1>2, <1>4, <1>5, SameRounds

LEMMA FirstKInv ==
  ASSUME IInv, IInv', NEW canvas \in Canvases, AddFirst(canvas)
  PROVE  KInv'
  <1>. DEFINE c == CachedFirst(NewEncoder, canvas)
              s == ShownOf(<<>>, c)
  <1>1. /\ Flushes(<<>>, c, mux', enc') /\ c \in Encoders /\ mux' = <<>>
        /\ options' = options /\ SaneOptions(options)
    BY FirstStep
  <1>2. /\ ~HasKey(c) /\ c.count_since_key_frame = 0 /\ c.flush_count = 0
        /\ Len(s) = 1 /\ s[1].is_key_frame
    BY AddsFirst
  <1>. HIDE DEF c, s
  <1>3. KeysOf(s) = {1}
    BY <1>2 DEF KeysOf
  <1>4. options.kmin \in Nat /\ options.kmax \in Nat
    BY <1>1, SizeFields
  <1>5. Spaced({1})
    BY DEF Spaced, Follows
  <1>6. KeyOfRound(1, 1 - 0) /\ LastIn({1}, 1)
    BY DEF KeyOfRound, LastIn
  <1>7. \A key : Rounds({1}, 1, key, 0)
    BY <1>4, <1>5, <1>6 DEF Rounds
  <1>8. ~(c.count_since_key_frame > options.kmin)
    BY <1>2, <1>4
  <1>9. InRounds(<<>>, c)
    BY <1>2, <1>3, <1>7, <1>8 DEF InRounds, s
  <1>10. <<>> \in Seq(ShownFrames)
    OBVIOUS
  <1>11. InRounds(mux', enc')
    BY <1>1, <1>2, <1>9, <1>10, FlushedRounds
  <1>12. Regular(ShownOf(mux', enc'))
    BY <1>1, <1>11, RoundsRegular DEF IInv
  <1>. QED BY <1>1, <1>11, <1>12, SameRounds

LEMMA NullKInv ==
  ASSUME IInv, IInv', KInv, NEW t \in Durations, AddNull(t)
  PROVE  KInv'
  <1>. DEFINE a == Advanced(t)
  <1>1. /\ mux' = mux /\ options' = options /\ phase = "adding"
        /\ enc'.is_first_frame = enc.is_first_frame
        /\ ShownOf(mux, enc') = ShownOf(mux, a)
        /\ ~enc.is_first_frame =>
             /\ Increases(mux, enc, a, t)
             /\ enc'.count_since_key_frame = a.count_since_key_frame
             /\ enc'.keyframe = a.keyframe
    BY NullStep DEF AddNull
  <1>2. ASSUME ~enc'.is_first_frame, NoPaddingIn(ShownOf(mux', enc'))
        PROVE  InRounds(mux', enc')
    <2>1. ~enc.is_first_frame
      BY <1>1, <1>2
    <2>2. Sound(mux, enc) /\ LastCached(enc)
      BY <1>1, <2>1 DEF IInv
    <2>3. NoPaddingIn(ShownOf(mux, a))
      BY <1>1, <1>2
    <2>. HIDE DEF a
    <2>4. NoPaddingIn(ShownOf(mux, enc)) /\ (InRounds(mux, enc) => InRounds(mux, a))
      BY <1>1, <2>1, <2>2, <2>3, AdvancedRounds
    <2>5. InRounds(mux, a)
      BY <1>1, <2>1, <2>4 DEF KInv
    <2>. QED BY <1>1, <2>1, <2>5 DEF InRounds, HasKey, Key
  <1>3. InRounds(mux', enc') => Regular(ShownOf(mux', enc'))
    BY <1>1, RoundsRegular DEF IInv
  <1>. QED BY <1>1, <1>2, <1>3, SameRounds

LEMMA AssembleKInv ==
  ASSUME IInv, KInv, WebPAnimEncoderAssemble
  PROVE  KInv'
  <1>1. /\ ShownOf(mux', enc') = ShownOf(mux, Completed) /\ phase = "ended"
        /\ phase' = "assembled" /\ options' = options /\ enc.in_frame_count > 0
    BY AssembleStep
  <1>2. /\ ~enc.is_first_frame /\ LastCached(enc) /\ Sound(mux, enc)
        /\ IF NeedsAverage
           THEN /\ average \in 0..(MAX_DURATION - 1)
                /\ Increases(mux, enc, Completed, average)
           ELSE Completed = enc
    BY <1>1, Completes
  <1>3. ASSUME NoPaddingIn(ShownOf(mux, Completed))
        PROVE  /\ NoPaddingIn(ShownOf(mux, enc))
               /\ KeysOf(ShownOf(mux, Completed)) = KeysOf(ShownOf(mux, enc))
               /\ Len(ShownOf(mux, Completed)) = Len(ShownOf(mux, enc))
    BY <1>2, <1>3, AdvancedRounds
  <1>4. NoPaddingIn(ShownOf(mux, enc)) => Regular(ShownOf(mux, enc))
    BY <1>2 DEF KInv
  <1>5. NoPaddingIn(ShownOf(mux', enc')) => Regular(ShownOf(mux', enc'))
    BY <1>1, <1>3, <1>4 DEF Regular
  <1>. QED BY <1>1, <1>5, SameRounds

LEMMA TakenPadding ==
  ASSUME NEW m, NEW a, NEW c, NEW canvas, Ready(m, a, a.prev_canvas),
         Takes(m, a, c, canvas), NoPaddingIn(ShownOf(m, c))
  PROVE  NoPaddingIn(ShownOf(m, a))
  <1>1. ShownOf(m, a) \in Seq(ShownFrames)
    BY ShownNumbers DEF Ready
  <1>2. Grows(ShownOf(m, c), ShownOf(m, a), canvas)
    BY DEF Takes
  <1>. QED BY <1>1, <1>2, GrownPadding

LEMMA NextKInv == IInv /\ WInv /\ KInv /\ [Next]_vars => KInv'
  <1>. SUFFICES ASSUME IInv, WInv, KInv, [Next]_vars PROVE KInv'
    OBVIOUS
  <1>0. IInv'
    BY NextIInv
  <1>1. ASSUME phase # "assembled", UNCHANGED <<options, enc, mux, input>>
        PROVE  KInv'
    BY <1>1, SameRounds DEF KInv
  <1>2. ASSUME NEW canvas \in Canvases, NEW t \in Durations,
               ~enc.is_first_frame, BeginAdd(canvas, t)
        PROVE  SaneOptions(options)
    BY <1>2, BeginsAdd
  <1>3. ASSUME NEW canvas \in Canvases, AddFirst(canvas) PROVE KInv'
    BY <1>0, <1>3, FirstKInv
  <1>4. ASSUME NEW canvas \in Canvases, NEW t \in Durations,
               AddSkipped(canvas, t)
        PROVE  KInv'
    <2>. DEFINE a == Advanced(t)
                c == Skipped(a)
    <2>1. Adds(canvas, t, c) /\ Skipping(mux, a, c, canvas)
      BY <1>4, SkippingStep
    <2>. HIDE DEF a, c
    <2>2. ShownOf(mux, c) = ShownOf(mux, a)
      BY <2>1 DEF Skipping
    <2>3. /\ SaneOptions(options) /\ c \in Encoders
          /\ Flushes(mux, c, mux', enc')
      BY <1>2, <2>1 DEF Adds
    <2>4. Sound(mux, a) /\ InRounds(mux, a) /\ a.flush_count = 0
          => InRounds(mux', enc')
      BY <2>1, <2>3, SkippingRounds
    <2>. QED BY <1>0, <2>1, <2>2, <2>4, AddedKInv DEF a
  <1>5. ASSUME NEW canvas \in Canvases, NEW t \in Durations, AddSub(canvas, t)
        PROVE  KInv'
    <2>. DEFINE a == Advanced(t)
    <2>1. PICK c : /\ Adds(canvas, t, c) /\ Takes(mux, a, c, canvas)
                   /\ TakesSub(mux, a, c)
                   /\ a.count_since_key_frame + 1 <= options.kmin
      BY <1>5, SubStep
    <2>2. /\ SaneOptions(options) /\ c \in Encoders
          /\ Flushes(mux, c, mux', enc') /\ Ready(mux, a, a.prev_canvas)
      BY <1>2, <2>1 DEF Adds
    <2>. HIDE DEF a
    <2>3. NoPaddingIn(ShownOf(mux, c)) => NoPaddingIn(ShownOf(mux, a))
      BY <2>1, <2>2, TakenPadding
    <2>4. Sound(mux, a) /\ InRounds(mux, a) => InRounds(mux', enc')
      BY <2>1, <2>2, TakingSubRounds
    <2>. QED BY <1>0, <2>1, <2>3, <2>4, AddedKInv DEF a
  <1>6. ASSUME NEW canvas \in Canvases, NEW t \in Durations, AddBoth(canvas, t)
        PROVE  KInv'
    <2>. DEFINE a == Advanced(t)
    <2>1. PICK c : \E penalty \in Penalties :
                     /\ Adds(canvas, t, c) /\ Takes(mux, a, c, canvas)
                     /\ TakesBoth(mux, a, c, penalty)
                     /\ a.count_since_key_frame + 1 > options.kmin
      BY <1>6, BothStep
    <2>2. /\ SaneOptions(options) /\ c \in Encoders
          /\ Flushes(mux, c, mux', enc') /\ Ready(mux, a, a.prev_canvas)
      BY <1>2, <2>1 DEF Adds
    <2>. HIDE DEF a
    <2>3. NoPaddingIn(ShownOf(mux, c)) => NoPaddingIn(ShownOf(mux, a))
      BY <2>1, <2>2, TakenPadding
    <2>4. /\ InRounds(mux, a) /\ a.flush_count = 0 /\ Sound(mux, a)
          /\ a.count_since_key_frame <= options.kmin =>
               a.best_delta = DELTA_INFINITY
          => InRounds(mux', enc')
      BY <2>1, <2>2, TakingBothRounds
    <2>. QED BY <1>0, <2>1, <2>3, <2>4, AddedKInv DEF a
  <1>7. ASSUME NEW t \in Durations, Overrun(t) PROVE KInv'
    BY <1>1, <1>7 DEF Overrun
  <1>8. ASSUME NEW t \in Durations, AddNull(t) PROVE KInv'
    BY <1>0, <1>8, NullKInv
  <1>9. ASSUME NEW t \in Durations, AddNullFails(t) PROVE KInv'
    BY <1>1, <1>9 DEF AddNullFails
  <1>10. CASE AddFails
    BY <1>1, <1>10 DEF AddFails
  <1>11. CASE WebPAnimEncoderAssemble
    BY <1>11, AssembleKInv
  <1>12. CASE AssembleFails
    BY <1>1, <1>12 DEF AssembleFails
  <1>13. CASE UNCHANGED vars
    BY <1>13, SameRounds DEF vars, KInv
  <1>. QED BY <1>3, <1>4, <1>5, <1>6, <1>7, <1>8, <1>9, <1>10, <1>11, <1>12,
              <1>13 DEF Next

LEMMA InitKInv == Init => KInv
  BY DEF Init, KInv, NewEncoder

LEMMA KInvRecur == IInv /\ KInv => KeyFramesRecur
  <1>. SUFFICES ASSUME IInv, KInv, NoPadding, Shown # <<>>
                PROVE  KeyFramesRecur
    BY DEF KeyFramesRecur
  <1>. DEFINE s == ShownOf(mux, enc)
  <1>1. /\ Sound(mux, enc) /\ NoPaddingIn(s) /\ s = Shown
        /\ KeyPositions = KeysOf(s)
    BY DEF IInv, NoPadding, NoPaddingIn, Shown, ShownOf, KeyPositions, KeysOf
  <1>2. ~enc.is_first_frame
    <2>1. SUFFICES ASSUME enc.is_first_frame PROVE FALSE
      OBVIOUS
    <2>2. /\ enc = [NewEncoder EXCEPT !.got_null_frame = enc.got_null_frame]
          /\ mux = <<>>
      BY <2>1 DEF IInv
    <2>3. count(enc) = 0
      BY <2>2 DEF NewEncoder, count
    <2>. QED BY <2>2, <2>3 DEF Shown
  <1>3. Regular(s)
    BY <1>1, <1>2 DEF KInv
  <1>4. s \in Seq(ShownFrames) /\ Len(s) \in Nat
    BY <1>1, ShownNumbers
  <1>. HIDE DEF s
  <1>5. ASSUME NEW i \in KeyPositions, NEW j \in KeyPositions, Neighbours(i, j)
        PROVE  /\ j - i > options.kmin
               /\ options.kmax > 0 => j - i < 2 * options.kmax - options.kmin
               /\ options.kmax = 0 => j = i + 1
    <2>1. i < j /\ KeyPositions \cap (i + 1)..(j - 1) = {}
      BY <1>5 DEF Neighbours
    <2>2. \A x \in KeysOf(s) : x \in Int
      BY <1>4 DEF KeysOf
    <2>3. i \in KeysOf(s) /\ j \in KeysOf(s) /\ i \in Int /\ j \in Int
      BY <1>1, <2>2
    <2>4. ASSUME NEW x \in KeysOf(s), i < x, x < j PROVE FALSE
      <3>1. x \in KeyPositions /\ x \in Int
        BY <1>1, <2>2
      <3>2. x \in (i + 1)..(j - 1)
        BY <2>3, <2>4, <3>1
      <3>. QED BY <2>1, <3>1, <3>2
    <2>5. Follows(KeysOf(s), i, j)
      BY <2>1, <2>3, <2>4 DEF Follows
    <2>6. Distance(j - i)
      BY <1>3, <2>3, <2>5 DEF Regular, Spaced
    <2>7. j - i = 1 => j = i + 1
      BY <2>3
    <2>. QED BY <2>6, <2>7 DEF Distance
  <1>6. \E i \in KeyPositions :
          Len(Shown) - i < IF options.kmax = 0 THEN 1 ELSE options.kmax
    BY <1>1, <1>3 DEF Regular, Recent
  <1>. QED BY <1>5, <1>6 DEF KeyFramesRecur

(* However the candidates' penalties come out, neighbouring key frames of  *)
(* an animation without padding are more than kmin and fewer than          *)
(* 2 * kmax - kmin frames apart, and one of its kmax newest frames is a    *)
(* key frame (the rounds of CacheFrame).                                   *)
THEOREM EncoderKeyFramesRecur == Spec => []KeyFramesRecur
  <1>1. Init => IInv /\ WInv /\ KInv
    BY InitIInv, InitWInv, InitKInv
  <1>2. IInv /\ WInv /\ KInv /\ [Next]_vars => (IInv /\ WInv /\ KInv)'
    BY NextIInv, NextWInv, NextKInv
  <1>3. IInv /\ WInv /\ KInv => KeyFramesRecur
    BY KInvRecur
  <1>. QED BY <1>1, <1>2, <1>3, PTL DEF Spec

-----------------------------------------------------------------------------
(* FlattenSeq: its recursive function exists, is unique and grows with the *)
(* sequence.  f is that function for the first n elements of q.            *)

Flattens(q, n, f) ==
  f = [i \in 1..n |-> IF i = 1 THEN q[i] ELSE f[i - 1] \o q[i]]

LEMMA LeastNumber ==
  ASSUME NEW S \in SUBSET Nat, S # {}
  PROVE  \E x \in S : \A y \in S : x <= y
  <1>. DEFINE R == OpToRel(<, Nat)
  <1>1. IsWellFoundedOn(R, Nat)
    BY NatLessThanWellFounded
  <1>2. PICK x \in S : \A y \in S : ~(<<y, x>> \in R)
    <2>. HIDE DEF R
    <2>. QED BY <1>1, WFMin
  <1>3. \A y \in S : x <= y
    <2>. TAKE y \in S
    <2>1. ~(y < x)
      BY <1>2 DEF OpToRel
    <2>. QED BY <2>1
  <1>. QED BY <1>3

LEMMA FlattensOne ==
  ASSUME NEW q, NEW n \in Nat, NEW f, Flattens(q, n, f), NEW k \in 1..n
  PROVE  f[k] = IF k = 1 THEN q[k] ELSE f[k - 1] \o q[k]
  <1>. DEFINE F == [i \in 1..n |-> IF i = 1 THEN q[i] ELSE f[i - 1] \o q[i]]
  <1>1. f = F
    BY DEF Flattens
  <1>2. F[k] = IF k = 1 THEN q[k] ELSE f[k - 1] \o q[k]
    OBVIOUS
  <1>. QED BY <1>1, <1>2

LEMMA FlattensExtended ==
  ASSUME NEW q, NEW n \in Nat, NEW f, Flattens(q, n, f)
  PROVE  \E g : Flattens(q, n + 1, g)
  <1>. DEFINE last == IF n = 0 THEN q[1] ELSE f[n] \o q[n + 1]
              g == [i \in 1..(n + 1) |-> IF i = n + 1 THEN last ELSE f[i]]
              G == [i \in 1..(n + 1) |->
                      IF i = 1 THEN q[i] ELSE g[i - 1] \o q[i]]
  <1>1. ASSUME NEW i \in 1..(n + 1) PROVE g[i] = G[i]
    <2>1. g[i] = IF i = n + 1 THEN last ELSE f[i]
      OBVIOUS
    <2>2. i > 1 => i - 1 \in 1..(n + 1) /\ i - 1 # n + 1
      OBVIOUS
    <2>3. i > 1 => g[i - 1] = f[i - 1]
      BY <2>2
    <2>4. G[i] = IF i = 1 THEN q[i] ELSE g[i - 1] \o q[i]
      OBVIOUS
    <2>. HIDE DEF g, G
    <2>5. CASE i = n + 1
      <3>1. CASE n = 0
        BY <2>1, <2>4, <2>5, <3>1
      <3>2. CASE n # 0
        <4>1. i > 1 /\ i - 1 = n /\ i # 1
          BY <2>5, <3>2
        <4>2. g[i - 1] = f[n]
          BY <2>3, <4>1
        <4>3. G[i] = f[n] \o q[n + 1]
          BY <2>4, <2>5, <4>1, <4>2
        <4>4. g[i] = f[n] \o q[n + 1]
          BY <2>1, <2>5, <3>2
        <4>. QED BY <4>3, <4>4
      <3>. QED BY <3>1, <3>2
    <2>6. CASE i # n + 1
      <3>1. i \in 1..n
        BY <2>6
      <3>2. f[i] = IF i = 1 THEN q[i] ELSE f[i - 1] \o q[i]
        BY <3>1, FlattensOne
      <3>3. i # 1 => i > 1
        OBVIOUS
      <3>. QED BY <2>1, <2>3, <2>4, <2>6, <3>2, <3>3
    <2>. QED BY <2>5, <2>6
  <1>2. g = G
    <2>1. DOMAIN g = 1..(n + 1) /\ DOMAIN G = 1..(n + 1)
      OBVIOUS
    <2>. QED BY <1>1, <2>1
  <1>3. Flattens(q, n + 1, g)
    BY <1>2 DEF Flattens
  <1>. QED BY <1>3

LEMMA FlattensExists ==
  ASSUME NEW q, NEW n \in Nat
  PROVE  \E f : Flattens(q, n, f)
  <1>. DEFINE Bad == {k \in Nat : ~ \E f : Flattens(q, k, f)}
  <1>1. Bad = {}
    <2>. SUFFICES ASSUME Bad # {} PROVE FALSE
      OBVIOUS
    <2>1. Bad \in SUBSET Nat
      OBVIOUS
    <2>2. PICK k \in Bad : \A y \in Bad : k <= y
      BY <2>1, LeastNumber
    <2>3. k # 0
      <3>1. Flattens(q, 0, [i \in 1..0 |-> 0])
        BY DEF Flattens
      <3>. QED BY <2>2, <3>1
    <2>4. k - 1 \in Nat /\ k - 1 + 1 = k /\ ~(k <= k - 1)
      BY <2>3
    <2>5. k - 1 \notin Bad
      BY <2>2, <2>4
    <2>6. PICK f : Flattens(q, k - 1, f)
      BY <2>4, <2>5
    <2>7. \E g : Flattens(q, k - 1 + 1, g)
      BY <2>4, <2>6, FlattensExtended
    <2>. QED BY <2>4, <2>7
  <1>. QED BY <1>1

Agree(q, r, n) == \A i \in 1..n : q[i] = r[i]

(* the k-th value depends on the first k elements only *)
LEMMA FlattensAgree ==
  ASSUME NEW q, NEW r, NEW n \in Nat, NEW m \in Nat, NEW f, NEW g,
         Flattens(q, n, f), Flattens(r, m, g), n <= m, Agree(q, r, n)
  PROVE  Agree(f, g, n)
  <1>. DEFINE Bad == {k \in 1..n : f[k] # g[k]}
  <1>1. Bad = {}
    <2>. SUFFICES ASSUME Bad # {} PROVE FALSE
      OBVIOUS
    <2>1. Bad \in SUBSET Nat
      OBVIOUS
    <2>2. PICK k \in Bad : \A y \in Bad : k <= y
      BY <2>1, LeastNumber
    <2>3. k \in 1..n /\ f[k] # g[k] /\ k \in 1..m
      BY <2>2
    <2>4. /\ f[k] = IF k = 1 THEN q[k] ELSE f[k - 1] \o q[k]
          /\ g[k] = IF k = 1 THEN r[k] ELSE g[k - 1] \o r[k]
          /\ q[k] = r[k]
      BY <2>3, FlattensOne DEF Agree
    <2>5. k # 1 /\ k - 1 \in 1..n /\ ~(k <= k - 1)
      BY <2>3, <2>4
    <2>6. f[k - 1] = g[k - 1]
      BY <2>2, <2>5
    <2>. QED BY <2>3, <2>4, <2>5, <2>6
  <1>. QED BY <1>1 DEF Agree

LEMMA FlattensType ==
  ASSUME NEW S, NEW q, NEW n \in Nat, NEW f, Flattens(q, n, f),
         \A i \in 1..n : q[i] \in Seq(S)
  PROVE  \A k \in 1..n : f[k] \in Seq(S)
  <1>. DEFINE Bad == {k \in 1..n : f[k] \notin Seq(S)}
  <1>1. Bad = {}
    <2>. SUFFICES ASSUME Bad # {} PROVE FALSE
      OBVIOUS
    <2>1. Bad \in SUBSET Nat
      OBVIOUS
    <2>2. PICK k \in Bad : \A y \in Bad : k <= y
      BY <2>1, LeastNumber
    <2>3. k \in 1..n /\ f[k] \notin Seq(S)
      BY <2>2
    <2>4. f[k] = IF k = 1 THEN q[k] ELSE f[k - 1] \o q[k]
      BY <2>3, FlattensOne
    <2>5. k # 1 /\ k - 1 \in 1..n /\ ~(k <= k - 1)
      BY <2>3, <2>4
    <2>6. f[k - 1] \in Seq(S) /\ q[k] \in Seq(S)
      BY <2>2, <2>3, <2>5
    <2>7. f[k - 1] \o q[k] \in Seq(S)
      BY <2>6
    <2>. QED BY <2>3, <2>4, <2>5, <2>7
  <1>. QED BY <1>1

LEMMA FlattenSeqIs ==
  ASSUME NEW q, Len(q) \in Nat, Len(q) # 0
  PROVE  \E f : Flattens(q, Len(q), f) /\ FlattenSeq(q) = f[Len(q)]
  <1>. DEFINE f == CHOOSE f : Flattens(q, Len(q), f)
  <1>1. Flattens(q, Len(q), f)
    BY FlattensExists
  <1>2. FlattenSeq(q) = f[Len(q)]
    BY Zenon DEF FlattenSeq, Flattens
  <1>. QED BY <1>1, <1>2

LEMMA FlattenEmpty == FlattenSeq(<<>>) = <<>>
  BY DEF FlattenSeq

LEMMA FlattenType ==
  ASSUME NEW S, NEW q \in Seq(Seq(S))
  PROVE  FlattenSeq(q) \in Seq(S)
  <1>. DEFINE n == Len(q)
  <1>1. n \in Nat /\ \A i \in 1..n : q[i] \in Seq(S)
    OBVIOUS
  <1>2. CASE n = 0
    <2>1. q = <<>>
      BY <1>2
    <2>2. <<>> \in Seq(S)
      OBVIOUS
    <2>. QED BY <2>1, <2>2, FlattenEmpty
  <1>3. CASE n # 0
    <2>1. PICK f : Flattens(q, n, f) /\ FlattenSeq(q) = f[n]
      BY <1>1, <1>3, FlattenSeqIs
    <2>2. n \in 1..n
      BY <1>1, <1>3
    <2>. QED BY <1>1, <2>1, <2>2, FlattensType
  <1>. QED BY <1>2, <1>3

LEMMA FlattenAppend ==
  ASSUME NEW S, NEW q \in Seq(Seq(S)), NEW x \in Seq(S)
  PROVE  FlattenSeq(Append(q, x)) = FlattenSeq(q) \o x
  <1>. DEFINE n == Len(q)
              r == Append(q, x)
  <1>1. /\ n \in Nat /\ r \in Seq(Seq(S)) /\ Len(r) = n + 1
        /\ \A i \in 1..n : r[i] = q[i]
        /\ r[n + 1] = x
    BY AppendFields
  <1>. HIDE DEF r
  <1>2. PICK g : Flattens(r, n + 1, g) /\ FlattenSeq(r) = g[n + 1]
    <2>1. Len(r) \in Nat /\ Len(r) # 0
      BY <1>1
    <2>. QED BY <1>1, <2>1, FlattenSeqIs
  <1>3. g[n + 1] = IF n + 1 = 1 THEN r[n + 1] ELSE g[n + 1 - 1] \o r[n + 1]
    <2>1. n + 1 \in Nat /\ n + 1 \in 1..(n + 1)
      BY <1>1
    <2>. QED BY <1>2, <2>1, FlattensOne
  <1>4. CASE n = 0
    <2>1. q = <<>>
      BY <1>4
    <2>2. FlattenSeq(r) = x
      BY <1>1, <1>2, <1>3, <1>4
    <2>3. <<>> \o x = x
      OBVIOUS
    <2>. QED BY <2>1, <2>2, <2>3, FlattenEmpty DEF r
  <1>5. CASE n # 0
    <2>1. PICK f : Flattens(q, n, f) /\ FlattenSeq(q) = f[n]
      BY <1>1, <1>5, FlattenSeqIs
    <2>2. n + 1 \in Nat /\ n <= n + 1 /\ n \in 1..n /\ n + 1 # 1
          /\ n + 1 - 1 = n
      BY <1>1, <1>5
    <2>3. f[n] = g[n]
      <3>1. Agree(q, r, n)
        BY <1>1 DEF Agree
      <3>2. Flattens(q, n, f) /\ Flattens(r, n + 1, g) /\ n \in Nat
        BY <1>1, <1>2, <2>1
      <3>. HIDE DEF n
      <3>3. Agree(f, g, n)
        BY <2>2, <3>1, <3>2, FlattensAgree
      <3>. QED BY <2>2, <3>3 DEF Agree
    <2>4. FlattenSeq(r) = g[n] \o x
      BY <1>1, <1>2, <1>3, <2>2
    <2>. QED BY <2>1, <2>3, <2>4 DEF r
  <1>. QED BY <1>4, <1>5

-----------------------------------------------------------------------------
(* Timelines *)

(* canvas for t milliseconds *)
Held(canvas, t) == [i \in 1..t |-> canvas]

Played(s) == [i \in 1..Len(s) |-> Held(s[i].canvas, s[i].duration)]

Playable(s) ==
  /\ Len(s) \in Nat
  /\ \A i \in 1..Len(s) : s[i].canvas \in Canvases /\ s[i].duration \in Nat

(* x and y show the same equally long *)
Alike(x, y) == x.canvas = y.canvas /\ x.duration = y.duration

LEMMA HeldFields ==
  ASSUME NEW canvas \in Canvases, NEW t \in Nat
  PROVE  /\ Held(canvas, t) \in Seq(Canvases) /\ Len(Held(canvas, t)) = t
         /\ \A i \in 1..t : Held(canvas, t)[i] = canvas
  BY DEF Held

LEMMA PlayedFields ==
  ASSUME NEW s, Playable(s)
  PROVE  /\ Played(s) \in Seq(Seq(Canvases)) /\ Len(Played(s)) = Len(s)
         /\ \A i \in 1..Len(s) : Played(s)[i] = Held(s[i].canvas, s[i].duration)
         /\ Timeline(s) = FlattenSeq(Played(s))
  <1>1. \A i \in 1..Len(s) : Held(s[i].canvas, s[i].duration) \in Seq(Canvases)
    BY HeldFields DEF Playable
  <1>2. Len(s) \in Nat
    BY DEF Playable
  <1>3. Timeline(s) = FlattenSeq(Played(s))
    BY DEF Timeline, Played, Held
  <1>. QED BY <1>1, <1>2, <1>3 DEF Played

LEMMA TimelineType ==
  ASSUME NEW s, Playable(s)
  PROVE  Timeline(s) \in Seq(Canvases)
  BY PlayedFields, FlattenType

LEMMA SameTimeline ==
  ASSUME NEW s, NEW s2, Len(s2) = Len(s),
         \A i \in 1..Len(s) : Alike(s2[i], s[i])
  PROVE  Timeline(s2) = Timeline(s)
  <1>1. Played(s2) = Played(s)
    BY DEF Played, Alike
  <1>2. Timeline(s2) = FlattenSeq(Played(s2)) /\ Timeline(s) = FlattenSeq(Played(s))
    BY DEF Timeline, Played, Held
  <1>. QED BY <1>1, <1>2

(* s2 goes on behind s *)
LEMMA TimelineAppend ==
  ASSUME NEW s, Playable(s), NEW s2, NEW canvas \in Canvases, NEW t \in Nat,
         Len(s2) = Len(s) + 1, \A i \in 1..Len(s) : Alike(s2[i], s[i]),
         s2[Len(s) + 1].canvas = canvas, s2[Len(s) + 1].duration = t
  PROVE  Timeline(s2) = Timeline(s) \o Held(canvas, t) /\ Playable(s2)
  <1>. DEFINE n == Len(s)
              h == Held(canvas, t)
              r == Append(Played(s), h)
  <1>1. n \in Nat /\ n + 1 \in 1..(n + 1)
    BY DEF Playable
  <1>2. /\ Played(s) \in Seq(Seq(Canvases)) /\ Len(Played(s)) = n
        /\ \A i \in 1..n : Played(s)[i] = Held(s[i].canvas, s[i].duration)
        /\ Timeline(s) = FlattenSeq(Played(s))
    BY PlayedFields
  <1>3. h \in Seq(Canvases)
    BY HeldFields
  <1>4. /\ r \in Seq(Seq(Canvases)) /\ Len(r) = n + 1
        /\ \A i \in 1..n : r[i] = Played(s)[i]
        /\ r[n + 1] = h
    BY <1>2, <1>3, AppendFields
  <1>5. Playable(s2)
    <2>1. Len(s2) \in Nat
      BY <1>1
    <2>2. ASSUME NEW i \in 1..Len(s2)
          PROVE  s2[i].canvas \in Canvases /\ s2[i].duration \in Nat
      <3>1. CASE i \in 1..n
        BY <3>1 DEF Playable, Alike
      <3>2. CASE i \notin 1..n
        <4>1. i = n + 1
          BY <1>1, <3>2
        <4>. QED BY <4>1
      <3>. QED BY <3>1, <3>2
    <2>. QED BY <2>1, <2>2 DEF Playable
  <1>6. /\ Played(s2) \in Seq(Seq(Canvases)) /\ Len(Played(s2)) = n + 1
        /\ \A i \in 1..Len(s2) :
             Played(s2)[i] = Held(s2[i].canvas, s2[i].duration)
        /\ Timeline(s2) = FlattenSeq(Played(s2))
    BY <1>5, PlayedFields
  <1>. HIDE DEF r, h
  <1>7. ASSUME NEW i \in 1..(n + 1) PROVE Played(s2)[i] = r[i]
    <2>1. Played(s2)[i] = Held(s2[i].canvas, s2[i].duration)
      BY <1>6
    <2>2. CASE i \in 1..n
      <3>1. s2[i].canvas = s[i].canvas /\ s2[i].duration = s[i].duration
        BY <2>2 DEF Alike
      <3>. QED BY <1>2, <1>4, <2>1, <2>2, <3>1
    <2>3. CASE i \notin 1..n
      <3>1. i = n + 1
        BY <1>1, <2>3
      <3>. QED BY <1>4, <2>1, <3>1 DEF h
    <2>. QED BY <2>2, <2>3
  <1>8. Played(s2) = r
    BY <1>4, <1>6, <1>7, SeqEqual
  <1>9. FlattenSeq(r) = FlattenSeq(Played(s)) \o h
    BY <1>2, <1>3, FlattenAppend DEF r
  <1>. QED BY <1>2, <1>5, <1>6, <1>8, <1>9 DEF h

LEMMA HeldLonger ==
  ASSUME NEW canvas \in Canvases, NEW d \in Nat, NEW t \in Nat
  PROVE  Held(canvas, d + t) = Held(canvas, d) \o Held(canvas, t)
  <1>. DEFINE x == Held(canvas, d + t)
              a == Held(canvas, d)
              b == Held(canvas, t)
              y == a \o b
  <1>1. /\ x \in Seq(Canvases) /\ Len(x) = d + t
        /\ \A i \in 1..(d + t) : x[i] = canvas
    BY HeldFields
  <1>2. /\ a \in Seq(Canvases) /\ Len(a) = d /\ \A i \in 1..d : a[i] = canvas
        /\ b \in Seq(Canvases) /\ Len(b) = t /\ \A i \in 1..t : b[i] = canvas
    BY HeldFields
  <1>. HIDE DEF x, a, b
  <1>3. /\ y \in Seq(Canvases) /\ Len(y) = d + t
        /\ \A i \in 1..d : y[i] = a[i]
        /\ \A i \in 1..t : y[d + i] = b[i]
    <2>1. a \in Seq(Canvases) /\ b \in Seq(Canvases)
      BY <1>2
    <2>2. y \in Seq(Canvases) /\ Len(y) = Len(a) + Len(b)
      BY <2>1, ConcatFields
    <2>3. \A i \in 1..Len(a) : y[i] = a[i]
      BY <2>1, ConcatFields
    <2>4. \A i \in 1..Len(b) : y[Len(a) + i] = b[i]
      BY <2>1, ConcatFields
    <2>. HIDE DEF y
    <2>. QED BY <1>2, <2>2, <2>3, <2>4
  <1>. HIDE DEF y
  <1>4. ASSUME NEW i \in 1..(d + t) PROVE x[i] = y[i]
    <2>1. CASE i <= d
      <3>1. i \in 1..d
        BY <2>1
      <3>. QED BY <1>1, <1>2, <1>3, <3>1
    <2>2. CASE i > d
      <3>1. i - d \in 1..t /\ i = d + (i - d)
        BY <2>2
      <3>. QED BY <1>1, <1>2, <1>3, <3>1
    <2>. QED BY <2>1, <2>2
  <1>5. x = y
    BY <1>1, <1>3, <1>4, SeqEqual
  <1>. QED BY <1>5 DEF x, y, a, b

(* the last element of s lasts t longer *)
LEMMA TimelineLonger ==
  ASSUME NEW S, NEW s \in Seq(S), Playable(s), NEW l \in 1..Len(s), l = Len(s),
         NEW s2, NEW t \in Nat, Len(s2) = Len(s),
         \A i \in 1..Len(s) : i # l => Alike(s2[i], s[i]),
         s2[l].canvas = s[l].canvas, s2[l].duration = s[l].duration + t
  PROVE  Timeline(s2) = Timeline(s) \o Held(s[l].canvas, t) /\ Playable(s2)
  <1>. DEFINE n == l - 1
              r == [i \in 1..n |-> s[i]]
              c == s[l].canvas
              d == s[l].duration
  <1>1. n \in Nat /\ n + 1 = l /\ Len(s) = n + 1
    OBVIOUS
  <1>2. /\ r \in Seq(S) /\ Len(r) = n /\ \A i \in 1..n : r[i] = s[i]
    BY <1>1
  <1>3. c \in Canvases /\ d \in Nat /\ d + t \in Nat
    BY DEF Playable
  <1>4. \A i \in 1..n : i \in 1..Len(s) /\ i # l
    BY <1>1
  <1>. HIDE DEF r, n
  <1>5. Playable(r)
    BY <1>1, <1>2, <1>4 DEF Playable
  <1>6. Timeline(s) = Timeline(r) \o Held(c, d)
    <2>1. \A i \in 1..Len(r) : Alike(s[i], r[i])
      BY <1>2 DEF Alike
    <2>2. Len(s) = Len(r) + 1 /\ s[Len(r) + 1].canvas = c
          /\ s[Len(r) + 1].duration = d
      BY <1>1, <1>2
    <2>. HIDE DEF c, d
    <2>. QED BY <1>3, <1>5, <2>1, <2>2, TimelineAppend
  <1>7. Timeline(s2) = Timeline(r) \o Held(c, d + t) /\ Playable(s2)
    <2>1. \A i \in 1..Len(r) : Alike(s2[i], r[i])
      BY <1>2, <1>4 DEF Alike
    <2>2. Len(s2) = Len(r) + 1 /\ s2[Len(r) + 1].canvas = c
          /\ s2[Len(r) + 1].duration = d + t
      BY <1>1, <1>2
    <2>. HIDE DEF c, d
    <2>. QED BY <1>3, <1>5, <2>1, <2>2, TimelineAppend
  <1>. HIDE DEF c, d
  <1>8. Held(c, d + t) = Held(c, d) \o Held(c, t)
    BY <1>3, HeldLonger
  <1>9. /\ Timeline(r) \in Seq(Canvases) /\ Held(c, d) \in Seq(Canvases)
        /\ Held(c, t) \in Seq(Canvases)
    BY <1>3, <1>5, TimelineType, HeldFields
  <1>10. Timeline(r) \o (Held(c, d) \o Held(c, t))
           = (Timeline(r) \o Held(c, d)) \o Held(c, t)
    <2>. DEFINE x == Timeline(r)
                y == Held(c, d)
                z == Held(c, t)
    <2>. HIDE DEF x, y, z
    <2>1. x \in Seq(Canvases) /\ y \in Seq(Canvases) /\ z \in Seq(Canvases)
      BY <1>9 DEF x, y, z
    <2>2. (x \o y) \o z = x \o (y \o z)
      BY <2>1, ConcatAssociative
    <2>. QED BY <2>2 DEF x, y, z
  <1>. QED BY <1>6, <1>7, <1>8, <1>10 DEF c

-----------------------------------------------------------------------------
(* What is shown resembles what was given *)

Resembles(x, y) ==
  Len(x) = Len(y) /\ \A t \in 1..Len(y) : <<x[t], y[t]>> \in Similar

(* the canvas that is shown last *)
Final(s) == s[Len(s)].canvas

TInv ==
  input # <<>> =>
    /\ Resembles(Timeline(ShownOf(mux, enc)), Timeline(input))
    /\ <<Final(ShownOf(mux, enc)), Final(input)>> \in Similar
    /\ phase # "assembled" /\ ~enc.got_null_frame =>
         input[Len(input)].duration = 0

LEMMA ResemblesLonger ==
  ASSUME NEW x \in Seq(Canvases), NEW y \in Seq(Canvases), Resembles(x, y),
         NEW c \in Canvases, NEW d \in Canvases, <<c, d>> \in Similar,
         NEW t \in Nat
  PROVE  Resembles(x \o Held(c, t), y \o Held(d, t))
  <1>. DEFINE a == Held(c, t)
              b == Held(d, t)
              x2 == x \o a
              y2 == y \o b
  <1>1. a \in Seq(Canvases) /\ Len(a) = t /\ \A i \in 1..t : a[i] = c
    BY HeldFields
  <1>2. b \in Seq(Canvases) /\ Len(b) = t /\ \A i \in 1..t : b[i] = d
    BY HeldFields
  <1>. HIDE DEF a, b
  <1>3. /\ Len(x2) = Len(x) + Len(a)
        /\ \A i \in 1..Len(x) : x2[i] = x[i]
    BY <1>1, ConcatFields
  <1>4. \A i \in 1..Len(a) : x2[Len(x) + i] = a[i]
    BY <1>1, ConcatFields
  <1>5. /\ Len(y2) = Len(y) + Len(b)
        /\ \A i \in 1..Len(y) : y2[i] = y[i]
    BY <1>2, ConcatFields
  <1>6. \A i \in 1..Len(b) : y2[Len(y) + i] = b[i]
    BY <1>2, ConcatFields
  <1>. HIDE DEF x2, y2
  <1>7. Len(x) = Len(y) /\ Len(y) \in Nat
    BY DEF Resembles
  <1>8. Len(x2) = Len(y2) /\ Len(y2) = Len(y) + t
    BY <1>1, <1>2, <1>3, <1>5, <1>7
  <1>9. ASSUME NEW i \in 1..Len(y2) PROVE <<x2[i], y2[i]>> \in Similar
    <2>1. CASE i <= Len(y)
      <3>1. i \in 1..Len(y) /\ i \in 1..Len(x)
        BY <1>7, <1>8, <2>1
      <3>2. x2[i] = x[i] /\ y2[i] = y[i]
        BY <1>3, <1>5, <3>1
      <3>. QED BY <3>1, <3>2 DEF Resembles
    <2>2. CASE i > Len(y)
      <3>1. PICK j \in Int : i = Len(y) + j
        <4>1. i - Len(y) \in Int /\ i = Len(y) + (i - Len(y))
          BY <1>7, <1>8
        <4>. QED BY <4>1
      <3>2. j \in 1..t
        BY <1>7, <1>8, <2>2, <3>1
      <3>3. x2[i] = a[j] /\ y2[i] = b[j]
        BY <1>1, <1>2, <1>4, <1>6, <1>7, <3>1, <3>2
      <3>. QED BY <1>1, <1>2, <3>2, <3>3
    <2>. QED BY <1>7, <1>8, <2>1, <2>2
  <1>10. Resembles(x2, y2)
    BY <1>8, <1>9 DEF Resembles
  <1>. QED BY <1>10 DEF x2, y2, a, b

LEMMA HeldNone ==
  ASSUME NEW x \in Seq(Canvases), NEW c \in Canvases
  PROVE  x \o Held(c, 0) = x
  <1>1. Held(c, 0) = <<>>
    BY DEF Held
  <1>2. x \o <<>> = x
    BY ConcatEmptySeq
  <1>. QED BY <1>1, <1>2

LEMMA ShownPlayable ==
  ASSUME NEW s \in Seq(ShownFrames)
  PROVE  Playable(s)
  <1>1. \A i \in 1..Len(s) : s[i] \in ShownFrames
    OBVIOUS
  <1>2. \A f \in ShownFrames : f.canvas \in Canvases /\ f.duration \in Nat
    BY Durable DEF ShownFrames
  <1>. QED BY <1>1, <1>2 DEF Playable

LEMMA AdditionsPlayable ==
  ASSUME NEW s \in Seq(Additions)
  PROVE  Playable(s)
  <1>1. \A i \in 1..Len(s) : s[i] \in Additions
    OBVIOUS
  <1>2. \A x \in Additions : x.canvas \in Canvases /\ x.duration \in Nat
    BY DEF Additions
  <1>. QED BY <1>1, <1>2 DEF Playable

LEMMA LongerTimeline ==
  ASSUME NEW s \in Seq(ShownFrames), Len(s) \in 1..Len(s), NEW s2,
         NEW t \in Nat, Longer(s2, s, t)
  PROVE  /\ Timeline(s2) = Timeline(s) \o Held(Final(s), t)
         /\ Final(s2) = Final(s) /\ Final(s) \in Canvases
  <1>. DEFINE l == Len(s)
              x == [s[l] EXCEPT !.duration = s[l].duration + t]
  <1>1. s[l] \in ShownFrames /\ l \in Nat /\ Playable(s)
    BY ShownPlayable
  <1>2. s[l].canvas \in Canvases
    BY <1>1 DEF ShownFrames
  <1>3. CASE s[l].duration + t \in 0..(MAX_DURATION - 1) /\ s2 = [s EXCEPT ![l] = x]
    <2>1. /\ x \in ShownFrames /\ x.canvas = s[l].canvas
          /\ x.duration = s[l].duration + t
      BY <1>1, <1>3 DEF ShownFrames
    <2>. HIDE DEF x
    <2>2. /\ Len(s2) = Len(s)
          /\ \A i \in 1..Len(s) : s2[i] = IF i = l THEN x ELSE s[i]
      BY <1>3, <2>1
    <2>3. \A i \in 1..Len(s) : i # l => Alike(s2[i], s[i])
      BY <2>2 DEF Alike
    <2>4. s2[l].canvas = s[l].canvas /\ s2[l].duration = s[l].duration + t
      BY <2>1, <2>2
    <2>5. Timeline(s2) = Timeline(s) \o Held(s[l].canvas, t)
      BY <1>1, <2>2, <2>3, <2>4, TimelineLonger
    <2>. QED BY <1>2, <2>2, <2>4, <2>5 DEF Final
  <1>4. CASE \E p \in ShownFrames :
               p.canvas = s[l].canvas /\ p.duration = t /\ s2 = Append(s, p)
    <2>1. PICK p \in ShownFrames :
            p.canvas = s[l].canvas /\ p.duration = t /\ s2 = Append(s, p)
      BY <1>4
    <2>2. /\ Len(s2) = Len(s) + 1 /\ s2[Len(s) + 1] = p
          /\ \A i \in 1..Len(s) : s2[i] = s[i]
      BY <2>1, AppendFields
    <2>3. \A i \in 1..Len(s) : Alike(s2[i], s[i])
      BY <2>2 DEF Alike
    <2>4. Timeline(s2) = Timeline(s) \o Held(s[l].canvas, t)
      <3>. DEFINE c == s[l].canvas
      <3>1. c \in Canvases /\ s2[Len(s) + 1].canvas = c
            /\ s2[Len(s) + 1].duration = t
        BY <1>2, <2>1, <2>2
      <3>. HIDE DEF c
      <3>2. Timeline(s2) = Timeline(s) \o Held(c, t)
        BY <1>1, <2>2, <2>3, <3>1, TimelineAppend
      <3>. QED BY <3>2 DEF c
    <2>. QED BY <1>2, <2>1, <2>2, <2>4 DEF Final
  <1>. QED BY <1>3, <1>4 DEF Longer

LEMMA GrowsTimeline ==
  ASSUME NEW s \in Seq(ShownFrames), NEW s2, NEW canvas \in Canvases,
         Grows(s2, s, canvas)
  PROVE  Timeline(s2) = Timeline(s) /\ Final(s2) = canvas
  <1>1. /\ Len(s2) = Len(s) + 1 /\ \A i \in 1..Len(s) : Alike(s2[i], s[i])
        /\ s2[Len(s) + 1].canvas = canvas /\ s2[Len(s) + 1].duration = 0
    BY DEF Grows, ShowsSame, Alike
  <1>2. Playable(s) /\ Timeline(s) \in Seq(Canvases)
    BY ShownPlayable, TimelineType
  <1>3. Timeline(s2) = Timeline(s) \o Held(canvas, 0)
    BY <1>1, <1>2, TimelineAppend
  <1>. QED BY <1>1, <1>2, <1>3, HeldNone DEF Final

LEMMA TimedTimeline ==
  ASSUME input \in Seq(Additions), input # <<>>, NEW t \in Nat,
         input[Len(input)].duration = 0
  PROVE  /\ Timeline(Timed(t)) = Timeline(input) \o Held(Final(input), t)
         /\ Final(Timed(t)) = Final(input) /\ Final(input) \in Canvases
  <1>. DEFINE l == Len(input)
              s2 == Timed(t)
  <1>1. l \in 1..Len(input) /\ input[l] \in Additions /\ Playable(input)
    BY AdditionsPlayable
  <1>2. /\ s2 \in Seq(Additions) /\ Len(s2) = Len(input)
        /\ \A i \in 1..Len(input) : s2[i].canvas = input[i].canvas
        /\ \A i \in 1..Len(input) : i # Len(input) => s2[i] = input[i]
        /\ s2[l].duration = t
    BY TimedFields
  <1>. HIDE DEF s2
  <1>3. \A i \in 1..Len(input) : i # l => Alike(s2[i], input[i])
    BY <1>2 DEF Alike
  <1>4. s2[l].canvas = input[l].canvas
        /\ s2[l].duration = input[l].duration + t
    BY <1>1, <1>2
  <1>5. Timeline(s2) = Timeline(input) \o Held(input[l].canvas, t)
    BY <1>1, <1>2, <1>3, <1>4, TimelineLonger
  <1>6. input[l].canvas \in Canvases
    BY <1>1 DEF Additions
  <1>. QED BY <1>2, <1>4, <1>5, <1>6 DEF Final, s2

(* a canvas that has not lasted yet *)
LEMMA BegunTimeline ==
  ASSUME NEW s \in Seq(Additions), NEW canvas \in Canvases
  PROVE  LET s2 == Append(s, [canvas |-> canvas, duration |-> 0])
         IN  /\ Timeline(s2) = Timeline(s) /\ Final(s2) = canvas
             /\ Len(s2) = Len(s) + 1 /\ s2[Len(s2)].duration = 0
  <1>. DEFINE x == [canvas |-> canvas, duration |-> 0]
              s2 == Append(s, x)
  <1>1. x \in Additions /\ x.canvas = canvas /\ x.duration = 0
    BY DEF Additions
  <1>. HIDE DEF x
  <1>2. /\ Len(s2) = Len(s) + 1 /\ s2[Len(s) + 1] = x
        /\ \A i \in 1..Len(s) : s2[i] = s[i]
    BY <1>1, AppendFields
  <1>. HIDE DEF s2
  <1>3. \A i \in 1..Len(s) : Alike(s2[i], s[i])
    BY <1>2 DEF Alike
  <1>4. Playable(s) /\ Timeline(s) \in Seq(Canvases)
    BY AdditionsPlayable, TimelineType
  <1>5. s2[Len(s) + 1].canvas = canvas /\ s2[Len(s) + 1].duration = 0
    BY <1>1, <1>2
  <1>6. Timeline(s2) = Timeline(s) \o Held(canvas, 0)
    BY <1>2, <1>3, <1>4, <1>5, TimelineAppend
  <1>7. Timeline(s2) = Timeline(s)
    BY <1>4, <1>6, HeldNone
  <1>8. Final(s2) = canvas /\ Len(s2) = Len(s) + 1 /\ s2[Len(s2)].duration = 0
    BY <1>2, <1>5 DEF Final
  <1>. QED BY <1>7, <1>8 DEF s2, x

(* the time since the last canvas has passed for both *)
LEMMA AdvancedTimeline ==
  ASSUME TInv, input \in Seq(Additions), input # <<>>,
         phase # "assembled", ~enc.got_null_frame,
         Sound(mux, enc), LastCached(enc),
         NEW t \in Nat, NEW a, Increases(mux, enc, a, t)
  PROVE  /\ Resembles(Timeline(ShownOf(mux, a)), Timeline(Timed(t)))
         /\ <<Final(ShownOf(mux, a)), Final(Timed(t))>> \in Similar
         /\ Final(ShownOf(mux, a)) = a.prev_canvas
         /\ ShownOf(mux, a) \in Seq(ShownFrames)
  <1>. DEFINE s == ShownOf(mux, enc)
              s2 == ShownOf(mux, a)
  <1>1. /\ s \in Seq(ShownFrames) /\ Len(s) \in 1..Len(s)
        /\ Final(s) = enc.prev_canvas
    BY LastOfShown DEF Final
  <1>2. /\ Longer(s2, s, t) /\ a.prev_canvas = enc.prev_canvas /\ Sound(mux, a)
    BY DEF Increases, Ready
  <1>3. s2 \in Seq(ShownFrames)
    BY <1>2, ShownNumbers
  <1>. HIDE DEF s, s2
  <1>4. /\ Timeline(s2) = Timeline(s) \o Held(Final(s), t)
        /\ Final(s2) = Final(s) /\ Final(s) \in Canvases
    BY <1>1, <1>2, LongerTimeline
  <1>5. /\ Resembles(Timeline(s), Timeline(input))
        /\ <<Final(s), Final(input)>> \in Similar
        /\ input[Len(input)].duration = 0
    BY DEF TInv, s
  <1>6. /\ Timeline(Timed(t)) = Timeline(input) \o Held(Final(input), t)
        /\ Final(Timed(t)) = Final(input) /\ Final(input) \in Canvases
    BY <1>5, TimedTimeline
  <1>7. Timeline(s) \in Seq(Canvases) /\ Timeline(input) \in Seq(Canvases)
    BY <1>1, ShownPlayable, AdditionsPlayable, TimelineType
  <1>8. Resembles(Timeline(s2), Timeline(Timed(t)))
    BY <1>4, <1>5, <1>6, <1>7, ResemblesLonger
  <1>. QED BY <1>1, <1>2, <1>3, <1>4, <1>5, <1>6, <1>8 DEF s2

LEMMA AddedTInv ==
  ASSUME IInv, TInv, NEW canvas \in Canvases, NEW t \in Durations,
         NEW c, Adds(canvas, t, c),
         \/ Skipping(mux, Advanced(t), c, canvas)
         \/ Takes(mux, Advanced(t), c, canvas)
  PROVE  TInv'
  <1>. DEFINE a == Advanced(t)
  <1>1. /\ ~enc.is_first_frame /\ BeginAdd(canvas, t) /\ Increases(mux, enc, a, t)
        /\ ShownOf(mux', enc') = ShownOf(mux, c)
    BY DEF Adds, Flushes
  <1>2. /\ phase = "adding" /\ input \in Seq(Additions) /\ t \in Nat
        /\ input' = Append(Timed(t), [canvas |-> canvas, duration |-> 0])
    BY <1>1, BeginsAdd, EncoderAssumption DEF BeginAdd
  <1>3. /\ Sound(mux, enc) /\ LastCached(enc) /\ ~enc.got_null_frame
        /\ enc.in_frame_count = Len(input) /\ enc.in_frame_count > 0
    BY <1>1, <1>2 DEF IInv
  <1>4. input # <<>>
    BY <1>3
  <1>. DEFINE s2 == ShownOf(mux, a)
              i2 == Timed(t)
  <1>5. /\ Resembles(Timeline(s2), Timeline(i2))
        /\ <<Final(s2), Final(i2)>> \in Similar
        /\ Final(s2) = a.prev_canvas /\ s2 \in Seq(ShownFrames)
    <2>. HIDE DEF a
    <2>. QED BY <1>1, <1>2, <1>3, <1>4, AdvancedTimeline DEF a
  <1>6. i2 \in Seq(Additions)
    BY <1>2, TimedFields
  <1>. HIDE DEF i2
  <1>7. /\ Timeline(input') = Timeline(i2) /\ Final(input') = canvas
        /\ input'[Len(input')].duration = 0
    BY <1>2, <1>6, BegunTimeline DEF i2
  <1>8. /\ Timeline(ShownOf(mux', enc')) = Timeline(s2)
        /\ <<Final(ShownOf(mux', enc')), canvas>> \in Similar
    <2>. HIDE DEF a
    <2>1. CASE Skipping(mux, a, c, canvas)
      <3>1. ShownOf(mux, c) = s2 /\ <<a.prev_canvas, canvas>> \in Similar
        BY <2>1 DEF Skipping
      <3>. QED BY <1>1, <1>5, <3>1
    <2>2. CASE Takes(mux, a, c, canvas)
      <3>1. Grows(ShownOf(mux, c), s2, canvas)
        BY <2>2 DEF Takes
      <3>. HIDE DEF s2
      <3>2. /\ Timeline(ShownOf(mux, c)) = Timeline(s2)
            /\ Final(ShownOf(mux, c)) = canvas
        BY <1>5, <3>1, GrowsTimeline
      <3>. QED BY <1>1, <3>2, EncoderAssumption
    <2>. QED BY <2>1, <2>2 DEF a
  <1>. QED BY <1>5, <1>7, <1>8 DEF TInv

LEMMA FirstTInv ==
  ASSUME IInv, NEW canvas \in Canvases, AddFirst(canvas)
  PROVE  TInv'
  <1>. DEFINE c == CachedFirst(NewEncoder, canvas)
              s == ShownOf(<<>>, c)
              x == [canvas |-> canvas, duration |-> 0]
  <1>1. /\ Flushes(<<>>, c, mux', enc') /\ c \in Encoders /\ input' = <<x>>
    BY FirstStep
  <1>2. /\ Len(s) = 1 /\ s[1].canvas = canvas /\ s[1].duration = 0
    BY AddsFirst
  <1>3. ShownOf(mux', enc') = s
    BY <1>1 DEF Flushes
  <1>4. x.canvas = canvas /\ x.duration = 0
    OBVIOUS
  <1>. HIDE DEF c, s, x
  <1>5. Len(input') = 1 /\ input'[1] = x
    BY <1>1
  <1>6. Final(s) = canvas /\ Final(input') = canvas
        /\ input'[Len(input')].duration = 0
    BY <1>2, <1>4, <1>5 DEF Final
  <1>7. \A i \in 1..Len(input') : Alike(s[i], input'[i])
    <2>1. \A i \in 1..1 : i = 1
      OBVIOUS
    <2>. QED BY <1>2, <1>4, <1>5, <2>1 DEF Alike
  <1>8. Timeline(s) = Timeline(input')
    BY <1>2, <1>5, <1>7, SameTimeline
  <1>9. Timeline(input') \in Seq(Canvases)
    <2>1. input' \in Seq(Additions)
      BY FirstStep DEF IInv
    <2>. QED BY <2>1, AdditionsPlayable, TimelineType
  <1>10. Resembles(Timeline(s), Timeline(input'))
    <2>1. \A i \in 1..Len(Timeline(input')) : Timeline(input')[i] \in Canvases
      BY <1>9
    <2>. QED BY <1>8, <2>1, EncoderAssumption DEF Resembles
  <1>. QED BY <1>3, <1>6, <1>10, EncoderAssumption DEF TInv

LEMMA NullTInv ==
  ASSUME IInv, TInv, NEW t \in Durations, AddNull(t)
  PROVE  TInv'
  <1>. DEFINE a == Advanced(t)
  <1>1. /\ mux' = mux /\ phase = "adding" /\ input' = Timed(t)
        /\ input \in Seq(Additions) /\ t \in Nat /\ enc'.got_null_frame
        /\ ShownOf(mux, enc') = ShownOf(mux, a)
        /\ ~enc.is_first_frame => Increases(mux, enc, a, t)
        /\ enc.is_first_frame => Len(input) = 0
    BY NullStep DEF AddNull
  <1>2. CASE input = <<>>
    <2>1. input' = <<>>
      BY <1>1, <1>2 DEF Timed
    <2>. QED BY <2>1 DEF TInv
  <1>3. CASE input # <<>>
    <2>1. ~enc.is_first_frame
      BY <1>1, <1>3
    <2>2. Sound(mux, enc) /\ LastCached(enc) /\ ~enc.got_null_frame
      BY <1>1, <2>1 DEF IInv
    <2>. HIDE DEF a
    <2>3. /\ Resembles(Timeline(ShownOf(mux, a)), Timeline(Timed(t)))
          /\ <<Final(ShownOf(mux, a)), Final(Timed(t))>> \in Similar
      BY <1>1, <1>3, <2>1, <2>2, AdvancedTimeline
    <2>. QED BY <1>1, <2>3 DEF TInv
  <1>. QED BY <1>2, <1>3

LEMMA AssembleTInv ==
  ASSUME IInv, TInv, WebPAnimEncoderAssemble
  PROVE  TInv'
  <1>1. /\ ShownOf(mux', enc') = ShownOf(mux, Completed) /\ phase = "ended"
        /\ phase' = "assembled" /\ enc.in_frame_count > 0
        /\ input' = IF NeedsAverage THEN Timed(average) ELSE input
    BY AssembleStep
  <1>2. /\ ~enc.is_first_frame /\ LastCached(enc) /\ Sound(mux, enc)
        /\ IF NeedsAverage
           THEN /\ average \in 0..(MAX_DURATION - 1)
                /\ Increases(mux, enc, Completed, average)
           ELSE Completed = enc
    BY <1>1, Completes
  <1>3. input \in Seq(Additions) /\ enc.in_frame_count = Len(input)
    BY DEF IInv
  <1>4. input # <<>>
    BY <1>1, <1>3
  <1>5. CASE NeedsAverage
    <2>1. average \in Nat /\ ~enc.got_null_frame
      BY <1>2, <1>5, Durable DEF NeedsAverage
    <2>2. /\ Resembles(Timeline(ShownOf(mux, Completed)), Timeline(Timed(average)))
          /\ <<Final(ShownOf(mux, Completed)), Final(Timed(average))>> \in Similar
      <3>. DEFINE x == average
      <3>1. x \in Nat /\ Increases(mux, enc, Completed, x)
        BY <1>2, <1>5, <2>1
      <3>. HIDE DEF x
      <3>2. /\ Resembles(Timeline(ShownOf(mux, Completed)), Timeline(Timed(x)))
            /\ <<Final(ShownOf(mux, Completed)), Final(Timed(x))>> \in Similar
        BY <1>1, <1>2, <1>3, <1>4, <2>1, <3>1, AdvancedTimeline
      <3>. QED BY <3>2 DEF x
    <2>. QED BY <1>1, <1>5, <2>2 DEF TInv
  <1>6. CASE ~NeedsAverage
    BY <1>1, <1>2, <1>4, <1>6 DEF TInv
  <1>. QED BY <1>5, <1>6

LEMMA NextTInv == IInv /\ TInv /\ [Next]_vars => TInv'
  <1>. SUFFICES ASSUME IInv, TInv, [Next]_vars PROVE TInv'
    OBVIOUS
  <1>1. ASSUME phase # "assembled", UNCHANGED <<options, enc, mux, input>>
        PROVE  TInv'
    BY <1>1 DEF TInv
  <1>2. ASSUME NEW canvas \in Canvases, AddFirst(canvas) PROVE TInv'
    BY <1>2, FirstTInv
  <1>3. ASSUME NEW canvas \in Canvases, NEW t \in Durations,
               AddSkipped(canvas, t)
        PROVE  TInv'
    BY <1>3, SkippingStep, AddedTInv
  <1>4. ASSUME NEW canvas \in Canvases, NEW t \in Durations, AddSub(canvas, t)
        PROVE  TInv'
    BY <1>4, SubStep, AddedTInv
  <1>5. ASSUME NEW canvas \in Canvases, NEW t \in Durations, AddBoth(canvas, t)
        PROVE  TInv'
    BY <1>5, BothStep, AddedTInv
  <1>6. ASSUME NEW t \in Durations, Overrun(t) PROVE TInv'
    BY <1>1, <1>6 DEF Overrun
  <1>7. ASSUME NEW t \in Durations, AddNull(t) PROVE TInv'
    BY <1>7, NullTInv
  <1>8. ASSUME NEW t \in Durations, AddNullFails(t) PROVE TInv'
    BY <1>1, <1>8 DEF AddNullFails
  <1>9. CASE AddFails
    BY <1>1, <1>9 DEF AddFails
  <1>10. CASE WebPAnimEncoderAssemble
    BY <1>10, AssembleTInv
  <1>11. CASE AssembleFails
    BY <1>1, <1>11 DEF AssembleFails
  <1>12. CASE UNCHANGED vars
    BY <1>12 DEF vars, TInv
  <1>. QED BY <1>2, <1>3, <1>4, <1>5, <1>6, <1>7, <1>8, <1>9, <1>10, <1>11,
              <1>12 DEF Next

LEMMA TInvKept == IInv /\ TInv => TimelineKept
  <1>1. Shown = ShownOf(mux, enc)
    BY DEF Shown, ShownOf
  <1>2. Last(Shown).canvas = Final(Shown) /\ Last(input).canvas = Final(input)
    BY DEF Last, Final
  <1>. QED BY <1>1, <1>2 DEF TInv, TimelineKept, Resembles

(* Merged, split, flushed and cached frames together show every canvas for *)
(* the time it was given, up to changes too small to encode, whatever the  *)
(* number of additions (CacheFrame, IncreasePreviousDuration, FlushFrames, *)
(* WebPAnimEncoderAssemble).                                               *)
THEOREM EncoderTimelineKept == Spec => []TimelineKept
  <1>1. Init => IInv /\ TInv
    BY InitIInv DEF Init, TInv
  <1>2. IInv /\ TInv /\ [Next]_vars => (IInv /\ TInv)'
    BY NextIInv, NextTInv
  <1>3. IInv /\ TInv => TimelineKept
    BY TInvKept
  <1>. QED BY <1>1, <1>2, <1>3, PTL DEF Spec
=============================================================================
