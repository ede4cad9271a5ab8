-------------------------- MODULE WebpBuffer_proof --------------------------
(***************************************************************************)
(* Proofs about WebpBuffer, for every limit, every set of chunk sizes and  *)
(* every announced length.                                                 *)
(***************************************************************************)
EXTENDS WebpBuffer, TLAPS

(* kgl_align rounds up, by less than a page. *)
LEMMA AlignRoundsUp ==
  ASSUME NEW d \in Nat
  PROVE  /\ Align(d) \in Nat
         /\ d <= Align(d)
         /\ Align(d) < d + PageSize
  BY DEF Align, PageSize

(* kgl_align does not reverse an order. *)
LEMMA AlignMonotone ==
  ASSUME NEW m \in Nat, NEW n \in Nat, m <= n
  PROVE  Align(m) <= Align(n)
  BY DEF Align, PageSize

LEMMA CapacityType == /\ Capacity \in Nat
                      /\ 2 * MaxLength <= Capacity
  <1>1. 2 * MaxLength \in Nat
    BY BufferAssumption
  <1>. QED BY <1>1, AlignRoundsUp DEF Capacity

(* A buffer that is consistent and not larger than Capacity. *)
Sound(b) ==
  /\ b \in Buffers
  /\ b.used + b.left <= b.size
  /\ b.size <= Capacity

IInv == /\ Sound(buff)
        /\ content_length \in ContentLengths

(* The preallocation of kwebp_write gives a sound buffer, used as before. *)
LEMMA PreallocatedSound ==
  ASSUME IInv, NEW b \in Preallocated(buff)
  PROVE  Sound(b) /\ b.used = buff.used
  <1>1. CASE b = buff
    BY <1>1 DEF IInv
  <1>2. CASE b # buff
    <2>1. /\ buff.size = 0 /\ content_length > 0
          /\ b = Realloc(buff, content_length)
      BY <1>2 DEF Preallocated
    <2>2. /\ content_length \in Nat
          /\ content_length <= MaxLength
          /\ MaxLength \in Nat
      BY <2>1, BufferAssumption DEF IInv
    <2>3. content_length <= Capacity
      BY <2>2, CapacityType
    <2>4. /\ b \in Buffers
          /\ b.size = content_length
          /\ b.used = buff.used /\ b.left = buff.left
      BY <2>1, <2>2 DEF IInv, Sound, Buffers, Realloc
    <2>5. b.used + b.left <= b.size
      BY <2>1, <2>2, <2>4 DEF IInv, Sound, Buffers
    <2>. QED BY <2>3, <2>4, <2>5 DEF Sound
  <1>. QED BY <1>1, <1>2

(* The final bookkeeping of add_buff_data keeps the counters natural.      *)
LEMMA CopiedType ==
  ASSUME NEW b \in Buffers, NEW len \in Nat, b.left >= len
  PROVE  /\ Copied(b, len) \in Buffers
         /\ Copied(b, len).size = b.size
         /\ Copied(b, len).used = b.used + len
         /\ Copied(b, len).left = b.left - len
  <1>. DEFINE c == [b EXCEPT !.left = @ - len]
  <1>1. b.size \in Nat /\ b.used \in Nat /\ b.left \in Nat
    BY DEF Buffers
  <1>2. b.left - len \in Nat
    BY <1>1
  <1>3. c \in Buffers /\ c.size = b.size /\ c.used = b.used
        /\ c.left = b.left - len
    BY <1>1, <1>2 DEF Buffers
  <1>4. Copied(b, len) = [c EXCEPT !.used = @ + len]
    BY DEF Copied, Buffers
  <1>. HIDE DEF c
  <1>. QED BY <1>1, <1>3, <1>4 DEF Buffers

(* Growing keeps the counters natural and makes room for the chunk.        *)
LEMMA GrownType ==
  ASSUME NEW b \in Buffers, NEW len \in Nat
  PROVE  /\ Grown(b, len) \in Buffers
         /\ Grown(b, len).size = Larger(b.used + len, Align(2 * b.used))
         /\ Grown(b, len).used = b.used
         /\ Grown(b, len).left = Grown(b, len).size - b.used
         /\ Grown(b, len).left >= len
  <1>. DEFINE new == Larger(b.used + len, Align(2 * b.used))
              c == Realloc(b, new)
  <1>1. b.size \in Nat /\ b.used \in Nat /\ b.left \in Nat
    BY DEF Buffers
  <1>2. Align(2 * b.used) \in Nat
    BY <1>1, AlignRoundsUp
  <1>3. new \in Nat /\ new >= b.used + len
    BY <1>1, <1>2 DEF Larger
  <1>4. c \in Buffers /\ c.size = new /\ c.used = b.used
    BY <1>1, <1>3 DEF Buffers, Realloc
  <1>5. Grown(b, len) = [c EXCEPT !.left = new - b.used]
    BY DEF Grown
  <1>6. new - b.used \in Nat
    BY <1>1, <1>3
  <1>. HIDE DEF c, new
  <1>7. /\ Grown(b, len) \in Buffers
        /\ Grown(b, len).size = new
        /\ Grown(b, len).used = b.used
        /\ Grown(b, len).left = new - b.used
    BY <1>4, <1>5, <1>6 DEF Buffers
  <1>. QED BY <1>1, <1>3, <1>7 DEF new

(* add_buff_data keeps a buffer sound and stores exactly the chunk. *)
LEMMA AddBuffDataSound ==
  ASSUME NEW b, Sound(b), NEW len \in Nat, Fits(b, len) \/ ~TooBig(b, len)
  PROVE  /\ Sound(AddBuffData(b, len))
         /\ AddBuffData(b, len).used = b.used + len
  <1>. /\ b \in Buffers
       /\ b.used \in Nat /\ b.left \in Nat /\ b.size \in Nat
       /\ MaxLength \in Nat
    BY BufferAssumption DEF Sound, Buffers
  <1>1. CASE Fits(b, len)
    <2>1. AddBuffData(b, len) = Copied(b, len)
      BY <1>1 DEF AddBuffData
    <2>. QED BY <1>1, <2>1, CopiedType DEF Fits, Sound
  <1>2. CASE ~Fits(b, len)
    <2>1. /\ Grown(b, len) \in Buffers
          /\ Grown(b, len).size = Larger(b.used + len, Align(2 * b.used))
          /\ Grown(b, len).used = b.used
          /\ Grown(b, len).left = Grown(b, len).size - b.used
          /\ Grown(b, len).left >= len
      BY GrownType
    <2>2. b.used + len <= MaxLength
      BY <1>2 DEF TooBig
    <2>3. Align(2 * b.used) <= Capacity
      BY <2>2, AlignMonotone DEF Capacity
    <2>4. Grown(b, len).size <= Capacity
      BY <2>1, <2>2, <2>3, CapacityType, AlignRoundsUp DEF Larger
    <2>5. AddBuffData(b, len) = Copied(Grown(b, len), len)
      BY <1>2 DEF AddBuffData
    <2>6. Grown(b, len).size \in Nat
      BY <2>1 DEF Buffers
    <2>. QED BY <2>1, <2>4, <2>5, <2>6, CopiedType DEF Sound
  <1>. QED BY <1>1, <1>2

LEMMA DestroyedSound ==
  ASSUME NEW b, Sound(b)
  PROVE  Sound(Destroyed(b))
  <1>1. Sound(NoBuffer)
    BY CapacityType DEF Sound, NoBuffer, Buffers
  <1>. QED BY <1>1 DEF Destroyed

LEMMA Inductive == Spec => []IInv
  <1>1. Init => IInv
    BY CapacityType DEF Init, IInv, Sound, NoBuffer, Buffers
  <1>2. IInv /\ [Next]_bvars => IInv'
    <2>. SUFFICES ASSUME IInv, [Next]_bvars
                  PROVE  IInv'
      OBVIOUS
    <2>1. ASSUME NEW len \in Chunks, WriteOK(len)
          PROVE  IInv'
      <3>. len \in Nat
        BY BufferAssumption
      <3>1. PICK b \in Preallocated(buff) :
              /\ Fits(b, len) \/ ~TooBig(b, len)
              /\ buff' = AddBuffData(b, len)
        BY <2>1 DEF WriteOK
      <3>2. Sound(buff')
        BY <3>1, PreallocatedSound, AddBuffDataSound
      <3>. QED BY <2>1, <3>2 DEF WriteOK, IInv, Sound, Capacity
    <2>2. ASSUME NEW len \in Chunks, WriteRefused(len)
          PROVE  IInv'
      <3>1. Sound(buff')
        BY <2>2, PreallocatedSound DEF WriteRefused
      <3>. QED BY <2>2, <3>1 DEF WriteRefused, IInv, Sound, Capacity
    <2>3. CASE Destroy
      <3>1. Sound(buff')
        BY <2>3, DestroyedSound DEF Destroy, IInv
      <3>. QED BY <2>3, <3>1 DEF Destroy, IInv, Sound, Capacity
    <2>4. CASE UNCHANGED bvars
      BY <2>4 DEF bvars, IInv, Sound, Capacity
    <2>. QED BY <2>1, <2>2, <2>3, <2>4 DEF Next
  <1>. QED BY <1>1, <1>2, PTL DEF Spec

-----------------------------------------------------------------------------
(* The counters of the buffer are never negative: the two asserts of       *)
(* add_buff_data (push_gate.c:133, 144) hold.                              *)
THEOREM TypeCorrect == Spec => []TypeOK
  <1>1. IInv => TypeOK
    BY DEF IInv, Sound, TypeOK
  <1>. QED BY <1>1, Inductive, PTL

(* No memcpy of add_buff_data passes the end of the allocation. *)
THEOREM MemcpyInBounds == Spec => []InBounds
  <1>1. IInv => InBounds
    BY DEF IInv, Sound, InBounds
  <1>. QED BY <1>1, Inductive, PTL

(* The buffer never exceeds the larger of the announced length and twice   *)
(* max_length rounded to a page, which is Capacity.                        *)
THEOREM GrowthBounded == Spec => []BoundedGrowth
  <1>1. IInv => BoundedGrowth
    BY DEF IInv, Sound, BoundedGrowth
  <1>. QED BY <1>1, Inductive, PTL

(* With a limit this far below IntMax, the int arithmetic of add_buff_data *)
(* never wraps.                                                            *)
THEOREM IntsSuffice ==
  ASSUME /\ 2 * MaxLength + (PageSize - 1) <= IntMax
         /\ \A len \in Chunks : Capacity + len <= IntMax
  PROVE  Spec => []NoIntOverflow
  <1>1. ASSUME IInv
        PROVE  NoIntOverflow
    <2>. /\ buff.used \in Nat /\ buff.used <= Capacity
         /\ MaxLength \in Nat /\ IntMax \in Nat /\ Chunks \subseteq Nat
         /\ Capacity \in Nat
      BY <1>1, BufferAssumption, CapacityType DEF IInv, Sound, Buffers
    <2>1. ASSUME NEW len \in Chunks
          PROVE  buff.used + len <= IntMax
      OBVIOUS
    <2>2. ASSUME buff.used <= MaxLength
          PROVE  2 * buff.used + (PageSize - 1) <= IntMax
      BY <2>2 DEF PageSize
    <2>. QED BY <2>1, <2>2 DEF NoIntOverflow
  <1>. QED BY <1>1, Inductive, PTL

(* No call loses bytes that were stored, except the release of them all. *)
THEOREM OnlyAppends == Spec => AppendOnly
  <1>1. IInv /\ [Next]_bvars
          => [buff'.used >= buff.used \/ buff' = NoBuffer]_bvars
    <2>. SUFFICES ASSUME IInv, [Next]_bvars, ~UNCHANGED bvars
                  PROVE  buff'.used >= buff.used \/ buff' = NoBuffer
      OBVIOUS
    <2>. buff.used \in Nat
      BY DEF IInv, Sound, Buffers
    <2>1. ASSUME NEW len \in Chunks, WriteOK(len)
          PROVE  buff'.used >= buff.used
      <3>. len \in Nat
        BY BufferAssumption
      <3>1. PICK b \in Preallocated(buff) :
              /\ Fits(b, len) \/ ~TooBig(b, len)
              /\ buff' = AddBuffData(b, len)
        BY <2>1 DEF WriteOK
      <3>2. b.used = buff.used /\ Sound(b)
        BY PreallocatedSound
      <3>3. buff'.used = buff.used + len
        BY <3>1, <3>2, AddBuffDataSound
      <3>. QED BY <3>3
    <2>2. ASSUME NEW len \in Chunks, WriteRefused(len)
          PROVE  buff'.used >= buff.used
      BY <2>2, PreallocatedSound DEF WriteRefused
    <2>3. CASE Destroy
      BY <2>3 DEF Destroy, Destroyed
    <2>. QED BY <2>1, <2>2, <2>3 DEF Next
  <1>. QED BY <1>1, Inductive, PTL DEF Spec, AppendOnly
=============================================================================
