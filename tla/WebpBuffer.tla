----------------------------- MODULE WebpBuffer -----------------------------
(***************************************************************************)
(* The growable byte buffer in which the response filter collects the      *)
(* original image (struct webp_buffer: upstream.h, push_gate.c).           *)
(*                                                                         *)
(* The bytes themselves are abstracted away.  What is kept is the          *)
(* arithmetic that decides whether the memcpy of the next chunk stays      *)
(* inside the allocation: the size of the allocation, the bytes in use and *)
(* the bytes the code believes are left.                                   *)
(***************************************************************************)
EXTENDS Integers

CONSTANTS
  MaxLength,      (* webp->max_length, the limit set by the access mark     *)
  ContentLengths, (* values webp->content_length takes; -1: unknown         *)
  Chunks,         (* sizes of the chunks that the upstream pushes           *)
  IntMax          (* the largest int of the build                           *)

ASSUME BufferAssumption ==
  /\ MaxLength \in Nat \ {0}
  /\ ContentLengths \subseteq Int
  /\ \A n \in ContentLengths : n <= MaxLength
  /\ Chunks \subseteq Nat
  /\ IntMax \in Nat

VARIABLES
  buff,           (* [size, used, left]; size = 0 stands for data == NULL   *)
  content_length  (* announced length, fixed before the first chunk         *)

bvars == <<buff, content_length>>

(* kgl_align(d, 4096) *)
PageSize == 4096
Align(d) == ((d + (PageSize - 1)) \div PageSize) * PageSize

NoBuffer == [size |-> 0, used |-> 0, left |-> 0]

Buffers == [size : Nat, used : Nat, left : Nat]

Larger(m, n) == IF m >= n THEN m ELSE n

-----------------------------------------------------------------------------
(* realloc_buffer(b, n) when the allocator gives the memory; when it does  *)
(* not, b is unchanged and the call returns false.                         *)
Realloc(b, n) == [b EXCEPT !.size = n]

(* Mutant of Fits: the bytes in use are forgotten. *)
FitsAllocation(b, len) == b.size >= len

(* add_buff_data: room is left, or the buffer grows first.                 *)
Fits(b, len) == b.left >= len

(* Mutant of TooBig: the limit is applied to each chunk alone. *)
ChunkTooBig(b, len) == len > MaxLength

TooBig(b, len) == b.used + len > MaxLength

(* Mutant of Grown: all of the new allocation counts as left. *)
GrownAllLeft(b, len) ==
  LET new_len == Larger(b.used + len, Align(2 * b.used))
  IN  [Realloc(b, new_len) EXCEPT !.left = new_len]

Grown(b, len) ==
  LET new_len == Larger(b.used + len, Align(2 * b.used))
  IN  [Realloc(b, new_len) EXCEPT !.left = new_len - b.used]

(* Mutant of Copied: the chunk replaces the bytes before it. *)
CopiedToStart(b, len) == [b EXCEPT !.left = @ - len, !.used = len]

Copied(b, len) == [b EXCEPT !.left = @ - len, !.used = @ + len]

AddBuffData(b, len) == Copied(IF Fits(b, len) THEN b ELSE Grown(b, len), len)

(* The first chunk of a body of announced length preallocates that length; *)
(* the result of this realloc_buffer is ignored, so a failed one leaves    *)
(* data == NULL.  buff.left is not raised either way.                      *)
Preallocated(b) ==
  IF b.size = 0 /\ content_length > 0
  THEN {b, Realloc(b, content_length)}
  ELSE {b}

(* kwebp_write returning KGL_OK. *)
WriteOK(len) ==
  /\ \E b \in Preallocated(buff) :
        /\ Fits(b, len) \/ ~TooBig(b, len)
        /\ buff' = AddBuffData(b, len)
  /\ UNCHANGED content_length

(* kwebp_write returning KGL_EINSUFFICIENT_BUFFER: the chunk does not fit  *)
(* and either the body is too big or realloc_buffer fails.  The chunk is   *)
(* not stored.                                                             *)
WriteRefused(len) ==
  /\ \E b \in Preallocated(buff) :
        /\ ~Fits(b, len)
        /\ buff' = b
  /\ UNCHANGED content_length

(* buffer_destroy: without an allocation the counters are left alone. *)
Destroyed(b) == IF b.size = 0 THEN b ELSE NoBuffer

Destroy ==
  /\ buff' = Destroyed(buff)
  /\ UNCHANGED content_length

Init ==
  /\ buff = NoBuffer
  /\ content_length \in ContentLengths

Next ==
  \/ \E len \in Chunks : WriteOK(len)
  \/ \E len \in Chunks : WriteRefused(len)
  \/ Destroy

Spec == Init /\ [][Next]_bvars

-----------------------------------------------------------------------------
TypeOK ==
  /\ buff \in Buffers
  /\ content_length \in ContentLengths

(* What the code believes is left really is inside the allocation, so the  *)
(* memcpy of add_buff_data (push_gate.c:140) never passes its end, and a   *)
(* missing allocation is never taken for one with room.                    *)
InBounds == buff.used + buff.left <= buff.size

(* The limit the code really enforces.  The test against max_length is     *)
(* made only when the buffer has to grow, and the growth rounds up to      *)
(* twice the used bytes, so up to Align(2 * max_length) bytes are taken    *)
(* from the upstream before a chunk is refused.                            *)
Capacity == Align(2 * MaxLength)

BoundedGrowth == buff.size <= Capacity

(* No sum of add_buff_data leaves the range of int while the next chunk is *)
(* accepted or refused (push_gate.c:121-128).                              *)
NoIntOverflow ==
  /\ \A len \in Chunks : buff.used + len <= IntMax
  /\ buff.used <= MaxLength => 2 * buff.used + (PageSize - 1) <= IntMax

(* A refused chunk loses nothing of what was already buffered, and no      *)
(* write takes bytes back (kwebp_write, push_gate.c:12-24).                *)
AppendOnly == [][buff'.used >= buff.used \/ buff' = NoBuffer]_bvars
=============================================================================
