---------------------------- MODULE MCWebpBuffer ----------------------------
(* Instances of WebpBuffer for TLC.  The sizes sit on both sides of the    *)
(* page size and of MaxLength, so that a write fits, grows the buffer to   *)
(* the exact length, grows it to the rounded length, and is refused.       *)
EXTENDS WebpBuffer

MCMaxLength == 10000
MCContentLengths == {-1, 0, 5000, 10000}
MCChunks == {0, 1, 1000, 3000, 4096, 6000, 10001}
(* The smallest int width that the theorem IntsSuffice asks for. *)
MCIntMax == 20480 + 10001
=============================================================================
