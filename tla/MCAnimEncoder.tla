--------------------------- MODULE MCAnimEncoder ---------------------------
(* An instance of AnimEncoder for TLC.  Canvases 1 and 2, and 2 and 3, are *)
(* similar while 1 and 3 are not, so that merging could drift; two         *)
(* durations can reach MAX_DURATION, and one exceeds it alone.             *)
EXTENDS AnimEncoder

MCSimilar == {p \in Canvases \X Canvases : p[1] - p[2] \in {-1, 0, 1}}

Asked(kmin, kmax) == [minimize_size |-> FALSE, kmin |-> kmin, kmax |-> kmax]

(* no key frames; only key frames; kmin corrected down; two and three      *)
(* candidates in the window; more than MAX_CACHED_FRAMES                   *)
MCOptionSet ==
  {Asked(0, 0), Asked(0, 1), Asked(5, 2), Asked(0, 2), Asked(0, 5),
   Asked(0, 7)} \cup {[Asked(0, 1) EXCEPT !.minimize_size = TRUE]}

MCIdentical == {<<c, c>> : c \in Canvases}

(* windows of two to five slots *)
MCKeyOptions == {Asked(0, 1), Asked(5, 2), Asked(0, 2), Asked(0, 5),
                 Asked(0, 7), Asked(0, 9)}

MCDefaultOptions == {Asked(0, 0)}
=============================================================================
