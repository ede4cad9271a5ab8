----------------------------- MODULE MCGifAnim -----------------------------
(* An instance of GifAnim for TLC: a canvas of 3 x 2 pixels and four       *)
(* colours.  Colours 1 and 2, and 2 and 3, are alike while 1 and 3 are     *)
(* not, so that a pixel can drift over three images.                       *)
EXTENDS GifAnim

MCInvalid == -1
MCAlike == {<<c, c>> : c \in Colors}
           \cup {<<1, 2>>, <<2, 1>>, <<2, 3>>, <<3, 2>>}

Image(rect, index(_, _)) ==
  [rect |-> rect, map |-> TRUE,
   index |-> [p \in Area(rect) |-> index(p[1], p[2])]]

(* Full images: plain, striped and with one deviating pixel; parts at odd  *)
(* and even offsets.  Colour 4 is the one that may be transparent.         *)
MCImages ==
  { Image(FullRect, LAMBDA x, y : 1),
    Image(FullRect, LAMBDA x, y : IF x = 1 THEN 4 ELSE 2),
    Image(FullRect, LAMBDA x, y : IF x = 2 /\ y = 1 THEN 3 ELSE 4),
    Image(Rect(1, 1, 1, 1), LAMBDA x, y : 4),
    Image(Rect(1, 0, 2, 2), LAMBDA x, y : IF y = 0 THEN 4 ELSE 3),
    [Image(Rect(0, 0, 1, 2), LAMBDA x, y : 1) EXCEPT !.map = FALSE] }

MCExtensions ==
  { [dispose |-> "none", delay |-> 40, transparent |-> GIF_INDEX_INVALID],
    [dispose |-> "none", delay |-> 10, transparent |-> 4],
    [dispose |-> "background", delay |-> 0, transparent |-> GIF_INDEX_INVALID],
    [dispose |-> "previous", delay |-> 11, transparent |-> 4] }

Opt(lossless, mixed, size) ==
  [lossless |-> lossless, allow_mixed |-> mixed, minimize_size |-> size]

MCOptions == {Opt(FALSE, FALSE, FALSE), Opt(TRUE, FALSE, FALSE)}
=============================================================================
