---------------------------- MODULE MCWebpCache ----------------------------
(* An instance of WebpCache for TLC.  TLC need not tell the requests apart. *)
EXTENDS WebpCache, TLC

Symmetry == Permutations(Requests)
=============================================================================
