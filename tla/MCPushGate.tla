----------------------------- MODULE MCPushGate -----------------------------
(* An instance of PushGate for TLC.  One size fits the limit and one does  *)
(* not; two chunks of 3000 fit the buffer, three grow it past the limit's  *)
(* test, and 7000 is refused at once.                                      *)
EXTENDS PushGate

MCMaxLength == 6000
MCBodySizes == {-1, 3000, 7000}
MCChunks == {3000, 7000}
=============================================================================
