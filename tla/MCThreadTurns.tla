--------------------------- MODULE MCThreadTurns ---------------------------
(* ThreadTurns on small instances.                                         *)
EXTENDS ThreadTurns

NoItems == <<>>
TwoItems == <<1, 2>>
=============================================================================
