--------------------------- MODULE MCInputQueue ---------------------------
(* The queue table on its own, every operation by any caller.              *)
EXTENDS InputQueue, TLC
Sym == Permutations(Session) \cup Permutations(Key)
===========================================================================
