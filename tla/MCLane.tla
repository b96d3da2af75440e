------------------------------- MODULE MCLane -------------------------------
(* Three tasks compete for a lane of one or two slots.                      *)
EXTENDS Lane
=============================================================================
