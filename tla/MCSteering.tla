----------------------------- MODULE MCSteering -----------------------------
(* SteeringQueue for TLC. *)
EXTENDS SteeringQueue
=============================================================================
