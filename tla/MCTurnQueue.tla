---------------------------- MODULE MCTurnQueue ----------------------------
(* One session, up to three submissions.  A key map says which of them carry *)
(* the same client_msg_id.                                                  *)
EXTENDS TurnQueue, TLC
CONSTANTS m1, m2, m3, k1, k2, k3
Distinct1 == m1 :> k1
Distinct2 == m1 :> k1 @@ m2 :> k2
Distinct3 == m1 :> k1 @@ m2 :> k2 @@ m3 :> k3
Resend2   == m1 :> k1 @@ m2 :> k1
Resend3   == m1 :> k1 @@ m2 :> k2 @@ m3 :> k1
============================================================================
