---------------------------- MODULE MCEffectLog ----------------------------
(* Two intents, one of them of a kind nobody handles.                      *)
EXTENDS EffectLog
============================================================================
