----------------------------- MODULE MCVoiceCall -----------------------------
(* One call, a few ticks long, between two connections.                      *)
EXTENDS VoiceCall, TLC
==============================================================================
