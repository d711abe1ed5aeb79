---------------------------- MODULE MCStoredAudio ----------------------------
(* Two recordings of the same audio, and one request that deletes a row.       *)
EXTENDS StoredAudio, TLC

SameKey  == [s \in Savers |-> "k"]
OneTable == <<"tts_recordings">>
InTable  == [s \in Savers |-> "tts_recordings"]
=============================================================================
