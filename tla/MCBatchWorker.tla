---------------------------- MODULE MCBatchWorker ----------------------------
(* Small instances of BatchWorker: one worker with two slots, or two workers *)
(* with one each.                                                           *)
EXTENDS BatchWorker, TLC

CONSTANTS w1, w2, s1, s2

OneProcess   == s1 :> w1 @@ s2 :> w1
TwoProcesses == s1 :> w1 @@ s2 :> w2
==============================================================================
