----------------------------- MODULE MCBatchJobs -----------------------------
(* Instances of BatchJobs for TLC. Callers are interchangeable, the creator  *)
(* aside.                                                                    *)
EXTENDS BatchJobs, TLC

Interchangeable == Permutations(Callers \ {Creator})
=============================================================================
