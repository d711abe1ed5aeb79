------------------------------ MODULE MCServices ------------------------------
(* Values for Services: each service with the few actors, keys and prices that *)
(* its races take. Strings stand for model values.                             *)
EXTENDS Services, TLC

\* The second recording and the transcription are of the same bytes as the first.
SavedTables == <<"tts_recordings", "stt_transcriptions">>
SavedTo     == "s1" :> SavedTables[1] @@ "s2" :> SavedTables[1] @@ "s3" :> SavedTables[2]
SameKey     == [s \in Savers |-> "k"]

ProviderOf == "g1" :> "google" @@ "t1" :> "telegram"

\* Rows of each rounding with an allowance and a minimum, books that lack a row.
Row(unit, rate, included, minimum, rounding) ==
    [unit |-> unit, rate |-> rate, included |-> included, minimum |-> minimum,
     rounding |-> rounding]
Unpriced == [unit |-> 0]
Minutes  == Row(1, 1, 0, 2, "ceil")
Books ==
    {[work |-> Row(2, 3, 1, 2, r), time |-> Minutes] : r \in {"floor", "half_up", "ceil", "exact"}}
    \cup {[work |-> Row(2, 1, 1, 2, "floor"), time |-> Unpriced],
          [work |-> Unpriced, time |-> Minutes],
          [work |-> Row(1, 1, 0, 0, "ceil"), time |-> Row(2, 3, 1, 0, "exact")]}
=============================================================================
