----------------------------- MODULE MCAiSessions ----------------------------
(* Small instances of AiSessions: two or three requests against a wallet    *)
(* that cannot cover everything at once.                                    *)
EXTENDS AiSessions, TLC

CONSTANTS s1, s2, s3

UnevenQuote == s1 :> 2 @@ s2 :> 1
EvenQuote   == s1 :> 1 @@ s2 :> 1 @@ s3 :> 1
OneQuote    == s1 :> 2

CallOps  == {"open", "settle", "abandon", "touch", "estimate"}
TornOps  == {"open", "settle", "heal"}
StaleOps == {"open", "abandon", "estimate"}

HandlerSymmetry == Permutations(Handlers)
=============================================================================
