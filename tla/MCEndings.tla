------------------------------ MODULE MCEndings ------------------------------
(* A small instance of Endings: two sessions of different prices, two requests *)
(* of each gateway, a job with its creator and a sweep, two calls on one line. *)
EXTENDS Endings, TLC

CONSTANTS s1, s2

UnevenQuote == s1 :> 2 @@ s2 :> 1

EndingOps == {"open", "settle", "touch", "estimate", "heal"}
=============================================================================
