------------------------------ MODULE MCAccounts ------------------------------
(* Two accounts at Google and one at Telegram.                                 *)
EXTENDS Accounts, TLC

CONSTANTS g1, g2, t1

ProviderOf == g1 :> "google" @@ g2 :> "google" @@ t1 :> "telegram"
=============================================================================
