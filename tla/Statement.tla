------------------------------ MODULE Statement ------------------------------
(* What the ledger promises whoever reads it (app/models/ledger.py and the  *)
(* header of wallet_repo.py), with nothing of how it is kept: entries are   *)
(* only ever added, each kind moves its own buckets in its own direction,   *)
(* each entry's balance is the previous one plus what it moved, and the     *)
(* published balance is the last entry's at every instant.                  *)
EXTENDS Integers, Sequences

VARIABLES entries,   \* the statement, oldest first
          balance    \* what the wallet says it holds

Empty == [paid |-> 0, bonus |-> 0, reserved |-> 0]

\* The balance just before entry i: the previous entry's.
Before(es, i) == IF i = 1 THEN Empty ELSE es[i - 1].after

\* A kind moves only its own buckets, and only one way.
Lawful(kind, d) ==
    \/ kind = "credit"  /\ d.paid >= 0 /\ d.bonus >= 0 /\ d.reserved = 0
    \/ kind = "debit"   /\ d.paid <= 0 /\ d.bonus <= 0 /\ d.reserved <= 0
    \/ kind = "expiry"  /\ d.paid = 0  /\ d.bonus < 0  /\ d.reserved = 0
    \/ kind = "hold"    /\ d.paid = 0  /\ d.bonus = 0  /\ d.reserved > 0
    \/ kind = "release" /\ d.paid = 0  /\ d.bonus = 0  /\ d.reserved < 0

Follows(es, i) ==
    /\ es[i].after.paid     = Before(es, i).paid     + es[i].delta.paid
    /\ es[i].after.bonus    = Before(es, i).bonus    + es[i].delta.bonus
    /\ es[i].after.reserved = Before(es, i).reserved + es[i].delta.reserved

InOrder(es, i) == i > 1 => es[i - 1].version < es[i].version

Explained(es, b) ==
    /\ \A i \in 1..Len(es) :
          Follows(es, i) /\ InOrder(es, i) /\ Lawful(es[i].kind, es[i].delta)
    /\ b = Before(es, Len(es) + 1)

Extends(new, old) ==
    /\ Len(new) >= Len(old)
    /\ \A i \in 1..Len(old) : new[i] = old[i]

Init == Explained(entries, balance)

\* A committed transaction adds its entries, and the balance moves with them.
Post == Extends(entries', entries) /\ Explained(entries', balance')

Spec == Init /\ [][Post]_<<entries, balance>>
=============================================================================
