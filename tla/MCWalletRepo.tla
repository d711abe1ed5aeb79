----------------------------- MODULE MCWalletRepo ----------------------------
(* Small wallets for TLC: calls as records, and the sets each run draws     *)
(* from. Bonuses lapse at time 2 or are permanent, so the clock needs two   *)
(* values.                                                                  *)
EXTENDS WalletRepo, TLC

Call(op, key, amount) ==
    [NoCall EXCEPT !.op = op, !.key = key, !.amount = amount]

\* A settlement that gives part of its hold back with the charge, and may
\* write off one unit.
Settle == [Call("debit", "usage", 3) EXCEPT !.release = 1, !.grace = 1]

TopUp == Call("credit", "topup", 1)

\* Grants on top of the opening bonus: a later date, and a permanent one.
Extend    == [Call("credit", "extend", 0) EXCEPT !.bonus = 1, !.expires = 3]
Permanent == [Call("credit", "permanent", 1) EXCEPT !.bonus = 1, !.expires = Never]

Hold    == Call("hold", "hold", 2)
Hold2   == Call("hold", "hold2", 3)

\* More than the paid credit, within paid and bonus; and a charge that either
\* bucket covers alone.
BigHold == Call("hold", "hold", 4)
Charge  == Call("debit", "usage", 2)

Release == Call("release", "release", 2)
Expire  == Call("expire", NoKey, 0)
Freeze  == Call("freeze", NoKey, 0)
Thaw    == Call("unfreeze", NoKey, 0)

MCKeys == {"usage", "topup", "extend", "permanent", "hold", "hold2", "release"}

SpendCalls  == {Settle, Hold, Release, Expire}
GrantCalls  == {Settle, Extend, Permanent, Expire}
FreezeCalls == {Hold, Hold2, Freeze, Thaw}
AllCalls    == SpendCalls \cup GrantCalls \cup FreezeCalls
ChargeCalls == {Charge}
LapseCalls  == {BigHold, TopUp}

Mixed == [paid |-> 2, bonus |-> 2, expires |-> 2]
Lasting == [paid |-> 2, bonus |-> 2, expires |-> Never]

ClientSymmetry == Permutations(Clients)
=============================================================================
