------------------------------ MODULE WalletOps ------------------------------
(* The pure half of app/services/billing/wallet_repo.py: what a wallet row  *)
(* says about itself at an instant, the compare-and-swap UPDATE as an       *)
(* operator on rows, and the move each operation computes from a snapshot.  *)
EXTENDS Integers

\* `bonus_expires_at IS NULL`: the bonus never lapses. Real times are >= 1.
Never == 0

\* The `_UNSET` sentinel of `_cas`: leave the expiry column alone.
Unset == -1

\* `idempotency_key IS NULL`; NULLs never collide in a unique index.
NoKey == "-"

(* One row of `wallets`, the columns that decide anything. *)
WalletRow == [paid: Nat, bonus: Nat, reserved: Nat, expires: Nat,
              version: Nat, frozen: BOOLEAN,
              spend: Nat, topup: Nat, writeoff: Nat]

Balances == [paid: Nat, bonus: Nat, reserved: Nat]

Balance(w) == [paid |-> w.paid, bonus |-> w.bonus, reserved |-> w.reserved]

(* The arguments of one `_cas` call. *)
MoveSet == [paid: Int, bonus: Int, reserved: Int, spend: Int, topup: Int,
            writeoff: Int, expires: {Unset} \cup Nat]

Least(a, b) == IF a <= b THEN a ELSE b
Most(a, b)  == IF a <= b THEN b ELSE a

-----------------------------------------------------------------------------
(* What a snapshot says.                                                    *)

\* A lapsed bonus reads as zero from the instant it lapses.
EffectiveBonus(w, now) ==
    IF w.expires = Never \/ w.expires > now THEN w.bonus ELSE 0

BonusHasExpired(w, now) == w.bonus > 0 /\ EffectiveBonus(w, now) = 0

Available(w, now) == w.paid + EffectiveBonus(w, now) - w.reserved

\* Mutant: the paid half keeps the whole amount.
SplitPaidInFull(amount, effective) ==
    [bonus |-> Least(amount, Most(0, effective)), paid |-> amount]

SplitBonusFirst(amount, effective) ==
    LET fromBonus == Least(amount, Most(0, effective))
    IN  [bonus |-> fromBonus, paid |-> amount - fromBonus]

-----------------------------------------------------------------------------
(* The compare-and-swap.                                                    *)

\* Mutant: the version predicate is dropped, the non-negative guards are kept.
CasIgnoresVersion(row, snapshot, move) ==
    /\ row.paid + move.paid >= 0
    /\ row.bonus + move.bonus >= 0
    /\ row.reserved + move.reserved >= 0

CasMatches(row, snapshot, move) ==
    /\ row.version = snapshot.version
    /\ row.paid + move.paid >= 0
    /\ row.bonus + move.bonus >= 0
    /\ row.reserved + move.reserved >= 0

\* Mutant: the UPDATE does not bump the version.
CasKeepsVersion(row, move) ==
    [paid     |-> row.paid + move.paid,
     bonus    |-> row.bonus + move.bonus,
     reserved |-> row.reserved + move.reserved,
     expires  |-> IF move.expires = Unset THEN row.expires ELSE move.expires,
     version  |-> row.version,
     frozen   |-> row.frozen,
     spend    |-> row.spend + move.spend,
     topup    |-> row.topup + move.topup,
     writeoff |-> row.writeoff + move.writeoff]

CasUpdate(row, move) ==
    [paid     |-> row.paid + move.paid,
     bonus    |-> row.bonus + move.bonus,
     reserved |-> row.reserved + move.reserved,
     expires  |-> IF move.expires = Unset THEN row.expires ELSE move.expires,
     version  |-> row.version + 1,
     frozen   |-> row.frozen,
     spend    |-> row.spend + move.spend,
     topup    |-> row.topup + move.topup,
     writeoff |-> row.writeoff + move.writeoff]

-----------------------------------------------------------------------------
(* The move each operation asks `_cas` for, computed from its snapshot.     *)

Move(paid, bonus, reserved) ==
    [paid |-> paid, bonus |-> bonus, reserved |-> reserved, spend |-> 0, topup |-> 0,
     writeoff |-> 0, expires |-> Unset]

ExpiryMove(w) ==
    [paid |-> 0, bonus |-> -w.bonus, reserved |-> 0, spend |-> 0, topup |-> 0,
     writeoff |-> 0, expires |-> Never]

Chargeable(w, now, amount) == Least(amount, Most(0, Available(w, now)))

DebitMove(w, now, amount, release) ==
    LET charge == Chargeable(w, now, amount)
        split  == SplitBonusFirst(charge, EffectiveBonus(w, now))
    IN  [paid     |-> -split.paid,
         bonus    |-> -split.bonus,
         reserved |-> -Least(release, w.reserved),
         spend    |-> charge,
         topup    |-> 0,
         writeoff |-> amount - charge,
         expires  |-> Unset]

\* Two bonuses share one column: permanent wins, then the later date.
MergedExpiry(w, bonus, expires) ==
    IF bonus = 0 THEN Unset
    ELSE IF w.bonus = 0 THEN expires
    ELSE IF w.expires = Never \/ expires = Never THEN Never
    ELSE Most(w.expires, expires)

CreditMove(w, paid, bonus, expires) ==
    [paid |-> paid, bonus |-> bonus, reserved |-> 0, spend |-> 0,
     topup |-> paid + bonus, writeoff |-> 0, expires |-> MergedExpiry(w, bonus, expires)]

ReleaseMove(w, amount) == Move(0, 0, -Least(amount, w.reserved))

\* `place_hold` has no snapshot to compare: the headroom test is the predicate
\* of its single UPDATE, and reads the raw bonus column.
HoldMatches(row, amount) ==
    ~row.frozen /\ row.paid + row.bonus - row.reserved >= amount

HoldMove(amount) == Move(0, 0, amount)

\* `set_frozen` compares nothing: it is not a movement of credit.
FrozenUpdate(row, frozen) == [CasUpdate(row, Move(0, 0, 0)) EXCEPT !.frozen = frozen]

-----------------------------------------------------------------------------
(* Ledger entries. One record stands for the rows of one `group_id`: at     *)
(* most one row per bucket, a zero amount writing no row.                   *)

Kinds == {"credit", "debit", "expiry", "hold", "release"}

Entry(kind, key, move, row) ==
    [kind |-> kind, key |-> key,
     delta |-> [paid |-> move.paid, bonus |-> move.bonus,
                reserved |-> move.reserved],
     after |-> Balance(row), version |-> row.version]

\* Mutant: the reserved bucket writes no row.
WritesMoneyRows(delta) == delta.paid # 0 \/ delta.bonus # 0

WritesRows(delta) == delta.paid # 0 \/ delta.bonus # 0 \/ delta.reserved # 0

\* Mutant: reserved rows are left out of the unique index.
ShareMoneyBucket(d, e) == (d.paid # 0 /\ e.paid # 0) \/ (d.bonus # 0 /\ e.bonus # 0)

\* Both write a row of the same bucket: with equal keys the second insert
\* violates UNIQUE (idempotency_key, bucket).
ShareBucket(d, e) ==
    \/ d.paid # 0 /\ e.paid # 0
    \/ d.bonus # 0 /\ e.bonus # 0
    \/ d.reserved # 0 /\ e.reserved # 0

Collides(book, key, delta) ==
    /\ key # NoKey
    /\ \E i \in DOMAIN book : book[i].key = key /\ ShareBucket(book[i].delta, delta)

Recorded(book, key) == \E i \in DOMAIN book : book[i].key = key
=============================================================================
