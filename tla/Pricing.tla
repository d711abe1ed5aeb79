------------------------------ MODULE Pricing ------------------------------
(* app/services/billing/pricing.py and core/money.py, and the sale they      *)
(* serve in session_service.py: a quote for a ceiling of quantities by the   *)
(* price book in force (open_oneshot), and a settlement of what was used by  *)
(* the book the sale was quoted with (settle_oneshot), whatever was          *)
(* published in between. No service sells by more than two metrics at once   *)
(* (stt: audio and session time); they are "work" and "time" here.           *)
EXTENDS Integers

CONSTANTS
    Tariffs,        \* price books: for each metric its row, or NoRow
    NoRow,
    Versions,       \* price_book_versions.version
    MaxQuantity,    \* bound: base units of a metric in a sale
    Unmetered       \* the session that was not opened

Metrics   == {"work", "time"}
Roundings == {"floor", "half_up", "ceil", "exact"}

\* What the check constraints of the table prices let in.
IsRow(r) ==
    /\ r.unit \in Nat \ {0} /\ r.rate \in Nat /\ r.included \in Nat /\ r.minimum \in Nat
    /\ r.rounding \in Roundings
IsTariff(t) == DOMAIN t = Metrics /\ \A m \in Metrics : t[m] = NoRow \/ IsRow(t[m])

\* What the theorems take of the constants; MCServices has TLC evaluate it.
PriceAssumption ==
    /\ \A t \in Tariffs : IsTariff(t)
    /\ Versions \subseteq Nat \ {0}
    /\ \A S \in SUBSET Versions : S # {} => \E v \in S : \A w \in S : w <= v
    /\ MaxQuantity \in Nat

-----------------------------------------------------------------------------
(* The arithmetic.                                                          *)

ceil_div(n, d)    == (n \div d) + (IF n % d = 0 THEN 0 ELSE 1)
half_up_div(n, d) == (2 * n + d) \div (2 * d)

\* quantity > 0.
billable_units(quantity, unit, rounding) ==
    CASE rounding = "floor"   -> quantity \div unit
      [] rounding = "half_up" -> half_up_div(quantity, unit)
      [] OTHER                -> ceil_div(quantity, unit)

\* The charge for a cumulative quantity: nothing inside the allowance, and at
\* least the minimum beyond it.
line_micros(q, r) ==
    LET billable == q - r.included
        raw == IF r.rounding = "exact" THEN (billable * r.rate) \div r.unit
               ELSE billable_units(billable, r.unit, r.rounding) * r.rate
    IN  IF billable <= 0 THEN 0 ELSE IF raw >= r.minimum THEN raw ELSE r.minimum

Priced(q, t) == \A m \in Metrics : q[m] > 0 => t[m] # NoRow

Line(q, t, m) == IF q[m] > 0 THEN line_micros(q[m], t[m]) ELSE 0

\* Of quantities that are all priced; the others are a 400.
price_cumulative(q, t) == Line(q, t, "work") + Line(q, t, "time")

credits_for_tiyin(tiyin, rate, micros) == (tiyin * micros) \div rate
tiyin_for_credits(credits, rate, micros) == ceil_div(credits * rate, micros)

-----------------------------------------------------------------------------
(* The sale.                                                                *)

VARIABLES
    book,       \* each version: its prices
    published,  \* versions whose effective_from has come
    over,       \* versions whose effective_to has
    sale,       \* how the session stands, and the version it is pinned to
    ceiling,    \* the quantities it was quoted for
    used,       \* the quantities it was settled for
    hold,       \* reserved_micros
    charged,
    clamped

vars == <<book, published, over, sale, ceiling, used, hold, charged, clamped>>

Quantities == [Metrics -> 0..MaxQuantity]
Nothing    == [m \in Metrics |-> 0]

TypeOK ==
    /\ book \in [Versions -> Tariffs]
    /\ published \subseteq Versions /\ over \subseteq published
    /\ sale \in [status: {"none", "open", "closed", "raised"}, version: Versions \cup {Unmetered}]
    /\ ceiling \in Quantities /\ used \in Quantities
    /\ hold \in Nat /\ charged \in 0..hold /\ clamped \in BOOLEAN

Init ==
    /\ book \in [Versions -> Tariffs]
    /\ published = {} /\ over = {}
    /\ sale = [status |-> "none", version |-> Unmetered]
    /\ ceiling = Nothing /\ used = Nothing
    /\ hold = 0 /\ charged = 0 /\ clamped = FALSE

\* active_price_book: the latest in force; without one nothing is sold.
InForce      == published \ over
ActiveBook   == CHOOSE v \in InForce : \A w \in InForce : w <= v

\* Versions are published in their order, by hand or by devtools/seed_price_book.
Publish(v) ==
    /\ v \notin published /\ \A w \in Versions : w < v => w \in published
    /\ published' = published \cup {v}
    /\ UNCHANGED <<book, over, sale, ceiling, used, hold, charged, clamped>>

Withdraw(v) ==
    /\ v \in InForce
    /\ over' = over \cup {v}
    /\ UNCHANGED <<book, published, sale, ceiling, used, hold, charged, clamped>>

\* quote and open_oneshot.
Open(q) ==
    /\ sale.status = "none" /\ InForce # {} /\ Priced(q, book[ActiveBook])
    /\ sale' = [status |-> "open", version |-> ActiveBook]
    /\ ceiling' = q
    /\ hold' = price_cumulative(q, book[ActiveBook])
    /\ UNCHANGED <<book, published, over, used, charged, clamped>>

\* Mutant: settled by the book in force by then.
BookOfToday == IF InForce = {} THEN sale.version ELSE ActiveBook

BookOfSale == sale.version

\* Mutant: what is above the hold is charged as well.
ChargesItAll(price) == price

Charge(price) == IF price > hold THEN hold ELSE price

\* A gateway reports metrics it was quoted for, and should not report more of them.
Reportable(q) == \A m \in Metrics : q[m] > 0 => ceiling[m] > 0

Settle(q) ==
    LET t == book[BookOfSale]
    IN  /\ sale.status = "open" /\ Reportable(q)
        /\ used' = q
        /\ IF Priced(q, t)
           THEN /\ sale' = [sale EXCEPT !.status = "closed"]
                /\ charged' = Charge(price_cumulative(q, t))
                /\ clamped' = (price_cumulative(q, t) > hold)
           ELSE /\ sale' = [sale EXCEPT !.status = "raised"]
                /\ UNCHANGED <<charged, clamped>>
        /\ UNCHANGED <<book, published, over, ceiling, hold>>

Next ==
    \/ \E v \in Versions : Publish(v) \/ Withdraw(v)
    \/ \E q \in Quantities : Open(q) \/ Settle(q)

Spec == Init /\ [][Next]_vars

-----------------------------------------------------------------------------
(* Properties.                                                              *)

\* "A quote that can disagree with the charge is worse than no quote at all"
\* (session_service.quote): work within what was quoted is never clamped, whatever
\* its price rows round to, include or start at, and whatever was published since;
\* nor does pricing metrics that were quoted ever raise, in the `finally` of a
\* stream that has been sent (settle_oneshot's comment).
QuoteCovers ==
    /\ sale.status # "raised"
    /\ (sale.status = "closed" /\ \A m \in Metrics : used[m] <= ceiling[m]) => ~clamped
=============================================================================
