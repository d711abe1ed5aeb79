-------------------------- MODULE WalletRepo_proofs --------------------------
(* Machine-checked proofs about WalletRepo, for every set of clients, every *)
(* set of calls, every opening credit and every bound.                      *)
EXTENDS WalletRepo, TLAPS

-----------------------------------------------------------------------------
(* The moves: what each operation asks `_cas` for.                          *)

\* The counters of a move never run backwards.
Growing(m) == m.spend >= 0 /\ m.topup >= 0 /\ m.writeoff >= 0

LEMMA ExpiryMoveType ==
    ASSUME NEW w \in WalletRow
    PROVE  ExpiryMove(w) \in MoveSet /\ Growing(ExpiryMove(w))
BY DEF ExpiryMove, Move, MoveSet, Growing, WalletRow, Unset, Never

LEMMA DebitMoveType ==
    ASSUME NEW w \in WalletRow, NEW t \in Nat, NEW a \in Nat, NEW r \in Nat
    PROVE  /\ DebitMove(w, t, a, r) \in MoveSet
           /\ Growing(DebitMove(w, t, a, r))
BY DEF DebitMove, Chargeable, Available, EffectiveBonus, SplitBonusFirst, Least, Most,
       Move, MoveSet, Growing, WalletRow, Unset, Never

LEMMA CreditMoveType ==
    ASSUME NEW w \in WalletRow, NEW a \in Nat, NEW b \in Nat, NEW e \in Nat
    PROVE  /\ CreditMove(w, a, b, e) \in MoveSet
           /\ Growing(CreditMove(w, a, b, e))
BY DEF CreditMove, MergedExpiry, Most, Move, MoveSet, Growing, WalletRow, Unset, Never

LEMMA ReleaseMoveType ==
    ASSUME NEW w \in WalletRow, NEW a \in Nat
    PROVE  /\ ReleaseMove(w, a) \in MoveSet
           /\ Growing(ReleaseMove(w, a))
BY DEF ReleaseMove, Least, Move, MoveSet, Growing, WalletRow, Unset

LEMMA HoldMoveType ==
    ASSUME NEW a \in Nat
    PROVE  HoldMove(a) \in MoveSet /\ Growing(HoldMove(a))
BY DEF HoldMove, Move, MoveSet, Growing, Unset

\* A compare-and-swap that matches leaves a well-formed row, one version on.
LEMMA CasUpdateType ==
    ASSUME NEW w \in WalletRow, NEW m \in MoveSet, Growing(m),
           w.paid + m.paid >= 0, w.bonus + m.bonus >= 0, w.reserved + m.reserved >= 0
    PROVE  CasUpdate(w, m) \in WalletRow /\ CasUpdate(w, m).version = w.version + 1
BY DEF CasUpdate, WalletRow, MoveSet, Growing, Unset

LEMMA FrozenUpdateType ==
    ASSUME NEW w \in WalletRow, NEW f \in BOOLEAN
    PROVE  /\ FrozenUpdate(w, f) \in WalletRow
           /\ FrozenUpdate(w, f).version = w.version + 1
           /\ Balance(FrozenUpdate(w, f)) = Balance(w)
           /\ Backed(w) => Backed(FrozenUpdate(w, f))
<1> DEFINE u == CasUpdate(w, Move(0, 0, 0))
<1>1. Move(0, 0, 0) \in MoveSet /\ Growing(Move(0, 0, 0))
  BY DEF Move, MoveSet, Growing, Unset
<1>2. u \in WalletRow /\ u.version = w.version + 1
  BY <1>1, CasUpdateType DEF Move, WalletRow
<1>3. /\ u.paid = w.paid /\ u.bonus = w.bonus /\ u.reserved = w.reserved
      /\ u.topup = w.topup /\ u.spend = w.spend
  BY DEF CasUpdate, Move, WalletRow
<1> HIDE DEF u
<1>4. FrozenUpdate(w, f) = [u EXCEPT !.frozen = f]
  BY DEF FrozenUpdate, u
<1>5. [u EXCEPT !.frozen = f] \in WalletRow
  BY <1>2 DEF WalletRow
<1>6. /\ FrozenUpdate(w, f).paid = w.paid /\ FrozenUpdate(w, f).bonus = w.bonus
      /\ FrozenUpdate(w, f).reserved = w.reserved /\ FrozenUpdate(w, f).topup = w.topup
      /\ FrozenUpdate(w, f).spend = w.spend /\ FrozenUpdate(w, f).version = u.version
  BY <1>2, <1>3, <1>4 DEF WalletRow
<1> QED BY <1>2, <1>4, <1>5, <1>6 DEF Balance, Backed

LEMMA EntryType ==
    ASSUME NEW k \in Kinds, NEW key \in LedgerKeys, NEW m \in MoveSet, NEW w \in WalletRow
    PROVE  Entry(k, key, m, w) \in EntrySet
BY DEF Entry, EntrySet, MoveSet, WalletRow, Balance, Balances

-----------------------------------------------------------------------------
(* One entry more.                                                          *)

\* What a move must satisfy, given the row it is applied to, to leave the
\* wallet sound.
Permitted(row, kind, key, m) ==
    /\ row.paid + m.paid >= 0 /\ row.bonus + m.bonus >= 0 /\ row.reserved + m.reserved >= 0
    /\ Growing(m)
    /\ Published!Lawful(kind, m)
    /\ row.reserved + m.reserved <= (row.topup + m.topup) - (row.spend + m.spend)
    /\ row.paid + m.paid + row.bonus + m.bonus <= (row.topup + m.topup) - (row.spend + m.spend)
    /\ kind = "credit" => \E r \in Requests :
           r.op = "credit" /\ r.key = key /\ m.paid = r.amount /\ m.bonus = r.bonus

LEMMA BackedByMove ==
    ASSUME NEW w \in WalletRow, NEW m \in MoveSet, NEW k, NEW key, Permitted(w, k, key, m)
    PROVE  Backed(CasUpdate(w, m))
BY DEF Permitted, Growing, Backed, CasUpdate, WalletRow, MoveSet

\* Applied to the last balance, a move yields the balance of the new row.
LEMMA KeptByMove ==
    ASSUME NEW w \in WalletRow, NEW book \in Seq(EntrySet), NEW k \in Kinds, NEW key \in LedgerKeys,
           NEW m \in MoveSet, Permitted(w, k, key, m), Kept(w, book),
           LET e == Entry(k, key, m, CasUpdate(w, m)) IN WritesRows(e.delta)
    PROVE  Kept(CasUpdate(w, m), Append(book, Entry(k, key, m, CasUpdate(w, m))))
<1> DEFINE new == CasUpdate(w, m)
           e == Entry(k, key, m, new)
           longer == Append(book, e)
<1>1. new \in WalletRow /\ new.version = w.version + 1
  BY CasUpdateType DEF Permitted
<1>2. e \in EntrySet
  BY <1>1, EntryType
<1>3. /\ longer \in Seq(EntrySet) /\ Len(longer) = Len(book) + 1
      /\ \A i \in 1..Len(book) : longer[i] = book[i]
      /\ longer[Len(book) + 1] = e
  BY <1>2
<1>4. /\ e.after = Balance(new) /\ e.version = new.version /\ e.kind = k
      /\ e.delta = [paid |-> m.paid, bonus |-> m.bonus, reserved |-> m.reserved]
  BY DEF Entry
<1>a. DOMAIN book = 1..Len(book) /\ DOMAIN longer = 1..Len(book) + 1 /\ Len(book) \in Nat
  BY <1>3
<1>b. \A i \in 1..Len(book) : book[i].version \in Nat
  <2>1. \A i \in 1..Len(book) : book[i] \in EntrySet
    OBVIOUS
  <2>2. \A x \in EntrySet : x.version \in Nat
    BY DEF EntrySet
  <2> QED BY <2>1, <2>2
<1>5. /\ \A i \in 1..Len(book) :
            /\ Published!Follows(book, i) /\ Published!InOrder(book, i)
            /\ Published!Lawful(book[i].kind, book[i].delta)
      /\ Balance(w) = Published!Before(book, Len(book) + 1)
      /\ \A i \in 1..Len(book) : book[i].version <= w.version
  BY <1>a DEF Kept, Published!Explained
<1>c. \A i \in 1..Len(book) : book[i].version < e.version
  <2>1. w.version \in Nat /\ e.version = w.version + 1
    BY <1>1, <1>4 DEF WalletRow
  <2> QED BY <2>1, <1>5, <1>b
<1>6. \A i \in 1..Len(book) + 1 : Published!Before(longer, i) = Published!Before(book, i)
  BY <1>3 DEF Published!Before
<1>7. ASSUME NEW i \in 1..Len(book)
      PROVE  /\ Published!Follows(longer, i) /\ Published!InOrder(longer, i)
             /\ Published!Lawful(longer[i].kind, longer[i].delta)
  BY <1>3, <1>5, <1>6 DEF Published!Follows, Published!InOrder
<1>8. Published!Follows(longer, Len(book) + 1)
  BY <1>3, <1>4, <1>5, <1>6 DEF Published!Follows, Balance, CasUpdate
<1>9. Published!InOrder(longer, Len(book) + 1)
  <2>1. (Len(book) + 1) - 1 = Len(book)
    BY <1>a
  <2>2. CASE Len(book) = 0
    BY <2>2 DEF Published!InOrder
  <2>3. CASE Len(book) > 0
    <3>1. Len(book) \in 1..Len(book)
      BY <1>a, <2>3
    <3>2. longer[Len(book)].version < e.version
      BY <1>3, <1>c, <3>1
    <3> HIDE DEF longer, e
    <3> QED BY <2>1, <3>2, <1>3 DEF Published!InOrder
  <2> QED BY <2>2, <2>3, <1>a
<1>10. Published!Lawful(e.kind, e.delta)
  BY <1>4 DEF Permitted, Published!Lawful
<1>11. Balance(new) = Published!Before(longer, Len(longer) + 1)
  BY <1>3, <1>4 DEF Published!Before
<1>12. Published!Explained(longer, Balance(new))
  BY <1>3, <1>7, <1>8, <1>9, <1>10, <1>11 DEF Published!Explained
<1>13. \A i \in DOMAIN longer : longer[i].version <= new.version
  <2>1. e.version = new.version /\ new.version \in Nat
    BY <1>1, <1>4 DEF WalletRow
  <2> QED BY <2>1, <1>3, <1>a, <1>b, <1>c
<1> QED BY <1>12, <1>13 DEF Kept

\* Two entries that give back, hold or grant under one key share a bucket.

\* Two entries of one kind under one key, charges apart, share a bucket.
LEMMA SameKeySharesBucket ==
    ASSUME NEW w \in WalletRow, NEW book \in Seq(EntrySet), NEW k \in Kinds, NEW key \in LedgerKeys,
           NEW m \in MoveSet, Permitted(w, k, key, m), Kept(w, book), CreditsAsAsked(book),
           NEW e, e = Entry(k, key, m, CasUpdate(w, m)), WritesRows(e.delta),
           NEW j \in DOMAIN book, book[j].key = key, book[j].kind = k, k # "debit"
    PROVE  ShareBucket(book[j].delta, e.delta)
<1>1. e.delta = [paid |-> m.paid, bonus |-> m.bonus, reserved |-> m.reserved]
  BY DEF Entry
<1>2. Published!Lawful(k, book[j].delta)
  BY DEF Kept, Published!Explained
<1>3. book[j] \in EntrySet
  OBVIOUS
<1>4. /\ book[j].delta.paid \in Int /\ book[j].delta.bonus \in Int
      /\ book[j].delta.reserved \in Int
  BY <1>3 DEF EntrySet
<1>5. CASE k \in {"expiry", "hold", "release"}
  BY <1>1, <1>2, <1>4, <1>5 DEF Permitted, Published!Lawful, ShareBucket, MoveSet
<1>6. CASE k = "credit"
  <2>1. PICK r \in Requests : /\ r.op = "credit" /\ r.key = key
                              /\ m.paid = r.amount /\ m.bonus = r.bonus
    BY <1>6 DEF Permitted
  <2>2. key # OpeningKey
    BY <2>1, KeysAssumption
  <2>3. PICK s \in Requests : /\ s.op = "credit" /\ s.key = key
                              /\ book[j].delta = [paid |-> s.amount, bonus |-> s.bonus, reserved |-> 0]
    BY <1>6, <2>2 DEF CreditsAsAsked
  <2>4. r = s
    BY <2>1, <2>3, KeysAssumption
  <2>5. m.reserved = 0
    BY <1>6 DEF Permitted, Published!Lawful
  <2>6. book[j].delta = e.delta
    BY <1>1, <2>1, <2>3, <2>4, <2>5
  <2> QED BY <2>6 DEF WritesRows, ShareBucket
<1> QED BY <1>5, <1>6 DEF Kinds

LEMMA OnceByMove ==
    ASSUME NEW w \in WalletRow, NEW book \in Seq(EntrySet), NEW k \in Kinds, NEW key \in LedgerKeys,
           NEW m \in MoveSet, Permitted(w, k, key, m), Kept(w, book),
           CreditsAsAsked(book), OncePerKey(book),
           NEW e, e = Entry(k, key, m, CasUpdate(w, m)),
           WritesRows(e.delta), ~Collides(book, key, e.delta)
    PROVE  OncePerKey(Append(book, e)) /\ CreditsAsAsked(Append(book, e))
<1> DEFINE longer == Append(book, e)
           last == Len(book) + 1
<1>1. CasUpdate(w, m) \in WalletRow
  BY CasUpdateType DEF Permitted
<1>2. e \in EntrySet /\ e.kind = k /\ e.key = key
      /\ e.delta = [paid |-> m.paid, bonus |-> m.bonus, reserved |-> m.reserved]
  <2>1. e \in EntrySet
    BY <1>1, EntryType
  <2> QED BY <2>1 DEF Entry
<1>3. /\ DOMAIN longer = DOMAIN book \cup {last} /\ last \notin DOMAIN book
      /\ \A i \in DOMAIN book : longer[i] = book[i]
      /\ longer[last] = e
  BY <1>2
<1>4. ASSUME NEW j \in DOMAIN book, book[j].key = key, book[j].kind = k, k # "debit", key # NoKey
      PROVE  FALSE
  <2>1. ShareBucket(book[j].delta, e.delta)
    BY <1>4, SameKeySharesBucket
  <2> QED BY <1>4, <2>1 DEF Collides
<1>5. OncePerKey(longer)
  BY <1>2, <1>3, <1>4 DEF OncePerKey
<1>6. CreditsAsAsked(longer)
  <2> SUFFICES ASSUME NEW i \in DOMAIN longer, longer[i].kind = "credit", longer[i].key # OpeningKey
               PROVE  \E r \in Requests :
                        /\ r.op = "credit" /\ r.key = longer[i].key
                        /\ longer[i].delta = [paid |-> r.amount, bonus |-> r.bonus, reserved |-> 0]
    BY DEF CreditsAsAsked
  <2>1. CASE i \in DOMAIN book
    BY <1>3, <2>1 DEF CreditsAsAsked
  <2>2. CASE i = last
    <3>1. longer[i] = e /\ k = "credit"
      BY <1>2, <1>3, <2>2
    <3>2. PICK r \in Requests : /\ r.op = "credit" /\ r.key = key
                                /\ m.paid = r.amount /\ m.bonus = r.bonus
      BY <3>1 DEF Permitted
    <3>3. m.reserved = 0
      BY <3>1 DEF Permitted, Published!Lawful
    <3> QED BY <1>2, <3>1, <3>2, <3>3
  <2> QED BY <1>3, <2>1, <2>2
<1> QED BY <1>5, <1>6

\* The whole step: the row moved and its entry, if it writes one, appended.
LEMMA SoundByMove ==
    ASSUME NEW w \in WalletRow, NEW book \in Seq(EntrySet), NEW k \in Kinds, NEW key \in LedgerKeys,
           NEW m \in MoveSet, Permitted(w, k, key, m), Sound(w, book),
           NEW e, e = Entry(k, key, m, CasUpdate(w, m)), ~Collides(book, key, e.delta),
           NEW longer, longer = IF WritesRows(e.delta) THEN Append(book, e) ELSE book
    PROVE  Sound(CasUpdate(w, m), longer)
<1>1. Backed(CasUpdate(w, m))
  BY BackedByMove
<1>2. CASE WritesRows(e.delta)
  <2>1. Kept(CasUpdate(w, m), Append(book, e))
    BY <1>2, KeptByMove DEF Sound
  <2>2. OncePerKey(Append(book, e)) /\ CreditsAsAsked(Append(book, e))
    BY <1>2, OnceByMove DEF Sound
  <2> QED BY <1>1, <1>2, <2>1, <2>2 DEF Sound
<1>3. CASE ~WritesRows(e.delta)
  <2>1. m.paid = 0 /\ m.bonus = 0 /\ m.reserved = 0
    BY <1>3 DEF WritesRows, Entry
  <2>2. Balance(CasUpdate(w, m)) = Balance(w) /\ CasUpdate(w, m).version = w.version + 1
    BY <2>1 DEF Balance, CasUpdate, WalletRow
  <2>3. \A i \in DOMAIN book : book[i].version <= w.version /\ book[i].version \in Nat
    <3>1. \A i \in DOMAIN book : book[i] \in EntrySet
      OBVIOUS
    <3>2. \A x \in EntrySet : x.version \in Nat
      BY DEF EntrySet
    <3> QED BY <3>1, <3>2 DEF Sound, Kept
  <2>4. Kept(CasUpdate(w, m), book)
    <3>1. \A i \in DOMAIN book : book[i].version <= w.version + 1
      BY <2>3 DEF WalletRow
    <3> QED BY <2>2, <3>1 DEF Sound, Kept
  <2> QED BY <1>1, <1>3, <2>4 DEF Sound
<1> QED BY <1>2, <1>3

-----------------------------------------------------------------------------
(* Each operation's move is permitted.                                      *)

\* A charge takes no more than is there and leaves every hold covered.
LEMMA DebitPermitted ==
    ASSUME NEW w \in WalletRow, NEW t \in Nat, NEW a \in Nat, NEW r \in Nat, NEW key, Backed(w)
    PROVE  Permitted(w, "debit", key, DebitMove(w, t, a, r))
<1> DEFINE bonus  == EffectiveBonus(w, t)
           charge == Chargeable(w, t, a)
           split  == SplitBonusFirst(charge, bonus)
<1>1. bonus \in Nat /\ bonus <= w.bonus
  BY DEF EffectiveBonus, WalletRow
<1>2. charge \in Nat /\ charge <= a /\ (charge > 0 => charge <= w.paid + bonus - w.reserved)
  BY <1>1 DEF Chargeable, Available, Least, Most, WalletRow
<1>3. /\ split.bonus \in Nat /\ split.paid \in Nat /\ split.bonus + split.paid = charge
      /\ split.bonus <= bonus /\ (split.paid > 0 => split.bonus = bonus)
  BY <1>1, <1>2 DEF SplitBonusFirst, Least, Most
<1>4. split.paid <= w.paid
  BY <1>1, <1>2, <1>3 DEF WalletRow
<1> DEFINE back == Least(r, w.reserved)
<1>5. back \in Nat /\ back <= w.reserved
  BY DEF Least, WalletRow
<1>6. DebitMove(w, t, a, r) = [paid |-> -split.paid, bonus |-> -split.bonus, reserved |-> -back,
                               spend |-> charge, topup |-> 0, writeoff |-> a - charge,
                               expires |-> Unset]
  BY DEF DebitMove
<1>7. w.reserved - back <= w.topup - (w.spend + charge)
  BY <1>1, <1>2, <1>5 DEF Backed, WalletRow
<1>8. w.paid - split.paid + (w.bonus - split.bonus) <= w.topup - (w.spend + charge)
  BY <1>1, <1>2, <1>3 DEF Backed, WalletRow
<1> DEFINE m == DebitMove(w, t, a, r)
<1> HIDE DEF bonus, charge, split, back
<1>m. /\ m.paid = -split.paid /\ m.bonus = -split.bonus /\ m.reserved = -back
      /\ m.spend = charge /\ m.topup = 0 /\ m.writeoff = a - charge
  BY <1>6
<1>w. /\ w.paid \in Nat /\ w.bonus \in Nat /\ w.reserved \in Nat
      /\ w.topup \in Nat /\ w.spend \in Nat
  BY DEF WalletRow
<1> HIDE DEF m
<1>9. /\ w.paid + m.paid >= 0 /\ w.bonus + m.bonus >= 0 /\ w.reserved + m.reserved >= 0
      /\ Growing(m) /\ Published!Lawful("debit", m)
  <2>1. w.paid + m.paid >= 0 /\ w.bonus + m.bonus >= 0 /\ w.reserved + m.reserved >= 0
    BY <1>1, <1>3, <1>4, <1>5, <1>m, <1>w
  <2>2. Growing(m)
    BY <1>2, <1>m DEF Growing
  <2>3. Published!Lawful("debit", m)
    BY <1>3, <1>5, <1>m DEF Published!Lawful
  <2> QED BY <2>1, <2>2, <2>3
<1>10. /\ w.reserved + m.reserved <= (w.topup + m.topup) - (w.spend + m.spend)
       /\ w.paid + m.paid + w.bonus + m.bonus <= (w.topup + m.topup) - (w.spend + m.spend)
  BY <1>2, <1>3, <1>5, <1>7, <1>8, <1>m, <1>w
<1> QED BY <1>9, <1>10 DEF Permitted, m

LEMMA CreditPermitted ==
    ASSUME NEW w \in WalletRow, Backed(w), NEW r \in Requests, r.op = "credit"
    PROVE  Permitted(w, "credit", r.key, CreditMove(w, r.amount, r.bonus, r.expires))
<1>1. r.amount \in Nat /\ r.bonus \in Nat
  BY RequestsAssumption DEF Request
<1> QED BY <1>1 DEF Permitted, Growing, Published!Lawful, WalletRow, CreditMove, Backed

LEMMA ReleasePermitted ==
    ASSUME NEW w \in WalletRow, Backed(w), NEW a \in Nat, NEW key, Least(a, w.reserved) > 0
    PROVE  Permitted(w, "release", key, ReleaseMove(w, a))
BY DEF Permitted, Growing, Published!Lawful, WalletRow, ReleaseMove, Move, Least, Backed

LEMMA ExpiryPermitted ==
    ASSUME NEW w \in WalletRow, Backed(w), NEW key, w.bonus > 0
    PROVE  Permitted(w, "expiry", key, ExpiryMove(w))
BY DEF Permitted, Growing, Published!Lawful, WalletRow, ExpiryMove, Backed

LEMMA HoldPermitted ==
    ASSUME NEW w \in WalletRow, Backed(w), NEW a \in Nat, a > 0, NEW key, HoldMatches(w, a)
    PROVE  Permitted(w, "hold", key, HoldMove(a))
BY DEF Permitted, Growing, Published!Lawful, WalletRow, HoldMove, Move, HoldMatches, Backed

-----------------------------------------------------------------------------
(* Type correctness.                                                        *)

LEMMA RowType ==
    ASSUME TypeOK, NEW p \in Clients
    PROVE  Row(p) \in WalletRow /\ Book(p) \in Seq(EntrySet)
BY DEF TypeOK, Row, Book

DatabaseOK ==
    /\ wallet \in WalletRow /\ txWallet \in WalletRow
    /\ ledger \in Seq(EntrySet) /\ txLedger \in Seq(EntrySet)
    /\ lock \in Clients \cup {Nobody}

LocalOK ==
    /\ pc \in [Clients -> Steps]
    /\ req \in [Clients -> Request]
    /\ snap \in [Clients -> [row: WalletRow, at: 1..MaxTime]]
    /\ attempt \in [Clients -> 1..MaxAttempts]
    /\ calls \in [Clients -> 0..MaxCalls]

LEMMA MoveAndRecordType ==
    ASSUME TypeOK, NEW p \in Clients, NEW k \in Kinds, NEW key \in LedgerKeys, NEW m \in MoveSet,
           Growing(m), Row(p).paid + m.paid >= 0, Row(p).bonus + m.bonus >= 0,
           Row(p).reserved + m.reserved >= 0, MoveAndRecord(p, k, key, m)
    PROVE  DatabaseOK'
<1> DEFINE row == CasUpdate(Row(p), m)
           e == Entry(k, key, m, row)
<1>1. row \in WalletRow /\ e \in EntrySet
  BY RowType, CasUpdateType, EntryType
<1>2. Append(Book(p), e) \in Seq(EntrySet) /\ Book(p) \in Seq(EntrySet)
  BY <1>1, RowType
<1>3. CASE Collides(Book(p), key, e.delta)
  BY <1>3 DEF MoveAndRecord, Discard, TypeOK, DatabaseOK
<1>4. CASE ~Collides(Book(p), key, e.delta)
  BY <1>1, <1>2, <1>4 DEF MoveAndRecord, WriteRow, TypeOK, DatabaseOK
<1> QED BY <1>3, <1>4

LEMMA GotoType ==
    ASSUME TypeOK, NEW p \in Clients, NEW s \in Steps, Goto(p, s)
    PROVE  LocalOK'
BY DEF TypeOK, Goto, LocalOK

LEMMA RetryType ==
    ASSUME TypeOK, NEW p \in Clients, Retry(p)
    PROVE  LocalOK'
<1>1. CASE attempt[p] < MaxAttempts
  <2>1. attempt[p] + 1 \in 1..MaxAttempts
    BY <1>1, BoundsAssumption DEF TypeOK
  <2> QED BY <1>1, <2>1 DEF TypeOK, Retry, LocalOK, Steps
<1>2. CASE ~(attempt[p] < MaxAttempts)
  BY <1>2 DEF TypeOK, Retry, LocalOK, Steps
<1> QED BY <1>1, <1>2

LEMMA CasType ==
    ASSUME TypeOK, NEW p \in Clients, NEW k \in Kinds, NEW m \in MoveSet, Growing(m), Cas(p, k, m)
    PROVE  DatabaseOK' /\ LocalOK'
<1>1. CASE CasMatches(Row(p), snap[p].row, m)
  <2>1. MoveAndRecord(p, k, req[p].key, m) /\ Return(p)
    BY <1>1 DEF Cas
  <2>2. req[p].key \in LedgerKeys
    BY DEF TypeOK, Request
  <2>3. DatabaseOK'
    BY <1>1, <2>1, <2>2, MoveAndRecordType DEF CasMatches
  <2> QED BY <2>1, <2>3, GotoType DEF Return, Steps
<1>2. CASE ~CasMatches(Row(p), snap[p].row, m)
  BY <1>2, RetryType DEF Cas, TypeOK, DatabaseOK, database
<1> QED BY <1>1, <1>2

LEMMA SnapshotType ==
    ASSUME TypeOK, NEW p \in Clients
    PROVE  /\ snap[p].row \in WalletRow /\ snap[p].at \in Nat
           /\ req[p].key \in LedgerKeys /\ req[p].amount \in Nat /\ req[p].bonus \in Nat
           /\ req[p].expires \in Nat /\ req[p].release \in Nat /\ req[p].grace \in Nat
<1>1. snap[p] \in [row: WalletRow, at: 1..MaxTime] /\ req[p] \in Request
  BY DEF TypeOK
<1> QED BY <1>1, BoundsAssumption DEF Request

LEMMA InitType == Init => TypeOK
<1> SUFFICES ASSUME Init PROVE TypeOK
  OBVIOUS
<1>1. OpenedRow \in WalletRow
  BY OpeningAssumption DEF OpenedRow, WalletRow
<1>2. OpeningEntry \in EntrySet
  <2>1. Move(Opening.paid, Opening.bonus, 0) \in MoveSet
    BY OpeningAssumption DEF Move, MoveSet, Unset
  <2>2. "credit" \in Kinds /\ OpeningKey \in LedgerKeys
    BY DEF Kinds, LedgerKeys
  <2> QED BY <1>1, <2>1, <2>2, EntryType DEF OpeningEntry
<1>3. NoCall \in Request
  <2>1. NoKey \in LedgerKeys /\ "expire" \in Operations /\ Never \in Nat
    BY DEF LedgerKeys, Operations, Never
  <2> QED BY <2>1 DEF NoCall, Request
<1>4. 1 \in 1..MaxTime /\ 1 \in 1..MaxAttempts /\ 0 \in 0..MaxCalls
  BY BoundsAssumption
<1> QED BY <1>1, <1>2, <1>3, <1>4 DEF Init, TypeOK, Steps

LEMMA NextType == TypeOK /\ [Next]_vars => TypeOK'
<1> SUFFICES ASSUME TypeOK, [Next]_vars PROVE TypeOK'
  OBVIOUS
<1>0. ASSUME DatabaseOK', LocalOK', now' \in 1..MaxTime PROVE TypeOK'
  BY <1>0 DEF TypeOK, DatabaseOK, LocalOK
<1>t. now \in 1..MaxTime /\ DatabaseOK /\ LocalOK
  BY DEF TypeOK, DatabaseOK, LocalOK
<1>d. UNCHANGED database => DatabaseOK'
  BY <1>t DEF DatabaseOK, database
<1>1. ASSUME NEW p \in Clients, Start(p) PROVE TypeOK'
  <2>1. PICK r \in Requests : req' = [req EXCEPT ![p] = r]
    BY <1>1 DEF Start
  <2>2. r \in Request
    BY RequestsAssumption
  <2>3. calls[p] + 1 \in 0..MaxCalls /\ 1 \in 1..MaxAttempts
    BY <1>1, BoundsAssumption DEF Start, TypeOK
  <2>4. pc' \in [Clients -> Steps]
    BY <1>1 DEF Start, TypeOK, Steps
  <2>5. LocalOK'
    BY <1>1, <2>1, <2>2, <2>3, <2>4 DEF Start, LocalOK, TypeOK
  <2> QED BY <1>0, <1>1, <1>t, <1>d, <2>5 DEF Start
<1>2. ASSUME NEW p \in Clients, Replay(p) PROVE TypeOK'
  BY <1>0, <1>2, <1>t, <1>d, GotoType DEF Replay, Steps
<1>3. ASSUME NEW p \in Clients, ReadSnapshot(p) PROVE TypeOK'
  <2>1. Row(p) \in WalletRow
    BY RowType
  <2>2. pc' \in [Clients -> Steps]
    BY <1>3 DEF ReadSnapshot, TypeOK, Steps, AfterDebitRead, AfterCreditRead, AfterHoldRead,
                AfterReleaseRead, AfterExpireRead
  <2>3. LocalOK'
    BY <1>3, <1>t, <2>1, <2>2 DEF ReadSnapshot, LocalOK
  <2> QED BY <1>0, <1>3, <1>t, <1>d, <2>3 DEF ReadSnapshot
<1>4. ASSUME NEW p \in Clients, ExpireBonusNow(p) PROVE TypeOK'
  <2> DEFINE m == ExpiryMove(snap[p].row)
  <2>1. m \in MoveSet /\ Growing(m)
    BY SnapshotType, ExpiryMoveType
  <2>2. LocalOK'
    BY <1>4, GotoType, RetryType DEF ExpireBonusNow, AfterExpiry, Return, Steps
  <2>3. "expiry" \in Kinds /\ NoKey \in LedgerKeys
    BY DEF Kinds, LedgerKeys
  <2>4. DatabaseOK'
    BY <1>4, <1>d, <2>1, <2>3, MoveAndRecordType DEF ExpireBonusNow, CasMatches
  <2> QED BY <1>0, <1>4, <1>t, <2>2, <2>4 DEF ExpireBonusNow
<1>5. ASSUME NEW p \in Clients, Debit(p) PROVE TypeOK'
  <2> DEFINE m == DebitMove(snap[p].row, snap[p].at, req[p].amount, req[p].release)
  <2>1. m \in MoveSet /\ Growing(m) /\ "debit" \in Kinds
    BY SnapshotType, DebitMoveType DEF Kinds
  <2> QED BY <1>0, <1>5, <1>t, <2>1, CasType DEF Debit, Cas
<1>6. ASSUME NEW p \in Clients, Credit(p) PROVE TypeOK'
  <2> DEFINE m == CreditMove(snap[p].row, req[p].amount, req[p].bonus, req[p].expires)
  <2>1. m \in MoveSet /\ Growing(m) /\ "credit" \in Kinds
    BY SnapshotType, CreditMoveType DEF Kinds
  <2> QED BY <1>0, <1>6, <1>t, <2>1, CasType DEF Credit, Cas
<1>7. ASSUME NEW p \in Clients, ReleaseHold(p) PROVE TypeOK'
  <2> DEFINE m == ReleaseMove(snap[p].row, req[p].amount)
  <2>1. m \in MoveSet /\ Growing(m) /\ "release" \in Kinds
    BY SnapshotType, ReleaseMoveType DEF Kinds
  <2> QED BY <1>0, <1>7, <1>t, <2>1, CasType DEF ReleaseHold, Cas
<1>8. ASSUME NEW p \in Clients, PlaceHold(p) PROVE TypeOK'
  <2> DEFINE m == HoldMove(req[p].amount)
  <2>1. m \in MoveSet /\ Growing(m) /\ "hold" \in Kinds /\ req[p].key \in LedgerKeys
    BY SnapshotType, HoldMoveType DEF Kinds
  <2>2. /\ Row(p).paid + m.paid >= 0 /\ Row(p).bonus + m.bonus >= 0
        /\ Row(p).reserved + m.reserved >= 0
    BY RowType, SnapshotType DEF WalletRow, HoldMove, Move
  <2>3. DatabaseOK'
    BY <1>8, <1>d, <2>1, <2>2, MoveAndRecordType DEF PlaceHold
  <2> QED BY <1>0, <1>8, <1>t, <2>3, GotoType DEF PlaceHold, Return, Steps
<1>9. ASSUME NEW p \in Clients, SetFrozen(p) PROVE TypeOK'
  <2>1. FrozenUpdate(Row(p), req[p].op = "freeze") \in WalletRow
    BY RowType, FrozenUpdateType
  <2>2. DatabaseOK'
    BY <1>9, <2>1, RowType DEF SetFrozen, WriteRow, TypeOK, DatabaseOK
  <2> QED BY <1>0, <1>9, <1>t, <2>2, GotoType DEF SetFrozen, Return, Steps
<1>10. ASSUME NEW p \in Clients, Commit(p) PROVE TypeOK'
  BY <1>10 DEF Commit, TypeOK, local
<1>11. ASSUME NEW p \in Clients, Abort(p) PROVE TypeOK'
  <2>1. DatabaseOK'
    BY <1>11, <1>d DEF Abort, Discard, TypeOK, DatabaseOK
  <2> QED BY <1>0, <1>11, <1>t, <2>1, GotoType DEF Abort, Return, Steps
<1>12. CASE Tick
  <2>1. now' \in 1..MaxTime
    BY <1>12, BoundsAssumption DEF Tick, TypeOK
  <2> QED BY <1>12, <2>1 DEF Tick, TypeOK, database, local
<1>13. CASE UNCHANGED vars
  BY <1>13 DEF vars, TypeOK
<1> QED BY <1>1, <1>2, <1>3, <1>4, <1>5, <1>6, <1>7, <1>8, <1>9, <1>10, <1>11, <1>12, <1>13
        DEF Next, Client, Operation, Rest

\* The row, the ledger and every call keep their types: no balance, hold or
\* counter of a wallet ever goes below zero. (the CHECK constraints of Wallet)
THEOREM TypeCorrect == Spec => []TypeOK
BY InitType, NextType, PTL DEF Spec

-----------------------------------------------------------------------------
(* The inductive invariant.                                                 *)

DatabaseInv ==
    TransactionsAreIsolated /\ Sound(wallet, ledger) /\ Sound(txWallet, txLedger)

\* A write by p is seen by p alone.
PrivateTo(p) == \A q \in Clients \ {p} : Row(q)' = Row(q)

LEMMA RowSound ==
    ASSUME TypeOK, DatabaseInv, NEW p \in Clients
    PROVE  /\ Sound(Row(p), Book(p))
           /\ Published!Extends(Book(p), ledger)
           /\ wallet.version <= Row(p).version
<1>1. wallet.version \in Nat /\ txWallet.version \in Nat /\ Len(ledger) \in Nat
  BY DEF TypeOK, WalletRow
<1>2. CASE lock = p
  BY <1>1, <1>2, ClientsAssumption DEF DatabaseInv, Row, Book, TransactionsAreIsolated
<1>3. CASE lock # p
  BY <1>1, <1>3 DEF DatabaseInv, Row, Book, Published!Extends
<1> QED BY <1>2, <1>3

LEMMA WriteRowInv ==
    ASSUME TypeOK, DatabaseInv, NEW p \in Clients, Free(p),
           NEW row, row.version = Row(p).version + 1,
           NEW book, Published!Extends(book, ledger), Sound(row, book), WriteRow(p, row, book)
    PROVE  DatabaseInv' /\ PrivateTo(p)
<1>1. wallet.version < row.version
  <2>1. wallet.version \in Nat /\ Row(p).version \in Nat
    BY RowType DEF TypeOK, WalletRow
  <2> QED BY <2>1, RowSound
<1>2. TransactionsAreIsolated'
  BY <1>1, ClientsAssumption DEF WriteRow, TransactionsAreIsolated, Published!Extends
<1>3. PrivateTo(p)
  BY ClientsAssumption DEF WriteRow, PrivateTo, Row, Free
<1>4. Sound(wallet, ledger)' /\ Sound(txWallet, txLedger)'
  BY DEF WriteRow, DatabaseInv, Sound, Backed, Kept, CreditsAsAsked, OncePerKey, Balance,
         Published!Explained, Published!Follows, Published!InOrder, Published!Before
<1> QED BY <1>2, <1>3, <1>4 DEF DatabaseInv

LEMMA DiscardInv ==
    ASSUME TypeOK, DatabaseInv, NEW p \in Clients, Free(p), Discard
    PROVE  DatabaseInv' /\ PrivateTo(p)
<1>1. TransactionsAreIsolated'
  BY DEF Discard, TransactionsAreIsolated, Published!Extends, TypeOK
<1>2. PrivateTo(p)
  BY ClientsAssumption DEF Discard, PrivateTo, Row, Free
<1>3. Sound(wallet, ledger)' /\ Sound(txWallet, txLedger)'
  BY DEF Discard, DatabaseInv, Sound, Backed, Kept, CreditsAsAsked, OncePerKey, Balance,
         Published!Explained, Published!Follows, Published!InOrder, Published!Before
<1> QED BY <1>1, <1>2, <1>3 DEF DatabaseInv

LEMMA MoveAndRecordInv ==
    ASSUME TypeOK, DatabaseInv, NEW p \in Clients, Free(p),
           NEW k \in Kinds, NEW key \in LedgerKeys, NEW m \in MoveSet,
           Permitted(Row(p), k, key, m), MoveAndRecord(p, k, key, m)
    PROVE  DatabaseInv' /\ PrivateTo(p)
<1> DEFINE row  == CasUpdate(Row(p), m)
           e    == Entry(k, key, m, row)
           book == IF WritesRows(e.delta) THEN Append(Book(p), e) ELSE Book(p)
<1>1. CASE Collides(Book(p), key, e.delta)
  BY <1>1, DiscardInv DEF MoveAndRecord
<1>2. CASE ~Collides(Book(p), key, e.delta)
  <2>1. WriteRow(p, row, book)
    BY <1>2 DEF MoveAndRecord
  <2>2. row \in WalletRow /\ row.version = Row(p).version + 1
    BY RowType, CasUpdateType DEF Permitted
  <2>3. Sound(row, book)
    BY <1>2, RowType, RowSound, SoundByMove
  <2>4. Published!Extends(book, ledger)
    <3>1. e \in EntrySet
      BY <2>2, EntryType
    <3>2. Book(p) \in Seq(EntrySet) /\ ledger \in Seq(EntrySet)
      BY RowType DEF TypeOK
    <3>3. Published!Extends(Book(p), ledger)
      BY RowSound
    <3>4. Published!Extends(Append(Book(p), e), ledger)
      BY <3>1, <3>2, <3>3 DEF Published!Extends
    <3> QED BY <3>3, <3>4
  <2> QED BY <2>1, <2>2, <2>3, <2>4, WriteRowInv
<1> QED BY <1>1, <1>2

\* A client that did not move keeps its snapshot's standing.
LEMMA OthersKeep ==
    ASSUME NEW p \in Clients, NEW q \in Clients, q # p, Row(q)' = Row(q), now' = now,
           pc'[q] = pc[q], snap'[q] = snap[q], req'[q] = req[q],
           SnapshotIsVersion(q), DecisionIsKept(q)
    PROVE  SnapshotIsVersion(q)' /\ DecisionIsKept(q)'
BY DEF SnapshotIsVersion, DecisionIsKept

\* A step that ends the call, or sends it back to read, leaves nothing to keep.
LEMMA OwnStepKeeps ==
    ASSUME TypeOK, NEW p \in Clients, DecisionIsKept(p), now' = now, pc[p] # "idle",
           Return(p) \/ Retry(p) \/ (Goto(p, "update") /\ req[p].op = "hold" /\ req[p].amount > 0)
    PROVE  SnapshotIsVersion(p)' /\ DecisionIsKept(p)'
<1>1. snap' = snap /\ req' = req
  BY DEF Return, Goto, Retry
<1>2. pc'[p] \in {"idle", "read"} \/ (pc'[p] = "update" /\ req[p].op = "hold" /\ req[p].amount > 0)
  BY DEF Return, Goto, Retry, TypeOK
<1> QED BY <1>1, <1>2 DEF SnapshotIsVersion, DecisionIsKept

\* The part of the invariant that is about clients, after a step of p that
\* changes the database for p alone.
LEMMA ClientsKeep ==
    ASSUME IInv, NEW p \in Clients, now' = now, pc[p] # "idle", PrivateTo(p),
           Return(p) \/ Retry(p) \/ (Goto(p, "update") /\ req[p].op = "hold" /\ req[p].amount > 0)
    PROVE  \A q \in Clients : SnapshotIsVersion(q)' /\ DecisionIsKept(q)'
<1> SUFFICES ASSUME NEW q \in Clients PROVE SnapshotIsVersion(q)' /\ DecisionIsKept(q)'
  OBVIOUS
<1>1. CASE q = p
  BY <1>1, OwnStepKeeps DEF IInv
<1>2. CASE q # p
  <2>1. pc'[q] = pc[q] /\ snap'[q] = snap[q] /\ req'[q] = req[q]
    BY <1>2 DEF Return, Retry, Goto, IInv, TypeOK
  <2> QED BY <1>2, <2>1, OthersKeep DEF IInv, PrivateTo
<1> QED BY <1>1, <1>2

LEMMA UnchangedDatabase ==
    ASSUME TypeOK, DatabaseInv, UNCHANGED database
    PROVE  DatabaseInv' /\ \A q \in Clients : Row(q)' = Row(q) /\ Book(q)' = Book(q)
BY DEF database, DatabaseInv, TransactionsAreIsolated, Sound, Backed, Kept, CreditsAsAsked,
       OncePerKey, Balance, Row, Book, Published!Explained, Published!Follows,
       Published!InOrder, Published!Before, Published!Extends

\* A compare-and-swap that matches finds the very row its snapshot is of.
LEMMA MatchFindsSnapshot ==
    ASSUME NEW p \in Clients, SnapshotIsVersion(p), pc[p] \in {"expire", "write"},
           NEW m, CasMatches(Row(p), snap[p].row, m)
    PROVE  Row(p) = snap[p].row
BY DEF SnapshotIsVersion, CasMatches

\* One pass of a loop: what the invariant needs of the move is that it is
\* permitted on the row it was computed from, once that is a sound row.
LEMMA CasInv ==
    ASSUME IInv, NEW p \in Clients, NEW k \in Kinds, NEW m \in MoveSet,
           Backed(snap[p].row) => Permitted(snap[p].row, k, req[p].key, m), Cas(p, k, m)
    PROVE  DatabaseInv' /\ \A q \in Clients : SnapshotIsVersion(q)' /\ DecisionIsKept(q)'
<1>0. TypeOK /\ DatabaseInv /\ pc[p] = "write" /\ now' = now /\ SnapshotIsVersion(p)
  BY DEF IInv, DatabaseInv, Cas
<1>1. CASE CasMatches(Row(p), snap[p].row, m)
  <2>1. MoveAndRecord(p, k, req[p].key, m) /\ Return(p) /\ Free(p)
    BY <1>1 DEF Cas
  <2>2. Row(p) = snap[p].row
    BY <1>0, <1>1, MatchFindsSnapshot
  <2>3. Permitted(Row(p), k, req[p].key, m)
    BY <1>0, <2>2, RowSound DEF Sound
  <2>4. DatabaseInv' /\ PrivateTo(p)
    BY <1>0, <2>1, <2>3, SnapshotType, MoveAndRecordInv
  <2> QED BY <1>0, <2>1, <2>4, ClientsKeep
<1>2. CASE ~CasMatches(Row(p), snap[p].row, m)
  <2>1. UNCHANGED database /\ Retry(p)
    BY <1>2 DEF Cas
  <2>2. DatabaseInv' /\ PrivateTo(p)
    BY <1>0, <2>1, UnchangedDatabase DEF PrivateTo
  <2> QED BY <1>0, <2>1, <2>2, ClientsKeep
<1> QED BY <1>1, <1>2

LEMMA InitInv == Init => IInv
<1> SUFFICES ASSUME Init PROVE IInv
  OBVIOUS
<1>1. TypeOK
  BY InitType
<1>2. /\ wallet = OpenedRow /\ txWallet = OpenedRow /\ lock = Nobody
      /\ ledger = <<OpeningEntry>> /\ txLedger = <<OpeningEntry>>
  BY DEF Init
<1>3. /\ OpeningEntry.kind = "credit" /\ OpeningEntry.key = OpeningKey /\ OpeningEntry.version = 1
      /\ OpeningEntry.delta = [paid |-> Opening.paid, bonus |-> Opening.bonus, reserved |-> 0]
      /\ OpeningEntry.after = [paid |-> Opening.paid, bonus |-> Opening.bonus, reserved |-> 0]
  BY DEF OpeningEntry, Entry, Move, Balance, OpenedRow
<1>4. Backed(OpenedRow)
  BY OpeningAssumption DEF Backed, OpenedRow
<1>5. Kept(OpenedRow, <<OpeningEntry>>)
  BY <1>3, OpeningAssumption DEF Kept, OpenedRow, Balance, Published!Explained, Published!Follows,
     Published!InOrder, Published!Before, Published!Lawful, Published!Empty
<1>6. CreditsAsAsked(<<OpeningEntry>>) /\ OncePerKey(<<OpeningEntry>>)
  BY <1>3 DEF CreditsAsAsked, OncePerKey
<1>7. TransactionsAreIsolated
  BY <1>2 DEF TransactionsAreIsolated, Published!Extends
<1>8. \A p \in Clients : SnapshotIsVersion(p) /\ DecisionIsKept(p)
  BY DEF Init, SnapshotIsVersion, DecisionIsKept
<1> QED BY <1>1, <1>2, <1>4, <1>5, <1>6, <1>7, <1>8 DEF IInv, Sound

LEMMA NextInv == IInv /\ [Next]_vars => IInv'
<1> SUFFICES ASSUME IInv, [Next]_vars PROVE IInv'
  OBVIOUS
<1>0. TypeOK /\ TypeOK' /\ DatabaseInv
  BY NextType DEF IInv, DatabaseInv
<1> DEFINE ClientInv == \A q \in Clients : SnapshotIsVersion(q) /\ DecisionIsKept(q)
<1>i. ClientInv
  BY DEF IInv
<1>q. ASSUME DatabaseInv', ClientInv' PROVE IInv'
  BY <1>0, <1>q DEF IInv, DatabaseInv
<1> HIDE DEF ClientInv
<1>1. ASSUME NEW p \in Clients, Start(p) PROVE IInv'
  <2>1. DatabaseInv' /\ \A q \in Clients : Row(q)' = Row(q)
    BY <1>0, <1>1, UnchangedDatabase DEF Start
  <2>2. PICK r \in Requests : req' = [req EXCEPT ![p] = r]
    BY <1>1 DEF Start
  <2>3. ASSUME NEW q \in Clients PROVE SnapshotIsVersion(q)' /\ DecisionIsKept(q)'
    <3>1. CASE q = p
      <4>1. pc'[p] \in {"set", "read", "replay"} /\ snap' = snap /\ now' = now /\ req'[p] = r
        BY <1>0, <1>1, <2>2 DEF Start, TypeOK
      <4> QED BY <1>i, <3>1, <4>1 DEF SnapshotIsVersion, DecisionIsKept, ClientInv
    <3>2. CASE q # p
      <4>1. pc'[q] = pc[q] /\ snap'[q] = snap[q] /\ req'[q] = req[q] /\ now' = now
        BY <1>0, <1>1, <3>2 DEF Start, TypeOK
      <4> QED BY <1>i, <2>1, <3>2, <4>1, OthersKeep DEF ClientInv
    <3> QED BY <3>1, <3>2
  <2> QED BY <1>q, <2>1, <2>3 DEF ClientInv
<1>2. ASSUME NEW p \in Clients, Replay(p) PROVE IInv'
  <2>1. DatabaseInv' /\ \A q \in Clients : Row(q)' = Row(q)
    BY <1>0, <1>2, UnchangedDatabase DEF Replay
  <2>2. ASSUME NEW q \in Clients PROVE SnapshotIsVersion(q)' /\ DecisionIsKept(q)'
    <3>1. CASE q = p
      <4>1. pc'[p] \in {"idle", "read"} /\ snap' = snap /\ now' = now /\ req' = req /\ pc[p] # "idle"
        BY <1>0, <1>2 DEF Replay, Goto, TypeOK
      <4> QED BY <1>i, <3>1, <4>1 DEF SnapshotIsVersion, DecisionIsKept, ClientInv
    <3>2. CASE q # p
      <4>1. pc'[q] = pc[q] /\ snap'[q] = snap[q] /\ req'[q] = req[q] /\ now' = now
        BY <1>0, <1>2, <3>2 DEF Replay, Goto, TypeOK
      <4> QED BY <1>i, <2>1, <3>2, <4>1, OthersKeep DEF ClientInv
    <3> QED BY <3>1, <3>2
  <2> QED BY <1>q, <2>1, <2>2 DEF ClientInv
<1>3. ASSUME NEW p \in Clients, ReadSnapshot(p) PROVE IInv'
  <2>1. DatabaseInv' /\ \A q \in Clients : Row(q)' = Row(q)
    BY <1>0, <1>3, UnchangedDatabase DEF ReadSnapshot
  <2>2. ASSUME NEW q \in Clients PROVE SnapshotIsVersion(q)' /\ DecisionIsKept(q)'
    <3>1. CASE q = p
      <4>1. /\ snap'[p] = [row |-> Row(p), at |-> now] /\ now' = now /\ now \in Nat
            /\ req' = req /\ req[p] \in Requests /\ Row(p).version \in Nat
            /\ req[p].amount \in Nat
        <5>1. now \in Nat /\ Row(p).version \in Nat /\ req[p].amount \in Nat
          <6>1. now \in Nat
            BY <1>0, BoundsAssumption DEF TypeOK
          <6>2. Row(p).version \in Nat
            BY <1>0, RowType DEF WalletRow
          <6> QED BY <1>0, <6>1, <6>2, SnapshotType
        <5>2. req[p] \in Requests
          BY <1>3, <1>i DEF ReadSnapshot, ClientInv, DecisionIsKept
        <5>3. snap'[p] = [row |-> Row(p), at |-> now] /\ now' = now /\ req' = req
          BY <1>0, <1>3 DEF ReadSnapshot, TypeOK
        <5> QED BY <5>1, <5>2, <5>3
      <4>2. SnapshotIsVersion(p)'
        BY <2>1, <4>1 DEF SnapshotIsVersion
      <4>3. pc'[p] = "expire" => BonusHasExpired(Row(p), now)
        BY <1>0, <1>3 DEF ReadSnapshot, TypeOK, AfterDebitRead, AfterCreditRead, AfterHoldRead,
                         AfterReleaseRead, AfterExpireRead
      <4>4. /\ pc'[p] = "write" /\ req[p].op = "release" => Least(req[p].amount, Row(p).reserved) > 0
            /\ pc'[p] = "update" => req[p].op = "hold"
            /\ pc'[p] \in {"expire", "update"} /\ req[p].op = "hold" => req[p].amount > 0
        <5>1. Least(req[p].amount, Row(p).reserved) # 0 => Least(req[p].amount, Row(p).reserved) > 0
          <6>1. Row(p).reserved \in Nat
            BY <1>0, RowType DEF WalletRow
          <6> QED BY <4>1, <6>1 DEF Least
        <5> QED
          BY <1>0, <1>3, <4>1, <5>1 DEF ReadSnapshot, TypeOK, AfterDebitRead, AfterCreditRead,
             AfterHoldRead, AfterReleaseRead, AfterExpireRead
      <4> QED BY <3>1, <4>1, <4>2, <4>3, <4>4 DEF DecisionIsKept
    <3>2. CASE q # p
      <4>1. pc'[q] = pc[q] /\ snap'[q] = snap[q] /\ req'[q] = req[q] /\ now' = now
        BY <1>0, <1>3, <3>2 DEF ReadSnapshot, TypeOK
      <4> QED BY <1>i, <2>1, <3>2, <4>1, OthersKeep DEF ClientInv
    <3> QED BY <3>1, <3>2
  <2> QED BY <1>q, <2>1, <2>2 DEF ClientInv
<1>4. ASSUME NEW p \in Clients, ExpireBonusNow(p) PROVE IInv'
  <2> DEFINE m == ExpiryMove(snap[p].row)
  <2>1. /\ SnapshotIsVersion(p) /\ DecisionIsKept(p) /\ pc[p] = "expire" /\ now' = now
        /\ snap[p].row \in WalletRow /\ snap[p].row.bonus > 0
    BY <1>0, <1>4, <1>i, SnapshotType DEF ClientInv, ExpireBonusNow, DecisionIsKept, BonusHasExpired
  <2>2. \/ Return(p) \/ Retry(p)
        \/ Goto(p, "update") /\ req[p].op = "hold" /\ req[p].amount > 0
    BY <1>4, <2>1 DEF ExpireBonusNow, AfterExpiry, DecisionIsKept
  <2>3. CASE CasMatches(Row(p), snap[p].row, m)
    <3>1. MoveAndRecord(p, "expiry", NoKey, m) /\ Free(p)
      BY <1>4, <2>3 DEF ExpireBonusNow
    <3>2. Row(p) = snap[p].row
      BY <2>1, <2>3, MatchFindsSnapshot
    <3>3. Permitted(Row(p), "expiry", NoKey, m)
      BY <1>0, <2>1, <3>2, RowSound, ExpiryPermitted DEF Sound
    <3>4. m \in MoveSet /\ "expiry" \in Kinds /\ NoKey \in LedgerKeys
      BY <2>1, ExpiryMoveType DEF Kinds, LedgerKeys
    <3>5. DatabaseInv' /\ PrivateTo(p)
      BY <1>0, <3>1, <3>3, <3>4, MoveAndRecordInv
    <3> QED BY <1>q, <2>1, <2>2, <3>5, ClientsKeep DEF ClientInv
  <2>4. CASE ~CasMatches(Row(p), snap[p].row, m)
    <3>1. UNCHANGED database
      BY <1>4, <2>4 DEF ExpireBonusNow
    <3>2. DatabaseInv' /\ PrivateTo(p)
      BY <1>0, <3>1, UnchangedDatabase DEF PrivateTo
    <3> QED BY <1>q, <2>1, <2>2, <3>2, ClientsKeep DEF ClientInv
  <2> QED BY <2>3, <2>4
<1>c. ASSUME NEW p \in Clients, NEW k \in Kinds, NEW m \in MoveSet,
             Backed(snap[p].row) => Permitted(snap[p].row, k, req[p].key, m), Cas(p, k, m)
      PROVE  IInv'
  BY <1>q, <1>c, CasInv DEF ClientInv
<1>5. ASSUME NEW p \in Clients, Debit(p) PROVE IInv'
  <2> DEFINE m == DebitMove(snap[p].row, snap[p].at, req[p].amount, req[p].release)
  <2>1. m \in MoveSet /\ "debit" \in Kinds
    BY <1>0, SnapshotType, DebitMoveType DEF Kinds
  <2>2. Backed(snap[p].row) => Permitted(snap[p].row, "debit", req[p].key, m)
    BY <1>0, SnapshotType, DebitPermitted
  <2> QED BY <1>5, <1>c, <2>1, <2>2 DEF Debit
<1>6. ASSUME NEW p \in Clients, Credit(p) PROVE IInv'
  <2> DEFINE m == CreditMove(snap[p].row, req[p].amount, req[p].bonus, req[p].expires)
  <2>1. m \in MoveSet /\ "credit" \in Kinds
    BY <1>0, SnapshotType, CreditMoveType DEF Kinds
  <2>2. req[p] \in Requests /\ req[p].op = "credit"
    BY <1>6, <1>i DEF Credit, Cas, ClientInv, DecisionIsKept
  <2>3. Backed(snap[p].row) => Permitted(snap[p].row, "credit", req[p].key, m)
    BY <1>0, <2>2, SnapshotType, CreditPermitted
  <2> QED BY <1>6, <1>c, <2>1, <2>3 DEF Credit
<1>7. ASSUME NEW p \in Clients, ReleaseHold(p) PROVE IInv'
  <2> DEFINE m == ReleaseMove(snap[p].row, req[p].amount)
  <2>1. m \in MoveSet /\ "release" \in Kinds
    BY <1>0, SnapshotType, ReleaseMoveType DEF Kinds
  <2>2. Least(req[p].amount, snap[p].row.reserved) > 0
    BY <1>7, <1>i DEF ReleaseHold, Cas, ClientInv, DecisionIsKept
  <2>3. Backed(snap[p].row) => Permitted(snap[p].row, "release", req[p].key, m)
    BY <1>0, <2>2, SnapshotType, ReleasePermitted
  <2> QED BY <1>7, <1>c, <2>1, <2>3 DEF ReleaseHold
<1>8. ASSUME NEW p \in Clients, PlaceHold(p) PROVE IInv'
  <2> DEFINE m == HoldMove(req[p].amount)
  <2>1. /\ pc[p] = "update" /\ now' = now /\ Return(p) /\ req[p].amount > 0
        /\ req[p].amount \in Nat /\ req[p].key \in LedgerKeys
    BY <1>0, <1>8, <1>i, SnapshotType DEF PlaceHold, ClientInv, DecisionIsKept
  <2>2. CASE HoldMatches(Row(p), req[p].amount)
    <3>1. MoveAndRecord(p, "hold", req[p].key, m) /\ Free(p)
      BY <1>8, <2>2 DEF PlaceHold
    <3>2. Permitted(Row(p), "hold", req[p].key, m)
      BY <1>0, <2>1, <2>2, RowType, RowSound, HoldPermitted DEF Sound
    <3>3. m \in MoveSet /\ "hold" \in Kinds
      BY <2>1, HoldMoveType DEF Kinds
    <3>4. DatabaseInv' /\ PrivateTo(p)
      BY <1>0, <2>1, <3>1, <3>2, <3>3, MoveAndRecordInv
    <3> QED BY <1>q, <2>1, <3>4, ClientsKeep DEF ClientInv
  <2>3. CASE ~HoldMatches(Row(p), req[p].amount)
    <3>1. DatabaseInv' /\ PrivateTo(p)
      BY <1>0, <1>8, <2>3, UnchangedDatabase DEF PlaceHold, PrivateTo
    <3> QED BY <1>q, <2>1, <3>1, ClientsKeep DEF ClientInv
  <2> QED BY <2>2, <2>3
<1>9. ASSUME NEW p \in Clients, SetFrozen(p) PROVE IInv'
  <2> DEFINE row == FrozenUpdate(Row(p), req[p].op = "freeze")
  <2>1. /\ row \in WalletRow /\ row.version = Row(p).version + 1
        /\ Balance(row) = Balance(Row(p))
        /\ Backed(Row(p)) => Backed(row)
    BY <1>0, RowType, FrozenUpdateType
  <2>2. Sound(row, Book(p))
    <3>1. Sound(Row(p), Book(p)) /\ Row(p).version \in Nat /\ Book(p) \in Seq(EntrySet)
      BY <1>0, RowSound, RowType DEF WalletRow
    <3>2. \A i \in DOMAIN Book(p) : Book(p)[i].version \in Nat
      <4>1. \A i \in DOMAIN Book(p) : Book(p)[i] \in EntrySet
        BY <3>1
      <4>2. \A x \in EntrySet : x.version \in Nat
        BY DEF EntrySet
      <4> QED BY <4>1, <4>2
    <3>3. \A i \in DOMAIN Book(p) : Book(p)[i].version <= row.version
      BY <2>1, <3>1, <3>2 DEF Sound, Kept
    <3> HIDE DEF row
    <3> QED BY <2>1, <3>1, <3>3 DEF Sound, Kept
  <2>3. DatabaseInv' /\ PrivateTo(p)
    BY <1>0, <1>9, <2>1, <2>2, RowSound, WriteRowInv DEF SetFrozen
  <2> QED BY <1>q, <1>9, <2>3, ClientsKeep DEF SetFrozen, ClientInv
<1>10. ASSUME NEW p \in Clients, Commit(p) PROVE IInv'
  <2>1. /\ wallet' = txWallet /\ ledger' = txLedger /\ txWallet' = txWallet /\ txLedger' = txLedger
        /\ lock = p /\ lock' = Nobody /\ pc[p] = "idle" /\ UNCHANGED local /\ now' = now
    BY <1>10 DEF Commit
  <2>2. TransactionsAreIsolated'
    BY <1>0, <2>1 DEF TransactionsAreIsolated, Published!Extends, TypeOK
  <2>3. Sound(wallet, ledger)' /\ Sound(txWallet, txLedger)'
    BY <1>0, <2>1 DEF DatabaseInv, Sound, Backed, Kept, CreditsAsAsked, OncePerKey, Balance,
         Published!Explained, Published!Follows, Published!InOrder, Published!Before
  <2>4. ASSUME NEW q \in Clients PROVE SnapshotIsVersion(q)' /\ DecisionIsKept(q)'
    <3>1. DecisionIsKept(q)'
      BY <1>i, <2>1 DEF DecisionIsKept, ClientInv, local
    <3>2. wallet.version < txWallet.version /\ wallet.version \in Nat /\ txWallet.version \in Nat
      BY <1>0, <2>1, ClientsAssumption DEF DatabaseInv, TransactionsAreIsolated, TypeOK, WalletRow
    <3>5. pc' = pc /\ snap' = snap
      BY <2>1 DEF local
    <3>3. CASE q = p
      BY <2>1, <3>1, <3>3, <3>5 DEF SnapshotIsVersion
    <3>4. CASE q # p
      <4>1. Row(q) = wallet /\ Row(q)' = txWallet
        BY <2>1, <3>4, ClientsAssumption DEF Row
      <4>2. snap[q].row.version \in Nat
        BY <1>0, SnapshotType DEF WalletRow
      <4>3. SnapshotIsVersion(q)
        BY <1>i DEF ClientInv
      <4>4. pc[q] \in {"expire", "write"} => snap[q].row.version < txWallet.version
        BY <3>2, <4>1, <4>2, <4>3 DEF SnapshotIsVersion
      <4> QED BY <3>1, <3>2, <3>5, <4>1, <4>2, <4>4 DEF SnapshotIsVersion
    <3> QED BY <3>1, <3>3, <3>4 
  <2> QED BY <1>q, <2>2, <2>3, <2>4 DEF DatabaseInv, ClientInv
<1>11. ASSUME NEW p \in Clients, Abort(p) PROVE IInv'
  <2>1. DatabaseInv' /\ PrivateTo(p)
    <3>1. CASE lock = p
      BY <1>0, <1>11, <3>1, DiscardInv DEF Abort, Free
    <3>2. CASE lock # p
      BY <1>0, <1>11, <3>2, UnchangedDatabase DEF Abort, PrivateTo
    <3> QED BY <3>1, <3>2
  <2>2. now' = now /\ Return(p)
    BY <1>11 DEF Abort
  <2>3. ASSUME NEW q \in Clients PROVE SnapshotIsVersion(q)' /\ DecisionIsKept(q)'
    <3>1. CASE q = p
      BY <1>0, <1>i, <2>2, <3>1 DEF Return, Goto, TypeOK, SnapshotIsVersion, DecisionIsKept, ClientInv
    <3>2. CASE q # p
      <4>1. pc'[q] = pc[q] /\ snap'[q] = snap[q] /\ req'[q] = req[q] /\ Row(q)' = Row(q)
        BY <1>0, <2>1, <2>2, <3>2 DEF Return, Goto, TypeOK, PrivateTo
      <4> QED BY <1>i, <2>2, <3>2, <4>1, OthersKeep DEF ClientInv
    <3> QED BY <3>1, <3>2
  <2> QED BY <1>q, <2>1, <2>3 DEF ClientInv
<1>12. CASE Tick
  <2>1. DatabaseInv' /\ (\A q \in Clients : Row(q)' = Row(q)) /\ UNCHANGED local
    BY <1>0, <1>12, UnchangedDatabase DEF Tick
  <2>2. ASSUME NEW q \in Clients PROVE SnapshotIsVersion(q)' /\ DecisionIsKept(q)'
    <3>1. snap[q].at \in Nat /\ now \in Nat /\ now' = now + 1
      BY <1>0, <1>12, SnapshotType, BoundsAssumption DEF Tick, TypeOK
    <3>2. snap[q].at <= now'
      BY <1>i, <3>1 DEF DecisionIsKept, ClientInv
    <3> QED BY <1>i, <2>1, <3>2 DEF SnapshotIsVersion, DecisionIsKept, ClientInv, local
  <2> QED BY <1>q, <2>1, <2>2 DEF ClientInv
<1>13. CASE UNCHANGED vars
  <2>1. DatabaseInv' /\ (\A q \in Clients : Row(q)' = Row(q))
    BY <1>0, <1>13, UnchangedDatabase DEF vars, database
  <2> QED BY <1>q, <1>i, <1>13, <2>1 DEF vars, SnapshotIsVersion, DecisionIsKept, ClientInv
<1> QED BY <1>1, <1>2, <1>3, <1>4, <1>5, <1>6, <1>7, <1>8, <1>9, <1>10, <1>11, <1>12, <1>13
        DEF Next, Client, Operation, Rest

\* The invariant behind the rest: transactions are isolated, a snapshot is a
\* version of the row, and every row is the end of its ledger.
THEOREM InvariantHolds == Spec => []IInv
BY InitInv, NextInv, PTL DEF Spec

-----------------------------------------------------------------------------
(* What follows.                                                            *)

\* No two calls ever commit the same credit: what is held, and what is left,
\* stay within what was put in less what was spent. (the clamp of `debit`, the
\* predicate of `place_hold`)
THEOREM HoldsStayBacked == Spec => []HoldsAreBacked
<1>1. IInv => HoldsAreBacked
  BY DEF IInv, Sound, HoldsAreBacked
<1> QED BY <1>1, InvariantHolds, PTL

\* One key, one credit, one hold, one release, however many connections retry
\* it at once. (`_replay` and the unique constraint behind `_flush_ledger`)
THEOREM KeysMoveOnce == Spec => []MovedOncePerKey
<1>1. IInv => MovedOncePerKey
  BY DEF IInv, Sound, MovedOncePerKey
<1> QED BY <1>1, InvariantHolds, PTL

LEMMA MissMeansMoved ==
    ASSUME IInv, NEW p \in Clients, pc[p] \in {"expire", "write"},
           NEW k \in Kinds, NEW key, NEW m \in MoveSet,
           Backed(snap[p].row) => Permitted(snap[p].row, k, key, m),
           ~CasMatches(Row(p), snap[p].row, m)
    PROVE  Row(p).version > snap[p].row.version
<1>1. Row(p).version \in Nat /\ snap[p].row.version \in Nat
  <2>1. Row(p) \in WalletRow /\ snap[p].row \in WalletRow
    BY RowType, SnapshotType DEF IInv
  <2> QED BY <2>1 DEF WalletRow
<1>2. SnapshotIsVersion(p) /\ Backed(Row(p))
  BY RowSound DEF IInv, DatabaseInv, Sound
<1>3. ASSUME Row(p).version = snap[p].row.version PROVE FALSE
  BY <1>2, <1>3 DEF SnapshotIsVersion, Permitted, CasMatches
<1> QED BY <1>1, <1>2, <1>3 DEF SnapshotIsVersion

LEMMA CasRetry ==
    ASSUME IInv, NEW p \in Clients, NEW k \in Kinds, NEW m \in MoveSet,
           Backed(snap[p].row) => Permitted(snap[p].row, k, req[p].key, m), Cas(p, k, m),
           attempt'[p] > attempt[p]
    PROVE  Row(p)'.version > snap[p].row.version
<1>1. attempt[p] \in Nat /\ pc[p] = "write"
  BY BoundsAssumption DEF IInv, TypeOK, Cas
<1>2. ~CasMatches(Row(p), snap[p].row, m) /\ UNCHANGED database
  BY <1>1 DEF Cas, Return, Goto
<1>3. Row(p)' = Row(p)
  BY <1>2 DEF Row, database
<1> QED BY <1>1, <1>2, <1>3, MissMeansMoved

\* An expiry that matched took the snapshot's own bonus, under no key.
LEMMA ExpiryHits ==
    ASSUME IInv, NEW p \in Clients, ExpireBonusNow(p),
           CasMatches(Row(p), snap[p].row, ExpiryMove(snap[p].row))
    PROVE  /\ Row(p) = snap[p].row
           /\ lock' = p /\ txWallet' = CasUpdate(Row(p), ExpiryMove(Row(p)))
<1>1. Row(p) = snap[p].row
  BY MatchFindsSnapshot DEF IInv, ExpireBonusNow
<1>2. MoveAndRecord(p, "expiry", NoKey, ExpiryMove(snap[p].row))
  BY DEF ExpireBonusNow
<1> QED BY <1>1, <1>2 DEF MoveAndRecord, Collides, WriteRow

\* The compare-and-swap never refuses the row it was computed from: a retry
\* means another call got through. (`_cas` and the loops over it)
THEOREM RetriesMeanProgress == Spec => RetryOnlyAfterMove
<1> DEFINE A == \A p \in Clients :
                   pc[p] \in {"expire", "write"} /\ attempt'[p] > attempt[p]
                   => Row(p)'.version > snap[p].row.version
<1>1. IInv /\ [Next]_vars => [A]_vars
  <2> SUFFICES ASSUME IInv, [Next]_vars, NEW p \in Clients, pc[p] \in {"expire", "write"},
                      attempt'[p] > attempt[p]
               PROVE  Row(p)'.version > snap[p].row.version
    OBVIOUS
  <2>0. /\ TypeOK /\ attempt[p] \in Nat
        /\ snap[p].row \in WalletRow /\ snap[p].at \in Nat /\ req[p].amount \in Nat
        /\ req[p].bonus \in Nat /\ req[p].expires \in Nat /\ req[p].release \in Nat
    BY SnapshotType, BoundsAssumption DEF IInv, TypeOK
  <2>1. ASSUME NEW q \in Clients, q # p, Client(q) PROVE FALSE
    <3>1. attempt'[p] = attempt[p]
      BY <2>0, <2>1 DEF TypeOK, Client, Operation, Start, Replay, ReadSnapshot, ExpireBonusNow,
         AfterExpiry, Debit, Credit, ReleaseHold, Cas, PlaceHold, SetFrozen, Commit, Abort,
         Return, Retry, Goto, local
    <3> QED BY <2>0, <3>1
  <2>2. CASE ExpireBonusNow(p)
    <3> DEFINE m == ExpiryMove(snap[p].row)
    <3>1. snap[p].row.bonus > 0 /\ pc[p] = "expire"
      BY <2>2 DEF IInv, ExpireBonusNow, DecisionIsKept, BonusHasExpired
    <3>2. CASE CasMatches(Row(p), snap[p].row, m)
      <4>1. Row(p)' = CasUpdate(snap[p].row, m)
        BY <2>2, <3>2, ExpiryHits DEF Row
      <4>2. CasUpdate(snap[p].row, m).version = snap[p].row.version + 1
        BY DEF CasUpdate
      <4> QED BY <2>0, <4>1, <4>2 DEF WalletRow
    <3>3. CASE ~CasMatches(Row(p), snap[p].row, m)
      <4>1. Row(p)' = Row(p)
        BY <2>2, <3>3 DEF ExpireBonusNow, Row, database
      <4>2. m \in MoveSet /\ "expiry" \in Kinds
        BY <2>0, ExpiryMoveType DEF Kinds
      <4>3. Backed(snap[p].row) => Permitted(snap[p].row, "expiry", NoKey, m)
        BY <2>0, <3>1, ExpiryPermitted
      <4> QED BY <3>1, <3>3, <4>1, <4>2, <4>3, MissMeansMoved
    <3> QED BY <3>2, <3>3
  <2>3. CASE Debit(p)
    <3> DEFINE m == DebitMove(snap[p].row, snap[p].at, req[p].amount, req[p].release)
    <3>1. m \in MoveSet /\ "debit" \in Kinds
      BY <2>0, DebitMoveType DEF Kinds
    <3>2. Backed(snap[p].row) => Permitted(snap[p].row, "debit", req[p].key, m)
      BY <2>0, DebitPermitted
    <3> QED BY <2>3, <3>1, <3>2, CasRetry DEF Debit
  <2>4. CASE Credit(p)
    <3> DEFINE m == CreditMove(snap[p].row, req[p].amount, req[p].bonus, req[p].expires)
    <3>1. m \in MoveSet /\ "credit" \in Kinds
      BY <2>0, CreditMoveType DEF Kinds
    <3>2. req[p] \in Requests /\ req[p].op = "credit"
      BY <2>4 DEF Credit, Cas, IInv, DecisionIsKept
    <3>3. Backed(snap[p].row) => Permitted(snap[p].row, "credit", req[p].key, m)
      BY <2>0, <3>2, CreditPermitted
    <3> QED BY <2>4, <3>1, <3>3, CasRetry DEF Credit
  <2>5. CASE ReleaseHold(p)
    <3> DEFINE m == ReleaseMove(snap[p].row, req[p].amount)
    <3>1. m \in MoveSet /\ "release" \in Kinds
      BY <2>0, ReleaseMoveType DEF Kinds
    <3>2. Least(req[p].amount, snap[p].row.reserved) > 0
      BY <2>5 DEF ReleaseHold, Cas, IInv, DecisionIsKept
    <3>3. Backed(snap[p].row) => Permitted(snap[p].row, "release", req[p].key, m)
      BY <2>0, <3>2, ReleasePermitted
    <3> QED BY <2>5, <3>1, <3>3, CasRetry DEF ReleaseHold
  <2>6. ASSUME Start(p) \/ Replay(p) \/ ReadSnapshot(p) \/ PlaceHold(p) \/ SetFrozen(p)
               \/ Commit(p) \/ Abort(p) \/ Tick \/ Rest \/ UNCHANGED vars
        PROVE  FALSE
    <3>1. attempt'[p] = attempt[p]
      BY <2>6 DEF Start, Replay, ReadSnapshot, PlaceHold, SetFrozen, Commit, Abort, Return, Goto,
                  Tick, Rest, vars, local
    <3> QED BY <2>0, <3>1
  <2> QED BY <2>1, <2>2, <2>3, <2>4, <2>5, <2>6 DEF Next, Client, Operation
<1> QED BY <1>1, InvariantHolds, PTL DEF Spec, RetryOnlyAfterMove

\* A bonus is cleared only once its own date has passed, whatever grants land
\* between the read and the write. (`_expire_bonus_now`, the merge in `credit`)
THEOREM LiveBonusIsKept == Spec => OnlyLapsedBonusExpires
<1> DEFINE A == \A p \in Clients :
                   pc[p] = "expire" /\ Len(txLedger') > Len(Book(p)) /\ lock' = p
                   => Row(p).expires # Never /\ Row(p).expires <= now
<1>1. IInv /\ [Next]_vars => [A]_vars
  <2> SUFFICES ASSUME IInv, [Next]_vars, NEW p \in Clients, pc[p] = "expire",
                      Len(txLedger') > Len(Book(p)), lock' = p
               PROVE  Row(p).expires # Never /\ Row(p).expires <= now
    OBVIOUS
  <2>0. Len(txLedger) \in Nat /\ p # Nobody /\ now \in Nat
    BY ClientsAssumption, BoundsAssumption DEF IInv, TypeOK
  <2>1. ASSUME lock = p, txLedger' = txLedger PROVE FALSE
    BY <2>0, <2>1 DEF Book
  <2>2. ASSUME UNCHANGED database PROVE FALSE
    BY <2>1, <2>2 DEF database
  <2>3. ASSUME NEW q \in Clients, q # p, Client(q) PROVE FALSE
    BY <2>0, <2>2, <2>3 DEF Client, Operation, Start, Replay, ReadSnapshot, ExpireBonusNow, Debit,
       Credit, ReleaseHold, Cas, PlaceHold, SetFrozen, Commit, Abort, MoveAndRecord, WriteRow, Discard
  <2>4. CASE ExpireBonusNow(p)
    <3>1. CasMatches(Row(p), snap[p].row, ExpiryMove(snap[p].row))
      BY <2>2, <2>4 DEF ExpireBonusNow
    <3>2. Row(p) = snap[p].row
      BY <2>4, <3>1, ExpiryHits
    <3>3. BonusHasExpired(snap[p].row, snap[p].at) /\ snap[p].at <= now
      BY DEF IInv, DecisionIsKept
    <3>4. snap[p].row \in WalletRow /\ snap[p].at \in Nat
      BY SnapshotType DEF IInv
    <3>5. snap[p].row.expires \in Nat
      BY <3>4 DEF WalletRow
    <3>6. snap[p].row.expires # Never /\ ~(snap[p].row.expires > snap[p].at)
      BY <3>3 DEF BonusHasExpired, EffectiveBonus
    <3> QED BY <2>0, <3>2, <3>3, <3>4, <3>5, <3>6
  <2>5. ASSUME Start(p) \/ Replay(p) \/ ReadSnapshot(p) \/ Debit(p) \/ Credit(p) \/ ReleaseHold(p)
               \/ PlaceHold(p) \/ SetFrozen(p) \/ Commit(p) \/ Abort(p) \/ Tick \/ Rest
               \/ UNCHANGED vars
        PROVE  FALSE
    BY <2>0, <2>2, <2>5 DEF Start, Replay, ReadSnapshot, Debit, Credit, ReleaseHold, Cas, PlaceHold,
       SetFrozen, Commit, Abort, Discard, Tick, Rest, vars, database
  <2> QED BY <2>3, <2>4, <2>5 DEF Next, Client, Operation
<1> QED BY <1>1, InvariantHolds, PTL DEF Spec, OnlyLapsedBonusExpires

LEMMA OnlyCommitPublishes ==
    ASSUME [Next]_vars
    PROVE  (wallet' = wallet /\ ledger' = ledger) \/ \E p \in Clients : Commit(p)
<1>1. ASSUME NEW p \in Clients, Operation(p) PROVE wallet' = wallet /\ ledger' = ledger
  BY <1>1 DEF Operation, Replay, ReadSnapshot, ExpireBonusNow, Debit, Credit, ReleaseHold, Cas,
              PlaceHold, SetFrozen, MoveAndRecord, WriteRow, Discard, database
<1> QED BY <1>1 DEF Next, Client, Start, Abort, Discard, Tick, Rest, vars, database

\* The committed rows and entries implement the statement of the ledger:
\* nothing rewritten, every balance explained.
THEOREM StatementIsImplemented == Spec => ImplementsStatement
<1>1. Init => Published!Init
  BY InitInv DEF IInv, Sound, Kept, Published!Init
<1>2. IInv /\ IInv' /\ [Next]_vars => [Published!Post]_<<ledger, Balance(wallet)>>
  <2> SUFFICES ASSUME IInv, IInv', [Next]_vars
               PROVE  [Published!Post]_<<ledger, Balance(wallet)>>
    OBVIOUS
  <2>1. CASE wallet' = wallet /\ ledger' = ledger
    BY <2>1 DEF Balance
  <2>2. ASSUME NEW p \in Clients, Commit(p) PROVE Published!Post
    <3>1. Published!Extends(ledger', ledger)
      BY <2>2 DEF Commit, IInv, TransactionsAreIsolated, Published!Extends
    <3>2. Published!Explained(ledger, Balance(wallet))'
      BY DEF IInv, Sound, Kept
    <3> QED BY <3>1, <3>2 DEF Published!Post, Published!Extends, Published!Explained,
               Published!Follows, Published!InOrder, Published!Before, Balance
  <2> QED BY <2>1, <2>2, OnlyCommitPublishes
<1> QED BY <1>1, <1>2, InvariantHolds, PTL DEF Spec, ImplementsStatement, Published!Spec
=============================================================================
