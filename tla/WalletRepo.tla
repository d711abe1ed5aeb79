------------------------------ MODULE WalletRepo -----------------------------
(* app/services/billing/wallet_repo.py, statement by statement: several     *)
(* connections run debit, credit, place_hold, release_hold, expire_bonus    *)
(* and set_frozen against one wallet under READ COMMITTED. A statement is   *)
(* one step, so another connection may act between any read and the write   *)
(* that relies on it. The first UPDATE that changes the row locks it until  *)
(* its transaction ends; the caller, not this module, ends it, and may run  *)
(* several operations before it does.                                       *)
EXTENDS WalletOps, Sequences

CONSTANTS Clients,      \* connections, each with its own transaction
          Nobody,       \* holds no row lock
          Keys,         \* idempotency keys callers compose
          Requests,     \* the calls a client may make
          Opening,      \* the credit that opened the wallet
          MaxAttempts,  \* MAX_CAS_ATTEMPTS
          MaxCalls,     \* bound: calls one client makes
          MaxTime       \* bound: the clock

Operations == {"debit", "credit", "hold", "release", "expire", "freeze", "unfreeze"}

\* The key of the credit that opened the wallet.
OpeningKey == "opening"

LedgerKeys == Keys \cup {NoKey, OpeningKey}

Request == [op: Operations, key: LedgerKeys, amount: Nat, bonus: Nat, expires: Nat,
            release: Nat, grace: Nat]

ASSUME ClientsAssumption == Nobody \notin Clients
ASSUME BoundsAssumption ==
    /\ MaxAttempts \in Nat \ {0}
    /\ MaxCalls \in Nat
    /\ MaxTime \in Nat \ {0}
ASSUME RequestsAssumption ==
    /\ Requests \subseteq Request
    \* `credit` refuses a movement of nothing.
    /\ \A r \in Requests : r.op = "credit" => r.amount + r.bonus > 0
ASSUME KeysAssumption ==
    \* A caller composes a credit's key from what is credited, so one key asks
    \* for one movement (`signup:{user}`, `admin:{key}`); only a call that takes
    \* a key has one.
    /\ \A r, s \in Requests : r.op = "credit" /\ s.op = "credit" /\ r.key = s.key => r = s
    /\ \A r \in Requests : r.key # OpeningKey
ASSUME OpeningAssumption ==
    /\ Opening \in [paid: Nat, bonus: Nat, expires: Nat]
    /\ Opening.paid + Opening.bonus > 0

VARIABLES
    wallet,    \* the committed row
    ledger,    \* the committed entries, in commit order
    lock,      \* the transaction that wrote the row and has not ended
    txWallet,  \* the row as the lock holder sees it
    txLedger,  \* the entries as the lock holder sees them
    now,       \* the clock
    pc,        \* where each call stands
    req,       \* the call each client makes
    snap,      \* the last snapshot each call read, and when
    attempt,   \* the pass of the compare-and-swap loop
    calls      \* calls each client has made

database == <<wallet, ledger, lock, txWallet, txLedger>>
local    == <<pc, req, snap, attempt, calls>>
vars     == <<wallet, ledger, lock, txWallet, txLedger, now, pc, req, snap, attempt, calls>>

Steps == {"idle", "replay", "read", "expire", "write", "update", "set"}

EntrySet == [kind: Kinds, key: LedgerKeys,
             delta: [paid: Int, bonus: Int, reserved: Int],
             after: Balances, version: Nat]

NoCall == [op |-> "expire", key |-> NoKey, amount |-> 0, bonus |-> 0,
           expires |-> Never, release |-> 0, grace |-> 0]

TypeOK ==
    /\ wallet \in WalletRow /\ txWallet \in WalletRow
    /\ ledger \in Seq(EntrySet) /\ txLedger \in Seq(EntrySet)
    /\ lock \in Clients \cup {Nobody}
    /\ now \in 1..MaxTime
    /\ pc \in [Clients -> Steps]
    /\ req \in [Clients -> Request]
    /\ snap \in [Clients -> [row: WalletRow, at: 1..MaxTime]]
    /\ attempt \in [Clients -> 1..MaxAttempts]
    /\ calls \in [Clients -> 0..MaxCalls]

-----------------------------------------------------------------------------
(* A wallet that one credit call has opened.                                *)

OpenedRow == [paid |-> Opening.paid, bonus |-> Opening.bonus, reserved |-> 0,
              expires |-> Opening.expires, version |-> 1, frozen |-> FALSE,
              spend |-> 0, topup |-> Opening.paid + Opening.bonus, writeoff |-> 0]

OpeningEntry ==
    Entry("credit", OpeningKey, Move(Opening.paid, Opening.bonus, 0),
          OpenedRow)

Init ==
    /\ wallet = OpenedRow /\ txWallet = OpenedRow
    /\ ledger = <<OpeningEntry>> /\ txLedger = <<OpeningEntry>>
    /\ lock = Nobody
    /\ now = 1
    /\ pc = [p \in Clients |-> "idle"]
    /\ req = [p \in Clients |-> NoCall]
    /\ snap = [p \in Clients |-> [row |-> OpenedRow, at |-> 1]]
    /\ attempt = [p \in Clients |-> 1]
    /\ calls = [p \in Clients |-> 0]

-----------------------------------------------------------------------------
(* READ COMMITTED.                                                          *)

\* A statement sees what is committed and what its own transaction wrote.
Row(p)  == IF lock = p THEN txWallet ELSE wallet
Book(p) == IF lock = p THEN txLedger ELSE ledger

\* Mutant: a connection waits for its own row lock.
FreeForNobody(p) == lock = Nobody

\* An UPDATE whose predicate holds waits for the row; one that does not match
\* changes nothing and does not wait.
Free(p) == lock \in {Nobody, p}

WriteRow(p, row, book) ==
    /\ lock' = p /\ txWallet' = row /\ txLedger' = book
    /\ UNCHANGED <<wallet, ledger>>

Discard ==
    /\ lock' = Nobody /\ txWallet' = wallet /\ txLedger' = ledger
    /\ UNCHANGED <<wallet, ledger>>

\* The wallet UPDATE and the flush of its ledger rows. A key already written
\* for one of the same buckets rolls the transaction back, whatever else it held.
MoveAndRecord(p, kind, key, move) ==
    LET row   == CasUpdate(Row(p), move)
        entry == Entry(kind, key, move, row)
    IN  IF Collides(Book(p), key, entry.delta)
        THEN Discard
        ELSE WriteRow(p, row, IF WritesRows(entry.delta) THEN Append(Book(p), entry)
                                                         ELSE Book(p))

-----------------------------------------------------------------------------
(* Control.                                                                 *)

Goto(p, step) ==
    /\ pc' = [pc EXCEPT ![p] = step]
    /\ UNCHANGED <<req, snap, attempt, calls>>

Return(p) == Goto(p, "idle")

\* `continue`: the next pass re-reads; after the last one the call is refused
\* with wallet_busy.
Retry(p) ==
    /\ UNCHANGED <<req, snap, calls>>
    /\ IF attempt[p] < MaxAttempts
       THEN /\ attempt' = [attempt EXCEPT ![p] = @ + 1]
            /\ pc' = [pc EXCEPT ![p] = "read"]
       ELSE /\ pc' = [pc EXCEPT ![p] = "idle"]
            /\ UNCHANGED attempt

Start(p) ==
    /\ pc[p] = "idle" /\ calls[p] < MaxCalls
    /\ \E r \in Requests :
        /\ req' = [req EXCEPT ![p] = r]
        /\ pc' = [pc EXCEPT ![p] = CASE r.op \in {"freeze", "unfreeze"} -> "set"
                                     [] r.op = "expire"                 -> "read"
                                     [] OTHER                           -> "replay"]
    /\ attempt' = [attempt EXCEPT ![p] = 1]
    /\ calls' = [calls EXCEPT ![p] = @ + 1]
    /\ UNCHANGED <<database, now, snap>>

\* `_replay`, asked once: a key already recorded is answered from the ledger.
Replay(p) ==
    /\ pc[p] = "replay"
    /\ Goto(p, IF Recorded(Book(p), req[p].key) THEN "idle" ELSE "read")
    /\ UNCHANGED <<database, now>>

-----------------------------------------------------------------------------
(* The snapshot, and what each operation decides from it before it writes.  *)

AfterDebitRead(w, r) ==
    IF BonusHasExpired(w, now) THEN "expire"
    ELSE IF r.amount - Chargeable(w, now, r.amount) > r.grace
         THEN "idle"       \* insufficient_balance
         ELSE "write"

AfterCreditRead(w, r) ==
    IF r.bonus > 0 /\ BonusHasExpired(w, now) THEN "expire" ELSE "write"

AfterHoldRead(w, r) ==
    IF w.frozen \/ r.amount = 0 THEN "idle"     \* wallet_frozen, or nothing to hold
    ELSE IF BonusHasExpired(w, now) THEN "expire" ELSE "update"

AfterReleaseRead(w, r) == IF Least(r.amount, w.reserved) = 0 THEN "idle" ELSE "write"

AfterExpireRead(w) == IF BonusHasExpired(w, now) THEN "expire" ELSE "idle"

ReadSnapshot(p) ==
    LET w == Row(p)
        r == req[p]
    IN  /\ pc[p] = "read"
        /\ snap' = [snap EXCEPT ![p] = [row |-> w, at |-> now]]
        /\ pc' = [pc EXCEPT ![p] = CASE r.op = "debit"   -> AfterDebitRead(w, r)
                                     [] r.op = "credit"  -> AfterCreditRead(w, r)
                                     [] r.op = "hold"    -> AfterHoldRead(w, r)
                                     [] r.op = "release" -> AfterReleaseRead(w, r)
                                     [] OTHER            -> AfterExpireRead(w)]
        /\ UNCHANGED <<database, now, req, attempt, calls>>

-----------------------------------------------------------------------------
(* The writes.                                                              *)

\* After `_expire_bonus_now`: a hold goes on to its UPDATE whether or not the
\* bonus was cleared, the sweeper is done if it was, the loops read again.
AfterExpiry(p, cleared) ==
    IF req[p].op = "hold" THEN Goto(p, "update")
    ELSE IF req[p].op = "expire" /\ cleared THEN Return(p)
    ELSE Retry(p)

ExpireBonusNow(p) ==
    LET move == ExpiryMove(snap[p].row)
    IN  /\ pc[p] = "expire"
        /\ UNCHANGED now
        /\ \/ /\ CasMatches(Row(p), snap[p].row, move) /\ Free(p)
              /\ MoveAndRecord(p, "expiry", NoKey, move)
              /\ AfterExpiry(p, TRUE)
           \/ /\ ~CasMatches(Row(p), snap[p].row, move)
              /\ UNCHANGED database
              /\ AfterExpiry(p, FALSE)

\* One pass of the loop of debit, credit and release_hold.
Cas(p, kind, move) ==
    /\ pc[p] = "write"
    /\ UNCHANGED now
    /\ \/ /\ CasMatches(Row(p), snap[p].row, move) /\ Free(p)
          /\ MoveAndRecord(p, kind, req[p].key, move)
          /\ Return(p)
       \/ /\ ~CasMatches(Row(p), snap[p].row, move)
          /\ UNCHANGED database
          /\ Retry(p)

Debit(p) ==
    /\ req[p].op = "debit"
    /\ Cas(p, "debit", DebitMove(snap[p].row, snap[p].at, req[p].amount, req[p].release))

Credit(p) ==
    /\ req[p].op = "credit"
    /\ Cas(p, "credit", CreditMove(snap[p].row, req[p].amount, req[p].bonus, req[p].expires))

ReleaseHold(p) ==
    /\ req[p].op = "release"
    /\ Cas(p, "release", ReleaseMove(snap[p].row, req[p].amount))

PlaceHold(p) ==
    /\ pc[p] = "update"
    /\ UNCHANGED now
    /\ Return(p)
    /\ \/ /\ HoldMatches(Row(p), req[p].amount) /\ Free(p)
          /\ MoveAndRecord(p, "hold", req[p].key, HoldMove(req[p].amount))
       \/ /\ ~HoldMatches(Row(p), req[p].amount)     \* insufficient_balance
          /\ UNCHANGED database

SetFrozen(p) ==
    /\ pc[p] = "set" /\ Free(p)
    /\ WriteRow(p, FrozenUpdate(Row(p), req[p].op = "freeze"), Book(p))
    /\ Return(p)
    /\ UNCHANGED now

-----------------------------------------------------------------------------
(* The caller, the process and the clock.                                   *)

Commit(p) ==
    /\ lock = p /\ pc[p] = "idle"
    /\ wallet' = txWallet /\ ledger' = txLedger /\ lock' = Nobody
    /\ UNCHANGED <<txWallet, txLedger, now, local>>

\* The caller rolls back, or its connection dies with the call unfinished.
Abort(p) ==
    /\ lock = p \/ pc[p] # "idle"
    /\ IF lock = p THEN Discard ELSE UNCHANGED database
    /\ Return(p)
    /\ UNCHANGED now

Tick ==
    /\ now < MaxTime
    /\ now' = now + 1
    /\ UNCHANGED <<database, local>>

Operation(p) == \/ Replay(p) \/ ReadSnapshot(p) \/ ExpireBonusNow(p)
                \/ Debit(p) \/ Credit(p) \/ ReleaseHold(p) \/ PlaceHold(p) \/ SetFrozen(p)

Client(p) == Start(p) \/ Operation(p) \/ Commit(p) \/ Abort(p)

EndTransaction(p) == pc[p] = "idle" /\ (Commit(p) \/ Abort(p))

\* Every client has used up its calls: the system rests.
Rest ==
    /\ lock = Nobody
    /\ \A p \in Clients : pc[p] = "idle" /\ calls[p] = MaxCalls
    /\ UNCHANGED vars

Next == (\E p \in Clients : Client(p)) \/ Tick \/ Rest

Spec == Init /\ [][Next]_vars

\* A running call is awaited and goes on; a session that is closed ends its
\* transaction one way or the other.
Fairness == \A p \in Clients : WF_vars(Operation(p)) /\ WF_vars(EndTransaction(p))

FairSpec == Spec /\ Fairness

-----------------------------------------------------------------------------
(* Properties.                                                              *)

\* What was ever put in and not yet spent covers both what is left and what is
\* held: two concurrent calls never commit the same credit twice, and only a
\* lapsing bonus may leave a hold larger than the balance under it.
\* (wallet.reserved_micros; the clamp in `debit`, the predicate in `place_hold`)
Backed(w) ==
    /\ w.reserved <= w.topup - w.spend
    /\ w.paid + w.bonus <= w.topup - w.spend

HoldsAreBacked == Backed(wallet)

\* However many connections race with one idempotency key, credit is put in,
\* held, or given back once. (`_replay`, `_flush_ledger`)
OncePerKey(book) ==
    \A i, j \in DOMAIN book :
        /\ book[i].key = book[j].key /\ book[i].key # NoKey
        /\ book[i].kind = book[j].kind /\ book[i].kind # "debit"
        => i = j

MovedOncePerKey == OncePerKey(ledger)

\* The same for charges. (the comment on uq_ledger_entries_idempotency_bucket)
ChargedOncePerKey ==
    \A i, j \in DOMAIN ledger :
        /\ ledger[i].key = ledger[j].key
        /\ ledger[i].kind = "debit" /\ ledger[j].kind = "debit"
        => i = j

\* A pass of the loop is given up only because the row has moved past the
\* snapshot it read: some call got through, and the non-negative guards of
\* `_cas` are never what refuses a write.
RetryOnlyAfterMove ==
    [][\A p \in Clients :
          pc[p] \in {"expire", "write"} /\ attempt'[p] > attempt[p]
          => Row(p)'.version > snap[p].row.version]_vars

\* Only a bonus whose own date has passed is ever cleared: a grant that extends
\* the date, or makes it permanent, between the read and the write is honoured.
\* (`_expire_bonus_now`, the merge in `credit`)
OnlyLapsedBonusExpires ==
    [][\A p \in Clients :
          pc[p] = "expire" /\ Len(txLedger') > Len(Book(p)) /\ lock' = p
          => Row(p).expires # Never /\ Row(p).expires <= now]_vars

\* A hold is granted only against credit that had not lapsed when the call
\* looked. (the comment on the expiry step of `place_hold`)
LapsedBonusIsNotHeadroom ==
    [][\A p \in Clients :
          pc[p] = "update" /\ lock' = p /\ Len(txLedger') > Len(Book(p))
          => req[p].amount <= Available(Row(p), snap[p].at)]_vars

\* Every call returns: neither the loop, nor the row lock, nor clients that
\* keep moving the wallet can hold one for ever.
CallsReturn == \A p \in Clients : pc[p] # "idle" ~> pc[p] = "idle"

\* The committed ledger is the statement, and the committed row its balance.
Published == INSTANCE Statement WITH entries <- ledger, balance <- Balance(wallet)

\* Nothing committed is rewritten, and every balance is explained.
ImplementsStatement == Published!Spec

-----------------------------------------------------------------------------
(* The inductive invariant the safety properties rest on.                   *)

\* No row lock, no private version of the row; with one, a later version of
\* the row and a longer ledger.
TransactionsAreIsolated ==
    /\ lock = Nobody => txWallet = wallet /\ txLedger = ledger
    /\ lock # Nobody => wallet.version < txWallet.version
    /\ Published!Extends(txLedger, ledger)

\* A call about to write holds an older version of the row, or this one.
SnapshotIsVersion(p) ==
    pc[p] \in {"expire", "write"} =>
        /\ snap[p].row.version <= Row(p).version
        /\ snap[p].row.version = Row(p).version => snap[p].row = Row(p)

\* What the read decided is still true of the snapshot at the write.
DecisionIsKept(p) ==
    /\ snap[p].at <= now
    /\ pc[p] = "expire" => BonusHasExpired(snap[p].row, snap[p].at)
    /\ pc[p] = "write" /\ req[p].op = "release" => Least(req[p].amount, snap[p].row.reserved) > 0
    /\ pc[p] = "update" => req[p].op = "hold"
    /\ pc[p] \in {"expire", "update"} /\ req[p].op = "hold" => req[p].amount > 0
    /\ pc[p] # "idle" => req[p] \in Requests

\* Entry by entry, the ledger arrives at the row, and was written before it.
Kept(row, book) ==
    /\ Published!Explained(book, Balance(row))
    /\ \A i \in DOMAIN book : book[i].version <= row.version

\* A credit entry moved what the call with its key asked for.
CreditsAsAsked(book) ==
    \A i \in DOMAIN book : book[i].kind = "credit" /\ book[i].key # OpeningKey =>
        \E r \in Requests : /\ r.op = "credit" /\ r.key = book[i].key
                            /\ book[i].delta = [paid |-> r.amount, bonus |-> r.bonus, reserved |-> 0]

\* What holds of a row and its ledger, committed or not.
Sound(row, book) ==
    Backed(row) /\ Kept(row, book) /\ CreditsAsAsked(book) /\ OncePerKey(book)

IInv ==
    /\ TypeOK
    /\ TransactionsAreIsolated
    /\ \A p \in Clients : SnapshotIsVersion(p) /\ DecisionIsKept(p)
    /\ Sound(wallet, ledger) /\ Sound(txWallet, txLedger)
=============================================================================
