------------------------------ MODULE AiSessions -----------------------------
(* app/services/billing/session_service.py and reconcile_service.py: metered *)
(* sessions opened, settled, abandoned and touched by request handlers,      *)
(* reaped and healed by reconciliation, all against one wallet. A statement  *)
(* of PostgreSQL is one step; what a transaction wrote is seen by the others *)
(* when it commits, and until then its row locks and unique keys make them   *)
(* wait. A wallet operation is one step once it holds the wallet row:        *)
(* WalletRepo shows what its compare-and-swap loop comes to. The wallet has  *)
(* one bucket of credit, and prices are positive.                            *)
EXTENDS Integers, FiniteSets

CONSTANTS Handlers,     \* connections serving requests, streams and workers
          Reconcilers,  \* connections running `reconcile_all`
          Nobody,       \* holds no lock
          Sessions,     \* client idempotency keys: one session row each
          Quote,        \* what each request is priced at when it opens
          Reported,     \* what the quantities of a report may come to
          Funds,        \* credit in the wallet
          Ops,          \* the operations in use
          MaxFailures   \* bound: transactions that die, deadlocks aside

Workers == Handlers \cup Reconcilers

AllOps == {"open", "settle", "abandon", "touch", "estimate", "heal"}

ASSUME WorkersAssumption == Nobody \notin Workers
ASSUME PricesAssumption ==
    /\ IsFiniteSet(Sessions) /\ Sessions # {}
    /\ Quote \in [Sessions -> Nat \ {0}]
    /\ Reported \subseteq Nat
    /\ Funds \in Nat
ASSUME OpsAssumption == Ops \subseteq AllOps /\ MaxFailures \in Nat

Terminal == {"closed", "failed"}

SessionRow == [status: {"none", "active"} \cup Terminal,
               reserved: Nat, estimated: Nat, settled: Nat, released: BOOLEAN]

NoRow == [status |-> "none", reserved |-> 0, estimated |-> 0, settled |-> 0,
          released |-> FALSE]

\* The usage event of a session: there is one at most, at sequence 1.
EventRow == [recorded: BOOLEAN, price: Nat, debited: Nat, writeoff: Nat]

NoEvent == [recorded |-> FALSE, price |-> 0, debited |-> 0, writeoff |-> 0]

NoAudit == [reserved |-> 0, held |-> 0]

NoJob == [op |-> "heal", s |-> CHOOSE s \in Sessions : TRUE, price |-> 0]

VARIABLES
    sessions,   \* committed session rows
    events,     \* committed usage events
    wallet,     \* the committed wallet row
    keys,       \* committed idempotency keys of movements of `reserved`
    due,        \* past the deadline, and silent for the grace period
    lock,       \* the transaction that wrote the wallet row
    txWallet,   \* the wallet row as that transaction sees it
    txKeys,     \* the keys as that transaction sees them
    rowLock,    \* the transaction that wrote a session row
    inserting,  \* the transaction that inserted a session's event
    pc, job,    \* each worker: its step, and the call it runs
    row,        \* each worker: the session row it loaded
    event,      \* each worker: the event it is filling in
    audit,      \* each worker: what `verify_wallet` read
    told,       \* what settlements of each session answered was debited
    failures    \* transactions that died

committed == <<sessions, events, wallet, keys>>
database  == <<sessions, events, wallet, keys, lock, txWallet, txKeys, rowLock, inserting>>
locals    == <<job, row, event, audit>>
vars == <<database, due, pc, locals, told, failures>>

Steps == {"idle", "insert", "hold", "recheck", "load", "report", "event", "rebuild",
          "replay", "release", "reload", "collect", "verify", "tally", "verifyAgain",
          "tallyAgain", "commit"}

Keys == ({"release"} \X Sessions) \cup ({"reconcile"} \X Nat \X Nat)

TypeOK ==
    /\ sessions \in [Sessions -> SessionRow]
    /\ events \in [Sessions -> EventRow]
    /\ wallet \in [balance: Nat, reserved: Nat] /\ txWallet \in [balance: Nat, reserved: Nat]
    /\ keys \subseteq Keys /\ txKeys \subseteq Keys
    /\ due \in [Sessions -> BOOLEAN]
    /\ lock \in Workers \cup {Nobody}
    /\ rowLock \in [Sessions -> Workers \cup {Nobody}]
    /\ inserting \in [Sessions -> Workers \cup {Nobody}]
    /\ pc \in [Workers -> Steps]
    /\ job \in [Workers -> [op: AllOps, s: Sessions, price: Nat]]
    /\ row \in [Workers -> SessionRow]
    /\ event \in [Workers -> EventRow]
    /\ audit \in [Workers -> [reserved: Nat, held: Nat]]
    /\ told \in [Sessions -> SUBSET Nat]
    /\ failures \in 0..MaxFailures

Opened == [balance |-> Funds, reserved |-> 0]

Init ==
    /\ sessions = [s \in Sessions |-> NoRow]
    /\ events = [s \in Sessions |-> NoEvent]
    /\ wallet = Opened /\ txWallet = Opened
    /\ keys = {} /\ txKeys = {}
    /\ due = [s \in Sessions |-> FALSE]
    /\ lock = Nobody
    /\ rowLock = [s \in Sessions |-> Nobody]
    /\ inserting = [s \in Sessions |-> Nobody]
    /\ pc = [w \in Workers |-> "idle"]
    /\ job = [w \in Workers |-> NoJob]
    /\ row = [w \in Workers |-> NoRow]
    /\ event = [w \in Workers |-> NoEvent]
    /\ audit = [w \in Workers |-> NoAudit]
    /\ told = [s \in Sessions |-> {}]
    /\ failures = 0

-----------------------------------------------------------------------------
(* Transactions.                                                            *)

Wallet(w)   == IF lock = w THEN txWallet ELSE wallet

\* Mutant: no unique index on the ledger's keys.
NoKeysSeen(w) == {}

KeysSeen(w) == IF lock = w THEN txKeys ELSE keys

\* Mutant: credit held by others counts as headroom.
HeadroomWithHolds(w) == Wallet(w).balance

Headroom(w) == Wallet(w).balance - Wallet(w).reserved

WalletFree(w)   == lock \in {Nobody, w}
RowFree(w, s)   == rowLock[s] \in {Nobody, w}
Target(w)       == job[w].s

WriteWallet(w, new, newKeys) ==
    /\ lock' = w /\ txWallet' = new /\ txKeys' = newKeys
    /\ UNCHANGED <<committed, rowLock, inserting>>

Unlocked(f, w) == [s \in Sessions |-> IF f[s] = w THEN Nobody ELSE f[s]]

Rollback(w) ==
    /\ IF lock = w THEN lock' = Nobody /\ txWallet' = wallet /\ txKeys' = keys
                   ELSE UNCHANGED <<lock, txWallet, txKeys>>
    /\ rowLock' = Unlocked(rowLock, w) /\ inserting' = Unlocked(inserting, w)
    /\ UNCHANGED committed

\* The flush at commit writes the rows, the commit publishes everything.
CommitWith(w, newSessions, newEvents) ==
    /\ sessions' = newSessions /\ events' = newEvents
    /\ IF lock = w THEN wallet' = txWallet /\ keys' = txKeys /\ lock' = Nobody
                   ELSE UNCHANGED <<wallet, keys, lock>>
    /\ rowLock' = Unlocked(rowLock, w) /\ inserting' = Unlocked(inserting, w)
    /\ UNCHANGED <<txWallet, txKeys>>

-----------------------------------------------------------------------------
(* Control.                                                                 *)

Goto(w, step) == pc' = [pc EXCEPT ![w] = step]

Calm == UNCHANGED <<due, failures>>

\* The call returns, and what it knew is gone with it.
Done(w) ==
    /\ Goto(w, "idle")
    /\ job' = [job EXCEPT ![w] = NoJob] /\ row' = [row EXCEPT ![w] = NoRow]
    /\ event' = [event EXCEPT ![w] = NoEvent] /\ audit' = [audit EXCEPT ![w] = NoAudit]

\* Returning without a commit: the connection is closed, which rolls back.
Return(w) == Done(w) /\ Rollback(w)

Answer(s, debited) == told' = [told EXCEPT ![s] = @ \cup {debited}]

\* `_rebuild_settlement`: the answer of whoever settled, zero if nobody did.
Rebuilt(s) == events[s].debited

Begin(w, op, s, price, step) ==
    /\ op \in Ops /\ pc[w] = "idle"
    /\ job' = [job EXCEPT ![w] = [op |-> op, s |-> s, price |-> price]]
    /\ Goto(w, step)
    /\ UNCHANGED <<database, due, row, event, audit, told, failures>>

-----------------------------------------------------------------------------
(* Opening.                                                                 *)

Open(w, s) == Begin(w, "open", s, Quote[s], "insert")

\* A key somebody used is answered with their ticket; one being inserted is
\* waited for.
InsertRow(w) ==
    /\ pc[w] = "insert" /\ RowFree(w, Target(w))
    /\ \/ sessions[Target(w)].status # "none" /\ Return(w)
       \/ /\ sessions[Target(w)].status = "none"
          /\ rowLock' = [rowLock EXCEPT ![Target(w)] = w]
          /\ Goto(w, "hold")
          /\ UNCHANGED <<committed, lock, txWallet, txKeys, inserting, locals>>
    /\ Calm /\ UNCHANGED told

\* The hold and the row that records it share the transaction; without the
\* credit for it the row is kept as failed.
Hold(w) ==
    LET price == job[w].price
    IN  /\ pc[w] = "hold"
        /\ \/ /\ Headroom(w) >= price /\ WalletFree(w)
              /\ WriteWallet(w, [balance  |-> Wallet(w).balance,
                                 reserved |-> Wallet(w).reserved + price], KeysSeen(w))
              /\ row' = [row EXCEPT ![w] = [status |-> "active", reserved |-> price,
                             estimated |-> price, settled |-> 0, released |-> FALSE]]
           \/ /\ Headroom(w) < price
              /\ row' = [row EXCEPT ![w] = [status |-> "failed", reserved |-> 0,
                             estimated |-> price, settled |-> 0, released |-> TRUE]]
              /\ UNCHANGED database
        /\ Goto(w, "commit")
        /\ Calm /\ UNCHANGED <<job, event, audit, told>>

-----------------------------------------------------------------------------
(* Reporting progress, and the deadline.                                    *)

\* `touch_session`: one UPDATE and its commit.
Touch(w, s) ==
    /\ "touch" \in Ops /\ pc[w] = "idle"
    /\ sessions[s].status = "active" /\ RowFree(w, s)
    /\ due' = [due EXCEPT ![s] = FALSE]
    /\ UNCHANGED <<database, pc, locals, told, failures>>

Lapse(s) ==
    /\ sessions[s].status = "active" /\ ~due[s]
    /\ due' = [due EXCEPT ![s] = TRUE]
    /\ UNCHANGED <<database, pc, locals, told, failures>>

-----------------------------------------------------------------------------
(* The three ways a session ends.                                           *)

Settle(w, s, price) ==
    sessions[s].status # "none" /\ Begin(w, "settle", s, price, "load")

Abandon(w, s) ==
    sessions[s].status # "none" /\ Begin(w, "abandon", s, 0, "load")

\* The scan of `reap_expired_sessions` has found the row.
Reap(w, s) ==
    /\ sessions[s].status = "active" /\ due[s]
    /\ Begin(w, "estimate", s, 0, "recheck")

\* Each row's progress is read again when its turn comes.
Recheck(w) ==
    /\ pc[w] = "recheck"
    /\ \/ due[Target(w)] /\ Goto(w, "load") /\ UNCHANGED <<database, locals>>
       \/ ~due[Target(w)] /\ Return(w)
    /\ Calm /\ UNCHANGED told

AfterLoad == [settle |-> "report", estimate |-> "event", abandon |-> "replay"]

Load(w) ==
    LET seen == sessions[Target(w)]
    IN  /\ pc[w] = "load"
        /\ \/ /\ seen.status \in Terminal
              /\ IF job[w].op = "abandon" THEN UNCHANGED told
                                          ELSE Answer(Target(w), Rebuilt(Target(w)))
              /\ Return(w)
           \/ /\ seen.status \notin Terminal
              /\ row' = [row EXCEPT ![w] = seen]
              /\ Goto(w, AfterLoad[job[w].op])
              /\ UNCHANGED <<database, job, event, audit, told>>
        /\ Calm

\* The flush of a report updates the session's counters before it inserts.
WriteReport(w) ==
    /\ pc[w] = "report" /\ RowFree(w, Target(w))
    /\ rowLock' = [rowLock EXCEPT ![Target(w)] = w]
    /\ Goto(w, "event")
    /\ Calm /\ UNCHANGED <<committed, lock, txWallet, txKeys, inserting, locals, told>>

\* Mutant: the hold comes on top of the estimate.
CeilingSum(r) == r.estimated + r.reserved

Ceiling(r) == IF r.estimated >= r.reserved THEN r.estimated ELSE r.reserved

\* The cumulative price: the report's, clamped, or the one the session opened at.
CumulativePrice(w) ==
    IF job[w].op = "estimate" THEN row[w].estimated
    ELSE IF job[w].price > Ceiling(row[w]) THEN Ceiling(row[w]) ELSE job[w].price

Charge(w) ==
    LET owed == CumulativePrice(w) - row[w].settled IN IF owed > 0 THEN owed ELSE 0

\* One event per session: a second insert waits for the first, and then finds
\* its answer.
InsertEvent(w) ==
    /\ pc[w] = "event" /\ inserting[Target(w)] = Nobody
    /\ \/ /\ events[Target(w)].recorded
          /\ Rollback(w)
          /\ Goto(w, "rebuild")
          /\ UNCHANGED locals
       \/ /\ ~events[Target(w)].recorded
          /\ inserting' = [inserting EXCEPT ![Target(w)] = w]
          /\ event' = [event EXCEPT ![w] = [recorded |-> FALSE, price |-> Charge(w),
                                            debited |-> 0, writeoff |-> 0]]
          /\ Goto(w, "replay")
          /\ UNCHANGED <<committed, lock, txWallet, txKeys, rowLock, job, row, audit>>
    /\ Calm /\ UNCHANGED told

Rebuild(w) ==
    /\ pc[w] = "rebuild"
    /\ Answer(Target(w), Rebuilt(Target(w)))
    /\ Return(w)
    /\ Calm

-----------------------------------------------------------------------------
(* Giving a hold back, and charging.                                        *)

ReleaseKey(w) ==
    IF job[w].op = "heal" THEN <<"reconcile", audit[w].reserved, audit[w].held>>
                          ELSE <<"release", Target(w)>>

Asked(w) ==
    IF job[w].op = "heal" THEN audit[w].reserved - audit[w].held ELSE row[w].reserved

\* Mutant: an abandon does not read its row again.
AfterReleaseStamp(w) ==
    IF job[w].op \in {"settle", "estimate"} /\ event[w].price > 0 THEN "collect" ELSE "commit"

AfterRelease(w) ==
    CASE job[w].op = "abandon" -> "reload"
      [] job[w].op = "heal"    -> "commit"
      [] OTHER                 -> IF event[w].price > 0 THEN "collect" ELSE "commit"

Replay(w) ==
    /\ pc[w] = "replay"
    /\ Goto(w, IF ReleaseKey(w) \in KeysSeen(w) THEN AfterRelease(w) ELSE "release")
    /\ Calm /\ UNCHANGED <<database, locals, told>>

Freed(w) ==
    IF Asked(w) <= Wallet(w).reserved THEN Asked(w) ELSE Wallet(w).reserved

\* `release_hold` after its replay check. A key taken meanwhile rolls the whole
\* transaction back: an abandon reads its row again, healing goes on with an
\* empty transaction, a settlement stumbles over its expired row and raises.
Release(w) ==
    /\ pc[w] = "release"
    /\ \/ /\ Freed(w) = 0
          /\ Goto(w, AfterRelease(w))
          /\ UNCHANGED <<database, locals>>
       \/ /\ Freed(w) > 0 /\ WalletFree(w) /\ ReleaseKey(w) \notin KeysSeen(w)
          /\ WriteWallet(w, [balance  |-> Wallet(w).balance,
                             reserved |-> Wallet(w).reserved - Freed(w)],
                         KeysSeen(w) \cup {ReleaseKey(w)})
          /\ Goto(w, AfterRelease(w))
          /\ UNCHANGED locals
       \/ /\ Freed(w) > 0 /\ WalletFree(w) /\ ReleaseKey(w) \in KeysSeen(w)
          /\ IF job[w].op \in {"abandon", "heal"}
             THEN Rollback(w) /\ Goto(w, AfterRelease(w)) /\ UNCHANGED locals
             ELSE Return(w)
    /\ Calm /\ UNCHANGED told

\* What the wallet can pay of the charge.
Paid(w) ==
    LET spare == IF Headroom(w) > 0 THEN Headroom(w) ELSE 0
    IN  IF event[w].price <= spare THEN event[w].price ELSE spare

\* `_collect`: the rest is written off.
Collect(w) ==
    /\ pc[w] = "collect" /\ WalletFree(w)
    /\ WriteWallet(w, [balance  |-> Wallet(w).balance - Paid(w),
                       reserved |-> Wallet(w).reserved], KeysSeen(w))
    /\ event' = [event EXCEPT ![w] =
                    [recorded |-> FALSE, price |-> event[w].price,
                     debited |-> Paid(w), writeoff |-> event[w].price - Paid(w)]]
    /\ Goto(w, "commit")
    /\ Calm /\ UNCHANGED <<job, row, audit, told>>

\* `abandon_oneshot` reads the row again after giving the hold back.
Reload(w) ==
    LET seen == sessions[Target(w)]
    IN  /\ pc[w] = "reload"
        /\ \/ seen.status \in Terminal /\ Return(w)
           \/ /\ seen.status \notin Terminal
              /\ row' = [row EXCEPT ![w] = seen]
              /\ Goto(w, "commit")
              /\ UNCHANGED <<database, job, event, audit>>
        /\ Calm /\ UNCHANGED told

-----------------------------------------------------------------------------
(* The commit of each operation. `_finish` writes the columns it changed over *)
(* whatever the row now says.                                                 *)

SettledRow(w) ==
    [status |-> "closed", reserved |-> 0, estimated |-> CumulativePrice(w),
     settled |-> CumulativePrice(w), released |-> TRUE]

AbandonedRow(w) ==
    [status |-> "failed", reserved |-> 0, estimated |-> sessions[Target(w)].estimated,
     settled |-> sessions[Target(w)].settled, released |-> TRUE]

CommitSession(w, new, newEvents) ==
    CommitWith(w, [sessions EXCEPT ![Target(w)] = new], newEvents)

CommitOpen(w) ==
    /\ pc[w] = "commit" /\ job[w].op = "open"
    /\ CommitSession(w, row[w], events)
    /\ Done(w) /\ Calm /\ UNCHANGED told

CommitSettled(w) ==
    /\ pc[w] = "commit" /\ job[w].op \in {"settle", "estimate"} /\ RowFree(w, Target(w))
    /\ CommitSession(w, SettledRow(w),
           [events EXCEPT ![Target(w)] =
                [recorded |-> TRUE, price |-> event[w].price,
                 debited |-> event[w].debited, writeoff |-> event[w].writeoff]])
    /\ Answer(Target(w), event[w].debited)
    /\ Done(w) /\ Calm

CommitAbandoned(w) ==
    /\ pc[w] = "commit" /\ job[w].op = "abandon" /\ RowFree(w, Target(w))
    /\ CommitSession(w, AbandonedRow(w), events)
    /\ Done(w) /\ Calm /\ UNCHANGED told

-----------------------------------------------------------------------------
(* Healing.                                                                 *)

Heal(w) == Begin(w, "heal", NoJob.s, 0, "verify")

\* The sum of an amount of each session: its micros, one by one, counted.
Micros(amount) == UNION {{s} \X (1..amount[s]) : s \in Sessions}
Total(amount)  == Cardinality(Micros(amount))

\* What the sessions say is held: `reserved_micros` where no release is stamped.
HeldBy == [s \in Sessions |-> IF sessions[s].released THEN 0 ELSE sessions[s].reserved]
Held   == Total(HeldBy)

\* `verify_wallet` reads the wallet and adds the sessions up in two statements.
\* `reconcile_all` audits every wallet, then `heal_reserved` audits again.
ReadReserved(w) ==
    /\ pc[w] \in {"verify", "verifyAgain"}
    /\ audit' = [audit EXCEPT ![w] = [reserved |-> wallet.reserved, held |-> 0]]
    /\ Goto(w, IF pc[w] = "verify" THEN "tally" ELSE "tallyAgain")
    /\ Calm /\ UNCHANGED <<database, job, row, event, told>>

ReadHeld(w) ==
    /\ pc[w] = "tally"
    /\ \/ audit[w].reserved = Held /\ Return(w)
       \/ audit[w].reserved # Held /\ Goto(w, "verifyAgain") /\ UNCHANGED <<database, locals>>
    /\ Calm /\ UNCHANGED told

ReadHeldAgain(w) ==
    /\ pc[w] = "tallyAgain"
    /\ \/ audit[w].reserved <= Held /\ Return(w)
       \/ /\ audit[w].reserved > Held
          /\ audit' = [audit EXCEPT ![w] = [reserved |-> audit[w].reserved, held |-> Held]]
          /\ Goto(w, "replay")
          /\ UNCHANGED <<database, job, row, event>>
    /\ Calm /\ UNCHANGED told

\* Terminal rows whose release was never stamped are stamped with it.
CommitHealed(w) ==
    /\ pc[w] = "commit" /\ job[w].op = "heal"
    /\ CommitWith(w, [s \in Sessions |->
                        IF sessions[s].status \in Terminal
                        THEN [sessions[s] EXCEPT !.reserved = 0, !.released = TRUE]
                        ELSE sessions[s]], events)
    /\ Done(w) /\ Calm /\ UNCHANGED told

-----------------------------------------------------------------------------
(* Failure.                                                                 *)

\* Whose transaction a worker is waiting for.
Blocker(w) ==
    CASE pc[w] \in {"hold", "collect"}            -> lock
      [] pc[w] = "release" /\ Freed(w) > 0        -> lock
      [] pc[w] = "event"                          -> inserting[Target(w)]
      [] pc[w] \in {"insert", "report", "commit"} -> rowLock[Target(w)]
      [] OTHER                                    -> Nobody

\* The transaction n waits away.
Waiting(w, n) ==
    LET chain[i \in 0..n] ==
            IF i = 0 THEN w
            ELSE IF chain[i - 1] = Nobody THEN Nobody ELSE Blocker(chain[i - 1])
    IN  chain[n]

\* PostgreSQL rolls back one transaction of a cycle that waits for itself.
Victim(w) ==
    /\ Blocker(w) # w
    /\ \E n \in 2..Cardinality(Workers) : Waiting(w, n) = w
    /\ Return(w)
    /\ Calm /\ UNCHANGED told

\* The process, the connection, or a call refused with wallet_busy: the caller
\* rolls back, logs, and leaves the rest to the reaper.
Fail(w) ==
    /\ pc[w] # "idle" /\ failures < MaxFailures
    /\ failures' = failures + 1
    /\ Return(w)
    /\ UNCHANGED <<due, told>>

Step(w) ==
    \/ InsertRow(w) \/ Hold(w) \/ CommitOpen(w)
    \/ Recheck(w) \/ Load(w) \/ WriteReport(w) \/ InsertEvent(w) \/ Rebuild(w)
    \/ Replay(w) \/ Release(w) \/ Collect(w) \/ Reload(w)
    \/ CommitSettled(w) \/ CommitAbandoned(w)
    \/ Victim(w)

AuditStep(w) == ReadReserved(w) \/ ReadHeld(w) \/ ReadHeldAgain(w) \/ CommitHealed(w)

Request(w) ==
    \E s \in Sessions :
        \/ Open(w, s) \/ Abandon(w, s) \/ Touch(w, s)
        \/ \E price \in Reported : Settle(w, s, price)

\* Calls and the reaper, and no audit of the wallet among them.
CallNext ==
    \/ \E w \in Handlers : Request(w)
    \/ \E w \in Reconcilers, s \in Sessions : Reap(w, s)
    \/ \E w \in Workers : Step(w) \/ Fail(w)
    \/ \E s \in Sessions : Lapse(s)

CallSpec == Init /\ [][CallNext]_vars

Next ==
    \/ CallNext
    \/ \E w \in Reconcilers : Heal(w) \/ AuditStep(w)

Spec == Init /\ [][Next]_vars

\* A running call goes on, and PostgreSQL queues those who wait for a lock.
\* Reconciliation runs on a schedule, and each pass goes through every row its
\* scan finds.
Fairness ==
    /\ \A w \in Workers : WF_vars(Step(w) \/ AuditStep(w)) /\ SF_vars(InsertEvent(w))
    /\ \A w \in Reconcilers, s \in Sessions : SF_vars(Reap(w, s))

FairSpec == Spec /\ Fairness

-----------------------------------------------------------------------------
(* Properties.                                                              *)

\* What the wallet holds is what its unfinished sessions hold, whoever raced to
\* finish them: no hold leaks, none is given back twice or out of another's.
\* (`verify_wallet`, the shared `release:{id}` key)
HoldsMatchSessions == wallet.reserved = Held

\* A session that is closed has its one event, and one that is not has none:
\* a session is charged exactly when its final row says so, once.
ClosedMeansCharged ==
    \A s \in Sessions : sessions[s].status = "closed" <=> events[s].recorded

\* Every unit that left the wallet is on an event, no event asks more than the
\* price quoted when the session was opened, and whoever asks what a settlement
\* charged is told what its event charged.
ChargesAddUp ==
    /\ wallet.balance + Total([s \in Sessions |-> events[s].debited]) = Funds
    /\ \A s \in Sessions : /\ events[s].debited + events[s].writeoff = events[s].price
                           /\ events[s].price <= Quote[s]
                           /\ told[s] \subseteq {0, events[s].debited}

\* A settlement that gave its own hold back collects all of its price.
\* (the comment on the release in `settle_oneshot`: "a theorem rather than a hope")
HeldIsCollected ==
    \A w \in Workers :
        /\ pc[w] = "commit" /\ job[w].op \in {"settle", "estimate"}
        /\ lock = w /\ <<"release", Target(w)>> \in txKeys \ keys
        => event[w].writeoff = 0

\* No session stays live for ever past its deadline and silent.
SilentSessionsEnd ==
    \A s \in Sessions : []<>~(sessions[s].status = "active" /\ due[s])

\* A session that is over stays as it ended: an abandoned call is not charged
\* by a reaper that read it a moment before.
\* (the comment on `AiSession.version`: the token the reaper races against)
TerminalIsFinal ==
    [][\A s \in Sessions :
          sessions[s].status \in Terminal => sessions'[s].status = sessions[s].status]_vars

\* Healing gives back only what no live session holds.
\* (the note `heal_reserved` writes on the release)
HealFreesOnlyLeaks == wallet.reserved >= Held
=============================================================================
