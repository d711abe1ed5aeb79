-------------------------- MODULE AiSessions_proofs --------------------------
(* Theorems about AiSessions: no hold leaks and no session is charged twice, *)
(* whoever races to open and to end it, on any number of connections.        *)
EXTENDS AiSessions, FiniteSetTheorems, TLAPS

(* Sums.                                                                    *)

\* The micros of finitely many amounts are finitely many.
LEMMA MicrosFinite ==
    ASSUME NEW f \in [Sessions -> Nat]
    PROVE  IsFiniteSet(Micros(f)) /\ Total(f) \in Nat
<1> DEFINE Slice == [s \in Sessions |-> {s} \X (1..f[s])]
           Slices == {{s} \X (1..f[s]) : s \in Sessions}
<1>1. Slice \in Surjection(Sessions, Slices)
      BY DEF Surjection
<1>2. IsFiniteSet(Slices)
      BY <1>1, FS_Surjection, PricesAssumption
<1>3. \A T \in Slices : IsFiniteSet(T)
      <2> SUFFICES ASSUME NEW s \in Sessions
                   PROVE  IsFiniteSet({s} \X (1..f[s]))
          OBVIOUS
      <2>1. IsFiniteSet({s})
            BY FS_Singleton
      <2>2. f[s] \in Int
            OBVIOUS
      <2>3. IsFiniteSet(1..f[s])
            BY <2>2, FS_Interval
      <2> QED BY <2>1, <2>3, FS_Product
<1>4. IsFiniteSet(UNION Slices)
      BY <1>2, <1>3, FS_UNION
<1> QED BY <1>4, FS_CardinalityType DEF Micros, Total

\* The micros of one amount are as many as it says.
LEMMA SliceCardinality ==
    ASSUME NEW s, NEW n \in Nat
    PROVE  IsFiniteSet({s} \X (1..n)) /\ Cardinality({s} \X (1..n)) = n
<1>1. IsFiniteSet({s}) /\ Cardinality({s}) = 1
      BY FS_Singleton
<1>2. IsFiniteSet(1..n) /\ Cardinality(1..n) = n
      BY FS_Interval
<1>3. /\ IsFiniteSet({s} \X (1..n))
      /\ Cardinality({s} \X (1..n)) = Cardinality({s}) * Cardinality(1..n)
      BY <1>1, <1>2, FS_Product
<1>4. 1 * n = n
      OBVIOUS
<1> QED BY <1>1, <1>2, <1>3, <1>4

\* A sum is its amount for one session and the rest of it.
LEMMA TotalSplits ==
    ASSUME NEW f \in [Sessions -> Nat], NEW s \in Sessions
    PROVE  Total(f) = f[s] + Total([f EXCEPT ![s] = 0])
<1> DEFINE g == [f EXCEPT ![s] = 0]
           mine == {s} \X (1..f[s])
<1>1. g \in [Sessions -> Nat]
      OBVIOUS
<1>2. Micros(f) = mine \cup Micros(g)
      <2>1. \A t \in Sessions : t # s => {t} \X (1..f[t]) = {t} \X (1..g[t])
            OBVIOUS
      <2>2. {s} \X (1..g[s]) = {}
            OBVIOUS
      <2> QED BY <2>1, <2>2 DEF Micros
<1>3. mine \cap Micros(g) = {}
      BY DEF Micros
<1>4. /\ IsFiniteSet(mine) /\ Cardinality(mine) = f[s]
      BY SliceCardinality
<1>5. IsFiniteSet(Micros(g)) /\ Total(g) \in Nat
      BY <1>1, MicrosFinite
<1>6. Cardinality(mine \cap Micros(g)) = 0
      BY <1>3, FS_EmptySet
<1> HIDE DEF mine, g
<1>7. Cardinality(mine \cup Micros(g)) = Cardinality(mine) + Cardinality(Micros(g)) - 0
      BY <1>4, <1>5, <1>6, FS_Union
<1> QED BY <1>2, <1>4, <1>5, <1>7 DEF Total, g

\* One amount changes, and the sum by as much.
LEMMA TotalChanges ==
    ASSUME NEW f \in [Sessions -> Nat], NEW s \in Sessions, NEW n \in Nat
    PROVE  /\ Total(f) \in Nat /\ f[s] <= Total(f)
           /\ Total([f EXCEPT ![s] = n]) = Total(f) - f[s] + n
<1>1. Total(f) = f[s] + Total([f EXCEPT ![s] = 0])
      BY TotalSplits
<1>2. /\ [f EXCEPT ![s] = n] \in [Sessions -> Nat]
      /\ [[f EXCEPT ![s] = n] EXCEPT ![s] = 0] = [f EXCEPT ![s] = 0]
      /\ [f EXCEPT ![s] = n][s] = n
      OBVIOUS
<1>3. Total([f EXCEPT ![s] = n]) = n + Total([f EXCEPT ![s] = 0])
      BY <1>2, TotalSplits
<1>4. Total([f EXCEPT ![s] = 0]) \in Nat
      BY MicrosFinite
<1> QED BY <1>1, <1>3, <1>4

\* Nothing adds up to nothing.
LEMMA TotalOfNothing == Total([s \in Sessions |-> 0]) = 0
<1>1. \A s \in Sessions : {s} \X (1..[t \in Sessions |-> 0][s]) = {}
      OBVIOUS
<1>2. Micros([s \in Sessions |-> 0]) = {}
      BY <1>1 DEF Micros
<1> QED BY <1>2, FS_EmptySet DEF Total

-----------------------------------------------------------------------------
(* The inductive invariant.                                                 *)

Charging == {"settle", "estimate"}
Ending   == Charging \cup {"abandon"}

ReleaseOf(s) == <<"release", s>>

\* The row of a session that is open.
OpenRow(s) == [status |-> "active", reserved |-> Quote[s], estimated |-> Quote[s],
               settled |-> 0, released |-> FALSE]

\* A session is not there, or open with its hold not given back, or over.
RowsOK ==
    \A s \in Sessions :
        \/ sessions[s] \in {NoRow, OpenRow(s)} /\ ReleaseOf(s) \notin keys
        \/ sessions[s].status \in Terminal /\ sessions[s].released

\* What ChargesAddUp and ClosedMeansCharged say of each session.
EventOK(s) ==
    /\ sessions[s].status = "closed" <=> events[s].recorded
    /\ ~events[s].recorded => events[s] = NoEvent
    /\ events[s].debited + events[s].writeoff = events[s].price
    /\ events[s].price <= Quote[s]
    /\ told[s] \subseteq {0, events[s].debited}

EventsOK == \A s \in Sessions : EventOK(s)

DebitedBy == [s \in Sessions |-> events[s].debited]

\* What it says of the wallet, which never promises more than it has.
MoneyOK ==
    /\ wallet.reserved = Held
    /\ wallet.balance + Total(DebitedBy) = Funds
    /\ wallet.reserved <= wallet.balance

\* Where each call can be.
JobOK(w) ==
    \/ pc[w] = "idle"
    \/ /\ job[w].op = "open" /\ job[w].price = Quote[Target(w)]
       /\ pc[w] \in {"insert", "hold", "commit"}
    \/ /\ job[w].op \in Charging
       /\ pc[w] \in {"recheck", "load", "report", "event", "rebuild", "replay", "release",
                     "collect", "commit"}
    \/ /\ job[w].op = "abandon"
       /\ pc[w] \in {"load", "replay", "release", "reload", "commit"}

\* A worker holds the wallet row from its first movement to its commit.
LockOK(w) == lock = w => pc[w] \in {"collect", "reload", "commit"}

\* An opener owns a row that nobody else sees; its hold is with it.
OpenerOK(w) ==
    job[w].op = "open" /\ pc[w] \in {"hold", "commit"} =>
        /\ rowLock[Target(w)] = w /\ sessions[Target(w)] = NoRow
        /\ pc[w] = "commit" =>
              \/ /\ row[w] = OpenRow(Target(w)) /\ lock = w /\ txKeys = keys
                 /\ txWallet = [balance  |-> wallet.balance,
                                reserved |-> wallet.reserved + Quote[Target(w)]]
                 /\ txWallet.reserved <= txWallet.balance
              \/ row[w].status = "failed" /\ row[w].released /\ lock # w

\* A call that ends a session read it open, and whoever ended it since gave its
\* hold back with it.
ReaderOK(w) ==
    job[w].op \in Ending /\ pc[w] # "idle" =>
        /\ sessions[Target(w)].status # "none"
        /\ pc[w] \notin {"recheck", "load", "rebuild"} =>
              /\ row[w] = OpenRow(Target(w))
              /\ sessions[Target(w)] = OpenRow(Target(w)) \/ ReleaseOf(Target(w)) \in keys

\* A call that charges a session owns its one event.
ChargerOK(w) ==
    job[w].op \in Charging /\ pc[w] \in {"replay", "release", "collect", "commit"} =>
        /\ inserting[Target(w)] = w /\ ~events[Target(w)].recorded
        /\ event[w].price <= Quote[Target(w)]
        /\ pc[w] # "commit" => event[w].debited = 0 /\ event[w].writeoff = 0
        /\ pc[w] = "commit" => /\ event[w].debited + event[w].writeoff = event[w].price
                               /\ lock # w => event[w].debited = 0

\* Whether w gives its session's hold back in its open transaction.
GivesBack(w) == lock = w /\ ReleaseOf(Target(w)) \in txKeys \ keys

\* Past its release, a call has given the hold back or somebody did before it.
ReleaserOK(w) ==
    job[w].op \in Ending /\ pc[w] \in {"collect", "reload", "commit"} =>
        /\ GivesBack(w) \/ ReleaseOf(Target(w)) \in keys
        /\ job[w].op = "abandon" => lock = w <=> GivesBack(w)
        /\ job[w].op = "abandon" /\ pc[w] = "commit" => GivesBack(w)

\* What a call that ends a session has written so far.
WriterOK(w) ==
    lock = w /\ job[w].op \in Ending =>
        /\ txKeys \in {keys, keys \cup {ReleaseOf(Target(w))}}
        /\ txWallet.reserved =
              IF GivesBack(w) THEN wallet.reserved - Quote[Target(w)] ELSE wallet.reserved
        /\ txWallet.balance =
              IF job[w].op \in Charging THEN wallet.balance - event[w].debited
                                        ELSE wallet.balance
        /\ txWallet.reserved <= txWallet.balance
        /\ GivesBack(w) /\ job[w].op \in Charging /\ pc[w] = "commit" => event[w].writeoff = 0

WorkerOK(w) ==
    /\ JobOK(w) /\ LockOK(w) /\ OpenerOK(w) /\ ReaderOK(w)
    /\ ChargerOK(w) /\ ReleaserOK(w) /\ WriterOK(w)

WorkersOK == \A w \in Workers : WorkerOK(w)

IInv == TypeOK /\ RowsOK /\ EventsOK /\ MoneyOK /\ WorkersOK

-----------------------------------------------------------------------------
(* What a step of one worker leaves of the others.                          *)

\* Nothing w relies on is written by the others' step.
Unseen(w) ==
    /\ pc'[w] = pc[w] /\ job'[w] = job[w] /\ row'[w] = row[w] /\ event'[w] = event[w]
    /\ lock' = w <=> lock = w
    /\ lock = w => UNCHANGED <<wallet, keys, txWallet, txKeys>>
    /\ keys \subseteq keys'
    /\ \A s \in Sessions :
          /\ rowLock[s] = w => rowLock'[s] = w
          /\ inserting[s] = w =>
                inserting'[s] = w /\ (events[s].recorded <=> events'[s].recorded)
          /\ rowLock[s] = w /\ sessions[s] = NoRow => sessions'[s] = NoRow
          /\ sessions[s].status # "none" => sessions'[s].status # "none"
          /\ sessions[s] = OpenRow(s) => sessions'[s] = OpenRow(s) \/ ReleaseOf(s) \in keys'

\* Then w stands as it did.
LEMMA UnseenKeeps ==
    ASSUME TypeOK, TypeOK', NEW w \in Workers, WorkerOK(w), Unseen(w)
    PROVE  WorkerOK(w)'
<1> DEFINE s == Target(w)
<1>1. s \in Sessions /\ s' = s
      BY DEF TypeOK, Target, Unseen
<1>2. /\ pc'[w] = pc[w] /\ job'[w] = job[w] /\ row'[w] = row[w] /\ event'[w] = event[w]
      /\ lock' = w <=> lock = w
      /\ lock = w => wallet' = wallet /\ keys' = keys /\ txWallet' = txWallet /\ txKeys' = txKeys
      /\ keys \subseteq keys'
      BY DEF Unseen
<1>3. /\ rowLock[s] = w => rowLock'[s] = w
      /\ inserting[s] = w =>
            inserting'[s] = w /\ (events[s].recorded <=> events'[s].recorded)
      /\ rowLock[s] = w /\ sessions[s] = NoRow => sessions'[s] = NoRow
      /\ sessions[s].status # "none" => sessions'[s].status # "none"
      /\ sessions[s] = OpenRow(s) => sessions'[s] = OpenRow(s) \/ ReleaseOf(s) \in keys'
      BY <1>1 DEF Unseen
<1>4. JobOK(w)' /\ LockOK(w)'
      BY <1>2 DEF WorkerOK, JobOK, LockOK, Target
<1>5. OpenerOK(w)'
      BY <1>1, <1>2, <1>3 DEF WorkerOK, OpenerOK, Target
<1>6. ReaderOK(w)'
      BY <1>1, <1>2, <1>3 DEF WorkerOK, ReaderOK, Target
<1>7. ChargerOK(w)'
      BY <1>1, <1>2, <1>3 DEF WorkerOK, ChargerOK, Target
<1>8. GivesBack(w)' <=> GivesBack(w)
      BY <1>1, <1>2 DEF GivesBack, Target
<1>9. ReleaserOK(w)'
      BY <1>1, <1>2, <1>8 DEF WorkerOK, ReleaserOK, Target
<1>10. WriterOK(w)'
      BY <1>1, <1>2, <1>8 DEF WorkerOK, WriterOK, Target
<1> QED BY <1>4, <1>5, <1>6, <1>7, <1>9, <1>10 DEF WorkerOK

\* The others' variables are theirs.
OwnOnly(w) ==
    \A u \in Workers \ {w} :
        pc'[u] = pc[u] /\ job'[u] = job[u] /\ row'[u] = row[u] /\ event'[u] = event[u]

\* w publishes nothing, and takes or leaves only locks that nobody else has.
Isolated(w) ==
    /\ OwnOnly(w) /\ UNCHANGED committed
    /\ UNCHANGED <<lock, txWallet, txKeys>> \/ {lock, lock'} \subseteq {Nobody, w}
    /\ \A s \in Sessions :
          /\ rowLock'[s] = rowLock[s] \/ {rowLock[s], rowLock'[s]} \subseteq {Nobody, w}
          /\ inserting'[s] = inserting[s] \/ {inserting[s], inserting'[s]} \subseteq {Nobody, w}

\* Sessions are answered with what their event says.
AnswersOK == \A s \in Sessions : told'[s] \subseteq told[s] \cup {events[s].debited}

LEMMA IsolatedKeeps ==
    ASSUME IInv, TypeOK', NEW w \in Workers, Isolated(w), AnswersOK, WorkerOK(w)'
    PROVE  IInv'
<1>1. RowsOK'
      BY DEF IInv, RowsOK, Isolated, committed
<1>2. EventsOK'
      <2> SUFFICES ASSUME NEW s \in Sessions PROVE EventOK(s)'
          BY DEF EventsOK
      <2>1. EventOK(s) /\ events' = events /\ sessions' = sessions
            BY DEF IInv, EventsOK, Isolated, committed
      <2>2. told'[s] \subseteq told[s] \cup {events[s].debited}
            BY DEF AnswersOK
      <2> QED BY <2>1, <2>2 DEF EventOK
<1>3. MoneyOK'
      <2>1. UNCHANGED <<wallet, sessions, events>> /\ MoneyOK
            BY DEF IInv, Isolated, committed
      <2>2. HeldBy' = HeldBy /\ DebitedBy' = DebitedBy
            BY <2>1 DEF HeldBy, DebitedBy
      <2>3. Held' = Held /\ Total(DebitedBy)' = Total(DebitedBy)
            BY <2>2 DEF Held, Total, Micros
      <2> QED BY <2>1, <2>3 DEF MoneyOK
<1>4. WorkersOK'
      <2> SUFFICES ASSUME NEW u \in Workers PROVE WorkerOK(u)'
          BY DEF WorkersOK
      <2>1. CASE u = w
            BY <2>1
      <2>2. CASE u # w
            <3>1. Unseen(u)
                  BY <2>2, WorkersAssumption
                  DEF Unseen, Isolated, OwnOnly, committed
            <3> QED BY <3>1, UnseenKeeps DEF IInv, WorkersOK
      <2> QED BY <2>1, <2>2
<1> QED BY <1>1, <1>2, <1>3, <1>4 DEF IInv

\* What a call that has not begun knows is well typed.
LEMMA NothingTypes ==
    /\ NoJob \in [op: AllOps, s: Sessions, price: Nat] /\ NoRow \in SessionRow
    /\ NoEvent \in EventRow /\ NoAudit \in [reserved: Nat, held: Nat]
BY PricesAssumption DEF NoJob, NoRow, NoEvent, NoAudit, AllOps, SessionRow, EventRow

\* A call that told nobody anything, or what a session's event says.
Answered == told' = told \/ \E s \in Sessions : Answer(s, events[s].debited)

LEMMA AnsweredTypes ==
    ASSUME TypeOK, Answered
    PROVE  told' \in [Sessions -> SUBSET Nat] /\ AnswersOK
<1>1. CASE told' = told
      BY <1>1 DEF TypeOK, AnswersOK
<1>2. ASSUME NEW s \in Sessions, Answer(s, events[s].debited)
      PROVE  told' \in [Sessions -> SUBSET Nat] /\ AnswersOK
      <2>1. events[s].debited \in Nat
            BY DEF TypeOK, EventRow
      <2> QED BY <1>2, <2>1 DEF TypeOK, AnswersOK, Answer
<1> QED BY <1>1, <1>2 DEF Answered

\* A rollback leaves a well-typed database.
RollbackTypes(w) ==
    /\ UNCHANGED committed
    /\ txWallet' \in [balance: Nat, reserved: Nat] /\ txKeys' \subseteq Keys
    /\ lock' \in Workers \cup {Nobody}
    /\ rowLock' \in [Sessions -> Workers \cup {Nobody}]
    /\ inserting' \in [Sessions -> Workers \cup {Nobody}]

LEMMA RollbackTyped ==
    ASSUME TypeOK, NEW w \in Workers, Rollback(w)
    PROVE  RollbackTypes(w)
<1>1. UNCHANGED committed /\ txWallet' \in {txWallet, wallet} /\ txKeys' \in {txKeys, keys}
      BY DEF Rollback
<1>2. /\ lock' \in Workers \cup {Nobody}
      /\ rowLock' \in [Sessions -> Workers \cup {Nobody}]
      /\ inserting' \in [Sessions -> Workers \cup {Nobody}]
      BY DEF Rollback, Unlocked, TypeOK
<1> QED BY <1>1, <1>2 DEF RollbackTypes, TypeOK

LEMMA ReturnTypes ==
    ASSUME TypeOK, NEW w \in Workers, Return(w), told' \in [Sessions -> SUBSET Nat],
           due' = due, failures' \in 0..MaxFailures
    PROVE  TypeOK' /\ pc'[w] = "idle"
<1>1. RollbackTypes(w)
      BY RollbackTyped DEF Return
<1>2. /\ pc' \in [Workers -> Steps] /\ pc'[w] = "idle"
      /\ job' \in [Workers -> [op: AllOps, s: Sessions, price: Nat]]
      /\ row' \in [Workers -> SessionRow] /\ event' \in [Workers -> EventRow]
      /\ audit' \in [Workers -> [reserved: Nat, held: Nat]]
      BY NothingTypes DEF Return, Done, Goto, Steps, TypeOK
<1> QED BY <1>1, <1>2 DEF TypeOK, committed, RollbackTypes

\* A worker that returns without a commit leaves nothing behind.
LEMMA ReturnKeeps ==
    ASSUME IInv, NEW w \in Workers, Return(w), Answered,
           due' = due, failures' \in 0..MaxFailures
    PROVE  IInv'
<1>1. /\ pc'[w] = "idle"
      /\ lock' # w
      /\ UNCHANGED <<lock, txWallet, txKeys>> \/ (lock = w /\ lock' = Nobody)
      BY WorkersAssumption DEF Return, Done, Goto, Rollback, IInv, TypeOK
<1>2. OwnOnly(w)
      BY DEF Return, Done, Goto, OwnOnly, IInv, TypeOK
<1>3. Isolated(w)
      BY <1>1, <1>2 DEF Isolated, Return, Rollback, Unlocked
<1>4. WorkerOK(w)'
      BY <1>1 DEF WorkerOK, JobOK, LockOK, OpenerOK, ReaderOK, ChargerOK, ReleaserOK, WriterOK
<1>5. TypeOK'
      BY AnsweredTypes, ReturnTypes DEF IInv
<1> QED BY <1>3, <1>4, <1>5, IsolatedKeeps, AnsweredTypes DEF IInv

-----------------------------------------------------------------------------
(* Each step keeps the invariant.                                           *)

\* A call begins with nothing in its hands.
LEMMA BeginKeeps ==
    ASSUME IInv, NEW w \in Workers, NEW op \in AllOps, NEW s \in Sessions, NEW price \in Nat,
           NEW step, Begin(w, op, s, price, step),
           \/ op = "open" /\ price = Quote[s] /\ step = "insert"
           \/ op \in {"settle", "abandon"} /\ step = "load" /\ sessions[s].status # "none"
           \/ op = "estimate" /\ step = "recheck" /\ sessions[s].status # "none"
    PROVE  IInv'
<1>1. /\ pc'[w] = step /\ job'[w] = [op |-> op, s |-> s, price |-> price]
      /\ pc[w] = "idle" /\ UNCHANGED <<database, due, row, event, audit, told, failures>>
      BY DEF Begin, Goto, IInv, TypeOK
<1>2. job'[w].op = op /\ Target(w)' = s /\ job'[w].price = price
      BY <1>1 DEF Target
<1>3. TypeOK'
      <2>1. pc' \in [Workers -> Steps]
            BY DEF Begin, Goto, IInv, TypeOK, Steps
      <2>2. job' \in [Workers -> [op: AllOps, s: Sessions, price: Nat]]
            BY DEF Begin, IInv, TypeOK
      <2> QED BY <1>1, <2>1, <2>2 DEF IInv, TypeOK, database
<1>4. Isolated(w) /\ AnswersOK
      BY <1>1 DEF Begin, Goto, Isolated, OwnOnly, AnswersOK, IInv, TypeOK, database, committed
<1>5. lock' # w
      BY <1>1 DEF IInv, WorkersOK, WorkerOK, LockOK, database
<1>6. JobOK(w)'
      BY <1>1, <1>2 DEF JobOK, Charging
<1>7. ReaderOK(w)'
      BY <1>1, <1>2 DEF ReaderOK, Ending, Charging, database
<1>8. /\ LockOK(w)' /\ OpenerOK(w)' /\ ChargerOK(w)' /\ ReleaserOK(w)' /\ WriterOK(w)'
      BY <1>1, <1>5 DEF LockOK, OpenerOK, ChargerOK, ReleaserOK, WriterOK
<1> QED BY <1>3, <1>4, <1>6, <1>7, <1>8, IsolatedKeeps DEF WorkerOK

\* A deadline that passes, or is put off, is nobody's business yet.
LEMMA DueKeeps ==
    ASSUME IInv, due' \in [Sessions -> BOOLEAN],
           UNCHANGED <<database, pc, locals, told, failures>>
    PROVE  IInv'
<1>1. TypeOK'
      BY DEF IInv, TypeOK, database, locals
<1>2. RowsOK'
      BY DEF IInv, RowsOK, database
<1>3. EventsOK'
      BY DEF IInv, EventsOK, EventOK, database
<1>4. MoneyOK'
      BY DEF IInv, MoneyOK, Held, HeldBy, DebitedBy, Total, Micros, database
<1>5. WorkersOK'
      <2> SUFFICES ASSUME NEW u \in Workers PROVE WorkerOK(u)'
          BY DEF WorkersOK
      <2>1. Unseen(u)
            BY DEF Unseen, database, locals
      <2> QED BY <1>1, <2>1, UnseenKeeps DEF IInv, WorkersOK
<1> QED BY <1>1, <1>2, <1>3, <1>4, <1>5 DEF IInv

LEMMA RequestKeeps ==
    ASSUME IInv, NEW w \in Handlers, Request(w)
    PROVE  IInv'
<1>0. w \in Workers
      BY DEF Workers
<1> PICK s \in Sessions :
        \/ Open(w, s) \/ Abandon(w, s) \/ Touch(w, s)
        \/ \E price \in Reported : Settle(w, s, price)
    BY DEF Request
<1>1. CASE Open(w, s)
      <2>1. Quote[s] \in Nat
            BY PricesAssumption
      <2> QED BY <1>0, <1>1, <2>1, BeginKeeps DEF Open, AllOps
<1>2. CASE Abandon(w, s)
      BY <1>0, <1>2, BeginKeeps DEF Abandon, AllOps
<1>3. CASE Touch(w, s)
      BY <1>3, DueKeeps DEF Touch, IInv, TypeOK
<1>4. CASE \E price \in Reported : Settle(w, s, price)
      <2> PICK price \in Reported : Settle(w, s, price)
          BY <1>4
      <2>1. price \in Nat
            BY PricesAssumption
      <2> QED BY <1>0, <2>1, BeginKeeps DEF Settle, AllOps
<1> QED BY <1>1, <1>2, <1>3, <1>4

LEMMA ReapKeeps ==
    ASSUME IInv, NEW w \in Reconcilers, NEW s \in Sessions, Reap(w, s)
    PROVE  IInv'
<1>1. w \in Workers
      BY DEF Workers
<1> QED BY <1>1, BeginKeeps DEF Reap, AllOps

LEMMA InsertRowKeeps ==
    ASSUME IInv, NEW w \in Workers, InsertRow(w)
    PROVE  IInv'
<1>1. CASE sessions[Target(w)].status # "none" /\ Return(w)
      BY <1>1, ReturnKeeps DEF InsertRow, Calm, Answered, IInv, TypeOK
<1>2. CASE /\ sessions[Target(w)].status = "none"
           /\ rowLock' = [rowLock EXCEPT ![Target(w)] = w]
           /\ Goto(w, "hold")
           /\ UNCHANGED <<committed, lock, txWallet, txKeys, inserting, locals>>
      <2>1. /\ pc[w] = "insert" /\ rowLock[Target(w)] \in {Nobody, w}
            /\ UNCHANGED <<due, failures, told>> /\ Target(w) \in Sessions
            BY DEF InsertRow, RowFree, Calm, Target, IInv, TypeOK
      <2>2. pc'[w] = "hold" /\ rowLock'[Target(w)] = w /\ Target(w)' = Target(w)
            BY <1>2, <2>1 DEF Goto, IInv, TypeOK, locals, Target
      <2>3. TypeOK'
            BY <1>2, <2>1 DEF Goto, IInv, TypeOK, locals, committed, Steps
      <2>4. Isolated(w) /\ AnswersOK
            BY <1>2, <2>1 DEF Goto, Isolated, OwnOnly, AnswersOK, IInv, TypeOK, locals, committed
      <2>5. JobOK(w) /\ job[w].op = "open"
            BY <2>1 DEF JobOK, IInv, WorkersOK, WorkerOK
      <2>6. lock' # w
            BY <1>2, <2>1 DEF IInv, WorkersOK, WorkerOK, LockOK
      <2>7. sessions'[Target(w)] = NoRow
            BY <1>2, <2>1 DEF IInv, RowsOK, OpenRow, Terminal, committed
      <2>8. job'[w] = job[w] /\ job'[w].op = "open" /\ job[w].price = Quote[Target(w)]
            BY <1>2, <2>1, <2>5 DEF JobOK, Charging, locals
      <2>10. JobOK(w)' /\ ReaderOK(w)' /\ ChargerOK(w)' /\ ReleaserOK(w)'
            BY <2>2, <2>8 DEF JobOK, ReaderOK, ChargerOK, ReleaserOK, Ending, Charging
      <2>11. OpenerOK(w)'
            BY <2>2, <2>7, <2>8 DEF OpenerOK
      <2>9. LockOK(w)' /\ WriterOK(w)'
            BY <2>6 DEF LockOK, WriterOK
      <2> QED BY <2>3, <2>4, <2>9, <2>10, <2>11, IsolatedKeeps DEF WorkerOK
<1> QED BY <1>1, <1>2 DEF InsertRow

LEMMA HoldKeeps ==
    ASSUME IInv, NEW w \in Workers, Hold(w)
    PROVE  IInv'
<1> DEFINE s == Target(w)
<1>0. WorkerOK(w)
      BY DEF IInv, WorkersOK
<1>1. /\ pc[w] = "hold" /\ job[w].op = "open" /\ job[w].price = Quote[s] /\ s \in Sessions
      /\ Quote[s] \in Nat /\ rowLock[s] = w /\ sessions[s] = NoRow /\ lock # w
      <2>1. pc[w] = "hold" /\ s \in Sessions
            BY DEF Hold, Target, IInv, TypeOK
      <2>2. job[w].op = "open" /\ job[w].price = Quote[s] /\ lock # w
            BY <1>0, <2>1 DEF WorkerOK, JobOK, LockOK
      <2>3. rowLock[s] = w /\ sessions[s] = NoRow
            BY <1>0, <2>1, <2>2 DEF WorkerOK, OpenerOK
      <2> QED BY <2>1, <2>2, <2>3, PricesAssumption
<1>2. /\ pc'[w] = "commit" /\ pc' \in [Workers -> Steps] /\ job' = job
      /\ UNCHANGED <<due, failures, event, audit, told, committed, rowLock, inserting>>
      BY DEF Hold, Goto, IInv, TypeOK, Calm, WriteWallet, database, committed, Steps
<1>3. Wallet(w) = wallet /\ KeysSeen(w) = keys
      BY <1>1 DEF Wallet, KeysSeen
<1>4. WriterOK(w)' /\ ReaderOK(w)' /\ ChargerOK(w)' /\ ReleaserOK(w)' /\ JobOK(w)' /\ LockOK(w)'
      BY <1>1, <1>2 DEF WriterOK, ReaderOK, ChargerOK, ReleaserOK, JobOK, LockOK, Ending, Charging,
                        Target
<1>5. s' = s
      BY <1>2 DEF Target
<1>6. CASE /\ Headroom(w) >= job[w].price /\ WalletFree(w)
           /\ WriteWallet(w, [balance  |-> Wallet(w).balance,
                              reserved |-> Wallet(w).reserved + job[w].price], KeysSeen(w))
           /\ row' = [row EXCEPT ![w] = [status |-> "active", reserved |-> job[w].price,
                          estimated |-> job[w].price, settled |-> 0, released |-> FALSE]]
      <2>1. /\ lock' = w /\ txKeys' = keys /\ row'[w] = OpenRow(s)
            /\ txWallet' = [balance |-> wallet.balance, reserved |-> wallet.reserved + Quote[s]]
            /\ lock = Nobody /\ Quote[s] <= wallet.balance - wallet.reserved
            BY <1>1, <1>3, <1>6
            DEF WriteWallet, IInv, TypeOK, OpenRow, WalletFree, Headroom
      <2>2. wallet.reserved \in Nat /\ wallet.balance \in Nat
            BY DEF IInv, TypeOK
      <2>3. txWallet' \in [balance: Nat, reserved: Nat] /\ txWallet'.reserved <= txWallet'.balance
            BY <1>1, <2>1, <2>2
      <2>4. OpenRow(s) \in SessionRow
            BY <1>1 DEF OpenRow, SessionRow
      <2>5. row' \in [Workers -> SessionRow]
            BY <1>1, <1>6, <2>4 DEF IInv, TypeOK, OpenRow
      <2>6. TypeOK'
            BY <1>2, <2>1, <2>3, <2>5 DEF IInv, TypeOK, committed
      <2>7. OwnOnly(w)
            BY <1>2, <1>6 DEF Hold, Goto, OwnOnly, IInv, TypeOK
      <2>8. Isolated(w) /\ AnswersOK
            BY <1>2, <2>1, <2>7 DEF Isolated, AnswersOK
      <2>9. OpenerOK(w)'
            BY <1>1, <1>2, <1>5, <2>1, <2>3 DEF OpenerOK, committed
      <2> QED BY <1>4, <2>6, <2>8, <2>9, IsolatedKeeps DEF WorkerOK
<1>7. CASE /\ Headroom(w) < job[w].price
           /\ row' = [row EXCEPT ![w] = [status |-> "failed", reserved |-> 0,
                          estimated |-> job[w].price, settled |-> 0, released |-> TRUE]]
           /\ UNCHANGED database
      <2>1. /\ row'[w].status = "failed" /\ row'[w].released
            /\ row' \in [Workers -> SessionRow]
            BY <1>1, <1>7 DEF IInv, TypeOK, SessionRow, Terminal
      <2>2. TypeOK'
            BY <1>2, <1>7, <2>1 DEF IInv, TypeOK, database
      <2>3. OwnOnly(w)
            BY <1>2, <1>7 DEF Hold, Goto, OwnOnly, IInv, TypeOK
      <2>4. Isolated(w) /\ AnswersOK
            BY <1>2, <1>7, <2>3 DEF Isolated, AnswersOK, database
      <2>5. OpenerOK(w)'
            BY <1>1, <1>2, <1>5, <1>7, <2>1 DEF OpenerOK, committed, database
      <2> QED BY <1>4, <2>2, <2>4, <2>5, IsolatedKeeps DEF WorkerOK
<1> QED BY <1>6, <1>7 DEF Hold

LEMMA RecheckKeeps ==
    ASSUME IInv, NEW w \in Workers, Recheck(w)
    PROVE  IInv'
<1>1. CASE ~due[Target(w)] /\ Return(w)
      BY <1>1, ReturnKeeps DEF Recheck, Calm, Answered, IInv, TypeOK
<1>2. CASE Goto(w, "load") /\ UNCHANGED <<database, locals>>
      <2>1. /\ pc[w] = "recheck" /\ pc'[w] = "load" /\ UNCHANGED <<due, failures, told>>
            /\ UNCHANGED <<database, locals>> /\ pc' \in [Workers -> Steps]
            BY <1>2 DEF Recheck, Goto, Calm, IInv, TypeOK, Steps
      <2>2. TypeOK'
            BY <2>1 DEF IInv, TypeOK, database, locals
      <2>3. Isolated(w) /\ AnswersOK
            BY <1>2, <2>1
            DEF Goto, Isolated, OwnOnly, AnswersOK, IInv, TypeOK, locals, database, committed
      <2>4. WorkerOK(w)
            BY DEF IInv, WorkersOK
      <2>5. WorkerOK(w)'
            BY <2>1, <2>4
            DEF WorkerOK, JobOK, LockOK, OpenerOK, ReaderOK, ChargerOK, ReleaserOK, WriterOK,
                Charging, Ending, Target, database, locals
      <2> QED BY <2>2, <2>3, <2>5, IsolatedKeeps
<1> QED BY <1>1, <1>2 DEF Recheck

\* What ends a session reads it open.
LEMMA LoadKeeps ==
    ASSUME IInv, NEW w \in Workers, Load(w)
    PROVE  IInv'
<1> DEFINE s == Target(w)
<1>1. CASE sessions[s].status \in Terminal
      <2>1. Return(w) /\ Calm
            BY <1>1 DEF Load
      <2>2. Answered
            BY <1>1 DEF Load, Answered, Rebuilt, IInv, TypeOK, Target
      <2> QED BY <2>1, <2>2, ReturnKeeps DEF Calm, IInv, TypeOK
<1>2. CASE sessions[s].status \notin Terminal
      <2>1. /\ pc[w] = "load" /\ row' = [row EXCEPT ![w] = sessions[s]]
            /\ Goto(w, AfterLoad[job[w].op]) /\ s \in Sessions
            /\ UNCHANGED <<database, job, event, audit, told, due, failures>>
            BY <1>2 DEF Load, Calm, IInv, TypeOK, Target
      <2>2. WorkerOK(w)
            BY DEF IInv, WorkersOK
      <2>3. job[w].op \in Ending /\ sessions[s].status # "none" /\ lock # w
            BY <2>1, <2>2 DEF WorkerOK, JobOK, ReaderOK, LockOK, Ending, Charging
      <2>4. sessions[s] = OpenRow(s)
            BY <1>2, <2>1, <2>3 DEF IInv, RowsOK, NoRow
      <2>5. pc' \in [Workers -> Steps] /\ pc'[w] = AfterLoad[job[w].op]
            BY <2>1, <2>3 DEF Goto, AfterLoad, IInv, TypeOK, Steps, Ending, Charging
      <2>6. row' \in [Workers -> SessionRow] /\ row'[w] = OpenRow(s)
            BY <2>1, <2>4 DEF IInv, TypeOK
      <2>7. TypeOK'
            BY <2>1, <2>5, <2>6 DEF IInv, TypeOK, database
      <2>8. Isolated(w) /\ AnswersOK
            BY <2>1
            DEF Goto, Isolated, OwnOnly, AnswersOK, IInv, TypeOK, database, committed
      <2>9. s' = s /\ job'[w] = job[w] /\ sessions' = sessions /\ keys' = keys /\ lock' # w
            BY <2>1, <2>3 DEF Target, database
      <2>10. CASE job[w].op = "settle"
             <3>1. pc'[w] = "report"
                   BY <2>5, <2>10 DEF AfterLoad
             <3> QED BY <2>3, <2>4, <2>6, <2>7, <2>8, <2>9, <2>10, <3>1, IsolatedKeeps
                     DEF WorkerOK, JobOK, LockOK, OpenerOK, ReaderOK, ChargerOK, ReleaserOK,
                         WriterOK, Charging, Ending
      <2>11. CASE job[w].op = "estimate"
             <3>1. pc'[w] = "event"
                   BY <2>5, <2>11 DEF AfterLoad
             <3> QED BY <2>3, <2>4, <2>6, <2>7, <2>8, <2>9, <2>11, <3>1, IsolatedKeeps
                     DEF WorkerOK, JobOK, LockOK, OpenerOK, ReaderOK, ChargerOK, ReleaserOK,
                         WriterOK, Charging, Ending
      <2>12. CASE job[w].op = "abandon"
             <3>1. pc'[w] = "replay"
                   BY <2>5, <2>12 DEF AfterLoad
             <3> QED BY <2>3, <2>4, <2>6, <2>7, <2>8, <2>9, <2>12, <3>1, IsolatedKeeps
                     DEF WorkerOK, JobOK, LockOK, OpenerOK, ReaderOK, ChargerOK, ReleaserOK,
                         WriterOK, Charging, Ending
      <2> QED BY <2>3, <2>10, <2>11, <2>12 DEF Ending, Charging
<1> QED BY <1>1, <1>2

LEMMA WriteReportKeeps ==
    ASSUME IInv, NEW w \in Workers, WriteReport(w)
    PROVE  IInv'
<1> DEFINE s == Target(w)
<1>1. /\ pc[w] = "report" /\ rowLock[s] \in {Nobody, w} /\ s \in Sessions
      /\ rowLock' = [rowLock EXCEPT ![s] = w] /\ Goto(w, "event")
      /\ UNCHANGED <<committed, lock, txWallet, txKeys, inserting, locals, told, due, failures>>
      BY DEF WriteReport, RowFree, Calm, IInv, TypeOK, Target
<1>2. WorkerOK(w)
      BY DEF IInv, WorkersOK
<1>3. /\ pc'[w] = "event" /\ pc' \in [Workers -> Steps] /\ s' = s
      /\ UNCHANGED <<job, row, event, sessions, keys, lock>>
      BY <1>1 DEF Goto, IInv, TypeOK, Steps, locals, committed, Target
<1>4. TypeOK'
      BY <1>1, <1>3 DEF IInv, TypeOK, locals, committed
<1>5. Isolated(w) /\ AnswersOK
      BY <1>1 DEF Goto, Isolated, OwnOnly, AnswersOK, IInv, TypeOK, locals, committed
<1>6. WorkerOK(w)'
      BY <1>1, <1>2, <1>3
      DEF WorkerOK, JobOK, LockOK, OpenerOK, ReaderOK, ChargerOK, ReleaserOK, WriterOK,
          Charging, Ending
<1> QED BY <1>4, <1>5, <1>6, IsolatedKeeps

\* A session is charged no more than it was quoted.
LEMMA ChargeBounded ==
    ASSUME IInv, NEW w \in Workers, row[w] = OpenRow(Target(w))
    PROVE  Charge(w) \in Nat /\ Charge(w) <= Quote[Target(w)]
<1>1. /\ Target(w) \in Sessions /\ job[w].price \in Nat
      BY DEF IInv, TypeOK, Target
<1>2. Quote[Target(w)] \in Nat
      BY <1>1, PricesAssumption
<1>3. row[w].estimated = Quote[Target(w)] /\ row[w].reserved = Quote[Target(w)]
      /\ row[w].settled = 0
      BY DEF OpenRow
<1> QED BY <1>1, <1>2, <1>3 DEF Charge, CumulativePrice, Ceiling

LEMMA InsertEventKeeps ==
    ASSUME IInv, NEW w \in Workers, InsertEvent(w)
    PROVE  IInv'
<1> DEFINE s == Target(w)
<1>0. WorkerOK(w) /\ pc[w] = "event" /\ s \in Sessions /\ inserting[s] = Nobody
      /\ UNCHANGED <<told, due, failures>>
      BY DEF IInv, WorkersOK, InsertEvent, TypeOK, Target, Calm
<1>1. job[w].op \in Charging /\ lock # w
      BY <1>0 DEF WorkerOK, JobOK, LockOK, Charging
<1>2. /\ sessions[s].status # "none" /\ row[w] = OpenRow(s)
      /\ sessions[s] = OpenRow(s) \/ ReleaseOf(s) \in keys
      BY <1>0, <1>1 DEF WorkerOK, ReaderOK, Ending
<1>3. CASE events[s].recorded /\ Rollback(w) /\ Goto(w, "rebuild") /\ UNCHANGED locals
      <2>1. /\ pc'[w] = "rebuild" /\ pc' \in [Workers -> Steps] /\ s' = s /\ lock' = lock
            /\ UNCHANGED <<txWallet, txKeys, job, row, event, audit, committed>>
            BY <1>1, <1>3 DEF Goto, Rollback, IInv, TypeOK, Steps, locals, Target
      <2>2. /\ rowLock' \in [Sessions -> Workers \cup {Nobody}]
            /\ inserting' \in [Sessions -> Workers \cup {Nobody}]
            BY <1>3 DEF Rollback, Unlocked, IInv, TypeOK
      <2>3. TypeOK'
            BY <1>0, <2>1, <2>2 DEF IInv, TypeOK, committed
      <2>4. OwnOnly(w)
            BY <1>3 DEF Goto, OwnOnly, IInv, TypeOK, locals
      <2>5. Isolated(w) /\ AnswersOK
            BY <1>0, <1>3, <2>1, <2>4 DEF Isolated, AnswersOK, Rollback, Unlocked
      <2>6. WorkerOK(w)'
            BY <1>1, <1>2, <2>1
            DEF WorkerOK, JobOK, LockOK, OpenerOK, ReaderOK, ChargerOK, ReleaserOK, WriterOK,
                Charging, Ending, committed
      <2> QED BY <2>3, <2>5, <2>6, IsolatedKeeps
<1>4. CASE /\ ~events[s].recorded
           /\ inserting' = [inserting EXCEPT ![s] = w]
           /\ event' = [event EXCEPT ![w] = [recorded |-> FALSE, price |-> Charge(w),
                                             debited |-> 0, writeoff |-> 0]]
           /\ Goto(w, "replay")
           /\ UNCHANGED <<committed, lock, txWallet, txKeys, rowLock, job, row, audit>>
      <2>1. /\ pc'[w] = "replay" /\ pc' \in [Workers -> Steps] /\ s' = s
            /\ UNCHANGED <<job, row, sessions, events, keys, lock>>
            BY <1>4 DEF Goto, IInv, TypeOK, Steps, committed, Target
      <2>2. Charge(w) \in Nat /\ Charge(w) <= Quote[s]
            BY <1>2, ChargeBounded
      <2>3. event' \in [Workers -> EventRow]
            BY <1>4, <2>2 DEF IInv, TypeOK, EventRow
      <2>4. /\ event'[w] = [recorded |-> FALSE, price |-> Charge(w), debited |-> 0, writeoff |-> 0]
            /\ inserting'[s] = w /\ inserting' \in [Sessions -> Workers \cup {Nobody}]
            BY <1>0, <1>4 DEF IInv, TypeOK
      <2>5. TypeOK'
            BY <1>0, <1>4, <2>1, <2>3, <2>4 DEF IInv, TypeOK, committed
      <2>6. Isolated(w) /\ AnswersOK
            BY <1>0, <1>4 DEF Goto, Isolated, OwnOnly, AnswersOK, IInv, TypeOK, committed
      <2>7. JobOK(w)' /\ LockOK(w)' /\ OpenerOK(w)' /\ ReaderOK(w)' /\ ReleaserOK(w)' /\ WriterOK(w)'
            BY <1>1, <1>2, <2>1
            DEF JobOK, LockOK, OpenerOK, ReaderOK, ReleaserOK, WriterOK, Charging, Ending
      <2>8. ChargerOK(w)'
            BY <1>4, <2>1, <2>2, <2>4 DEF ChargerOK
      <2> QED BY <2>5, <2>6, <2>7, <2>8, IsolatedKeeps DEF WorkerOK
<1> QED BY <1>3, <1>4 DEF InsertEvent

LEMMA RebuildKeeps ==
    ASSUME IInv, NEW w \in Workers, Rebuild(w)
    PROVE  IInv'
<1>1. Return(w) /\ Calm /\ Target(w) \in Sessions /\ Answer(Target(w), events[Target(w)].debited)
      BY DEF Rebuild, Rebuilt, IInv, TypeOK, Target
<1> QED BY <1>1, ReturnKeeps DEF Answered, Calm, IInv, TypeOK

-----------------------------------------------------------------------------
(* Giving the hold back.                                                    *)

\* What a session that is open holds is in the wallet.
LEMMA OpenIsHeld ==
    ASSUME IInv, NEW s \in Sessions, sessions[s] = OpenRow(s)
    PROVE  Quote[s] <= wallet.reserved
<1>1. HeldBy \in [Sessions -> Nat] /\ HeldBy[s] = Quote[s]
      BY DEF HeldBy, OpenRow, IInv, TypeOK, SessionRow
<1>2. HeldBy[s] <= Total(HeldBy)
      BY <1>1, TotalChanges
<1> QED BY <1>1, <1>2 DEF IInv, MoneyOK, Held

\* What a call that ends a session knows when it gives the hold back.
LEMMA BeforeRelease ==
    ASSUME IInv, NEW w \in Workers, pc[w] \in {"replay", "release"}
    PROVE  /\ WorkerOK(w) /\ lock # w /\ job[w].op \in Ending
           /\ Target(w) \in Sessions /\ Quote[Target(w)] \in Nat \ {0}
           /\ row[w] = OpenRow(Target(w)) /\ sessions[Target(w)].status # "none"
           /\ sessions[Target(w)] = OpenRow(Target(w)) \/ ReleaseOf(Target(w)) \in keys
           /\ ReleaseKey(w) = ReleaseOf(Target(w)) /\ Asked(w) = Quote[Target(w)]
           /\ Wallet(w) = wallet /\ KeysSeen(w) = keys
<1> DEFINE s == Target(w)
<1>1. WorkerOK(w) /\ s \in Sessions
      BY DEF IInv, WorkersOK, TypeOK, Target
<1>2. lock # w /\ job[w].op \in Ending
      BY <1>1 DEF WorkerOK, JobOK, LockOK, Ending, Charging
<1>3. /\ row[w] = OpenRow(s) /\ sessions[s].status # "none"
      /\ sessions[s] = OpenRow(s) \/ ReleaseOf(s) \in keys
      BY <1>1, <1>2 DEF WorkerOK, ReaderOK
<1>4. ReleaseKey(w) = ReleaseOf(s) /\ Asked(w) = Quote[s]
      BY <1>2, <1>3 DEF ReleaseKey, ReleaseOf, Asked, OpenRow, Ending, Charging
<1>5. Wallet(w) = wallet /\ KeysSeen(w) = keys
      BY <1>2 DEF Wallet, KeysSeen
<1> QED BY <1>1, <1>2, <1>3, <1>4, <1>5, PricesAssumption

\* Past the release, the hold is given back by this call or was by another.
LEMMA ReleasePasses ==
    ASSUME IInv, NEW w \in Workers, pc[w] \in {"replay", "release"},
           pc'[w] = AfterRelease(w), UNCHANGED <<committed, job, row, event>>,
           job[w].op \in Charging => inserting' = inserting,
           \/ lock' # w /\ ReleaseOf(Target(w)) \in keys
           \/ /\ lock' = w /\ ReleaseOf(Target(w)) \notin keys
              /\ txKeys' = keys \cup {ReleaseOf(Target(w))}
              /\ txWallet' = [balance  |-> wallet.balance,
                              reserved |-> wallet.reserved - Quote[Target(w)]]
    PROVE  WorkerOK(w)' /\ pc'[w] \in {"reload", "collect", "commit"}
<1> DEFINE s == Target(w)
<1>1. /\ WorkerOK(w) /\ job[w].op \in Ending /\ s' = s /\ s \in Sessions
      /\ Quote[s] \in Nat /\ row[w] = OpenRow(s) /\ sessions[s].status # "none"
      /\ sessions[s] = OpenRow(s) \/ ReleaseOf(s) \in keys
      BY BeforeRelease DEF Target
<1>2. /\ sessions' = sessions /\ events' = events /\ wallet' = wallet /\ keys' = keys
      /\ job' = job /\ row' = row /\ event' = event
      BY DEF committed
<1>3. event[w] \in EventRow /\ wallet.balance \in Nat /\ wallet.reserved \in Nat
      BY DEF IInv, TypeOK
<1>4. /\ job[w].op = "abandon" => pc'[w] = "reload"
      /\ job[w].op \in Charging => pc'[w] = IF event[w].price > 0 THEN "collect" ELSE "commit"
      BY <1>1 DEF AfterRelease, Ending, Charging
<1>5. /\ pc'[w] \in {"reload", "collect", "commit"}
      /\ JobOK(w)' /\ LockOK(w)' /\ OpenerOK(w)' /\ ReaderOK(w)'
      BY <1>1, <1>2, <1>4 DEF JobOK, LockOK, OpenerOK, ReaderOK, Ending, Charging
<1>6. ChargerOK(w)'
      <2> SUFFICES ASSUME job[w].op \in Charging PROVE ChargerOK(w)'
          BY <1>2 DEF ChargerOK
      <2>1. /\ inserting'[s] = w /\ ~events[s].recorded /\ event[w].price <= Quote[s]
            /\ event[w].debited = 0 /\ event[w].writeoff = 0
            BY <1>1, <1>4 DEF WorkerOK, JobOK, ChargerOK, Charging
      <2>2. pc'[w] = "commit" => event[w].price = 0
            BY <1>3, <1>4 DEF EventRow
      <2> QED BY <1>1, <1>2, <2>1, <2>2 DEF ChargerOK
<1>7. GivesBack(w)' <=> lock' = w
      BY <1>1, <1>2 DEF GivesBack
<1>8. ReleaserOK(w)'
      BY <1>1, <1>2, <1>4, <1>7 DEF ReleaserOK, Charging
<1>9. job[w].op \in Charging => event[w].debited = 0 /\ event[w].writeoff = 0
      BY <1>1 DEF WorkerOK, JobOK, ChargerOK, Charging
<1>10. wallet.reserved <= wallet.balance
      BY DEF IInv, MoneyOK
<1>11. WriterOK(w)'
      <2> SUFFICES ASSUME lock' = w PROVE WriterOK(w)'
          BY DEF WriterOK
      <2>1. /\ txKeys' = keys \cup {ReleaseOf(s)}
            /\ txWallet'.balance = wallet.balance
            /\ txWallet'.reserved = wallet.reserved - Quote[s]
            OBVIOUS
      <2> QED BY <1>1, <1>2, <1>3, <1>7, <1>9, <1>10, <2>1 DEF WriterOK
<1> QED BY <1>5, <1>6, <1>8, <1>11 DEF WorkerOK

LEMMA ReplayKeeps ==
    ASSUME IInv, NEW w \in Workers, Replay(w)
    PROVE  IInv'
<1> DEFINE s == Target(w)
<1>1. /\ pc[w] = "replay" /\ UNCHANGED <<database, locals, told, due, failures>>
      /\ Goto(w, IF ReleaseKey(w) \in KeysSeen(w) THEN AfterRelease(w) ELSE "release")
      BY DEF Replay, Calm
<1>2. /\ UNCHANGED <<committed, job, row, event, audit, lock, txWallet, txKeys, inserting>>
      /\ s' = s
      BY <1>1 DEF database, committed, locals, Target
<1>3. /\ WorkerOK(w) /\ lock # w /\ job[w].op \in Ending
      /\ row[w] = OpenRow(s) /\ sessions[s].status # "none"
      /\ sessions[s] = OpenRow(s) \/ ReleaseOf(s) \in keys
      /\ ReleaseKey(w) = ReleaseOf(s) /\ KeysSeen(w) = keys
      BY <1>1, BeforeRelease
<1>4. Isolated(w) /\ AnswersOK
      BY <1>1 DEF Goto, Isolated, OwnOnly, AnswersOK, IInv, TypeOK, locals, database, committed
<1>5. WorkerOK(w)' /\ pc'[w] \in Steps
      <2>1. CASE ReleaseOf(s) \in keys
            <3>1. pc'[w] = AfterRelease(w)
                  BY <1>1, <1>3, <2>1 DEF Goto, IInv, TypeOK
            <3> QED BY <1>1, <1>2, <1>3, <2>1, <3>1, ReleasePasses DEF Steps
      <2>2. CASE ReleaseOf(s) \notin keys
            <3>1. pc'[w] = "release"
                  BY <1>1, <1>3, <2>2 DEF Goto, IInv, TypeOK
            <3> QED BY <1>1, <1>2, <1>3, <3>1
                    DEF WorkerOK, JobOK, LockOK, OpenerOK, ReaderOK, ChargerOK, ReleaserOK,
                        WriterOK, Charging, Ending, Steps, committed
      <2> QED BY <2>1, <2>2
<1>6. pc' \in [Workers -> Steps]
      BY <1>1, <1>5 DEF Goto, IInv, TypeOK
<1>7. TypeOK'
      BY <1>1, <1>6 DEF IInv, TypeOK, database, locals
<1> QED BY <1>4, <1>5, <1>7, IsolatedKeeps

LEMMA ReleaseKeeps ==
    ASSUME IInv, NEW w \in Workers, Release(w)
    PROVE  IInv'
<1> DEFINE s == Target(w)
           k == ReleaseOf(s)
<1>1. /\ pc[w] = "release" /\ UNCHANGED <<told, due, failures>>
      BY DEF Release, Calm
<1>2. /\ WorkerOK(w) /\ lock # w /\ job[w].op \in Ending /\ s \in Sessions
      /\ Quote[s] \in Nat \ {0} /\ row[w] = OpenRow(s)
      /\ sessions[s] = OpenRow(s) \/ k \in keys
      /\ ReleaseKey(w) = k /\ Asked(w) = Quote[s]
      /\ Wallet(w) = wallet /\ KeysSeen(w) = keys
      BY <1>1, BeforeRelease
<1>3. wallet.reserved \in Nat /\ wallet.balance \in Nat /\ wallet \in [balance: Nat, reserved: Nat]
      BY DEF IInv, TypeOK
<1>4. sessions[s] = OpenRow(s) => Quote[s] <= wallet.reserved
      BY <1>2, OpenIsHeld
<1>5. Freed(w) = IF Quote[s] <= wallet.reserved THEN Quote[s] ELSE wallet.reserved
      BY <1>2 DEF Freed
<1>6. CASE Freed(w) = 0 /\ Goto(w, AfterRelease(w)) /\ UNCHANGED <<database, locals>>
      <2>1. k \in keys
            BY <1>2, <1>3, <1>4, <1>5, <1>6
      <2>2. /\ pc'[w] = AfterRelease(w) /\ lock' # w /\ inserting' = inserting
            /\ UNCHANGED <<committed, job, row, event>>
            BY <1>2, <1>6 DEF Goto, IInv, TypeOK, database, committed, locals
      <2>3. WorkerOK(w)' /\ pc'[w] \in {"reload", "collect", "commit"}
            BY <1>1, <2>1, <2>2, ReleasePasses
      <2>4. Isolated(w) /\ AnswersOK
            BY <1>1, <1>6
            DEF Goto, Isolated, OwnOnly, AnswersOK, IInv, TypeOK, locals, database, committed
      <2>5. pc' \in [Workers -> Steps]
            BY <1>6, <2>3 DEF Goto, IInv, TypeOK, Steps
      <2>6. TypeOK'
            BY <1>1, <1>6, <2>5 DEF IInv, TypeOK, database, locals
      <2> QED BY <2>3, <2>4, <2>6, IsolatedKeeps
<1>7. CASE /\ Freed(w) > 0 /\ WalletFree(w) /\ ReleaseKey(w) \notin KeysSeen(w)
           /\ WriteWallet(w, [balance  |-> Wallet(w).balance,
                              reserved |-> Wallet(w).reserved - Freed(w)],
                          KeysSeen(w) \cup {ReleaseKey(w)})
           /\ Goto(w, AfterRelease(w))
           /\ UNCHANGED locals
      <2>1. k \notin keys /\ Freed(w) = Quote[s] /\ Quote[s] <= wallet.reserved
            BY <1>2, <1>4, <1>5, <1>7
      <2>2. /\ lock = Nobody /\ lock' = w /\ txKeys' = keys \cup {k}
            /\ txWallet' = [balance |-> wallet.balance, reserved |-> wallet.reserved - Quote[s]]
            /\ UNCHANGED <<committed, rowLock, inserting>>
            BY <1>2, <1>7, <2>1 DEF WriteWallet, WalletFree
      <2>3. /\ pc'[w] = AfterRelease(w) /\ UNCHANGED <<job, row, event, audit>>
            BY <1>7 DEF Goto, IInv, TypeOK, locals
      <2>4. WorkerOK(w)' /\ pc'[w] \in {"reload", "collect", "commit"}
            BY <1>1, <2>1, <2>2, <2>3, ReleasePasses
      <2>5. OwnOnly(w)
            BY <1>7 DEF Goto, OwnOnly, IInv, TypeOK, locals
      <2>6. Isolated(w) /\ AnswersOK
            BY <1>1, <2>2, <2>5 DEF Isolated, AnswersOK
      <2>7. pc' \in [Workers -> Steps]
            BY <1>7, <2>4 DEF Goto, IInv, TypeOK, Steps
      <2>8. txWallet' \in [balance: Nat, reserved: Nat]
            BY <1>2, <1>3, <2>1, <2>2
      <2>9. k \in Keys /\ txKeys' \subseteq Keys
            BY <1>2, <2>2 DEF Keys, ReleaseOf, IInv, TypeOK
      <2>10. TypeOK'
             BY <1>1, <2>2, <2>3, <2>7, <2>8, <2>9 DEF IInv, TypeOK, committed
      <2> QED BY <2>4, <2>6, <2>10, IsolatedKeeps
<1>8. CASE /\ Freed(w) > 0 /\ WalletFree(w) /\ ReleaseKey(w) \in KeysSeen(w)
           /\ job[w].op \in {"abandon", "heal"}
           /\ Rollback(w) /\ Goto(w, AfterRelease(w)) /\ UNCHANGED locals
      <2>1. k \in keys /\ job[w].op = "abandon" /\ job[w].op \notin Charging
            BY <1>2, <1>8 DEF Ending, Charging
      <2>2. /\ pc'[w] = AfterRelease(w) /\ lock' = lock
            /\ UNCHANGED <<committed, job, row, event, audit, txWallet, txKeys>>
            BY <1>2, <1>8 DEF Goto, Rollback, IInv, TypeOK, locals
      <2>3. WorkerOK(w)' /\ pc'[w] \in {"reload", "collect", "commit"}
            BY <1>1, <1>2, <2>1, <2>2, ReleasePasses
      <2>4. OwnOnly(w)
            BY <1>8 DEF Goto, OwnOnly, IInv, TypeOK, locals
      <2>5. Isolated(w) /\ AnswersOK
            BY <1>1, <1>8, <2>2, <2>4 DEF Isolated, AnswersOK, Rollback, Unlocked
      <2>6. pc' \in [Workers -> Steps]
            BY <1>8, <2>3 DEF Goto, IInv, TypeOK, Steps
      <2>7. /\ rowLock' \in [Sessions -> Workers \cup {Nobody}]
            /\ inserting' \in [Sessions -> Workers \cup {Nobody}]
            BY <1>8 DEF Rollback, Unlocked, IInv, TypeOK
      <2>8. TypeOK'
            BY <1>1, <2>2, <2>6, <2>7 DEF IInv, TypeOK, committed
      <2> QED BY <2>3, <2>5, <2>8, IsolatedKeeps
<1>9. CASE Return(w)
      BY <1>1, <1>9, ReturnKeeps DEF Answered, IInv, TypeOK
<1> QED BY <1>6, <1>7, <1>8, <1>9 DEF Release

\* What is charged is taken out of what the wallet has beyond its holds.
LEMMA CollectKeeps ==
    ASSUME IInv, NEW w \in Workers, Collect(w)
    PROVE  IInv'
<1> DEFINE s == Target(w)
           k == ReleaseOf(s)
           W == Wallet(w)
<1>0. /\ WorkerOK(w) /\ pc[w] = "collect" /\ s \in Sessions /\ lock \in {Nobody, w}
      /\ UNCHANGED <<told, due, failures, job, row, audit, committed, rowLock, inserting>>
      /\ lock' = w /\ txKeys' = KeysSeen(w)
      /\ txWallet' = [balance |-> W.balance - Paid(w), reserved |-> W.reserved]
      /\ event' = [event EXCEPT ![w] =
                      [recorded |-> FALSE, price |-> event[w].price,
                       debited |-> Paid(w), writeoff |-> event[w].price - Paid(w)]]
      /\ Goto(w, "commit")
      BY DEF IInv, WorkersOK, Collect, TypeOK, Target, Calm, WalletFree, WriteWallet
<1>1. job[w].op \in Charging
      BY <1>0 DEF WorkerOK, JobOK, Charging
<1>2. /\ inserting[s] = w /\ ~events[s].recorded /\ event[w].price <= Quote[s]
      /\ event[w].debited = 0 /\ event[w].writeoff = 0
      BY <1>0, <1>1 DEF WorkerOK, ChargerOK
<1>3. /\ sessions[s].status # "none" /\ row[w] = OpenRow(s)
      /\ sessions[s] = OpenRow(s) \/ k \in keys
      /\ GivesBack(w) \/ k \in keys
      BY <1>0, <1>1 DEF WorkerOK, ReaderOK, ReleaserOK, Ending
<1>4. /\ wallet.balance \in Nat /\ wallet.reserved \in Nat /\ event[w].price \in Nat
      /\ txWallet.balance \in Nat /\ txWallet.reserved \in Nat /\ Quote[s] \in Nat
      /\ wallet.reserved <= wallet.balance
      BY <1>0, PricesAssumption DEF IInv, TypeOK, EventRow, MoneyOK
<1>5. /\ KeysSeen(w) \in {keys, keys \cup {k}} /\ KeysSeen(w) \subseteq Keys
      /\ GivesBack(w) <=> k \in KeysSeen(w) \ keys
      /\ W.balance = wallet.balance /\ W.balance \in Nat /\ W.reserved \in Nat
      /\ W.reserved = IF GivesBack(w) THEN wallet.reserved - Quote[s] ELSE wallet.reserved
      /\ W.reserved <= W.balance
      <2>1. CASE lock = w
            <3>1. W = txWallet /\ KeysSeen(w) = txKeys
                  BY <2>1 DEF Wallet, KeysSeen
            <3>2. WriterOK(w)
                  BY <1>0 DEF WorkerOK
            <3>3. /\ txKeys \in {keys, keys \cup {k}} /\ txKeys \subseteq Keys
                  /\ txWallet.balance = wallet.balance - event[w].debited
                  /\ txWallet.reserved =
                        IF GivesBack(w) THEN wallet.reserved - Quote[s] ELSE wallet.reserved
                  /\ txWallet.reserved <= txWallet.balance
                  BY <1>1, <2>1, <3>2 DEF WriterOK, Ending, IInv, TypeOK
            <3> QED BY <1>2, <1>4, <2>1, <3>1, <3>3 DEF GivesBack
      <2>2. CASE lock # w
            <3>1. W = wallet /\ KeysSeen(w) = keys
                  BY <2>2 DEF Wallet, KeysSeen
            <3> QED BY <1>4, <2>2, <3>1 DEF GivesBack, IInv, TypeOK
      <2> QED BY <2>1, <2>2
<1>6. Headroom(w) = W.balance - W.reserved
      BY DEF Headroom
<1>7. /\ Paid(w) \in Nat /\ Paid(w) <= event[w].price /\ Paid(w) <= W.balance - W.reserved
      /\ event[w].price <= W.balance - W.reserved => Paid(w) = event[w].price
      BY <1>4, <1>5, <1>6 DEF Paid
<1> HIDE DEF W
<1>8. /\ pc'[w] = "commit" /\ pc' \in [Workers -> Steps] /\ s' = s
      /\ UNCHANGED <<sessions, events, wallet, keys>>
      BY <1>0 DEF Goto, IInv, TypeOK, Steps, committed, Target
<1>9. event'[w] = [recorded |-> FALSE, price |-> event[w].price,
                   debited |-> Paid(w), writeoff |-> event[w].price - Paid(w)]
      BY <1>0 DEF IInv, TypeOK
<1>10. /\ event'[w].price = event[w].price /\ event'[w].debited = Paid(w)
       /\ event'[w].writeoff = event[w].price - Paid(w)
       BY <1>9
<1>11. event' \in [Workers -> EventRow]
       BY <1>0, <1>4, <1>7 DEF IInv, TypeOK, EventRow
<1>12. /\ txWallet' \in [balance: Nat, reserved: Nat]
       /\ txWallet'.balance = wallet.balance - Paid(w) /\ txWallet'.reserved = W.reserved
       /\ txWallet'.reserved <= txWallet'.balance
       BY <1>0, <1>4, <1>5, <1>7
<1>13. TypeOK'
       BY <1>0, <1>5, <1>8, <1>11, <1>12 DEF IInv, TypeOK
<1>14. OwnOnly(w)
       BY <1>0 DEF Goto, OwnOnly, IInv, TypeOK
<1>15. Isolated(w) /\ AnswersOK
       BY <1>0, <1>14 DEF Isolated, AnswersOK
<1>16. GivesBack(w)' <=> GivesBack(w)
       BY <1>0, <1>5, <1>8 DEF GivesBack
<1>17. JobOK(w)' /\ LockOK(w)' /\ OpenerOK(w)' /\ ReaderOK(w)'
       BY <1>0, <1>1, <1>3, <1>8 DEF JobOK, LockOK, OpenerOK, ReaderOK, Ending, Charging
<1>18. ChargerOK(w)'
       BY <1>0, <1>2, <1>4, <1>7, <1>8, <1>10 DEF ChargerOK
<1>19. ReleaserOK(w)'
       BY <1>0, <1>1, <1>3, <1>8, <1>16 DEF ReleaserOK, Charging
<1>20. WriterOK(w)'
       <2>1. GivesBack(w) => event[w].price <= W.balance - W.reserved
             BY <1>2, <1>4, <1>5
       <2>2. GivesBack(w) => event'[w].writeoff = 0
             BY <1>4, <1>7, <1>10, <2>1
       <2> QED BY <1>0, <1>1, <1>5, <1>8, <1>10, <1>12, <1>16, <2>2 DEF WriterOK
<1> QED BY <1>13, <1>15, <1>17, <1>18, <1>19, <1>20, IsolatedKeeps DEF WorkerOK

LEMMA ReloadKeeps ==
    ASSUME IInv, NEW w \in Workers, Reload(w)
    PROVE  IInv'
<1> DEFINE s == Target(w)
<1>0. WorkerOK(w) /\ pc[w] = "reload" /\ s \in Sessions /\ UNCHANGED <<told, due, failures>>
      BY DEF IInv, WorkersOK, Reload, TypeOK, Target, Calm
<1>1. CASE Return(w)
      BY <1>0, <1>1, ReturnKeeps DEF Answered, IInv, TypeOK
<1>2. CASE /\ sessions[s].status \notin Terminal
           /\ row' = [row EXCEPT ![w] = sessions[s]]
           /\ Goto(w, "commit")
           /\ UNCHANGED <<database, job, event, audit>>
      <2>1. job[w].op = "abandon" /\ job[w].op \in Ending
            BY <1>0 DEF WorkerOK, JobOK, Ending, Charging
      <2>2. sessions[s] = OpenRow(s) /\ ReleaseOf(s) \notin keys
            BY <1>0, <1>2, <2>1 DEF IInv, RowsOK, NoRow, WorkerOK, ReaderOK
      <2>3. GivesBack(w) /\ WriterOK(w)
            BY <1>0, <2>1, <2>2 DEF WorkerOK, ReleaserOK
      <2>4. /\ pc'[w] = "commit" /\ pc' \in [Workers -> Steps] /\ s' = s /\ row'[w] = OpenRow(s)
            /\ row' \in [Workers -> SessionRow]
            /\ UNCHANGED <<committed, sessions, keys, wallet, lock, txKeys, txWallet, rowLock,
                           inserting, job, event, audit>>
            BY <1>0, <1>2, <2>2 DEF Goto, IInv, TypeOK, Steps, database, committed, Target
      <2>5. TypeOK'
            BY <1>0, <2>4 DEF IInv, TypeOK, committed
      <2>6. OwnOnly(w)
            BY <1>2 DEF Goto, OwnOnly, IInv, TypeOK
      <2>7. Isolated(w) /\ AnswersOK
            BY <1>0, <2>4, <2>6 DEF Isolated, AnswersOK
      <2>8. GivesBack(w)' <=> GivesBack(w)
            BY <2>4 DEF GivesBack
      <2>9. JobOK(w)' /\ LockOK(w)' /\ OpenerOK(w)' /\ ReaderOK(w)' /\ ChargerOK(w)'
            BY <2>1, <2>2, <2>4
            DEF JobOK, LockOK, OpenerOK, ReaderOK, ChargerOK, Ending, Charging, OpenRow
      <2>10. ReleaserOK(w)'
             BY <2>1, <2>3, <2>4, <2>8 DEF ReleaserOK, GivesBack
      <2>11. WriterOK(w)'
             BY <2>1, <2>3, <2>4, <2>8 DEF WriterOK, Ending, Charging
      <2> QED BY <2>5, <2>7, <2>9, <2>10, <2>11, IsolatedKeeps DEF WorkerOK
<1> QED BY <1>1, <1>2 DEF Reload

-----------------------------------------------------------------------------
(* Commits.                                                                 *)

\* What a commit publishes of the session it is about: a row nobody else sees
\* yet, or the end of one, with the key of its release if it was open; the
\* event only if it is the worker's to insert.
Publishes(w, s) ==
    /\ \A t \in Sessions \ {s} : sessions'[t] = sessions[t] /\ events'[t] = events[t]
    /\ \/ rowLock[s] = w /\ sessions[s] = NoRow
       \/ /\ sessions[s].status # "none" /\ sessions'[s].status # "none"
          /\ sessions[s] = OpenRow(s) => ReleaseOf(s) \in keys'
    /\ events'[s] = events[s] \/ inserting[s] = w

\* The others are not disturbed by it, and the worker is done.
LEMMA CommitKeepsWorkers ==
    ASSUME IInv, TypeOK', NEW w \in Workers, NEW s \in Sessions, NEW newSessions, NEW newEvents,
           CommitWith(w, newSessions, newEvents), Done(w), Publishes(w, s), keys \subseteq keys'
    PROVE  WorkersOK'
<1>1. /\ pc'[w] = "idle" /\ lock' # w /\ lock \in {w, lock'}
      /\ OwnOnly(w)
      BY WorkersAssumption DEF Done, Goto, OwnOnly, CommitWith, IInv, TypeOK
<1>2. WorkerOK(w)'
      BY <1>1 DEF WorkerOK, JobOK, LockOK, OpenerOK, ReaderOK, ChargerOK, ReleaserOK, WriterOK
<1> SUFFICES ASSUME NEW u \in Workers, u # w PROVE WorkerOK(u)'
    BY <1>2 DEF WorkersOK
<1>3. /\ pc'[u] = pc[u] /\ job'[u] = job[u] /\ row'[u] = row[u] /\ event'[u] = event[u]
      /\ lock' = u <=> lock = u
      /\ lock = u => UNCHANGED <<wallet, keys, txWallet, txKeys>>
      BY <1>1, WorkersAssumption DEF OwnOnly, CommitWith
<1>4. ASSUME NEW t \in Sessions
      PROVE  /\ rowLock[t] = u => rowLock'[t] = u
             /\ inserting[t] = u =>
                   inserting'[t] = u /\ (events[t].recorded <=> events'[t].recorded)
             /\ rowLock[t] = u /\ sessions[t] = NoRow => sessions'[t] = NoRow
             /\ sessions[t].status # "none" => sessions'[t].status # "none"
             /\ sessions[t] = OpenRow(t) => sessions'[t] = OpenRow(t) \/ ReleaseOf(t) \in keys'
      <2>1. /\ rowLock[t] = u => rowLock'[t] = u
            /\ inserting[t] = u => inserting'[t] = u
            BY DEF CommitWith, Unlocked
      <2>2. CASE t # s
            BY <2>1, <2>2 DEF Publishes
      <2>3. CASE t = s
            BY <2>1, <2>3 DEF Publishes, NoRow, OpenRow
      <2> QED BY <2>2, <2>3
<1>5. Unseen(u)
      BY <1>3, <1>4 DEF Unseen
<1> QED BY <1>5, UnseenKeeps DEF IInv, WorkersOK

\* A commit leaves every variable well typed.
LEMMA CommitTypes ==
    ASSUME IInv, NEW w \in Workers,
           NEW newSessions \in [Sessions -> SessionRow], NEW newEvents \in [Sessions -> EventRow],
           CommitWith(w, newSessions, newEvents), Done(w), Calm,
           told' \in [Sessions -> SUBSET Nat]
    PROVE  TypeOK'
<1>1. /\ sessions' = newSessions /\ events' = newEvents
      /\ wallet' \in {wallet, txWallet} /\ keys' \in {keys, txKeys} /\ lock' \in {lock, Nobody}
      /\ UNCHANGED <<txWallet, txKeys, due, failures>>
      BY DEF CommitWith, Calm
<1>2. /\ rowLock' \in [Sessions -> Workers \cup {Nobody}]
      /\ inserting' \in [Sessions -> Workers \cup {Nobody}]
      BY DEF CommitWith, Unlocked, IInv, TypeOK
<1>3. /\ pc' \in [Workers -> Steps]
      /\ job' \in [Workers -> [op: AllOps, s: Sessions, price: Nat]]
      /\ row' \in [Workers -> SessionRow] /\ event' \in [Workers -> EventRow]
      /\ audit' \in [Workers -> [reserved: Nat, held: Nat]]
      BY NothingTypes DEF Done, Goto, Steps, IInv, TypeOK
<1> QED BY <1>1, <1>2, <1>3 DEF IInv, TypeOK

\* What is held and what was debited change by the session that is committed.
LEMMA CommitSums ==
    ASSUME IInv, NEW s \in Sessions, NEW new \in SessionRow, NEW newEvent \in EventRow,
           sessions' = [sessions EXCEPT ![s] = new],
           events' = [events EXCEPT ![s] = newEvent]
    PROVE  /\ Held \in Nat /\ Held' \in Nat
           /\ Held' = Held - (IF sessions[s].released THEN 0 ELSE sessions[s].reserved)
                           + (IF new.released THEN 0 ELSE new.reserved)
           /\ Total(DebitedBy)' = Total(DebitedBy) - events[s].debited + newEvent.debited
           /\ Total(DebitedBy) \in Nat
<1>1. sessions \in [Sessions -> SessionRow] /\ events \in [Sessions -> EventRow]
      BY DEF IInv, TypeOK
<1>2. /\ HeldBy \in [Sessions -> Nat]
      /\ HeldBy[s] = IF sessions[s].released THEN 0 ELSE sessions[s].reserved
      BY <1>1 DEF HeldBy, SessionRow
<1>3. HeldBy' = [HeldBy EXCEPT ![s] = IF new.released THEN 0 ELSE new.reserved]
      BY <1>1 DEF HeldBy
<1>4. (IF new.released THEN 0 ELSE new.reserved) \in Nat
      BY DEF SessionRow
<1>5. /\ Held \in Nat
      /\ Total(HeldBy') = Held - HeldBy[s] + (IF new.released THEN 0 ELSE new.reserved)
      BY <1>2, <1>3, <1>4, TotalChanges DEF Held
<1>6. Held' = Total(HeldBy')
      BY DEF Held, Total, Micros
<1>7. HeldBy[s] <= Total(HeldBy)
      BY <1>2, TotalChanges
<1>8. DebitedBy \in [Sessions -> Nat] /\ DebitedBy[s] = events[s].debited
      BY <1>1 DEF DebitedBy, EventRow
<1>9. DebitedBy' = [DebitedBy EXCEPT ![s] = newEvent.debited] /\ newEvent.debited \in Nat
      BY <1>1 DEF DebitedBy, EventRow
<1>10. /\ Total(DebitedBy) \in Nat
       /\ Total(DebitedBy') = Total(DebitedBy) - DebitedBy[s] + newEvent.debited
       BY <1>8, <1>9, TotalChanges
<1>11. Total(DebitedBy)' = Total(DebitedBy')
       BY DEF Total, Micros
<1>12. HeldBy[s] \in Nat /\ Total(HeldBy) = Held
       BY <1>2 DEF Held
<1> QED BY <1>2, <1>4, <1>5, <1>6, <1>7, <1>8, <1>10, <1>11, <1>12

\* A row is published with the hold it records, or without one.
LEMMA CommitOpenKeeps ==
    ASSUME IInv, NEW w \in Workers, CommitOpen(w)
    PROVE  IInv'
<1> DEFINE s == Target(w)
           new == row[w]
<1>0. /\ WorkerOK(w) /\ pc[w] = "commit" /\ job[w].op = "open" /\ s \in Sessions
      /\ CommitWith(w, [sessions EXCEPT ![s] = new], events) /\ Done(w) /\ Calm
      /\ told' = told
      BY DEF IInv, WorkersOK, CommitOpen, CommitSession, TypeOK, Target
<1>1. rowLock[s] = w /\ sessions[s] = NoRow
      BY <1>0 DEF WorkerOK, OpenerOK
<1>2. /\ new \in SessionRow /\ events[s] \in EventRow /\ Quote[s] \in Nat
      /\ sessions \in [Sessions -> SessionRow] /\ events \in [Sessions -> EventRow]
      BY <1>0, PricesAssumption DEF IInv, TypeOK
<1>3. \/ /\ new = OpenRow(s) /\ lock = w /\ txKeys = keys
         /\ txWallet = [balance |-> wallet.balance, reserved |-> wallet.reserved + Quote[s]]
         /\ txWallet.reserved <= txWallet.balance
      \/ new.status = "failed" /\ new.released /\ lock # w
      BY <1>0 DEF WorkerOK, OpenerOK
<1>4. /\ sessions' = [sessions EXCEPT ![s] = new] /\ events' = [events EXCEPT ![s] = events[s]]
      /\ sessions'[s] = new /\ \A t \in Sessions \ {s} : sessions'[t] = sessions[t]
      /\ events' = events
      BY <1>0, <1>2 DEF CommitWith
<1>5. /\ keys' = keys
      /\ wallet' = IF lock = w THEN txWallet ELSE wallet
      BY <1>0, <1>3 DEF CommitWith
<1>6. TypeOK'
      BY <1>0, <1>2, CommitTypes DEF IInv, TypeOK
<1>7. Publishes(w, s)
      BY <1>1, <1>4 DEF Publishes
<1>8. WorkersOK'
      BY <1>0, <1>5, <1>6, <1>7, CommitKeepsWorkers
<1>9. RowsOK'
      <2> SUFFICES ASSUME NEW t \in Sessions
                   PROVE  \/ /\ sessions'[t] \in {NoRow, OpenRow(t)}
                             /\ ReleaseOf(t) \notin keys'
                          \/ sessions'[t].status \in Terminal /\ sessions'[t].released
          BY DEF RowsOK
      <2>1. CASE t # s
            BY <1>4, <1>5, <2>1 DEF IInv, RowsOK
      <2>2. CASE t = s
            <3>1. ReleaseOf(s) \notin keys
                  BY <1>0, <1>1 DEF IInv, RowsOK, NoRow, Terminal
            <3> QED BY <1>3, <1>4, <1>5, <2>2, <3>1 DEF Terminal
      <2> QED BY <2>1, <2>2
<1>10. EventsOK'
      <2> SUFFICES ASSUME NEW t \in Sessions PROVE EventOK(t)'
          BY DEF EventsOK
      <2>1. EventOK(t) /\ events'[t] = events[t] /\ told'[t] = told[t]
            BY <1>0, <1>4 DEF IInv, EventsOK
      <2>2. sessions'[t].status = "closed" <=> sessions[t].status = "closed"
            <3>1. CASE t # s
                  BY <1>4, <3>1
            <3>2. CASE t = s
                  BY <1>1, <1>3, <1>4, <3>2 DEF OpenRow, NoRow
            <3> QED BY <3>1, <3>2
      <2> QED BY <2>1, <2>2 DEF EventOK
<1>11. MoneyOK'
      <2>1. /\ Held \in Nat /\ Held' = Held - 0 + (IF new.released THEN 0 ELSE new.reserved)
            /\ Total(DebitedBy)' = Total(DebitedBy) - events[s].debited + events[s].debited
            /\ Total(DebitedBy) \in Nat
            <3>1. sessions[s].released = FALSE /\ sessions[s].reserved = 0
                  BY <1>1 DEF NoRow
            <3>2. Held' = Held - (IF sessions[s].released THEN 0 ELSE sessions[s].reserved)
                               + (IF new.released THEN 0 ELSE new.reserved)
                  BY <1>0, <1>2, <1>4, CommitSums
            <3>3. /\ Held \in Nat /\ Total(DebitedBy) \in Nat
                  /\ Total(DebitedBy)' = Total(DebitedBy) - events[s].debited + events[s].debited
                  BY <1>0, <1>2, <1>4, CommitSums
            <3> QED BY <3>1, <3>2, <3>3
      <2>2. events[s].debited \in Nat /\ wallet.reserved \in Nat /\ wallet.balance \in Nat
            BY <1>2 DEF EventRow, IInv, TypeOK
      <2>3. MoneyOK
            BY DEF IInv
      <2>4. Total(DebitedBy)' = Total(DebitedBy)
            BY <2>1, <2>2
      <2>5. CASE /\ new = OpenRow(s) /\ lock = w
                 /\ txWallet = [balance  |-> wallet.balance,
                                reserved |-> wallet.reserved + Quote[s]]
                 /\ txWallet.reserved <= txWallet.balance
            <3>1. /\ wallet'.balance = wallet.balance
                  /\ wallet'.reserved = wallet.reserved + Quote[s]
                  /\ wallet'.reserved <= wallet'.balance
                  BY <1>5, <2>5
            <3>2. Held' = Held + Quote[s]
                  BY <1>2, <2>1, <2>5 DEF OpenRow
            <3> QED BY <2>2, <2>3, <2>4, <3>1, <3>2 DEF MoneyOK
      <2>6. CASE new.released /\ lock # w
            <3>1. wallet' = wallet /\ Held' = Held
                  BY <1>5, <2>1, <2>6
            <3> QED BY <2>3, <2>4, <3>1 DEF MoneyOK
      <2> QED BY <1>3, <2>5, <2>6
<1> QED BY <1>6, <1>8, <1>9, <1>10, <1>11 DEF IInv

\* What a call that ends a session knows when it commits.
LEMMA BeforeEnd ==
    ASSUME IInv, NEW w \in Workers, pc[w] = "commit", job[w].op \in Ending
    PROVE  LET s == Target(w)
               now == IF lock = w THEN txWallet ELSE wallet
           IN  /\ WorkerOK(w) /\ s \in Sessions /\ sessions[s].status # "none"
               /\ sessions[s] = OpenRow(s) \/ ReleaseOf(s) \in keys
               /\ (IF lock = w THEN txKeys ELSE keys) = keys \cup {ReleaseOf(s)}
               /\ now.reserved = wallet.reserved - (IF GivesBack(w) THEN Quote[s] ELSE 0)
               /\ now.balance = wallet.balance
                                  - (IF job[w].op \in Charging THEN event[w].debited ELSE 0)
               /\ now.reserved <= now.balance
               /\ GivesBack(w) <=> sessions[s] = OpenRow(s)
               /\ Quote[s] \in Nat /\ event[w] \in EventRow
<1> DEFINE s == Target(w)
           k == ReleaseOf(s)
<1>1. WorkerOK(w) /\ s \in Sessions /\ Quote[s] \in Nat
      BY PricesAssumption DEF IInv, WorkersOK, TypeOK, Target
<1>2. /\ sessions[s].status # "none"
      /\ sessions[s] = OpenRow(s) \/ k \in keys
      /\ GivesBack(w) \/ k \in keys
      /\ job[w].op = "abandon" => GivesBack(w)
      BY <1>1 DEF WorkerOK, ReaderOK, ReleaserOK
<1>3. sessions[s] = OpenRow(s) => k \notin keys
      BY <1>1 DEF IInv, RowsOK, OpenRow, Terminal
<1>4. GivesBack(w) <=> sessions[s] = OpenRow(s)
      BY <1>2, <1>3 DEF GivesBack
<1>5. event[w] \in EventRow /\ wallet.balance \in Nat /\ wallet.reserved \in Nat
      BY DEF IInv, TypeOK
<1>6. CASE lock = w
      <2>1. /\ txKeys \in {keys, keys \cup {k}}
            /\ txWallet.reserved =
                  IF GivesBack(w) THEN wallet.reserved - Quote[s] ELSE wallet.reserved
            /\ txWallet.balance =
                  IF job[w].op \in Charging THEN wallet.balance - event[w].debited
                                            ELSE wallet.balance
            /\ txWallet.reserved <= txWallet.balance
            BY <1>1, <1>6 DEF WorkerOK, WriterOK
      <2>2. txKeys = keys \cup {k}
            BY <1>2, <2>1 DEF GivesBack
      <2>3. /\ txWallet.reserved = wallet.reserved - (IF GivesBack(w) THEN Quote[s] ELSE 0)
            /\ txWallet.balance = wallet.balance
                                    - (IF job[w].op \in Charging THEN event[w].debited ELSE 0)
            BY <1>5, <2>1
      <2> QED BY <1>1, <1>2, <1>4, <1>5, <1>6, <2>1, <2>2, <2>3
<1>7. CASE lock # w
      <2>1. ~GivesBack(w) /\ k \in keys /\ job[w].op \in Charging
            BY <1>2, <1>7 DEF GivesBack, Ending
      <2>2. event[w].debited = 0
            BY <1>1, <1>7, <2>1 DEF WorkerOK, ChargerOK
      <2>3. wallet.reserved <= wallet.balance
            BY DEF IInv, MoneyOK
      <2>4. /\ wallet.reserved = wallet.reserved - (IF GivesBack(w) THEN Quote[s] ELSE 0)
            /\ wallet.balance = wallet.balance
                                    - (IF job[w].op \in Charging THEN event[w].debited ELSE 0)
            BY <1>5, <2>1, <2>2
      <2>5. keys = keys \cup {k}
            BY <2>1
      <2> QED BY <1>1, <1>2, <1>4, <1>5, <1>7, <2>3, <2>4, <2>5
<1> QED BY <1>6, <1>7

\* A session is over, its hold given back and its event in place.
LEMMA EndKeeps ==
    ASSUME IInv, NEW w \in Workers, pc[w] = "commit", job[w].op \in Ending,
           NEW new \in SessionRow, NEW newEvent \in EventRow,
           CommitSession(w, new, [events EXCEPT ![Target(w)] = newEvent]), Done(w), Calm,
           told' \in [Sessions -> SUBSET Nat],
           new.status \in Terminal, new.released,
           newEvent = events[Target(w)] \/ inserting[Target(w)] = w,
           newEvent.debited = events[Target(w)].debited
                                + (IF job[w].op \in Charging THEN event[w].debited ELSE 0),
           EventsOK'
    PROVE  IInv'
<1> DEFINE s == Target(w)
           k == ReleaseOf(s)
           now == IF lock = w THEN txWallet ELSE wallet
           paid == IF job[w].op \in Charging THEN event[w].debited ELSE 0
           back == IF GivesBack(w) THEN Quote[s] ELSE 0
<1>1. /\ WorkerOK(w) /\ s \in Sessions /\ sessions[s].status # "none"
      /\ sessions[s] = OpenRow(s) \/ k \in keys
      /\ (IF lock = w THEN txKeys ELSE keys) = keys \cup {k}
      /\ now.reserved = wallet.reserved - back
      /\ now.balance = wallet.balance - paid
      /\ now.reserved <= now.balance
      /\ GivesBack(w) <=> sessions[s] = OpenRow(s)
      /\ Quote[s] \in Nat /\ event[w] \in EventRow
      BY BeforeEnd
<1>2. /\ sessions \in [Sessions -> SessionRow] /\ events \in [Sessions -> EventRow]
      /\ wallet.balance \in Nat /\ wallet.reserved \in Nat
      BY DEF IInv, TypeOK
<1>3. /\ sessions' = [sessions EXCEPT ![s] = new] /\ events' = [events EXCEPT ![s] = newEvent]
      /\ wallet' = now /\ keys' = keys \cup {k}
      BY <1>1 DEF CommitSession, CommitWith
<1>4. /\ sessions'[s] = new /\ events'[s] = newEvent
      /\ \A t \in Sessions \ {s} : sessions'[t] = sessions[t] /\ events'[t] = events[t]
      BY <1>1, <1>2, <1>3
<1>5. CommitWith(w, [sessions EXCEPT ![s] = new], [events EXCEPT ![s] = newEvent])
      BY DEF CommitSession
<1>6. TypeOK'
      <2>1. /\ [sessions EXCEPT ![s] = new] \in [Sessions -> SessionRow]
            /\ [events EXCEPT ![s] = newEvent] \in [Sessions -> EventRow]
            BY <1>2
      <2> QED BY <1>5, <2>1, CommitTypes
<1>7. Publishes(w, s)
      <2>1. sessions'[s].status # "none"
            BY <1>4 DEF Terminal
      <2> QED BY <1>1, <1>3, <1>4, <2>1 DEF Publishes
<1>8. WorkersOK'
      BY <1>1, <1>3, <1>5, <1>6, <1>7, CommitKeepsWorkers
<1>9. RowsOK'
      <2> SUFFICES ASSUME NEW t \in Sessions
                   PROVE  \/ /\ sessions'[t] \in {NoRow, OpenRow(t)}
                             /\ ReleaseOf(t) \notin keys'
                          \/ sessions'[t].status \in Terminal /\ sessions'[t].released
          BY DEF RowsOK
      <2>1. CASE t # s
            <3>1. ReleaseOf(t) # k
                  BY <2>1 DEF ReleaseOf
            <3> QED BY <1>3, <1>4, <2>1, <3>1 DEF IInv, RowsOK
      <2>2. CASE t = s
            BY <1>4, <2>2
      <2> QED BY <2>1, <2>2
<1>10. MoneyOK'
      <2>1. /\ Held \in Nat
            /\ Held' = Held - (IF sessions[s].released THEN 0 ELSE sessions[s].reserved) + 0
            /\ Total(DebitedBy)' = Total(DebitedBy) - events[s].debited + newEvent.debited
            /\ Total(DebitedBy) \in Nat
            BY <1>1, <1>3, CommitSums
      <2>2. back = IF sessions[s].released THEN 0 ELSE sessions[s].reserved
            <3>1. CASE sessions[s] = OpenRow(s)
                  BY <1>1, <3>1 DEF OpenRow
            <3>2. CASE sessions[s] # OpenRow(s)
                  <4>1. sessions[s].released
                        BY <1>1, <3>2 DEF IInv, RowsOK, NoRow
                  <4> QED BY <1>1, <3>2, <4>1
            <3> QED BY <3>1, <3>2
      <2>3. /\ back \in Nat /\ paid \in Nat /\ events[s].debited \in Nat
            BY <1>1, <1>2 DEF EventRow
      <2>4. MoneyOK
            BY DEF IInv
      <2> HIDE DEF back, paid, now
      <2>5. newEvent.debited = events[s].debited + paid
            BY DEF paid
      <2>6. Held' = Held - back /\ Total(DebitedBy)' = Total(DebitedBy) + paid
            BY <2>1, <2>2, <2>3, <2>5
      <2>7. wallet'.reserved = wallet.reserved - back /\ wallet'.balance = wallet.balance - paid
            /\ wallet'.reserved <= wallet'.balance
            BY <1>1, <1>3
      <2> QED BY <1>2, <2>1, <2>3, <2>4, <2>6, <2>7 DEF MoneyOK
<1> QED BY <1>6, <1>8, <1>9, <1>10 DEF IInv

LEMMA CommitSettledKeeps ==
    ASSUME IInv, NEW w \in Workers, CommitSettled(w)
    PROVE  IInv'
<1> DEFINE s == Target(w)
           newEvent == [recorded |-> TRUE, price |-> event[w].price,
                        debited |-> event[w].debited, writeoff |-> event[w].writeoff]
<1>0. /\ pc[w] = "commit" /\ job[w].op \in Charging /\ job[w].op \in Ending
      /\ CommitSession(w, SettledRow(w), [events EXCEPT ![s] = newEvent])
      /\ Answer(s, event[w].debited) /\ Done(w) /\ Calm
      BY DEF CommitSettled, Charging, Ending
<1>1. /\ WorkerOK(w) /\ s \in Sessions /\ sessions[s].status # "none" /\ event[w] \in EventRow
      /\ Quote[s] \in Nat
      BY <1>0, BeforeEnd
<1>2. /\ inserting[s] = w /\ ~events[s].recorded /\ event[w].price <= Quote[s]
      /\ event[w].debited + event[w].writeoff = event[w].price
      BY <1>0, <1>1 DEF WorkerOK, ChargerOK
<1>3. events[s] = NoEvent /\ told[s] \subseteq {0}
      BY <1>1, <1>2 DEF IInv, EventsOK, EventOK, NoEvent
<1>4. newEvent \in EventRow /\ newEvent.debited = events[s].debited + event[w].debited
      BY <1>1, <1>3 DEF EventRow, NoEvent
<1>5. /\ SettledRow(w) \in SessionRow /\ SettledRow(w).status = "closed"
      /\ SettledRow(w).released
      <2>1. row[w] = OpenRow(s)
            BY <1>0, <1>1 DEF WorkerOK, ReaderOK
      <2>2. CumulativePrice(w) \in Nat
            BY <1>1, <2>1 DEF CumulativePrice, Ceiling, OpenRow, IInv, TypeOK
      <2> QED BY <2>2 DEF SettledRow, SessionRow, Terminal
<1>6. told' \in [Sessions -> SUBSET Nat]
      BY <1>0, <1>1 DEF Answer, IInv, TypeOK, EventRow
<1>7. EventsOK'
      <2> SUFFICES ASSUME NEW t \in Sessions PROVE EventOK(t)'
          BY DEF EventsOK
      <2>1. /\ sessions' = [sessions EXCEPT ![s] = SettledRow(w)]
            /\ events' = [events EXCEPT ![s] = newEvent]
            BY <1>0 DEF CommitSession, CommitWith
      <2>2. CASE t # s
            <3>1. sessions'[t] = sessions[t] /\ events'[t] = events[t] /\ told'[t] = told[t]
                  BY <1>0, <1>1, <2>1, <2>2 DEF Answer, IInv, TypeOK
            <3> QED BY <3>1 DEF IInv, EventsOK, EventOK
      <2>3. CASE t = s
            <3>1. /\ sessions'[s].status = "closed" /\ events'[s] = newEvent
                  /\ told'[s] = told[s] \cup {event[w].debited}
                  BY <1>0, <1>1, <1>5, <2>1 DEF Answer, IInv, TypeOK
            <3> QED BY <1>2, <1>3, <2>3, <3>1 DEF EventOK
      <2> QED BY <2>2, <2>3
<1> QED BY <1>0, <1>2, <1>4, <1>5, <1>6, <1>7, EndKeeps DEF Terminal

LEMMA CommitAbandonedKeeps ==
    ASSUME IInv, NEW w \in Workers, CommitAbandoned(w)
    PROVE  IInv'
<1> DEFINE s == Target(w)
<1>0. /\ pc[w] = "commit" /\ job[w].op = "abandon" /\ job[w].op \in Ending
      /\ job[w].op \notin Charging
      /\ CommitSession(w, AbandonedRow(w), events)
      /\ told' = told /\ Done(w) /\ Calm
      BY DEF CommitAbandoned, Charging, Ending
<1>1. /\ WorkerOK(w) /\ s \in Sessions /\ sessions[s] \in SessionRow /\ events[s] \in EventRow
      /\ events = [events EXCEPT ![s] = events[s]] /\ told \in [Sessions -> SUBSET Nat]
      BY <1>0, BeforeEnd DEF IInv, TypeOK
<1>2. sessions[s] = OpenRow(s)
      <2>1. GivesBack(w)
            BY <1>0, <1>1 DEF WorkerOK, ReleaserOK
      <2> QED BY <1>0, <2>1, BeforeEnd
<1>3. /\ AbandonedRow(w) \in SessionRow /\ AbandonedRow(w).status = "failed"
      /\ AbandonedRow(w).released
      BY <1>1 DEF AbandonedRow, SessionRow, Terminal
<1>4. EventsOK'
      <2> SUFFICES ASSUME NEW t \in Sessions PROVE EventOK(t)'
          BY DEF EventsOK
      <2>1. /\ sessions' = [sessions EXCEPT ![s] = AbandonedRow(w)] /\ events' = events
            /\ EventOK(t)
            BY <1>0 DEF CommitSession, CommitWith, IInv, EventsOK
      <2>2. sessions'[t].status = "closed" <=> sessions[t].status = "closed"
            BY <1>1, <1>2, <1>3, <2>1 DEF OpenRow, IInv, TypeOK
      <2> QED BY <1>0, <2>1, <2>2 DEF EventOK
<1>5. events[s].debited = events[s].debited + 0
      BY <1>1 DEF EventRow
<1> QED BY <1>0, <1>1, <1>3, <1>4, <1>5, EndKeeps DEF Terminal

-----------------------------------------------------------------------------
(* The invariant, and what it says.                                         *)

\* A transaction that dies leaves nothing of it.
LEMMA FailureKeeps ==
    ASSUME IInv, NEW w \in Workers, Victim(w) \/ Fail(w)
    PROVE  IInv'
<1>1. CASE Victim(w)
      BY <1>1, ReturnKeeps DEF Victim, Calm, Answered, IInv, TypeOK
<1>2. CASE Fail(w)
      <2>1. failures' \in 0..MaxFailures
            BY <1>2, OpsAssumption DEF Fail, IInv, TypeOK
      <2> QED BY <1>2, <2>1, ReturnKeeps DEF Fail, Answered
<1> QED BY <1>1, <1>2

LEMMA StepKeeps ==
    ASSUME IInv, NEW w \in Workers, Step(w)
    PROVE  IInv'
<1>1. CASE InsertRow(w) \/ Hold(w) \/ CommitOpen(w)
      BY <1>1, InsertRowKeeps, HoldKeeps, CommitOpenKeeps
<1>2. CASE Recheck(w) \/ Load(w) \/ WriteReport(w) \/ InsertEvent(w) \/ Rebuild(w)
      BY <1>2, RecheckKeeps, LoadKeeps, WriteReportKeeps, InsertEventKeeps, RebuildKeeps
<1>3. CASE Replay(w) \/ Release(w) \/ Collect(w) \/ Reload(w)
      BY <1>3, ReplayKeeps, ReleaseKeeps, CollectKeeps, ReloadKeeps
<1>4. CASE CommitSettled(w) \/ CommitAbandoned(w)
      BY <1>4, CommitSettledKeeps, CommitAbandonedKeeps
<1>5. CASE Victim(w)
      BY <1>5, FailureKeeps
<1> QED BY <1>1, <1>2, <1>3, <1>4, <1>5 DEF Step

LEMMA InitHolds == Init => IInv
<1> SUFFICES ASSUME Init PROVE IInv
    OBVIOUS
<1>1. Quote \in [Sessions -> Nat \ {0}] /\ Funds \in Nat
      BY PricesAssumption
<1>2. TypeOK
      BY <1>1, NothingTypes, OpsAssumption DEF Init, TypeOK, Opened, Steps
<1>3. RowsOK
      BY DEF Init, RowsOK
<1>4. EventsOK
      BY <1>1 DEF Init, EventsOK, EventOK, NoEvent, NoRow
<1>5. MoneyOK
      <2>1. HeldBy = [s \in Sessions |-> 0] /\ DebitedBy = [s \in Sessions |-> 0]
            BY DEF Init, HeldBy, DebitedBy, NoRow, NoEvent
      <2>2. Held = 0 /\ Total(DebitedBy) = 0
            BY <2>1, TotalOfNothing DEF Held
      <2> QED BY <1>1, <2>2 DEF MoneyOK, Init, Opened
<1>6. WorkersOK
      BY WorkersAssumption
      DEF Init, WorkersOK, WorkerOK, JobOK, LockOK, OpenerOK, ReaderOK, ChargerOK, ReleaserOK,
          WriterOK
<1> QED BY <1>2, <1>3, <1>4, <1>5, <1>6 DEF IInv

LEMMA NextKeeps == IInv /\ [CallNext]_vars => IInv'
<1> SUFFICES ASSUME IInv, [CallNext]_vars PROVE IInv'
    OBVIOUS
<1>1. ASSUME NEW w \in Handlers, Request(w) PROVE IInv'
      BY <1>1, RequestKeeps
<1>2. ASSUME NEW w \in Reconcilers, NEW s \in Sessions, Reap(w, s) PROVE IInv'
      BY <1>2, ReapKeeps
<1>3. ASSUME NEW w \in Workers, Step(w) \/ Fail(w) PROVE IInv'
      BY <1>3, StepKeeps, FailureKeeps
<1>4. ASSUME NEW s \in Sessions, Lapse(s) PROVE IInv'
      BY <1>4, DueKeeps DEF Lapse, IInv, TypeOK
<1>5. CASE UNCHANGED vars
      BY <1>5, DueKeeps DEF vars, IInv, TypeOK
<1> QED BY <1>1, <1>2, <1>3, <1>4, <1>5 DEF CallNext

\* The invariant holds of every behaviour of the calls and the reaper.
LEMMA Invariance == CallSpec => []IInv
BY InitHolds, NextKeeps, PTL DEF CallSpec

\* What the wallet holds is what its unfinished sessions hold, however many
\* race to open and to end them, and wherever one dies (`verify_wallet`).
THEOREM NoHoldLeaks == CallSpec => []HoldsMatchSessions
<1>1. IInv => HoldsMatchSessions
      BY DEF IInv, MoneyOK, HoldsMatchSessions
<1> QED BY Invariance, <1>1, PTL

\* A session has an event exactly when it is closed, so it is charged once
\* (`_settle_once`, `abandon_oneshot`).
THEOREM ChargedWhenClosed == CallSpec => []ClosedMeansCharged
<1>1. IInv => ClosedMeansCharged
      BY DEF IInv, EventsOK, EventOK, ClosedMeansCharged
<1> QED BY Invariance, <1>1, PTL

\* Every unit that left the wallet is on an event, no event asks for more than
\* was quoted, and every answer is what the event charged (`_rebuild_settlement`).
THEOREM MoneyAddsUp == CallSpec => []ChargesAddUp
<1>1. IInv => ChargesAddUp
      BY DEF IInv, MoneyOK, EventsOK, EventOK, ChargesAddUp, DebitedBy
<1> QED BY Invariance, <1>1, PTL

\* A settlement that gave its own hold back collects all of its price
\* (the comment on the release in `settle_oneshot`).
THEOREM CollectedInFull == CallSpec => []HeldIsCollected
<1>1. IInv => HeldIsCollected
      BY DEF IInv, WorkersOK, WorkerOK, WriterOK, HeldIsCollected, GivesBack, ReleaseOf, Ending,
             Charging
<1> QED BY Invariance, <1>1, PTL
-----------------------------------------------------------------------------
(* Types, with healing. The audit of a wallet is taken while calls move it, so *)
(* what it adds up, and what it gives back, need not match: but every amount   *)
(* stays one.                                                                  *)

\* Only a call that ends a session loads it.
LoadersEnd == \A w \in Workers : pc[w] \in {"recheck", "load"} => job[w].op \in Ending

TypeInv == TypeOK /\ LoadersEnd

\* What the wallet row of a transaction holds.
LEMMA WalletTypes ==
    ASSUME TypeOK, NEW w \in Workers
    PROVE  /\ Wallet(w) \in [balance: Nat, reserved: Nat] /\ KeysSeen(w) \subseteq Keys
           /\ Target(w) \in Sessions
BY DEF TypeOK, Wallet, KeysSeen, Target

LEMMA CommitWithTypes ==
    ASSUME TypeOK, NEW w \in Workers, NEW newSessions, NEW newEvents,
           CommitWith(w, newSessions, newEvents), newSessions \in [Sessions -> SessionRow],
           newEvents \in [Sessions -> EventRow], told' \in [Sessions -> SUBSET Nat],
           Done(w), Calm
    PROVE  TypeOK' /\ pc'[w] = "idle"
<1>1. /\ sessions' = newSessions /\ events' = newEvents
      /\ wallet' \in {wallet, txWallet} /\ keys' \in {keys, txKeys}
      /\ UNCHANGED <<txWallet, txKeys>>
      BY DEF CommitWith
<1>2. /\ lock' \in Workers \cup {Nobody}
      /\ rowLock' \in [Sessions -> Workers \cup {Nobody}]
      /\ inserting' \in [Sessions -> Workers \cup {Nobody}]
      BY DEF CommitWith, Unlocked, TypeOK
<1>3. /\ pc' \in [Workers -> Steps] /\ pc'[w] = "idle"
      /\ job' \in [Workers -> [op: AllOps, s: Sessions, price: Nat]]
      /\ row' \in [Workers -> SessionRow] /\ event' \in [Workers -> EventRow]
      /\ audit' \in [Workers -> [reserved: Nat, held: Nat]]
      BY NothingTypes DEF Done, Goto, Steps, TypeOK
<1> QED BY <1>1, <1>2, <1>3 DEF Calm, TypeOK

LEMMA BeginTypes ==
    ASSUME TypeOK, NEW w \in Workers, NEW op \in AllOps, NEW s \in Sessions, NEW price \in Nat,
           NEW step \in Steps, Begin(w, op, s, price, step)
    PROVE  TypeOK' /\ pc'[w] = step /\ job'[w].op = op
<1>1. pc' \in [Workers -> Steps] /\ pc'[w] = step
      BY DEF Begin, Goto, TypeOK
<1>2. job' \in [Workers -> [op: AllOps, s: Sessions, price: Nat]] /\ job'[w].op = op
      BY DEF Begin, TypeOK
<1>3. UNCHANGED <<database, due, row, event, audit, told, failures>>
      BY DEF Begin
<1> QED BY <1>1, <1>2, <1>3 DEF TypeOK, database

\* The other workers do not move.
Others(w) == \A u \in Workers : u # w => pc'[u] = pc[u] /\ job'[u] = job[u]

LEMMA LoadersKept ==
    ASSUME TypeInv, NEW w \in Workers, Others(w),
           pc'[w] \in {"recheck", "load"} => job'[w].op \in Ending
    PROVE  LoadersEnd'
BY DEF TypeInv, LoadersEnd, Others

\* Where a step that only goes on leads.
LEMMA GotoTypes ==
    ASSUME TypeInv, NEW w \in Workers, NEW step \in Steps, Goto(w, step), UNCHANGED job,
           step \notin {"recheck", "load"} \/ job[w].op \in Ending
    PROVE  pc' \in [Workers -> Steps] /\ LoadersEnd'
<1>1. pc' \in [Workers -> Steps] /\ pc'[w] = step /\ Others(w)
      BY DEF TypeInv, TypeOK, Goto, Others
<1> QED BY <1>1, LoadersKept

LEMMA ReturnTypeInv ==
    ASSUME TypeInv, NEW w \in Workers, Return(w), told' \in [Sessions -> SUBSET Nat],
           due' = due, failures' \in 0..MaxFailures
    PROVE  TypeInv'
<1>1. TypeOK' /\ pc'[w] = "idle"
      BY ReturnTypes DEF TypeInv
<1>2. Others(w)
      BY DEF TypeInv, TypeOK, Return, Done, Goto, Others
<1> QED BY <1>1, <1>2, LoadersKept DEF TypeInv

LEMMA CommitTypeInv ==
    ASSUME TypeInv, NEW w \in Workers, NEW newSessions, NEW newEvents,
           CommitWith(w, newSessions, newEvents), newSessions \in [Sessions -> SessionRow],
           newEvents \in [Sessions -> EventRow], told' \in [Sessions -> SUBSET Nat],
           Done(w), Calm
    PROVE  TypeInv'
<1>1. TypeOK' /\ pc'[w] = "idle"
      BY CommitWithTypes DEF TypeInv
<1>2. Others(w)
      BY DEF TypeInv, TypeOK, Done, Goto, Others
<1> QED BY <1>1, <1>2, LoadersKept DEF TypeInv

LEMMA BeginTypeInv ==
    ASSUME TypeInv, NEW w \in Workers, NEW op \in AllOps, NEW s \in Sessions, NEW price \in Nat,
           NEW step \in Steps, Begin(w, op, s, price, step),
           step \notin {"recheck", "load"} \/ op \in Ending
    PROVE  TypeInv'
<1>1. TypeOK' /\ pc'[w] = step /\ job'[w].op = op
      BY BeginTypes DEF TypeInv
<1>2. Others(w)
      BY DEF TypeInv, TypeOK, Begin, Goto, Others
<1> QED BY <1>1, <1>2, LoadersKept DEF TypeInv

LEMMA RequestTypes ==
    ASSUME TypeInv, NEW w \in Workers, Request(w)
    PROVE  TypeInv'
<1> PICK s \in Sessions :
        \/ Open(w, s) \/ Abandon(w, s) \/ Touch(w, s)
        \/ \E price \in Reported : Settle(w, s, price)
    BY DEF Request
<1>1. CASE Open(w, s)
      <2>1. Quote[s] \in Nat /\ "open" \in AllOps /\ "insert" \in Steps
            BY PricesAssumption DEF AllOps, Steps
      <2> QED BY <1>1, <2>1, BeginTypeInv DEF Open
<1>2. CASE Abandon(w, s)
      BY <1>2, BeginTypeInv DEF Abandon, AllOps, Steps, Ending
<1>3. CASE Touch(w, s)
      <2>1. due' \in [Sessions -> BOOLEAN]
            BY <1>3 DEF Touch, TypeInv, TypeOK
      <2> QED BY <1>3, <2>1 DEF Touch, TypeInv, TypeOK, LoadersEnd, database, locals
<1>4. CASE \E price \in Reported : Settle(w, s, price)
      <2> PICK price \in Reported : Settle(w, s, price)
          BY <1>4
      <2>1. price \in Nat
            BY PricesAssumption
      <2> QED BY <2>1, BeginTypeInv DEF Settle, AllOps, Steps, Ending, Charging
<1> QED BY <1>1, <1>2, <1>3, <1>4

LEMMA OpeningTypes ==
    ASSUME TypeInv, NEW w \in Workers, InsertRow(w) \/ Hold(w) \/ CommitOpen(w)
    PROVE  TypeInv'
<1>0. TypeOK /\ failures \in 0..MaxFailures /\ told \in [Sessions -> SUBSET Nat]
      BY DEF TypeInv, TypeOK
<1>1. CASE InsertRow(w)
      <2>1. CASE Return(w)
            BY <1>0, <1>1, <2>1, ReturnTypeInv DEF InsertRow, Calm
      <2>2. CASE ~Return(w)
            <3>1. /\ rowLock' \in [Sessions -> Workers \cup {Nobody}] /\ Goto(w, "hold")
                  /\ UNCHANGED <<committed, lock, txWallet, txKeys, inserting, locals>>
                  BY <1>0, <1>1, <2>2 DEF InsertRow, TypeOK
            <3>2. pc' \in [Workers -> Steps] /\ LoadersEnd'
                  BY <3>1, GotoTypes DEF Steps, locals
            <3> QED BY <1>0, <1>1, <3>1, <3>2 DEF InsertRow, Calm, TypeInv, TypeOK, committed, locals
      <2> QED BY <2>1, <2>2
<1>2. CASE Hold(w)
      <2>1. job[w].price \in Nat /\ Wallet(w) \in [balance: Nat, reserved: Nat]
            BY <1>0, WalletTypes DEF TypeOK
      <2>2. row' \in [Workers -> SessionRow]
            <3> DEFINE kept == [status |-> "active", reserved |-> job[w].price,
                           estimated |-> job[w].price, settled |-> 0, released |-> FALSE]
                       failed == [status |-> "failed", reserved |-> 0,
                           estimated |-> job[w].price, settled |-> 0, released |-> TRUE]
            <3>1. kept \in SessionRow /\ failed \in SessionRow
                  BY <2>1 DEF SessionRow, Terminal
            <3>2. \/ row' = [row EXCEPT ![w] = kept]
                  \/ row' = [row EXCEPT ![w] = failed]
                  BY <1>2 DEF Hold
            <3> HIDE DEF kept, failed
            <3> QED BY <1>0, <3>1, <3>2 DEF TypeOK
      <2>3. /\ txWallet' \in [balance: Nat, reserved: Nat] /\ txKeys' \subseteq Keys
            /\ lock' \in Workers \cup {Nobody}
            /\ UNCHANGED <<committed, rowLock, inserting>>
            <3>1. CASE UNCHANGED database
                  BY <1>0, <3>1 DEF TypeOK, database, committed
            <3>2. CASE ~UNCHANGED database
                  <4>1. WriteWallet(w, [balance  |-> Wallet(w).balance,
                                        reserved |-> Wallet(w).reserved + job[w].price], KeysSeen(w))
                        BY <1>2, <3>2 DEF Hold
                  <4> QED BY <1>0, <2>1, <4>1, WalletTypes DEF WriteWallet
            <3> QED BY <3>1, <3>2
      <2>4. pc' \in [Workers -> Steps] /\ LoadersEnd'
            BY <1>2, GotoTypes DEF Hold, Steps
      <2> QED BY <1>0, <1>2, <2>2, <2>3, <2>4 DEF Hold, Calm, TypeInv, TypeOK, committed
<1>3. CASE CommitOpen(w)
      <2>1. [sessions EXCEPT ![Target(w)] = row[w]] \in [Sessions -> SessionRow]
            BY <1>0 DEF TypeOK
      <2>2. events \in [Sessions -> EventRow]
            BY <1>0 DEF TypeOK
      <2>3. /\ CommitWith(w, [sessions EXCEPT ![Target(w)] = row[w]], events)
            /\ Done(w) /\ Calm /\ told' \in [Sessions -> SUBSET Nat]
            BY <1>0, <1>3 DEF CommitOpen, CommitSession
      <2> QED BY <2>1, <2>2, <2>3, CommitTypeInv
<1> QED BY <1>1, <1>2, <1>3

LEMMA PricesTypes ==
    ASSUME TypeOK, NEW w \in Workers
    PROVE  CumulativePrice(w) \in Nat /\ Charge(w) \in Nat
<1>1. /\ row[w].estimated \in Nat /\ row[w].reserved \in Nat /\ row[w].settled \in Nat
      /\ job[w].price \in Nat
      BY DEF TypeOK, SessionRow
<1>2. CumulativePrice(w) \in Nat
      BY <1>1 DEF CumulativePrice, Ceiling
<1> QED BY <1>1, <1>2 DEF Charge

LEMMA LoadingTypes ==
    ASSUME TypeInv, NEW w \in Workers,
           Recheck(w) \/ Load(w) \/ WriteReport(w) \/ InsertEvent(w) \/ Rebuild(w)
    PROVE  TypeInv'
<1>0. /\ TypeOK /\ failures \in 0..MaxFailures /\ told \in [Sessions -> SUBSET Nat]
      /\ Target(w) \in Sessions
      BY WalletTypes DEF TypeInv, TypeOK
<1>a. ASSUME NEW s \in Sessions, Answer(s, events[s].debited)
      PROVE  told' \in [Sessions -> SUBSET Nat]
      <2>1. events[s].debited \in Nat
            BY <1>0 DEF TypeOK, EventRow
      <2> QED BY <1>0, <1>a, <2>1 DEF Answer
<1>1. CASE Recheck(w)
      <2>1. CASE Return(w)
            BY <1>0, <1>1, <2>1, ReturnTypeInv DEF Recheck, Calm
      <2>2. CASE ~Return(w)
            <3>1. Goto(w, "load") /\ UNCHANGED <<database, locals, told>> /\ Calm
                  BY <1>1, <2>2 DEF Recheck
            <3>2. job[w].op \in Ending
                  BY <1>1 DEF Recheck, TypeInv, LoadersEnd
            <3>3. pc' \in [Workers -> Steps] /\ LoadersEnd'
                  BY <3>1, <3>2, GotoTypes DEF Steps, locals
            <3> QED BY <1>0, <3>1, <3>3 DEF Calm, TypeInv, TypeOK, database, locals
      <2> QED BY <2>1, <2>2
<1>2. CASE Load(w)
      <2>1. CASE Return(w)
            <3>1. told' \in [Sessions -> SUBSET Nat]
                  BY <1>0, <1>2, <1>a DEF Load, Rebuilt
            <3> QED BY <1>0, <1>2, <2>1, <3>1, ReturnTypeInv DEF Load, Calm
      <2>2. CASE ~Return(w)
            <3>1. /\ row' = [row EXCEPT ![w] = sessions[Target(w)]]
                  /\ Goto(w, AfterLoad[job[w].op]) /\ UNCHANGED <<database, job, event, audit, told>>
                  /\ Calm
                  BY <1>2, <2>2 DEF Load
            <3>2. job[w].op \in {"settle", "estimate", "abandon"}
                  BY <1>2 DEF Load, TypeInv, LoadersEnd, Ending, Charging
            <3>3. AfterLoad[job[w].op] \in {"report", "event", "replay"}
                  BY <3>2 DEF AfterLoad
            <3>4. pc' \in [Workers -> Steps] /\ LoadersEnd'
                  BY <3>1, <3>3, GotoTypes DEF Steps
            <3>5. row' \in [Workers -> SessionRow]
                  BY <1>0, <3>1 DEF TypeOK
            <3> QED BY <1>0, <3>1, <3>4, <3>5 DEF Calm, TypeInv, TypeOK, database
      <2> QED BY <2>1, <2>2
<1>3. CASE WriteReport(w)
      <2>1. rowLock' \in [Sessions -> Workers \cup {Nobody}]
            BY <1>0, <1>3 DEF WriteReport, TypeOK
      <2>2. pc' \in [Workers -> Steps] /\ LoadersEnd'
            BY <1>3, GotoTypes DEF WriteReport, Steps, locals
      <2> QED BY <1>0, <1>3, <2>1, <2>2 DEF WriteReport, Calm, TypeInv, TypeOK, committed, locals
<1>4. CASE InsertEvent(w)
      <2>1. CASE Rollback(w) /\ Goto(w, "rebuild") /\ UNCHANGED locals
            <3>1. pc' \in [Workers -> Steps] /\ LoadersEnd'
                  BY <2>1, GotoTypes DEF Steps, locals
            <3>2. RollbackTypes(w)
                  BY <1>0, <2>1, RollbackTyped
            <3> QED BY <1>0, <1>4, <2>1, <3>1, <3>2
                    DEF InsertEvent, Calm, TypeInv, TypeOK, locals, RollbackTypes, committed
      <2>2. CASE ~(Rollback(w) /\ Goto(w, "rebuild") /\ UNCHANGED locals)
            <3>1. /\ inserting' = [inserting EXCEPT ![Target(w)] = w]
                  /\ event' = [event EXCEPT ![w] = [recorded |-> FALSE, price |-> Charge(w),
                                                    debited |-> 0, writeoff |-> 0]]
                  /\ Goto(w, "replay")
                  /\ UNCHANGED <<committed, lock, txWallet, txKeys, rowLock, job, row, audit, told>>
                  /\ Calm
                  BY <1>4, <2>2 DEF InsertEvent
            <3>2. event' \in [Workers -> EventRow]
                  BY <1>0, <3>1, PricesTypes DEF TypeOK, EventRow
            <3>3. inserting' \in [Sessions -> Workers \cup {Nobody}]
                  BY <1>0, <3>1 DEF TypeOK
            <3>4. pc' \in [Workers -> Steps] /\ LoadersEnd'
                  BY <3>1, GotoTypes DEF Steps
            <3> QED BY <1>0, <3>1, <3>2, <3>3, <3>4 DEF Calm, TypeInv, TypeOK, committed
      <2> QED BY <2>1, <2>2
<1>5. CASE Rebuild(w)
      <2>1. told' \in [Sessions -> SUBSET Nat]
            BY <1>0, <1>5, <1>a DEF Rebuild, Rebuilt
      <2> QED BY <1>0, <1>5, <2>1, ReturnTypeInv DEF Rebuild, Calm
<1> QED BY <1>1, <1>2, <1>3, <1>4, <1>5

\* What is given back was held, and its key is one of the ledger's.
LEMMA FreedIsHeld ==
    ASSUME TypeOK, NEW w \in Workers
    PROVE  /\ ReleaseKey(w) \in Keys /\ Freed(w) \in Int
           /\ Wallet(w).reserved - Freed(w) \in Nat
<1>1. /\ Wallet(w).reserved \in Nat /\ audit[w].reserved \in Nat /\ audit[w].held \in Nat
      /\ row[w].reserved \in Nat /\ Target(w) \in Sessions
      BY WalletTypes DEF TypeOK, SessionRow
<1>2. Asked(w) \in Int
      BY <1>1 DEF Asked
<1>3. ReleaseKey(w) \in Keys
      BY <1>1 DEF ReleaseKey, Keys
<1> QED BY <1>1, <1>2, <1>3 DEF Freed

\* What is paid is no more than the price, nor than the wallet has.
LEMMA PaidIsThere ==
    ASSUME TypeOK, NEW w \in Workers
    PROVE  /\ Paid(w) \in Nat /\ Wallet(w).balance - Paid(w) \in Nat
           /\ event[w].price - Paid(w) \in Nat
<1>1. /\ Wallet(w).reserved \in Nat /\ Wallet(w).balance \in Nat /\ event[w].price \in Nat
      BY WalletTypes DEF TypeOK, EventRow
<1>2. Headroom(w) \in Int /\ Headroom(w) <= Wallet(w).balance
      BY <1>1 DEF Headroom
<1>3. (IF Headroom(w) > 0 THEN Headroom(w) ELSE 0) \in 0..Wallet(w).balance
      BY <1>1, <1>2
<1> QED BY <1>1, <1>3 DEF Paid

LEMMA AfterReleaseTypes ==
    ASSUME NEW w \in Workers
    PROVE  AfterRelease(w) \in {"reload", "commit", "collect"}
BY DEF AfterRelease

LEMMA ReleasingTypes ==
    ASSUME TypeInv, NEW w \in Workers, Replay(w) \/ Release(w) \/ Collect(w) \/ Reload(w)
    PROVE  TypeInv'
<1>0. /\ TypeOK /\ failures \in 0..MaxFailures /\ told \in [Sessions -> SUBSET Nat]
      /\ Target(w) \in Sessions /\ KeysSeen(w) \subseteq Keys
      BY WalletTypes DEF TypeInv, TypeOK
<1>r. /\ AfterRelease(w) \in Steps /\ AfterRelease(w) \notin {"recheck", "load"}
      BY AfterReleaseTypes DEF Steps
<1>1. CASE Replay(w)
      <2>1. UNCHANGED <<database, locals, told>> /\ Calm
            BY <1>1 DEF Replay
      <2>2. pc' \in [Workers -> Steps] /\ LoadersEnd'
            BY <1>1, <1>r, GotoTypes DEF Replay, Steps, locals
      <2> QED BY <1>0, <2>1, <2>2 DEF Calm, TypeInv, TypeOK, database, locals
<1>2. CASE Release(w)
      <2>0. Calm /\ UNCHANGED told
            BY <1>2 DEF Release
      <2>1. CASE Return(w)
            BY <1>0, <2>0, <2>1, ReturnTypeInv DEF Calm
      <2>2. CASE ~Return(w)
            <3>1. UNCHANGED locals /\ Goto(w, AfterRelease(w))
                  BY <1>2, <2>2 DEF Release
            <3>2. pc' \in [Workers -> Steps] /\ LoadersEnd'
                  BY <1>r, <3>1, GotoTypes DEF locals
            <3>3. CASE UNCHANGED database
                  BY <1>0, <2>0, <3>1, <3>2, <3>3 DEF Calm, TypeInv, TypeOK, database, locals
            <3>4. CASE WriteWallet(w, [balance  |-> Wallet(w).balance,
                                       reserved |-> Wallet(w).reserved - Freed(w)],
                                   KeysSeen(w) \cup {ReleaseKey(w)})
                  <4>1. /\ txWallet' \in [balance: Nat, reserved: Nat] /\ txKeys' \subseteq Keys
                        /\ lock' \in Workers \cup {Nobody}
                        /\ UNCHANGED <<committed, rowLock, inserting>>
                        BY <1>0, <3>4, WalletTypes, FreedIsHeld DEF WriteWallet
                  <4> QED BY <1>0, <2>0, <3>1, <3>2, <4>1
                          DEF Calm, TypeInv, TypeOK, committed, locals
            <3>5. CASE Rollback(w)
                  <4>1. RollbackTypes(w)
                        BY <1>0, <3>5, RollbackTyped
                  <4> QED BY <1>0, <2>0, <3>1, <3>2, <4>1
                          DEF Calm, TypeInv, TypeOK, RollbackTypes, locals, committed
            <3> QED BY <1>2, <2>2, <3>3, <3>4, <3>5 DEF Release
      <2> QED BY <2>1, <2>2
<1>3. CASE Collect(w)
      <2>1. /\ txWallet' \in [balance: Nat, reserved: Nat] /\ txKeys' \subseteq Keys
            /\ lock' \in Workers \cup {Nobody}
            /\ UNCHANGED <<committed, rowLock, inserting>>
            BY <1>0, <1>3, WalletTypes, PaidIsThere DEF Collect, WriteWallet
      <2>2. event' \in [Workers -> EventRow]
            <3>1. event[w].price \in Nat
                  BY <1>0 DEF TypeOK, EventRow
            <3> QED BY <1>0, <1>3, <3>1, PaidIsThere DEF Collect, TypeOK, EventRow
      <2>3. pc' \in [Workers -> Steps] /\ LoadersEnd'
            BY <1>3, GotoTypes DEF Collect, Steps
      <2> QED BY <1>0, <1>3, <2>1, <2>2, <2>3 DEF Collect, Calm, TypeInv, TypeOK, committed
<1>4. CASE Reload(w)
      <2>0. Calm /\ UNCHANGED told
            BY <1>4 DEF Reload
      <2>1. CASE Return(w)
            BY <1>0, <2>0, <2>1, ReturnTypeInv DEF Calm
      <2>2. CASE ~Return(w)
            <3>1. /\ row' = [row EXCEPT ![w] = sessions[Target(w)]] /\ Goto(w, "commit")
                  /\ UNCHANGED <<database, job, event, audit>>
                  BY <1>4, <2>2 DEF Reload
            <3>2. pc' \in [Workers -> Steps] /\ LoadersEnd'
                  BY <3>1, GotoTypes DEF Steps
            <3>3. row' \in [Workers -> SessionRow]
                  BY <1>0, <3>1 DEF TypeOK
            <3> QED BY <1>0, <2>0, <3>1, <3>2, <3>3 DEF Calm, TypeInv, TypeOK, database
      <2> QED BY <2>1, <2>2
<1> QED BY <1>1, <1>2, <1>3, <1>4

LEMMA EndingTypes ==
    ASSUME TypeInv, NEW w \in Workers, CommitSettled(w) \/ CommitAbandoned(w)
    PROVE  TypeInv'
<1>0. /\ TypeOK /\ told \in [Sessions -> SUBSET Nat] /\ Target(w) \in Sessions
      /\ events \in [Sessions -> EventRow] /\ event[w] \in EventRow
      BY WalletTypes DEF TypeInv, TypeOK
<1>1. CASE CommitSettled(w)
      <2> DEFINE newEvents == [events EXCEPT ![Target(w)] =
                     [recorded |-> TRUE, price |-> event[w].price,
                      debited |-> event[w].debited, writeoff |-> event[w].writeoff]]
      <2>1. [sessions EXCEPT ![Target(w)] = SettledRow(w)] \in [Sessions -> SessionRow]
            BY <1>0, PricesTypes DEF TypeOK, SettledRow, SessionRow, Terminal
      <2>2. newEvents \in [Sessions -> EventRow]
            BY <1>0 DEF EventRow
      <2>3. told' \in [Sessions -> SUBSET Nat]
            BY <1>0, <1>1 DEF CommitSettled, Answer, EventRow
      <2>4. /\ CommitWith(w, [sessions EXCEPT ![Target(w)] = SettledRow(w)], newEvents)
            /\ Done(w) /\ Calm
            BY <1>1 DEF CommitSettled, CommitSession
      <2> HIDE DEF newEvents
      <2> QED BY <2>1, <2>2, <2>3, <2>4, CommitTypeInv
<1>2. CASE CommitAbandoned(w)
      <2>1. [sessions EXCEPT ![Target(w)] = AbandonedRow(w)] \in [Sessions -> SessionRow]
            BY <1>0 DEF TypeOK, AbandonedRow, SessionRow, Terminal
      <2>2. /\ CommitWith(w, [sessions EXCEPT ![Target(w)] = AbandonedRow(w)], events)
            /\ Done(w) /\ Calm /\ told' = told
            BY <1>2 DEF CommitAbandoned, CommitSession
      <2> QED BY <1>0, <2>1, <2>2, CommitTypeInv
<1> QED BY <1>1, <1>2

LEMMA HealingTypes ==
    ASSUME TypeInv, NEW w \in Workers, Heal(w) \/ AuditStep(w)
    PROVE  TypeInv'
<1>0. /\ TypeOK /\ failures \in 0..MaxFailures /\ told \in [Sessions -> SUBSET Nat]
      BY DEF TypeInv, TypeOK
<1>h. Held \in Nat
      <2>1. HeldBy \in [Sessions -> Nat]
            BY <1>0 DEF HeldBy, TypeOK, SessionRow
      <2> QED BY <2>1, MicrosFinite DEF Held
<1>1. CASE Heal(w)
      <2>1. NoJob.s \in Sessions
            BY NothingTypes
      <2> QED BY <1>1, <2>1, BeginTypeInv DEF Heal, AllOps, Steps
<1>2. CASE ReadReserved(w)
      <2>1. audit' \in [Workers -> [reserved: Nat, held: Nat]]
            BY <1>0, <1>2 DEF ReadReserved, TypeOK
      <2>2. pc' \in [Workers -> Steps] /\ LoadersEnd'
            BY <1>2, GotoTypes DEF ReadReserved, Steps
      <2> QED BY <1>0, <1>2, <2>1, <2>2 DEF ReadReserved, Calm, TypeInv, TypeOK, database
<1>3. CASE ReadHeld(w)
      <2>1. CASE Return(w)
            BY <1>0, <1>3, <2>1, ReturnTypeInv DEF ReadHeld, Calm
      <2>2. CASE ~Return(w)
            <3>1. Goto(w, "verifyAgain") /\ UNCHANGED <<database, locals>> /\ Calm /\ told' = told
                  BY <1>3, <2>2 DEF ReadHeld
            <3>2. pc' \in [Workers -> Steps] /\ LoadersEnd'
                  BY <3>1, GotoTypes DEF Steps, locals
            <3> QED BY <1>0, <3>1, <3>2 DEF Calm, TypeInv, TypeOK, database, locals
      <2> QED BY <2>1, <2>2
<1>4. CASE ReadHeldAgain(w)
      <2>1. CASE Return(w)
            BY <1>0, <1>4, <2>1, ReturnTypeInv DEF ReadHeldAgain, Calm
      <2>2. CASE ~Return(w)
            <3>1. /\ audit' = [audit EXCEPT ![w] = [reserved |-> audit[w].reserved, held |-> Held]]
                  /\ Goto(w, "replay") /\ UNCHANGED <<database, job, row, event, told>> /\ Calm
                  BY <1>4, <2>2 DEF ReadHeldAgain
            <3>2. pc' \in [Workers -> Steps] /\ LoadersEnd'
                  BY <3>1, GotoTypes DEF Steps
            <3>3. audit' \in [Workers -> [reserved: Nat, held: Nat]]
                  BY <1>0, <1>h, <3>1 DEF TypeOK
            <3> QED BY <1>0, <3>1, <3>2, <3>3 DEF Calm, TypeInv, TypeOK, database
      <2> QED BY <2>1, <2>2
<1>5. CASE CommitHealed(w)
      <2> DEFINE healed == [s \in Sessions |->
                     IF sessions[s].status \in Terminal
                     THEN [sessions[s] EXCEPT !.reserved = 0, !.released = TRUE]
                     ELSE sessions[s]]
      <2>1. healed \in [Sessions -> SessionRow]
            <3>1. ASSUME NEW r \in SessionRow
                  PROVE  [r EXCEPT !.reserved = 0, !.released = TRUE] \in SessionRow
                  BY DEF SessionRow
            <3>2. sessions \in [Sessions -> SessionRow]
                  BY <1>0 DEF TypeOK
            <3> QED BY <3>1, <3>2
      <2>2. events \in [Sessions -> EventRow]
            BY <1>0 DEF TypeOK
      <2>3. CommitWith(w, healed, events) /\ Done(w) /\ Calm /\ told' = told
            BY <1>5 DEF CommitHealed
      <2> HIDE DEF healed
      <2> QED BY <1>0, <2>1, <2>2, <2>3, CommitTypeInv
<1> QED BY <1>1, <1>2, <1>3, <1>4, <1>5 DEF AuditStep

LEMMA NextTypes == TypeInv /\ [Next]_vars => TypeInv'
<1> SUFFICES ASSUME TypeInv, [Next]_vars PROVE TypeInv'
    OBVIOUS
<1>0. /\ TypeOK /\ failures \in 0..MaxFailures /\ told \in [Sessions -> SUBSET Nat]
      BY DEF TypeInv, TypeOK
<1>1. ASSUME NEW w \in Handlers, Request(w) PROVE TypeInv'
      <2>1. w \in Workers
            BY DEF Workers
      <2> QED BY <1>1, <2>1, RequestTypes
<1>2. ASSUME NEW w \in Reconcilers, NEW s \in Sessions, Reap(w, s) PROVE TypeInv'
      <2>1. w \in Workers
            BY DEF Workers
      <2> QED BY <1>2, <2>1, BeginTypeInv DEF Reap, AllOps, Steps, Ending, Charging
<1>3. ASSUME NEW w \in Workers, Step(w) PROVE TypeInv'
      <2>1. CASE Victim(w)
            BY <1>0, <2>1, ReturnTypeInv DEF Victim, Calm
      <2> QED BY <1>3, <2>1, OpeningTypes, LoadingTypes, ReleasingTypes, EndingTypes DEF Step
<1>4. ASSUME NEW w \in Workers, Fail(w) PROVE TypeInv'
      <2>1. failures' \in 0..MaxFailures
            BY <1>0, <1>4, OpsAssumption DEF Fail
      <2> QED BY <1>0, <1>4, <2>1, ReturnTypeInv DEF Fail
<1>5. ASSUME NEW s \in Sessions, Lapse(s) PROVE TypeInv'
      <2>1. due' \in [Sessions -> BOOLEAN]
            BY <1>0, <1>5 DEF Lapse, TypeOK
      <2> QED BY <1>5, <2>1 DEF Lapse, TypeInv, TypeOK, LoadersEnd, database, locals
<1>6. ASSUME NEW w \in Reconcilers, Heal(w) \/ AuditStep(w) PROVE TypeInv'
      <2>1. w \in Workers
            BY DEF Workers
      <2> QED BY <1>6, <2>1, HealingTypes
<1>7. CASE UNCHANGED vars
      BY <1>7 DEF vars, TypeInv, TypeOK, LoadersEnd, database, locals
<1> QED BY <1>1, <1>2, <1>3, <1>4, <1>5, <1>6, <1>7 DEF Next, CallNext

\* Every variable keeps its type, whatever runs, an audit and its repair among
\* them: no amount of a wallet, a session or an event goes below zero (the CHECK
\* constraints of the wallet row).
THEOREM TypeCorrect == Spec => []TypeOK
<1>1. Init => TypeInv
      BY InitHolds DEF Init, IInv, TypeInv, LoadersEnd
<1>2. TypeInv => TypeOK
      BY DEF TypeInv
<1> QED BY <1>1, <1>2, NextTypes, PTL DEF Spec
=============================================================================
