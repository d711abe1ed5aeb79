------------------------------ MODULE Throttle ------------------------------
(* app/core/throttle.py, the counter of app/core/cache.py it stands on, and  *)
(* tts_service._guard_concurrency, which counts on the same counter. The     *)
(* counter is a Redis key: INCR, and an EXPIRE in a call of its own for the  *)
(* caller that created it. Whatever fails, increment answers 0, and 0 lets   *)
(* the caller through. Times are ticks of a clock the processes share.       *)
EXTENDS Integers, FiniteSets

CONSTANTS
    Callers,        \* connections that make attempts for one subject
    Guards,         \* which of "enforce" and "concurrency" an instance has
    Limit,
    Window,         \* window_seconds, or CONCURRENCY_WINDOW_SECONDS
    MaxCount,       \* bound: attempts counted on one key
    MaxTime,        \* bound: the last tick
    MaxFailures     \* bound: calls to Redis that fail or whose answer is lost

GuardsAssumption == Guards \subseteq {"enforce", "concurrency"}
LimitAssumption ==
    {Limit, Window, MaxCount, MaxTime} \subseteq Nat \ {0} /\ MaxFailures \in Nat

VARIABLES
    guard,      \* who asks
    now,
    counter,    \* each key: its count, when it was created, when it falls out
    pc,         \* each caller: about to ask, or to set the expiry
    told,       \* each caller: when its 429 said to come back
    tripped,    \* each caller: key and creation of the count it was refused on
    letIn,      \* history, each window of the clock: attempts let through
    failures

vars == <<guard, now, counter, pc, told, tripped, letIn, failures>>

Never  == -1
Time   == 0..MaxTime
Starts == {t \in Time : t % Window = 0}
WindowStart(t) == t - (t % Window)

\* rate_limit_key names the window, user_sessions_key does not.
KeyAt(t) == IF guard = "enforce" THEN WindowStart(t) ELSE 0

Counter == [n: 0..MaxCount, born: Time, ends: 0..(MaxTime + Window) \cup {Never}]
Missing == [n |-> 0, born |-> 0, ends |-> Never]

TypeOK ==
    /\ guard \in Guards /\ now \in Time
    /\ counter \in [Starts -> Counter]
    /\ pc \in [Callers -> {"idle", "expire"}]
    /\ told \in [Callers -> 0..(MaxTime + Window) \cup {Never}]
    /\ tripped \in [Callers -> [key: Starts, born: Time]]
    /\ letIn \in [Starts -> Nat] /\ failures \in 0..MaxFailures

Init ==
    /\ guard \in Guards /\ now = 0
    /\ counter = [k \in Starts |-> Missing]
    /\ pc = [c \in Callers |-> "idle"]
    /\ told = [c \in Callers |-> Never]
    /\ tripped = [c \in Callers |-> [key |-> 0, born |-> 0]]
    /\ letIn = [k \in Starts |-> 0]
    /\ failures = 0

-----------------------------------------------------------------------------

Fail == failures < MaxFailures /\ failures' = failures + 1

LetThrough(c) ==
    /\ letIn' = [letIn EXCEPT ![WindowStart(now)] = @ + 1]
    /\ told' = [told EXCEPT ![c] = Never]
    /\ tripped' = [tripped EXCEPT ![c] = [key |-> 0, born |-> 0]]

\* retry_after: to the end of the clock's window, or a whole window.
RetryAfter ==
    IF guard = "enforce" THEN WindowStart(now) + Window - now ELSE Window

Refuse(c, k) ==
    /\ told' = [told EXCEPT ![c] = now + RetryAfter]
    /\ tripped' = [tripped EXCEPT ![c] = [key |-> k, born |-> counter[k].born]]
    /\ UNCHANGED letIn

\* Mutant: one attempt more than the limit.
OneMore(used) == used > Limit + 1

TooMany(used) == used > Limit

\* One attempt of a caller that was never refused, or that waited as it was told.
Attempts(c) == pc[c] = "idle" /\ now >= told[c] /\ counter[KeyAt(now)].n < MaxCount

\* The key's next state: INCR creates a missing key, without an expiry.
Bumped(k) == [counter EXCEPT ![k] = [n |-> @.n + 1,
                 born |-> IF @.n = 0 THEN now ELSE @.born, ends |-> @.ends]]

\* INCR answers 1: this caller created the key, and the expiry is still to be set.
Creates(c) ==
    /\ Attempts(c) /\ counter[KeyAt(now)].n = 0
    /\ counter' = Bumped(KeyAt(now))
    /\ pc' = [pc EXCEPT ![c] = "expire"]
    /\ UNCHANGED <<guard, now, told, tripped, letIn, failures>>

\* INCR answers more than 1, and the caller compares it with the limit.
Counts(c) ==
    LET k == KeyAt(now)
    IN  /\ Attempts(c) /\ counter[k].n > 0
        /\ counter' = Bumped(k)
        /\ IF TooMany(counter[k].n + 1) THEN Refuse(c, k) ELSE LetThrough(c)
        /\ UNCHANGED <<guard, now, pc, failures>>

\* INCR fails, before or after Redis counted: 0, and the caller goes through.
CountFails(c) ==
    /\ Attempts(c) /\ Fail
    /\ counter' \in {counter, Bumped(KeyAt(now))}
    /\ LetThrough(c)
    /\ UNCHANGED <<guard, now, pc>>

\* EXPIRE; the first attempt is always within the limit.
Expires(c) ==
    /\ pc[c] = "expire"
    /\ counter' = [counter EXCEPT ![KeyAt(now)].ends = now + Window]
    /\ pc' = [pc EXCEPT ![c] = "idle"]
    /\ LetThrough(c)
    /\ UNCHANGED <<guard, now, failures>>

\* EXPIRE fails, or the process dies before it: the key stays without one.
ExpireFails(c) ==
    /\ pc[c] = "expire" /\ Fail
    /\ pc' = [pc EXCEPT ![c] = "idle"]
    /\ LetThrough(c)
    /\ UNCHANGED <<guard, now, counter>>

\* A call to Redis takes less than a tick. Redis drops the keys whose time is up.
Tick ==
    /\ now < MaxTime /\ \A c \in Callers : pc[c] = "idle"
    /\ now' = now + 1
    /\ counter' = [k \in Starts |-> IF counter[k].ends = now + 1 THEN Missing ELSE counter[k]]
    /\ UNCHANGED <<guard, pc, told, tripped, letIn, failures>>

Next ==
    \/ Tick
    \/ \E c \in Callers : \/ Creates(c) \/ Counts(c) \/ CountFails(c)
                          \/ Expires(c) \/ ExpireFails(c)

Spec == Init /\ [][Next]_vars

-----------------------------------------------------------------------------
(* Properties.                                                              *)

\* One budget for all processes: however their attempts interleave, a window of
\* the clock lets through what the limit says, and one more for each failure of
\* Redis (throttle.enforce; "failing open is the decision").
WithinBudget ==
    guard = "enforce" => \A w \in Starts : letIn[w] <= Limit + failures

\* "By the time it has rolled, the count this caller tripped on is gone"
\* (tts_service.py:384): a caller that waited as long as it was told meets
\* another count.
CountRolls ==
    \A c \in Callers :
        (told[c] # Never /\ now >= told[c])
            => \/ KeyAt(now) # tripped[c].key
               \/ counter[KeyAt(now)].n = 0
               \/ counter[KeyAt(now)].born # tripped[c].born
=============================================================================
