--------------------------- MODULE ServiceRequests ---------------------------
(* Signed requests of the other services: deps.verify_internal_caller, the   *)
(* claim of a nonce in core/cache.py, and service_key_service. A request is  *)
(* signed once and may arrive again and again: the network, a proxy or a     *)
(* client's retry delivers the same headers. Each arrival is a handler that  *)
(* reads the key, compares clocks, reads the body, claims the nonce and      *)
(* counts the use, with an await before each. A tick is a second of our      *)
(* clock; a key of the cache falls out somewhere within its last one.        *)
EXTENDS Integers

CONSTANTS
    Requests,       \* signed requests, each with a nonce of its own
    Handlers,       \* arrivals handled at a time
    Nobody,
    Window,         \* internal_signature_window_seconds
    Ahead, Behind,  \* how far a caller's clock is from ours
    BodyTime,       \* the longest a body takes to arrive
    Lifetime,       \* DEFAULT_KEY_LIFETIME_DAYS
    MaxTime,        \* bound: the last tick
    MaxFailures     \* bound: Redis calls without an answer, failed commits, deaths

\* The window leaves room for a clock that is ahead and for a slow body.
TimesAssumption ==
    /\ {Window, Ahead, Behind, BodyTime, Lifetime, MaxTime, MaxFailures} \subseteq Nat
    /\ Ahead + BodyTime < Window
NobodyAssumption == Nobody \notin Requests

VARIABLES
    now,
    key,        \* the caller's row of service_api_keys: how it stands, its use_count
    stamp,      \* each request: its timestamp header, by the caller's clock
    nonce,      \* each request: when its nonce was claimed, while Redis knows it
    pc,         \* each handler: its next step
    req,        \* each handler: the request it handles
    checked,    \* each handler: when it compared the clocks
    honoured,   \* history, each request: arrivals that went on to their route
    failures

vars == <<now, key, stamp, nonce, pc, req, checked, honoured, failures>>

Never  == -1
Unsent == -Ahead - Behind - 1
Time   == 0..MaxTime

\* A use is counted when an arrival goes on to its route, and only then.
TypeOK ==
    /\ now \in Time
    /\ key \in [status: {"none", "active", "revoked"}, born: Time, uses: Nat]
    /\ stamp \in [Requests -> Unsent..(MaxTime + Ahead)]
    /\ nonce \in [Requests -> Time \cup {Never}]
    /\ pc \in [Handlers -> {"idle", "check", "claim", "touch"}]
    /\ req \in [Handlers -> Requests \cup {Nobody}]
    /\ checked \in [Handlers -> Time]
    /\ honoured \in [Requests -> Nat] /\ failures \in 0..MaxFailures
    /\ \A r \in Requests : honoured[r] <= key.uses

Init ==
    /\ now = 0
    /\ key = [status |-> "none", born |-> 0, uses |-> 0]
    /\ stamp = [r \in Requests |-> Unsent] /\ nonce = [r \in Requests |-> Never]
    /\ pc = [h \in Handlers |-> "idle"] /\ req = [h \in Handlers |-> Nobody]
    /\ checked = [h \in Handlers |-> 0]
    /\ honoured = [r \in Requests |-> 0] /\ failures = 0

Goto(h, step) == pc' = [pc EXCEPT ![h] = step] /\ UNCHANGED req
Leave(h) ==
    /\ pc' = [pc EXCEPT ![h] = "idle"] /\ req' = [req EXCEPT ![h] = Nobody]
    /\ checked' = [checked EXCEPT ![h] = 0]
Fail == failures < MaxFailures /\ failures' = failures + 1

-----------------------------------------------------------------------------
(* service_key_service.                                                     *)

Mint ==
    /\ key.status = "none"
    /\ key' = [key EXCEPT !.status = "active", !.born = now]
    /\ UNCHANGED <<now, stamp, nonce, pc, req, checked, honoured, failures>>

\* One UPDATE, of a key that is not revoked yet.
Revoke ==
    /\ key.status = "active"
    /\ key' = [key EXCEPT !.status = "revoked"]
    /\ UNCHANGED <<now, stamp, nonce, pc, req, checked, honoured, failures>>

\* load_usable: known, not revoked, not expired.
Usable == key.status = "active" /\ now < key.born + Lifetime

-----------------------------------------------------------------------------
(* The caller, and an arrival.                                              *)

\* sign_request, with the caller's clock.
Signs(r) ==
    /\ stamp[r] = Unsent /\ key.status = "active"
    /\ \E skew \in -Behind..Ahead : stamp' = [stamp EXCEPT ![r] = now + skew]
    /\ UNCHANGED <<now, key, nonce, pc, req, checked, honoured, failures>>

Arrives(h, r) ==
    /\ pc[h] = "idle" /\ stamp[r] # Unsent /\ Usable
    /\ pc' = [pc EXCEPT ![h] = "check"] /\ req' = [req EXCEPT ![h] = r]
    /\ UNCHANGED <<now, key, stamp, nonce, checked, honoured, failures>>

InWindow(r) == LET skew == now - stamp[r] IN -Window <= skew /\ skew <= Window

\* The clocks are compared before the body is read and its signature checked.
Checks(h) ==
    /\ pc[h] = "check"
    /\ IF InWindow(req[h])
       THEN Goto(h, "claim") /\ checked' = [checked EXCEPT ![h] = now]
       ELSE Leave(h)
    /\ UNCHANGED <<now, key, stamp, nonce, honoured, failures>>

Claimed(r) == [nonce EXCEPT ![r] = now]

\* SET NX EX; a second claim is a 401.
Claims(h) ==
    /\ pc[h] = "claim"
    /\ IF nonce[req[h]] = Never
       THEN nonce' = Claimed(req[h]) /\ Goto(h, "touch") /\ UNCHANGED checked
       ELSE Leave(h) /\ UNCHANGED nonce
    /\ UNCHANGED <<now, key, stamp, honoured, failures>>

\* Redis does not answer, or does not exist: whether it stored the nonce or not,
\* the arrival goes on. "Fails open."
ClaimFails(h) ==
    /\ pc[h] = "claim" /\ Fail
    /\ nonce' \in {nonce, IF nonce[req[h]] = Never THEN Claimed(req[h]) ELSE nonce}
    /\ Goto(h, "touch")
    /\ UNCHANGED <<now, key, stamp, checked, honoured>>

\* touch counts in the database and commits, and the route runs.
Touches(h) ==
    /\ pc[h] = "touch"
    /\ key' = [key EXCEPT !.uses = @ + 1]
    /\ honoured' = [honoured EXCEPT ![req[h]] = @ + 1]
    /\ Leave(h)
    /\ UNCHANGED <<now, stamp, nonce, failures>>

\* The process dies, or the commit of touch fails: the nonce stays claimed.
Breaks(h) ==
    /\ pc[h] # "idle" /\ Fail
    /\ Leave(h)
    /\ UNCHANGED <<now, key, stamp, nonce, honoured>>

-----------------------------------------------------------------------------
(* Time.                                                                    *)

\* Mutant: a nonce is remembered for one window.
OneWindow == Window

NonceLife == 2 * Window

FallsOut(r) ==
    /\ nonce[r] # Never /\ now >= nonce[r] + NonceLife
    /\ nonce' = [nonce EXCEPT ![r] = Never]
    /\ UNCHANGED <<now, key, stamp, pc, req, checked, honoured, failures>>

\* A body takes BodyTime at most; a nonce does not outlive its last second.
Tick ==
    /\ now < MaxTime
    /\ \A h \in Handlers : pc[h] = "claim" => now - checked[h] < BodyTime
    /\ \A r \in Requests : nonce[r] # Never => now < nonce[r] + NonceLife
    /\ now' = now + 1
    /\ UNCHANGED <<key, stamp, nonce, pc, req, checked, honoured, failures>>

Next ==
    \/ Mint \/ Revoke \/ Tick
    \/ \E r \in Requests : Signs(r) \/ FallsOut(r) \/ \E h \in Handlers : Arrives(h, r)
    \/ \E h \in Handlers : \/ Checks(h) \/ Claims(h) \/ ClaimFails(h) \/ Touches(h)
                           \/ Breaks(h)

Spec == Init /\ [][Next]_vars

-----------------------------------------------------------------------------
(* Properties.                                                              *)

\* "The timestamp plus nonce bound replay to a five-minute window that a Redis
\* set closes entirely" (signing.py:39): however often, and however late, a
\* request arrives, it is honoured once, and once more for each time Redis does
\* not answer: by the time its nonce is forgotten, its timestamp is too old.
HonouredOnce == \A r \in Requests : honoured[r] <= 1 + failures
==============================================================================
