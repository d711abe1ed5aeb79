----------------------------- MODULE VoiceLines -----------------------------
(* The calls of one user: voice_agent_service.open_call and                  *)
(* relay_candidates, and from voice_call_lifecycle.py the counts they rely   *)
(* on and the sweep of holds without a call. A call is dialled in several    *)
(* transactions (hold, row, recount, offer, answer) and any of them may be   *)
(* the last one its process commits. How a call ends and what it costs is    *)
(* VoiceCall's; here it ends, and its peer lives on as long as it likes.     *)
EXTENDS Integers, Sequences, FiniteSetsExt

CONSTANTS
    Calls,          \* calls the user tries to open, each in a request of its own
    Relays,         \* requests that relay candidates
    Limit,          \* voice_agent_max_concurrent_per_user
    Exempt,         \* UNPROVEN_EXEMPT
    MaxCandidates,  \* MAX_CANDIDATES_PER_CALL
    MaxBatch,       \* bound: candidates in a request
    MaxFailures     \* bound: deaths, failed commits and probes without an answer

NumbersAssumption ==
    Limit \in Nat \ {0} /\ {Exempt, MaxCandidates, MaxBatch, MaxFailures} \subseteq Nat

VARIABLES
    opener,     \* each call: the next step of the request that opens it
    counted,    \* each call: the live calls its request counted
    held,       \* each call: its session still holds the ceiling
    row,        \* each call: its row
    aged,       \* calls whose session is older than unanswered_grace
    peer,       \* each call: the agent's connection
    proven,     \* calls that have proved they connected
    unasked,    \* history: calls opened when the agent could not be asked
    order,      \* calls that were answered and ended, the latest last
    orphans,    \* the sweep's list of holds without a call
    spent,      \* each call: candidates taken off its budget
    relayed,    \* each call: candidates on their way to the agent
    relay,      \* each relay: the call it serves, the budget it read, what it wants
    failures

call     == <<held, row, peer, order>>
lines    == <<opener, counted, call, aged, proven, unasked>>
budget   == <<spent, relayed, relay>>
vars     == <<lines, orphans, budget, failures>>

Idle == [on |-> FALSE, call |-> CHOOSE c \in Calls : TRUE, read |-> 0, wants |-> 0]

TypeOK ==
    /\ opener \in [Calls -> {"idle", "linger", "hold", "row", "recount", "offer",
                             "answer", "release", "stamp", "done", "failed", "dead"}]
    /\ counted \in [Calls -> 0..Cardinality(Calls)]
    /\ held \in [Calls -> BOOLEAN]
    /\ row \in [Calls -> {"none", "dialled", "answered", "ended"}]
    /\ {aged, proven, unasked, orphans} \subseteq SUBSET Calls
    /\ peer \in [Calls -> {"none", "up", "gone"}]
    /\ order \in Seq(Calls)
    /\ spent \in [Calls -> 0..MaxCandidates] /\ relayed \in [Calls -> Nat]
    /\ relay \in [Relays -> [on: BOOLEAN, call: Calls, read: 0..MaxCandidates, wants: 0..MaxBatch]]
    /\ failures \in 0..MaxFailures
    /\ \A c \in Calls : row[c] = "answered" => peer[c] # "none"

Init ==
    /\ opener = [c \in Calls |-> "idle"] /\ counted = [c \in Calls |-> 0]
    /\ held = [c \in Calls |-> FALSE] /\ row = [c \in Calls |-> "none"]
    /\ peer = [c \in Calls |-> "none"] /\ order = <<>>
    /\ aged = {} /\ proven = {} /\ unasked = {} /\ orphans = {}
    /\ spent = [c \in Calls |-> 0] /\ relayed = [c \in Calls |-> 0]
    /\ relay = [r \in Relays |-> Idle]
    /\ failures = 0

Goto(c, step) == opener' = [opener EXCEPT ![c] = step]
Fail          == failures < MaxFailures /\ failures' = failures + 1

LiveRows == {c \in Calls : row[c] \in {"dialled", "answered"}}

-----------------------------------------------------------------------------
(* open_call. (Its throttles, and the sweep it starts with, which is the     *)
(* sweep below.)                                                            *)

Counts(c) ==
    /\ opener[c] = "idle"
    /\ counted' = [counted EXCEPT ![c] = Cardinality(LiveRows)]
    /\ Goto(c, IF counted'[c] >= Limit THEN "failed" ELSE "linger")
    /\ UNCHANGED <<call, aged, proven, unasked, orphans, budget, failures>>

\* Mutant: the most recent calls are exempt, whatever they proved.
ExemptAlways == SubSeq(order, 1, Len(order) - Exempt)

\* The ended calls to ask about: all but the latest ones, if those never proved
\* that they connected, and not more than Exempt of them.
Asked ==
    LET unproven == {n \in 0..Exempt : /\ n <= Len(order)
                        /\ \A i \in (Len(order) - n + 1)..Len(order) : order[i] \notin proven}
    IN  SubSeq(order, 1, Len(order) - Max(unproven))

StillHeld == {i \in 1..Len(Asked) : peer[Asked[i]] = "up"}

\* lingering_lines: an agent that cannot be asked counts nothing.
Lingers(c) ==
    /\ opener[c] = "linger"
    /\ \/ /\ Goto(c, IF counted[c] + Cardinality(StillHeld) >= Limit THEN "failed" ELSE "hold")
          /\ UNCHANGED <<unasked, failures>>
       \/ Fail /\ Goto(c, "hold") /\ unasked' = unasked \cup {c}
    /\ UNCHANGED <<counted, call, aged, proven, orphans, budget>>

\* open_oneshot.
Holds(c) ==
    /\ opener[c] = "hold"
    /\ held' = [held EXCEPT ![c] = TRUE]
    /\ Goto(c, "row")
    /\ UNCHANGED <<counted, row, peer, order, aged, proven, unasked, orphans, budget, failures>>

Dials(c) ==
    /\ opener[c] = "row"
    /\ \/ row' = [row EXCEPT ![c] = "dialled"] /\ Goto(c, "recount") /\ UNCHANGED failures
       \/ Fail /\ Goto(c, "release") /\ UNCHANGED row
    /\ UNCHANGED <<counted, held, peer, order, aged, proven, unasked, orphans, budget>>

\* Mutant: the count made before the row was there is taken to be enough.
CountedAlready(c) ==
    /\ opener[c] = "recount"
    /\ Goto(c, "offer")
    /\ UNCHANGED <<counted, call, aged, proven, unasked, orphans, budget, failures>>

\* "Counted again now that this call is a row": the others.
Recounts(c) ==
    /\ opener[c] = "recount"
    /\ Goto(c, IF Cardinality(LiveRows \ {c}) >= Limit THEN "release" ELSE "offer")
    /\ UNCHANGED <<counted, call, aged, proven, unasked, orphans, budget, failures>>

\* The agent answers; or it refuses, times out, or the request is cancelled.
Offers(c) ==
    /\ opener[c] = "offer"
    /\ \/ peer' = [peer EXCEPT ![c] = "up"] /\ Goto(c, "answer")
       \/ Goto(c, "release") /\ UNCHANGED peer
    /\ UNCHANGED <<counted, held, row, order, aged, proven, unasked, orphans, budget, failures>>

\* The answer is recorded on a row that is still live. A commit that fails may
\* have happened all the same.
Answers(c) ==
    LET recorded == [row EXCEPT ![c] = IF @ = "dialled" THEN "answered" ELSE @]
    IN  /\ opener[c] = "answer"
        /\ \/ /\ row' = recorded
              /\ Goto(c, IF row[c] = "dialled" THEN "done" ELSE "failed") /\ UNCHANGED failures
           \/ Fail /\ row' \in {row, recorded} /\ Goto(c, "release")
        /\ UNCHANGED <<counted, held, peer, order, aged, proven, unasked, orphans, budget>>

\* _give_up: the session, then the row. It never raises: the sweeper is the backstop.
GivesUp(c) ==
    /\ opener[c] = "release"
    /\ \/ held' = [held EXCEPT ![c] = FALSE] /\ Goto(c, "stamp") /\ UNCHANGED failures
       \/ Fail /\ Goto(c, "failed") /\ UNCHANGED held
    /\ UNCHANGED <<counted, row, peer, order, aged, proven, unasked, orphans, budget>>

End(c) ==
    /\ row' = [row EXCEPT ![c] = "ended"]
    /\ order' = IF row[c] = "answered" THEN Append(order, c) ELSE order

StampsGivenUp(c) ==
    /\ opener[c] = "stamp"
    /\ \/ /\ Goto(c, "failed") /\ UNCHANGED failures
          /\ IF c \in LiveRows THEN End(c) ELSE UNCHANGED <<row, order>>
       \/ Fail /\ Goto(c, "failed") /\ UNCHANGED <<row, order>>
    /\ UNCHANGED <<counted, held, peer, aged, proven, unasked, orphans, budget>>

Dies(c) ==
    /\ opener[c] \notin {"idle", "done", "failed", "dead"} /\ Fail
    /\ Goto(c, "dead")
    /\ UNCHANGED <<counted, call, aged, proven, unasked, orphans, budget>>

-----------------------------------------------------------------------------
(* The world, the other ways a call ends, and the sweep.                    *)

PeerDrops(c) ==
    /\ peer[c] = "up"
    /\ peer' = [peer EXCEPT ![c] = "gone"]
    /\ UNCHANGED <<opener, counted, held, row, order, aged, proven, unasked, orphans, budget, failures>>

\* It takes minutes: a request that opens another call is not as slow as that.
Proves(c) ==
    /\ row[c] = "answered" /\ peer[c] = "up" /\ c \notin proven
    /\ \A o \in Calls : opener[o] \in {"idle", "done", "failed", "dead"}
    /\ proven' = proven \cup {c}
    /\ UNCHANGED <<opener, counted, call, aged, unasked, orphans, budget, failures>>

\* A hang-up, or the sweep of calls past their deadlines: VoiceCall, in one step.
\* The sweep waits longer than an offer may take; a hang-up does not.
Settles(c) ==
    /\ c \in LiveRows
    /\ End(c)
    /\ held' = [held EXCEPT ![c] = FALSE]
    /\ UNCHANGED <<opener, counted, peer, aged, proven, unasked, orphans, budget, failures>>

\* Past unanswered_grace, which no request that lives is held up for between the
\* commit of the hold and the commit of the row.
Ages(c) ==
    /\ held[c] /\ row[c] = "none" /\ opener[c] \in {"failed", "dead"} /\ c \notin aged
    /\ aged' = aged \cup {c}
    /\ UNCHANGED <<opener, counted, call, proven, unasked, orphans, budget, failures>>

\* Mutant: however young the hold is.
OrphanOfAnyAge(c) == held[c] /\ row[c] = "none"

\* Mutant: a call row is looked for that ended.
OrphanOfEnded(c) == held[c] /\ row[c] = "ended" /\ c \in aged

Orphan(c) == held[c] /\ row[c] = "none" /\ c \in aged

\* _sweep_orphans reads its list, and then gives them back one by one.
Scans ==
    /\ orphans = {}
    /\ orphans' = {c \in Calls : Orphan(c)}
    /\ UNCHANGED <<lines, budget, failures>>

FreesOrphan(c) ==
    /\ c \in orphans
    /\ orphans' = orphans \ {c}
    /\ \/ held' = [held EXCEPT ![c] = FALSE] /\ UNCHANGED failures
       \/ Fail /\ UNCHANGED held
    /\ UNCHANGED <<opener, counted, row, peer, order, aged, proven, unasked, budget>>

-----------------------------------------------------------------------------
(* relay_candidates: a budget for each call, taken by compare-and-swap.     *)

Reads(r, c, n) ==
    /\ ~relay[r].on /\ row[c] = "answered" /\ spent[c] < MaxCandidates
    /\ relay' = [relay EXCEPT ![r] = [on |-> TRUE, call |-> c, read |-> spent[c], wants |-> n]]
    /\ UNCHANGED <<lines, orphans, spent, relayed, failures>>

\* What of its batch fits the budget it read.
Take(r) == Min({relay[r].wants, MaxCandidates - relay[r].read})

\* Mutant: the counter is not compared, and is set to what was read and taken.
TakesBlindly(r) ==
    LET c == relay[r].call
    IN  /\ relay[r].on
        /\ spent' = [spent EXCEPT ![c] = relay[r].read + Take(r)]
        /\ relayed' = [relayed EXCEPT ![c] = @ + Take(r)]
        /\ relay' = [relay EXCEPT ![r] = Idle]
        /\ UNCHANGED <<lines, orphans, failures>>

\* Taken and on its way, or another relay was faster and the request reads again.
Takes(r) ==
    LET c == relay[r].call
    IN  /\ relay[r].on
        /\ IF row[c] = "answered" /\ spent[c] = relay[r].read
           THEN /\ spent' = [spent EXCEPT ![c] = @ + Take(r)]
                /\ \/ relayed' = [relayed EXCEPT ![c] = @ + Take(r)] /\ UNCHANGED failures
                   \/ Fail /\ UNCHANGED relayed
           ELSE UNCHANGED <<spent, relayed, failures>>
        /\ relay' = [relay EXCEPT ![r] = Idle]
        /\ UNCHANGED <<lines, orphans>>

-----------------------------------------------------------------------------
OpenStep(c) ==
    \/ Counts(c) \/ Lingers(c) \/ Holds(c) \/ Dials(c) \/ Recounts(c) \/ Offers(c)
    \/ Answers(c) \/ GivesUp(c) \/ StampsGivenUp(c) \/ Dies(c)

Next ==
    \/ Scans
    \/ \E c \in Calls : \/ OpenStep(c) \/ PeerDrops(c) \/ Proves(c) \/ Settles(c) \/ Ages(c)
                        \/ FreesOrphan(c)
                        \/ \E r \in Relays : \E n \in 1..MaxBatch : Reads(r, c, n)
    \/ \E r \in Relays : Takes(r)

Spec == Init /\ [][Next]_vars

\* The sweeper runs for ever, time passes, and requests go on until they end. A
\* call that nobody answered is swept once its grace is over.
Fairness ==
    /\ WF_vars(Scans)
    /\ \A c \in Calls : /\ WF_vars(OpenStep(c)) /\ WF_vars(Ages(c)) /\ WF_vars(FreesOrphan(c))
                        /\ WF_vars(Settles(c))
FairSpec == Spec /\ Fairness

-----------------------------------------------------------------------------
(* Properties.                                                              *)

OnLine(c) == row[c] = "answered" \/ (row[c] = "dialled" /\ opener[c] \in {"offer", "answer"})

\* "Two opens racing both pass the count above, and both see each other here ...
\* neither ever gets a second line" (open_call): calls with an offer out, and
\* answered ones, never exceed the limit.
LineCap == Cardinality({c \in Calls : OnLine(c)}) <= Limit

\* "A line is in use for as long as the agent says so" (lingering_lines): an offer
\* goes out only while the connections of ended calls that had connected leave a
\* line free, unless the agent could not be asked.
LingeringCounts ==
    \A c \in Calls : (opener[c] = "offer" /\ row[c] = "dialled" /\ c \notin unasked)
        => Cardinality({o \in proven : row[o] = "ended" /\ peer[o] = "up"}) < Limit

\* A call whose browser has its answer is paid for: no sweep and no clean-up of a
\* request that failed ever gives its hold back under it.
AnsweredIsPaid ==
    \A c \in Calls : (row[c] = "answered" /\ opener[c] = "done") => held[c]

\* Overlapping relays never send the agent more of a call than was taken off its
\* budget (_take_candidate_budget).
RelayedIsSpent == \A c \in Calls : relayed[c] <= spent[c]

\* The hold of a call that came to nothing is given back, wherever its request
\* failed or died: by the request, by the sweep of calls or by that of orphans.
HoldsGivenBack ==
    \A c \in Calls : (held[c] /\ opener[c] \in {"failed", "dead"}) ~> ~held[c]
=============================================================================
