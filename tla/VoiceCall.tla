------------------------------ MODULE VoiceCall ------------------------------
(* app/services/ai/voice_call_lifecycle.py and the requests of one call in   *)
(* voice_agent_service.py: how a call ends and what it is billed, with the   *)
(* browser's media out of sight. Heartbeats, hang-ups and sweeps (callers)   *)
(* each load the row, ask the agent, charge the session and stamp the row,   *)
(* with commits in between; between two steps anyone else may run and the    *)
(* clock may move. Times are ticks of one clock, ours.                       *)
EXTENDS Integers, FiniteSetsExt

CONSTANTS
    Callers,            \* connections that serve requests or sweep
    Trusted,            \* liveness_is_trustworthy: the agent can be asked
    Beat,               \* voice_agent_heartbeat_seconds
    Timeout,            \* voice_agent_heartbeat_timeout_seconds
    Ceiling,            \* voice_agent_max_session_seconds
    UnansweredGrace,    \* unanswered_grace()
    NudgeGrace,         \* NUDGE_GRACE_SECONDS
    UnprovenGrace,      \* NEVER_CONNECTED_GRACE_SECONDS
    MaxTime,            \* bound: the last tick
    MaxFailures         \* bound: deaths of a process, and probes without an answer

ASSUME TimesAssumption ==
    /\ {Beat, Timeout, Ceiling, UnansweredGrace, NudgeGrace, UnprovenGrace, MaxTime,
        MaxFailures} \subseteq Nat
    /\ 0 < Beat /\ 2 * Beat <= Timeout /\ 0 < Ceiling   \* Settings refuses less
    /\ 0 < NudgeGrace /\ NudgeGrace <= UnprovenGrace
ASSUME TrustAssumption == Trusted \in BOOLEAN

Never == -1
Time  == 0..MaxTime
Stamp == Time \cup {Never}

\* The columns of voice_calls that decide anything here.
CallRow == [answered: Stamp, connected: Stamp, lastSeen: Time, agentSeen: Stamp,
            nudged: Stamp, ended: Stamp, gone: BOOLEAN]

\* open_call has just committed the row, next to the session that pays for it.
Recorded == [answered |-> Never, connected |-> Never, lastSeen |-> 0, agentSeen |-> Never,
             nudged |-> Never, ended |-> Never, gone |-> FALSE]

VARIABLES
    now,
    row,       \* the call
    meter,     \* its metered session: "live", or closed with what it charged
    peer,      \* the agent's peer connection: a fact the code can only probe
    nudge,     \* when the agent took the first unroutable candidate
    media,     \* the peer connection was up at some time
    opener,    \* the request that opens the call: its next step
    pc,        \* each caller: its next step
    mine,      \* each caller: the row as it last loaded it
    at,        \* each caller: the `now` it captured
    gone,      \* each caller: the agent told it the call is not there
    failures,
    vouched    \* history: the latest sign of life the row ever showed

world    == <<peer, nudge, media>>
locals   == <<mine, at, gone>>
vars     == <<now, row, meter, world, opener, pc, locals, failures>>

TypeOK ==
    /\ now \in Time /\ row \in CallRow
    /\ meter \in [live: BOOLEAN, charged: 0..(Ceiling + MaxTime)]
    /\ peer \in {"none", "checking", "up", "gone"} /\ nudge \in Stamp /\ media \in BOOLEAN
    /\ opener \in {"offer", "record", "abandon", "stamp", "done"}
    /\ pc \in [Callers -> {"idle", "ask", "keep", "beatask", "revive", "again", "fresh",
                           "charge", "nudge", "stamp"}]
    /\ mine \in [Callers -> CallRow] /\ at \in [Callers -> Time] /\ gone \in [Callers -> BOOLEAN]
    /\ failures \in 0..MaxFailures /\ vouched \in Time

Init ==
    /\ now = 0 /\ row = Recorded
    /\ meter = [live |-> TRUE, charged |-> 0]
    /\ peer = "none" /\ nudge = Never /\ media = FALSE
    /\ opener = "offer"
    /\ pc = [c \in Callers |-> "idle"]
    /\ mine = [c \in Callers |-> Recorded]
    /\ at = [c \in Callers |-> 0] /\ gone = [c \in Callers |-> FALSE]
    /\ failures = 0 /\ vouched = 0

-----------------------------------------------------------------------------
(* The rules, each a function of a loaded row and a time.                   *)

Answered(r)    == r.answered # Never
Live(r)        == r.ended = Never
ProofOfLife(r) == Max({r.lastSeen, r.agentSeen})
Quiet(r, t)    == t - ProofOfLife(r) > Timeout
PastCeiling(r, t) == t - r.answered >= Ceiling

CapEnd(r) == r.answered + Ceiling

\* Mutant: a quiet call is billed to whenever somebody got round to it.
BilledToNow(r, t) == Max({1, Min({t, CapEnd(r)}) - r.connected})

\* billed_duration, for a connected call.
BilledDuration(r, t) ==
    LET end == IF Quiet(r, t) THEN ProofOfLife(r) + Beat ELSE t
    IN  Max({1, Min({end, CapEnd(r)}) - r.connected})

\* proven_connected, of a live call.
ProvenConnected(r, t) ==
    r.nudged # Never /\ t - r.nudged >= NudgeGrace /\ t - r.answered >= UnprovenGrace

\* Mutant: only silence is looked for, never the ceiling.
VerdictOfSilence(r, t) ==
    CASE ~Live(r) -> "none"
      [] Live(r) /\ ~Answered(r) -> IF t - r.lastSeen > UnansweredGrace THEN "settle" ELSE "none"
      [] OTHER -> IF Quiet(r, t) THEN "ask" ELSE "none"

Verdict(r, t) ==
    CASE ~Live(r) -> "none"
      [] Live(r) /\ ~Answered(r) -> IF t - r.lastSeen > UnansweredGrace THEN "settle" ELSE "none"
      [] OTHER -> IF PastCeiling(r, t) THEN "settle" ELSE IF Quiet(r, t) THEN "ask" ELSE "none"

-----------------------------------------------------------------------------
(* Parts of the steps.                                                      *)

Goto(c, step) == pc' = [pc EXCEPT ![c] = step]

Load(c) ==
    /\ mine' = [mine EXCEPT ![c] = row]
    /\ at' = [at EXCEPT ![c] = now]

\* The loaded row is not looked at again.
Drop(c) == mine' = [mine EXCEPT ![c] = Recorded]

Return(c) ==
    /\ Goto(c, "idle")
    /\ mine' = [mine EXCEPT ![c] = Recorded]
    /\ at' = [at EXCEPT ![c] = 0]
    /\ gone' = [gone EXCEPT ![c] = FALSE]

Fail == failures < MaxFailures /\ failures' = failures + 1

Held == peer \in {"checking", "up"}

\* agent_holds: what the probe says, or nothing when it fails or is not believed.
Answers(answer) ==
    \/ answer = (IF ~Trusted THEN "unknown" ELSE IF Held THEN "held" ELSE "gone")
       /\ UNCHANGED failures
    \/ answer = "unknown" /\ Fail

Probed == {"held", "gone", "unknown"}

\* The agent takes a nudge for a peer it holds.
TakesNudge == nudge' = IF nudge = Never THEN now ELSE nudge

-----------------------------------------------------------------------------
(* Opening: the offer, and the answer's record.                             *)

OfferAnswered ==
    /\ opener = "offer"
    /\ peer' = "checking" /\ opener' = "record"
    /\ UNCHANGED <<now, row, meter, nudge, media, pc, locals, failures>>

\* Mutant: a failed offer is stamped, and its session left to the reaper.
OfferFailedStamped ==
    /\ opener = "offer"
    /\ opener' = "stamp"
    /\ UNCHANGED <<now, row, meter, world, pc, locals, failures>>

\* Refused, cancelled or timed out: _give_up abandons, then stamps.
OfferFailed ==
    /\ opener = "offer"
    /\ opener' = "abandon"
    /\ UNCHANGED <<now, row, meter, world, pc, locals, failures>>

\* One conditional UPDATE; over an ended row it matches nothing and is a 503.
RecordAnswer ==
    /\ opener = "record"
    /\ row' = IF Live(row) THEN [row EXCEPT !.answered = now, !.lastSeen = now] ELSE row
    /\ opener' = "done"
    /\ UNCHANGED <<now, meter, world, pc, locals, failures>>

GiveUpAbandons ==
    /\ opener = "abandon"
    /\ meter' = [meter EXCEPT !.live = FALSE]
    /\ opener' = "stamp"
    /\ UNCHANGED <<now, row, world, pc, locals, failures>>

GiveUpStamps ==
    /\ opener = "stamp"
    /\ row' = IF Live(row) THEN [row EXCEPT !.ended = now] ELSE row
    /\ opener' = "done"
    /\ UNCHANGED <<now, meter, world, pc, locals, failures>>

OpenerDies ==
    /\ opener # "done" /\ Fail
    /\ opener' = "done"
    /\ UNCHANGED <<now, row, meter, world, pc, locals>>

-----------------------------------------------------------------------------
(* heartbeat: a client sends its first when the media is up.                *)

HeartbeatTaken ==
    /\ Live(row) /\ Answered(row) /\ ~PastCeiling(row, now) /\ ~Quiet(row, now)

Seen(r, t) == [r EXCEPT !.lastSeen = t, !.connected = IF @ = Never THEN t ELSE @]

Heartbeat(c) ==
    /\ pc[c] = "idle" /\ media
    /\ \/ /\ HeartbeatTaken
          /\ row' = Seen(row, now)
          /\ UNCHANGED <<pc, locals>>
       \/ /\ ~HeartbeatTaken /\ Live(row) /\ Answered(row)
          /\ Load(c)
          /\ Goto(c, IF ~PastCeiling(row, now) THEN "beatask"
                     ELSE IF Quiet(row, now) THEN "ask" ELSE "charge")
          /\ UNCHANGED <<row, gone>>
    /\ UNCHANGED <<now, meter, world, opener, failures>>

BeatAsk(c) ==
    /\ pc[c] = "beatask"
    /\ \E answer \in Probed :
          /\ Answers(answer)
          /\ gone' = [gone EXCEPT ![c] = answer = "gone"]
          /\ Goto(c, IF answer = "held" THEN "revive" ELSE "again")
    /\ Drop(c)
    /\ UNCHANGED <<now, row, meter, world, opener, at>>

\* _revive matches only a live row, whatever the probe said. A first try that
\* failed reads the row again; a second, on the row read again, settles it.
Revive(c) ==
    /\ pc[c] = "revive"
    /\ IF Live(row)
       THEN /\ row' = [Seen(row, at[c]) EXCEPT !.agentSeen = at[c]]
            /\ Return(c)
       ELSE Goto(c, IF Answered(mine[c]) THEN "charge" ELSE "again") /\ UNCHANGED <<row, locals>>
    /\ UNCHANGED <<now, meter, world, opener, failures>>

\* The row is read again after the probe.
BeatAgain(c) ==
    /\ pc[c] = "again"
    /\ \/ /\ ~Live(row)
          /\ Return(c)
       \/ /\ Live(row)
          /\ Load(c)
          /\ Goto(c, IF ~gone[c] /\ ~Quiet(row, now) THEN "revive" ELSE "charge")
          /\ UNCHANGED gone
    /\ UNCHANGED <<now, row, meter, world, opener, failures>>

-----------------------------------------------------------------------------
(* end_call, and relay_candidates told 404 for the call's peer.             *)

HangUp(c) ==
    /\ pc[c] = "idle" /\ Live(row)
    /\ Load(c) /\ Goto(c, "charge")
    /\ UNCHANGED <<now, row, meter, world, opener, gone, failures>>

RelayToldGone(c) ==
    /\ pc[c] = "idle" /\ Live(row) /\ Answered(row) /\ peer = "gone"
    /\ Load(c) /\ Goto(c, "charge")
    /\ gone' = [gone EXCEPT ![c] = TRUE]
    /\ UNCHANGED <<now, row, meter, world, opener, failures>>

-----------------------------------------------------------------------------
(* sweep and resolve.                                                       *)

Sweep(c) ==
    /\ pc[c] = "idle" /\ Verdict(row, now) # "none"
    /\ Load(c)
    /\ Goto(c, IF Answered(row) /\ Quiet(row, now) THEN "ask" ELSE "charge")
    /\ UNCHANGED <<now, row, meter, world, opener, gone, failures>>

\* Mutant: the agent is asked, and what it says is not heeded.
AskedInVain(c) ==
    /\ pc[c] = "ask"
    /\ Goto(c, "fresh") /\ Drop(c)
    /\ gone' = [gone EXCEPT ![c] = ~Held]
    /\ UNCHANGED <<now, row, meter, world, opener, at, failures>>

\* The agent's answer, and the `now` keep takes with it.
Ask(c) ==
    /\ pc[c] = "ask"
    /\ \E answer \in Probed :
          /\ Answers(answer)
          /\ gone' = [gone EXCEPT ![c] = answer = "gone"]
          /\ IF answer = "held"
             THEN Goto(c, "keep") /\ at' = [at EXCEPT ![c] = now] /\ UNCHANGED mine
             ELSE Goto(c, "fresh") /\ Drop(c) /\ UNCHANGED at
    /\ UNCHANGED <<now, row, meter, world, opener>>

\* What keep finds out about a call that never beat: that it connected at its
\* answer, once a nudge taken earlier has had its grace; or a nudge taken now.
KeptAs(r, c) ==
    IF ProvenConnected(mine[c], at[c]) THEN [r EXCEPT !.connected = mine[c].answered] ELSE r

\* A call the agent holds is kept, and nudged until a nudge is taken.
Keep(c) ==
    /\ pc[c] = "keep"
    /\ LET kept(r) == IF Live(row) THEN [r EXCEPT !.agentSeen = at[c]] ELSE row
       IN  IF mine[c].connected = Never /\ mine[c].nudged = Never
           THEN \/ /\ Held /\ TakesNudge
                   /\ row' = kept([row EXCEPT !.nudged = now])
                \/ row' = kept(row) /\ UNCHANGED nudge
           ELSE /\ row' = kept(IF mine[c].connected = Never THEN KeptAs(row, c) ELSE row)
                /\ UNCHANGED nudge
    /\ IF Verdict(mine[c], at[c]) = "ask" THEN Return(c)
       ELSE Goto(c, "fresh") /\ Drop(c) /\ UNCHANGED <<at, gone>>
    /\ UNCHANGED <<now, meter, peer, media, opener, failures>>

\* Read again before anything is settled: a heartbeat may have come meanwhile.
Fresh(c) ==
    /\ pc[c] = "fresh"
    /\ IF Verdict(row, now) = "none" THEN Return(c)
       ELSE Load(c) /\ Goto(c, "charge") /\ UNCHANGED gone
    /\ UNCHANGED <<now, row, meter, world, opener, failures>>

-----------------------------------------------------------------------------
(* settle: the session first, then the row. Both from `mine`, not the row.  *)

Price(r, t) == IF r.connected = Never THEN 0 ELSE BilledDuration(r, t)

\* Mutant: a second settlement charges again.
ChargedAnew(c) == [meter EXCEPT !.live = FALSE, !.charged = @ + Price(mine[c], at[c])]

\* A settlement of a session that is closed already is a replay of the first.
Charged(c) == IF meter.live THEN [live |-> FALSE, charged |-> Price(mine[c], at[c])] ELSE meter

Charge(c) ==
    /\ pc[c] = "charge"
    /\ meter' = Charged(c)
    /\ Goto(c, IF mine[c].connected = Never /\ ~gone[c] /\ Answered(mine[c])
                  /\ mine[c].nudged = Never THEN "nudge" ELSE "stamp")
    /\ Drop(c)
    /\ UNCHANGED <<now, row, world, opener, at, gone, failures>>

Stamps(c) == [row EXCEPT !.ended = IF @ = Never THEN at[c] ELSE @, !.gone = @ \/ gone[c]]

\* A call that never connected is nudged on its way out; a nudge may be lost.
NudgeOut(c) ==
    /\ pc[c] = "nudge"
    /\ \/ /\ Held /\ TakesNudge
          /\ row' = IF Live(row) THEN [Stamps(c) EXCEPT !.nudged = now] ELSE row
       \/ UNCHANGED nudge /\ row' = Stamps(c)
    /\ Return(c)
    /\ UNCHANGED <<now, meter, peer, media, opener, failures>>

Stamped(c) ==
    /\ pc[c] = "stamp"
    /\ row' = Stamps(c)
    /\ Return(c)
    /\ UNCHANGED <<now, meter, world, opener, failures>>

CallerDies(c) ==
    /\ pc[c] # "idle" /\ Fail
    /\ Return(c)
    /\ UNCHANGED <<now, row, meter, world, opener>>

-----------------------------------------------------------------------------
(* The world: the clock, and the agent's side of the peer connection.       *)

\* A peer stuck in ICE checking fails before a nudge's grace is over. The bound
\* on the clock leaves room for the ceiling of the latest answer.
Tick ==
    /\ now < IF opener \in {"offer", "record"} THEN MaxTime - Ceiling ELSE MaxTime
    /\ ~(peer = "checking" /\ nudge # Never /\ now + 1 - nudge >= NudgeGrace)
    /\ now' = now + 1
    /\ UNCHANGED <<row, meter, world, opener, pc, locals, failures>>

Connects ==
    /\ peer = "checking"
    /\ peer' = "up" /\ media' = TRUE
    /\ UNCHANGED <<now, row, meter, nudge, opener, pc, locals, failures>>

PeerGone ==
    /\ Held
    /\ peer' = "gone"
    /\ UNCHANGED <<now, row, meter, nudge, media, opener, pc, locals, failures>>

-----------------------------------------------------------------------------
OpenerStep == OfferAnswered \/ OfferFailed \/ RecordAnswer \/ GiveUpAbandons \/ GiveUpStamps

CallerStep(c) == BeatAsk(c) \/ Revive(c) \/ BeatAgain(c) \/ Ask(c) \/ Keep(c) \/ Fresh(c)
                 \/ Charge(c) \/ NudgeOut(c) \/ Stamped(c)

Request(c) == Heartbeat(c) \/ HangUp(c) \/ RelayToldGone(c)

Step ==
    \/ OpenerStep \/ OpenerDies \/ Tick \/ Connects \/ PeerGone
    \/ \E c \in Callers : Request(c) \/ Sweep(c) \/ CallerStep(c) \/ CallerDies(c)

Next == Step /\ vouched' = Max({vouched, ProofOfLife(row')})

Spec == Init /\ [][Next]_<<vars, vouched>>

\* A request runs on; the loop sweeps every voice_agent_sweep_seconds; time
\* passes, and so a nudged peer fails.
Fairness ==
    /\ WF_vars(OpenerStep) /\ WF_vars(Tick)
    /\ WF_vars(peer = "checking" /\ nudge # Never /\ PeerGone)
    /\ \A c \in Callers : WF_vars(CallerStep(c))
    /\ WF_vars(\E c \in Callers : Sweep(c))

FairSpec == Spec /\ Fairness

-----------------------------------------------------------------------------
(* Properties.                                                              *)

\* "A call that never connected costs nothing", nor is anybody billed for silence:
\* whatever the agent, the nudges and the graces said, a call is charged only if
\* its media was up once, for no more than from its answer to the ceiling or the
\* present, and no further than the timeout after its last sign of life, whichever
\* of the resolvers charged it, from however old a row.
OnlyTalkIsBilled ==
    meter.charged > 0 =>
        /\ media
        /\ meter.charged <= Max({1, Min({Ceiling, now - row.answered})})
        /\ meter.charged <= Max({1, vouched + Timeout - row.connected})

\* A row says the call is over only once its session is closed, so no line is
\* freed, and no call reported ended, with its hold still frozen.
EndedIsSettled == ~Live(row) => ~meter.live

\* Going silent does not end a call the agent can be seen to hold: a sweep or a
\* late heartbeat settles such a call only at its ceiling, so talking on without
\* heartbeats is not free. (Unless a probe failed; `fresh` and `again` come next.)
SilenceKeepsTheMeter ==
    [][\A c \in Callers :
          (pc[c] \in {"fresh", "again"} /\ pc'[c] = "charge" /\ Trusted /\ failures = 0)
             => ~Held \/ PastCeiling(row, now)]_vars

\* Every call is settled and stamped in the end, whoever dies or goes silent.
CallEnds == <>[](~meter.live /\ ~Live(row))

\* "The price is a function of the timestamps on the row, not of who computes it"
\* (voice_call_lifecycle.py:65): a call the row calls connected is not free.
PriceIsOfTheRow == ~Live(row) /\ row.connected # Never => meter.charged > 0
==============================================================================
