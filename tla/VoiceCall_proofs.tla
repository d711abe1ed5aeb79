-------------------------- MODULE VoiceCall_proofs --------------------------
(* For any callers, times and failures: a call is billed only for talk its   *)
(* row vouches for, and its row ends after its session. Whoever charges does *)
(* so from a row loaded earlier, so the argument is about old rows: what     *)
(* they say of answer and connection is still true of the row, or is more.   *)
EXTENDS VoiceCall, TLAPS

-----------------------------------------------------------------------------
(* The inductive invariant.                                                 *)

\* TypeOK but for the bound on the charge, which is a matter of prices.
Types ==
    /\ now \in Time /\ row \in CallRow
    /\ meter \in [live: BOOLEAN, charged: Nat]
    /\ peer \in {"none", "checking", "up", "gone"} /\ nudge \in Stamp /\ media \in BOOLEAN
    /\ opener \in {"offer", "record", "abandon", "stamp", "done"}
    /\ pc \in [Callers -> {"idle", "ask", "keep", "beatask", "revive", "again", "fresh",
                           "charge", "nudge", "stamp"}]
    /\ mine \in [Callers -> CallRow] /\ at \in [Callers -> Time] /\ gone \in [Callers -> BOOLEAN]
    /\ failures \in 0..MaxFailures /\ vouched \in Time

\* A row, of now or of earlier, that calls the call connected has its answer, and
\* its media was up; its nudge was taken; and its signs of life were seen.
Sound(r) ==
    /\ r.connected # Never => r.answered # Never /\ r.answered <= r.connected /\ media
    /\ r.nudged # Never => nudge # Never /\ nudge <= r.nudged
    /\ ProofOfLife(r) <= vouched

\* What a loaded row says of answer and connection the row still says, or it
\* counts the connection from earlier.
StillTrue(r) ==
    /\ r.answered # Never => r.answered = row.answered
    /\ r.connected # Never => row.connected # Never /\ row.connected <= r.connected

RowsAreSound ==
    /\ Sound(row)
    /\ row.answered # Never => opener = "done" /\ row.answered <= now
    /\ \A c \in Callers : Sound(mine[c]) /\ StillTrue(mine[c]) /\ at[c] <= now

\* Steps that look only at answered calls, and the `now` they hold.
CallersAreAnswered ==
    \A c \in Callers :
        /\ pc[c] \in {"beatask", "revive", "again"} =>
               media /\ row.answered # Never /\ row.answered <= at[c]
        /\ pc[c] \in {"ask", "keep"} => mine[c].answered # Never

\* A nudged peer that is still checking has not had its grace, so a probe that
\* finds a peer later than that finds one that was up.
NudgesTell ==
    /\ peer = "up" => media
    /\ opener = "offer" => peer = "none"
    /\ peer = "none" => nudge = Never
    /\ nudge # Never => nudge <= now
    /\ peer = "checking" /\ nudge # Never => now - nudge < NudgeGrace
    /\ \A c \in Callers :
          pc[c] = "keep" /\ nudge # Never /\ at[c] - nudge >= NudgeGrace => media

\* Whoever is about to stamp the row has seen the session closed.
StampsFollow ==
    /\ \A c \in Callers : pc[c] \in {"nudge", "stamp"} => ~meter.live
    /\ opener = "stamp" => ~meter.live

\* OnlyTalkIsBilled, with the connection it was billed from.
Billed ==
    meter.charged > 0 =>
        /\ media /\ row.connected # Never
        /\ \/ meter.charged <= 1
           \/ meter.charged <= Ceiling /\ meter.charged <= now - row.answered
        /\ meter.charged <= 1 \/ meter.charged <= vouched + Timeout - row.connected

IInv ==
    /\ Types /\ RowsAreSound /\ CallersAreAnswered /\ NudgesTell
    /\ StampsFollow /\ EndedIsSettled /\ Billed

-----------------------------------------------------------------------------
(* Numbers.                                                                 *)

LEMMA MaxOfTwo ==
    ASSUME NEW a \in Int, NEW b \in Int
    PROVE  Max({a, b}) \in {a, b} /\ a <= Max({a, b}) /\ b <= Max({a, b})
<1>1. \E x \in {a, b} : \A y \in {a, b} : x >= y
  OBVIOUS
<1> QED
  BY <1>1 DEF Max

LEMMA MinOfTwo ==
    ASSUME NEW a \in Int, NEW b \in Int
    PROVE  Min({a, b}) \in {a, b} /\ Min({a, b}) <= a /\ Min({a, b}) <= b
<1>1. \E x \in {a, b} : \A y \in {a, b} : x <= y
  OBVIOUS
<1> QED
  BY <1>1 DEF Min

LEMMA Numbers ==
    /\ Beat \in Nat /\ Timeout \in Nat /\ Ceiling \in Nat /\ NudgeGrace \in Nat
    /\ UnprovenGrace \in Nat /\ MaxTime \in Nat /\ MaxFailures \in Nat
    /\ 0 < Beat /\ Beat <= Timeout /\ 0 < Ceiling /\ 0 < NudgeGrace
    /\ Never = -1
  BY TimesAssumption DEF Never

LEMMA Fields ==
    ASSUME NEW r \in CallRow
    PROVE  /\ r.answered \in Int /\ r.connected \in Int /\ r.nudged \in Int
           /\ r.lastSeen \in Int /\ r.agentSeen \in Int
           /\ r.answered # Never => r.answered \in Nat
           /\ r.connected # Never => r.connected \in Nat
           /\ r.lastSeen \in Time /\ r.agentSeen \in Stamp
  BY Numbers DEF CallRow, Stamp, Time

LEMMA RecordedIsRow == Recorded \in CallRow /\ ProofOfLife(Recorded) = 0
<1>1. Recorded \in CallRow
  BY Numbers DEF Recorded, CallRow, Stamp, Time
<1>2. ProofOfLife(Recorded) = Max({0, -1})
  BY Numbers DEF ProofOfLife, Recorded
<1>3. Max({0, -1}) \in {0, -1} /\ 0 <= Max({0, -1})
  BY MaxOfTwo
<1> QED
  BY <1>1, <1>2, <1>3

LEMMA LifeIsTime ==
    ASSUME NEW r \in CallRow
    PROVE  ProofOfLife(r) \in Time
<1>1. ProofOfLife(r) \in {r.lastSeen, r.agentSeen} /\ r.lastSeen <= ProofOfLife(r)
  BY Fields, MaxOfTwo DEF ProofOfLife
<1> QED
  BY <1>1, Fields, Numbers DEF Time, Stamp

\* What a connected row is billed, at a time since its connection or not.
LEMMA Prices ==
    ASSUME NEW r \in CallRow, NEW t \in Time,
           r.connected # Never => r.answered # Never /\ r.answered <= r.connected
    PROVE  /\ Price(r, t) \in Nat
           /\ Price(r, t) > 0 => r.connected # Never
           /\ r.connected # Never =>
                /\ Price(r, t) <= 1 \/ (Price(r, t) <= Ceiling /\ Price(r, t) <= t - r.answered)
                /\ Price(r, t) <= 1 \/ Price(r, t) <= ProofOfLife(r) + Timeout - r.connected
<1>1. CASE r.connected = Never
  BY <1>1 DEF Price
<1>2. CASE r.connected # Never
  <2> DEFINE life == ProofOfLife(r)
             end  == IF Quiet(r, t) THEN life + Beat ELSE t
             cap  == CapEnd(r)
             m    == Min({end, cap})
             p    == Max({1, m - r.connected})
  <2>1. r.answered \in Nat /\ r.connected \in Nat /\ r.answered <= r.connected /\ t \in Int
        /\ life \in Int
    BY <1>2, Fields, LifeIsTime, Numbers DEF Time
  <2>2. Price(r, t) = p
    BY <1>2 DEF Price, BilledDuration
  <2>3. end \in Int /\ end <= t /\ end <= life + Timeout
    <3>1. CASE Quiet(r, t)
      <4>1. t - life > Timeout
        BY <3>1 DEF Quiet
      <4> QED
        BY <2>1, <3>1, <4>1, Numbers
    <3>2. CASE ~Quiet(r, t)
      <4>1. ~(t - life > Timeout)
        BY <3>2 DEF Quiet
      <4> QED
        BY <2>1, <3>2, <4>1, Numbers
    <3> QED
      BY <3>1, <3>2
  <2>4. cap = r.answered + Ceiling
    BY DEF CapEnd
  <2> HIDE DEF end, cap, life
  <2>5. m \in Int /\ m <= end /\ m <= cap
    <3>1. end \in Int /\ cap \in Int
      BY <2>1, <2>3, <2>4, Numbers
    <3>2. m \in {end, cap} /\ m <= end /\ m <= cap
      BY <3>1, MinOfTwo
    <3> QED
      BY <3>1, <3>2
  <2> HIDE DEF m
  <2>6. p \in {1, m - r.connected} /\ 1 <= p
    <3>1. 1 \in Int /\ m - r.connected \in Int
      BY <2>1, <2>5
    <3> QED
      BY <3>1, MaxOfTwo
  <2> HIDE DEF p
  <2>7. p \in Nat /\ (p <= 1 \/ p = m - r.connected)
    BY <2>1, <2>5, <2>6
  <2>8. p <= 1 \/ (p <= Ceiling /\ p <= t - r.answered)
    BY <2>1, <2>3, <2>4, <2>5, <2>7, Numbers
  <2>9. p <= 1 \/ p <= life + Timeout - r.connected
    BY <2>1, <2>3, <2>5, <2>7, Numbers
  <2>10. life = ProofOfLife(r)
    BY DEF life
  <2> QED
    BY <1>2, <2>2, <2>7, <2>8, <2>9, <2>10
<1> QED
  BY <1>1, <1>2

-----------------------------------------------------------------------------
(* What a step may do to the row, to the copies of it, and to the world.    *)

\* The row is answered once, connects once or finds out it connected earlier, is
\* nudged by the agent's word, and ends when its session has ended.
RowMoves ==
    /\ row' \in CallRow
    /\ \/ row'.answered = row.answered
       \/ /\ opener = "record" /\ opener' = "done"
          /\ row'.answered = now /\ row'.connected = row.connected
    /\ \/ row'.connected = row.connected
       \/ /\ media /\ row.answered # Never /\ row'.answered = row.answered
          /\ row'.connected # Never /\ row.answered <= row'.connected
          /\ row.connected # Never => row'.connected <= row.connected
    /\ \/ row'.nudged = row.nudged
       \/ row'.nudged = now /\ nudge' # Never /\ nudge' <= now
    /\ row'.ended # Never => row.ended # Never \/ ~meter.live

\* The clock goes on, the media stays known, and a nudge is taken once.
WorldMoves ==
    /\ now' = now \/ now' = now + 1
    /\ media => media'
    /\ nudge' = nudge \/ (nudge = Never /\ nudge' = now)

\* A copy is loaded by a step that leaves the row as it is.
CopiesMove ==
    \A d \in Callers :
        /\ mine'[d] \in {mine[d], Recorded} \/ (mine'[d] = row /\ row' = row)
        /\ at'[d] \in {at[d], 0, now}

RowStays ==
    \/ OfferAnswered \/ OfferFailed \/ GiveUpAbandons \/ OpenerDies \/ Tick \/ Connects \/ PeerGone
    \/ \E c \in Callers : \/ BeatAsk(c) \/ BeatAgain(c) \/ HangUp(c) \/ RelayToldGone(c) \/ Sweep(c)
                          \/ Ask(c) \/ Fresh(c) \/ Charge(c) \/ CallerDies(c)

LEMMA RowStaysOrMoves ==
    ASSUME Step
    PROVE  \/ RowStays \/ RecordAnswer \/ GiveUpStamps
           \/ \E c \in Callers : Heartbeat(c) \/ Revive(c) \/ Keep(c) \/ NudgeOut(c) \/ Stamped(c)
  BY DEF Step, RowStays, OpenerStep, CallerStep, Request

LEMMA StaysMeansSame == ASSUME RowStays PROVE row' = row
  BY DEF RowStays, OfferAnswered, OfferFailed, GiveUpAbandons, OpenerDies, Tick, Connects, PeerGone,
         BeatAsk, BeatAgain, HangUp, RelayToldGone, Sweep, Ask, Fresh, Charge, CallerDies

LEMMA StepWorld == ASSUME Types, Step PROVE WorldMoves
<1> USE DEF WorldMoves
<1>1. CASE UNCHANGED <<now, world>>
  BY <1>1 DEF world
<1>2. CASE OfferAnswered \/ Tick \/ Connects \/ PeerGone
  BY <1>2 DEF OfferAnswered, Tick, Connects, PeerGone, world
<1>3. ASSUME NEW c \in Callers, Keep(c) \/ NudgeOut(c) PROVE WorldMoves
  <2>1. nudge' = nudge \/ TakesNudge
    BY <1>3 DEF Keep, NudgeOut
  <2>2. now' = now /\ media' = media
    BY <1>3 DEF Keep, NudgeOut
  <2> QED
    BY <2>1, <2>2 DEF TakesNudge
<1>4. Step => \/ UNCHANGED <<now, world>>
              \/ OfferAnswered \/ Tick \/ Connects \/ PeerGone
              \/ \E c \in Callers : Keep(c) \/ NudgeOut(c)
  BY DEF Step, OpenerStep, CallerStep, Request, OfferFailed, RecordAnswer, GiveUpAbandons,
         GiveUpStamps, OpenerDies, Heartbeat, BeatAsk, Revive, BeatAgain, HangUp, RelayToldGone,
         Sweep, Ask, Fresh, Charge, Stamped, CallerDies
<1> QED
  BY <1>1, <1>2, <1>3, <1>4

LEMMA StepCopies == ASSUME Types, Step PROVE CopiesMove
<1>t. mine \in [Callers -> CallRow] /\ at \in [Callers -> Time]
  BY DEF Types
<1>1. CASE UNCHANGED <<mine, at>>
  BY <1>1 DEF CopiesMove
<1>2. ASSUME NEW c \in Callers, Load(c), row' = row PROVE CopiesMove
  BY <1>2, <1>t DEF Load, CopiesMove
<1>3. ASSUME NEW c \in Callers, Drop(c) \/ mine' = mine, at' = at \/ at' = [at EXCEPT ![c] = now]
      PROVE  CopiesMove
  BY <1>3, <1>t DEF Drop, CopiesMove
<1>4. ASSUME NEW c \in Callers, Return(c) PROVE CopiesMove
  BY <1>4, <1>t DEF Return, CopiesMove
<1>5. ASSUME NEW c \in Callers, Request(c) \/ Sweep(c) \/ CallerStep(c) \/ CallerDies(c)
      PROVE  CopiesMove
  <2>1. CASE Heartbeat(c)
    BY <1>1, <1>2, <2>1 DEF Heartbeat, locals
  <2>2. CASE HangUp(c) \/ RelayToldGone(c) \/ Sweep(c)
    BY <1>2, <2>2 DEF HangUp, RelayToldGone, Sweep
  <2>3. CASE BeatAsk(c) \/ Ask(c) \/ Charge(c)
    BY <1>3, <2>3 DEF BeatAsk, Ask, Charge
  <2>4. CASE Revive(c)
    BY <1>1, <1>4, <2>4 DEF Revive, locals
  <2>5. CASE BeatAgain(c) \/ Fresh(c)
    BY <1>2, <1>4, <2>5 DEF BeatAgain, Fresh
  <2>6. CASE Keep(c)
    BY <1>3, <1>4, <2>6 DEF Keep
  <2>7. CASE NudgeOut(c) \/ Stamped(c) \/ CallerDies(c)
    BY <1>4, <2>7 DEF NudgeOut, Stamped, CallerDies
  <2> QED
    BY <1>5, <2>1, <2>2, <2>3, <2>4, <2>5, <2>6, <2>7 DEF Request, CallerStep
<1>6. CASE OpenerStep \/ OpenerDies \/ Tick \/ Connects \/ PeerGone
  BY <1>1, <1>6 DEF OpenerStep, OfferAnswered, OfferFailed, RecordAnswer, GiveUpAbandons,
                    GiveUpStamps, OpenerDies, Tick, Connects, PeerGone, locals
<1> QED
  BY <1>5, <1>6 DEF Step

\* A nudge that is taken was taken by now.
LEMMA NudgeIsTaken ==
    ASSUME IInv, TakesNudge
    PROVE  nudge' # Never /\ nudge' <= now
<1>1. now \in Int /\ now # Never
  BY Numbers DEF IInv, Types, Time
<1>2. nudge # Never => nudge <= now
  BY DEF IInv, NudgesTell
<1> QED
  BY <1>1, <1>2 DEF TakesNudge

\* keep's conclusion: the call connected, at its answer if nobody saw it earlier.
LEMMA KeptAsConnected ==
    ASSUME IInv, NEW c \in Callers, pc[c] = "keep", ProvenConnected(mine[c], at[c])
    PROVE  media /\ row.answered # Never /\ mine[c].answered = row.answered
<1>1. mine[c].answered # Never /\ mine[c].answered = row.answered
  BY DEF IInv, CallersAreAnswered, RowsAreSound, StillTrue
<1>2. mine[c].nudged # Never /\ at[c] - mine[c].nudged >= NudgeGrace
  BY DEF ProvenConnected
<1>3. nudge # Never /\ nudge <= mine[c].nudged
  BY <1>2 DEF IInv, RowsAreSound, Sound
<1>4. mine[c] \in CallRow /\ at[c] \in Int /\ nudge \in Int
  BY Numbers DEF IInv, Types, Time, Stamp
<1>5. at[c] - nudge >= NudgeGrace
  BY <1>2, <1>3, <1>4, Fields, Numbers
<1> QED
  BY <1>1, <1>3, <1>5 DEF IInv, NudgesTell

LEMMA StepRow == ASSUME IInv, Step PROVE RowMoves
<1>t. row \in CallRow /\ now \in Time /\ now # Never
  BY Numbers DEF IInv, Types, Time
<1>s. /\ row.connected # Never => row.answered # Never /\ row.answered <= row.connected /\ media
      /\ row.answered # Never => opener = "done" /\ row.answered <= now
  BY DEF IInv, RowsAreSound, Sound
<1>1. CASE RowStays
  BY <1>1, <1>t, StaysMeansSame DEF RowMoves
<1>2. CASE RecordAnswer
  <2>1. CASE Live(row)
    <3>1. row' = [row EXCEPT !.answered = now, !.lastSeen = now]
      BY <1>2, <2>1 DEF RecordAnswer
    <3>2. row' \in CallRow /\ row'.answered = now /\ row'.connected = row.connected
          /\ row'.nudged = row.nudged /\ row'.ended = row.ended
      BY <3>1, <1>t DEF CallRow, Stamp
    <3> QED
      BY <1>2, <3>2 DEF RecordAnswer, RowMoves
  <2>2. CASE ~Live(row)
    BY <1>2, <2>2, <1>t DEF RecordAnswer, RowMoves
  <2> QED
    BY <2>1, <2>2
<1>3. CASE GiveUpStamps
  <2>1. ~meter.live
    BY <1>3 DEF GiveUpStamps, IInv, StampsFollow
  <2>2. row' = row \/ row' = [row EXCEPT !.ended = now]
    BY <1>3 DEF GiveUpStamps
  <2>3. row' \in CallRow /\ row'.answered = row.answered /\ row'.connected = row.connected
        /\ row'.nudged = row.nudged
    BY <2>2, <1>t DEF CallRow, Stamp
  <2> QED
    BY <2>1, <2>3 DEF RowMoves
\* A sign of life of an answered call.
<1>4. ASSUME NEW t \in Time, row.answered # Never, row.answered <= t, media,
             row' = Seen(row, t) \/ row' = [Seen(row, t) EXCEPT !.agentSeen = t]
      PROVE  RowMoves
  <2>1. /\ row' \in CallRow /\ row'.answered = row.answered /\ row'.nudged = row.nudged
        /\ row'.ended = row.ended
        /\ row'.connected = IF row.connected = Never THEN t ELSE row.connected
    BY <1>4, <1>t DEF Seen, CallRow, Stamp
  <2>2. t # Never
    BY Numbers DEF Time
  <2> QED
    BY <1>4, <2>1, <2>2 DEF RowMoves
<1>5. ASSUME NEW c \in Callers, Heartbeat(c) PROVE RowMoves
  <2>1. row' = row \/ (HeartbeatTaken /\ row' = Seen(row, now))
    BY <1>5 DEF Heartbeat
  <2>2. media /\ (HeartbeatTaken => row.answered # Never /\ row.answered <= now)
    BY <1>5, <1>s DEF Heartbeat, HeartbeatTaken, Answered
  <2>3. CASE row' = row
    BY <2>3, <1>t DEF RowMoves
  <2>4. CASE HeartbeatTaken /\ row' = Seen(row, now)
    BY <2>2, <2>4, <1>4, <1>t
  <2> QED
    BY <2>1, <2>3, <2>4
<1>6. ASSUME NEW c \in Callers, Revive(c) PROVE RowMoves
  <2>1. row' = row \/ row' = [Seen(row, at[c]) EXCEPT !.agentSeen = at[c]]
    BY <1>6 DEF Revive
  <2>2. media /\ row.answered # Never /\ row.answered <= at[c] /\ at[c] \in Time
    BY <1>6 DEF Revive, IInv, CallersAreAnswered, Types
  <2>3. CASE row' = row
    BY <2>3, <1>t DEF RowMoves
  <2>4. CASE row' = [Seen(row, at[c]) EXCEPT !.agentSeen = at[c]]
    BY <2>2, <2>4, <1>4
  <2> QED
    BY <2>1, <2>3, <2>4
<1>7. ASSUME NEW c \in Callers, Keep(c) PROVE RowMoves
  <2>1. at[c] \in Time
    BY DEF IInv, Types
  <2>2. CASE ~Live(row)
    <3>1. row' = row
      BY <1>7, <2>2 DEF Keep
    <3> QED
      BY <3>1, <1>t DEF RowMoves
  <2>3. CASE Live(row)
    <3>1. \/ row' = [row EXCEPT !.agentSeen = at[c]]
          \/ TakesNudge /\ row' = [[row EXCEPT !.nudged = now] EXCEPT !.agentSeen = at[c]]
          \/ row' = [KeptAs(row, c) EXCEPT !.agentSeen = at[c]]
      BY <1>7, <2>3 DEF Keep
    <3>2. CASE row' = [row EXCEPT !.agentSeen = at[c]]
      <4>1. row' \in CallRow /\ row'.answered = row.answered /\ row'.connected = row.connected
            /\ row'.nudged = row.nudged /\ row'.ended = row.ended
        BY <3>2, <2>1, <1>t DEF CallRow, Stamp
      <4> QED
        BY <4>1 DEF RowMoves
    <3>3. CASE TakesNudge /\ row' = [[row EXCEPT !.nudged = now] EXCEPT !.agentSeen = at[c]]
      <4>1. row' \in CallRow /\ row'.answered = row.answered /\ row'.connected = row.connected
            /\ row'.nudged = now /\ row'.ended = row.ended
        BY <3>3, <2>1, <1>t DEF CallRow, Stamp
      <4> QED
        BY <3>3, <4>1, NudgeIsTaken DEF RowMoves
    <3>4. CASE row' = [KeptAs(row, c) EXCEPT !.agentSeen = at[c]]
      <4>1. CASE ~ProvenConnected(mine[c], at[c])
        BY <3>2, <3>4, <4>1 DEF KeptAs
      <4>2. CASE ProvenConnected(mine[c], at[c])
        <5>1. media /\ row.answered # Never /\ mine[c].answered = row.answered
          BY <1>7, <4>2, KeptAsConnected DEF Keep
        <5>2. row' = [[row EXCEPT !.connected = row.answered] EXCEPT !.agentSeen = at[c]]
          BY <3>4, <4>2, <5>1 DEF KeptAs
        <5>3. row' \in CallRow /\ row'.answered = row.answered /\ row'.connected = row.answered
              /\ row'.nudged = row.nudged /\ row'.ended = row.ended
          BY <5>2, <2>1, <1>t DEF CallRow, Stamp
        <5>4. row.answered <= row.answered
          BY <1>t, Fields
        <5> QED
          BY <5>1, <5>3, <5>4, <1>s DEF RowMoves
      <4> QED
        BY <4>1, <4>2
    <3> QED
      BY <3>1, <3>2, <3>3, <3>4
  <2> QED
    BY <2>2, <2>3
<1>8. ASSUME NEW c \in Callers, NudgeOut(c) \/ Stamped(c) PROVE RowMoves
  <2>1. ~meter.live /\ at[c] \in Time /\ gone[c] \in BOOLEAN
    BY <1>8 DEF NudgeOut, Stamped, IInv, StampsFollow, Types
  <2>2. /\ Stamps(c) \in CallRow /\ Stamps(c).answered = row.answered
        /\ Stamps(c).connected = row.connected /\ Stamps(c).nudged = row.nudged
    BY <2>1, <1>t DEF Stamps, CallRow, Stamp
  <2>3. CASE row' = Stamps(c)
    BY <2>1, <2>2, <2>3 DEF RowMoves
  <2>4. CASE TakesNudge /\ row' = [Stamps(c) EXCEPT !.nudged = now]
    <3>1. row' \in CallRow /\ row'.answered = row.answered
          /\ row'.connected = row.connected /\ row'.nudged = now
      BY <2>2, <2>4, <1>t DEF CallRow, Stamp
    <3> QED
      BY <2>1, <2>4, <3>1, NudgeIsTaken DEF RowMoves
  <2>5. \/ row' = Stamps(c) \/ row' = row
        \/ TakesNudge /\ row' = [Stamps(c) EXCEPT !.nudged = now]
    BY <1>8 DEF NudgeOut, Stamped
  <2>6. CASE row' = row
    BY <2>6, <1>t DEF RowMoves
  <2> QED
    BY <2>3, <2>4, <2>5, <2>6
<1> QED
  BY <1>1, <1>2, <1>3, <1>5, <1>6, <1>7, <1>8, RowStaysOrMoves

-----------------------------------------------------------------------------
(* Each part is kept by every step. A step is a Step, and `vouched` with it. *)

LEMMA StepVouched ==
    ASSUME IInv, Next
    PROVE  vouched' \in Time /\ vouched <= vouched' /\ ProofOfLife(row') <= vouched'
<1>1. row' \in CallRow
  BY StepRow DEF Next, RowMoves
<1>2. ProofOfLife(row') \in Time /\ vouched \in Time
  BY <1>1, LifeIsTime DEF IInv, Types
<1>3. ProofOfLife(row') \in Int /\ vouched \in Int
  BY <1>2 DEF Time
<1>4. vouched' \in {vouched, ProofOfLife(row')} /\ vouched <= vouched' /\ ProofOfLife(row') <= vouched'
  BY <1>3, MaxOfTwo DEF Next
<1> QED
  BY <1>2, <1>4

LEMMA StepTypes == ASSUME IInv, Next PROVE Types'
<1>t. Types /\ Step
  BY DEF IInv, Next
<1>1. row' \in CallRow /\ vouched' \in Time
  BY StepRow, StepVouched DEF Next, RowMoves
<1>2. now' \in Time
  <2>1. now' = now \/ (now < MaxTime /\ now' = now + 1)
    <3>1. CASE Tick
      <4>1. now < MaxTime - Ceiling \/ now < MaxTime
        BY <3>1 DEF Tick
      <4>2. now' = now + 1 /\ now \in Int
        BY <3>1, <1>t DEF Tick, Types, Time
      <4> QED
        BY <4>1, <4>2, Numbers
    <3>2. CASE ~Tick
      BY <1>t, <3>2 DEF Step, OpenerStep, CallerStep, Request, OfferAnswered, OfferFailed,
         RecordAnswer, GiveUpAbandons, GiveUpStamps, OpenerDies, Connects, PeerGone, Heartbeat,
         BeatAsk, Revive, BeatAgain, HangUp, RelayToldGone, Sweep, Ask, Keep, Fresh, Charge,
         NudgeOut, Stamped, CallerDies
    <3> QED
      BY <3>1, <3>2
  <2> QED
    BY <2>1, <1>t, Numbers DEF Types, Time
<1>3. nudge' \in Stamp
  BY <1>t, StepWorld DEF WorldMoves, Types, Stamp
<1>4. mine' \in [Callers -> CallRow]
  <2>1. \A d \in Callers : mine'[d] \in CallRow
    BY <1>t, StepCopies, RecordedIsRow DEF CopiesMove, Types
  <2>2. mine' = [d \in Callers |-> mine'[d]]
    BY <1>t DEF Types, Step, OpenerStep, CallerStep, Request, OfferAnswered, OfferFailed,
       RecordAnswer, GiveUpAbandons, GiveUpStamps, OpenerDies, Tick, Connects, PeerGone, Heartbeat,
       BeatAsk, Revive, BeatAgain, HangUp, RelayToldGone, Sweep, Ask, Keep, Fresh, Charge,
       NudgeOut, Stamped, CallerDies, Load, Drop, Return, locals
  <2> QED
    BY <2>1, <2>2
<1>5. at' \in [Callers -> Time]
  <2>1. \A d \in Callers : at'[d] \in Time
    BY <1>t, StepCopies, Numbers DEF CopiesMove, Types, Time
  <2>2. at' = [d \in Callers |-> at'[d]]
    BY <1>t DEF Types, Step, OpenerStep, CallerStep, Request, OfferAnswered, OfferFailed,
       RecordAnswer, GiveUpAbandons, GiveUpStamps, OpenerDies, Tick, Connects, PeerGone, Heartbeat,
       BeatAsk, Revive, BeatAgain, HangUp, RelayToldGone, Sweep, Ask, Keep, Fresh, Charge,
       NudgeOut, Stamped, CallerDies, Load, Drop, Return, locals
  <2> QED
    BY <2>1, <2>2
<1> DEFINE Rest ==
        /\ peer' \in {"none", "checking", "up", "gone"} /\ media' \in BOOLEAN
        /\ opener' \in {"offer", "record", "abandon", "stamp", "done"}
        /\ pc' \in [Callers -> {"idle", "ask", "keep", "beatask", "revive", "again", "fresh",
                                "charge", "nudge", "stamp"}]
        /\ gone' \in [Callers -> BOOLEAN]
        /\ failures' \in 0..MaxFailures
<1>6. Rest
  <2> USE DEF Types
  <2>0. Fail => failures' \in 0..MaxFailures
    BY <1>t, Numbers DEF Fail
  <2>1. CASE OpenerStep \/ OpenerDies \/ Tick \/ Connects \/ PeerGone
    BY <1>t, <2>0, <2>1 DEF OpenerStep, OfferAnswered, OfferFailed, RecordAnswer, GiveUpAbandons,
       GiveUpStamps, OpenerDies, Tick, Connects, PeerGone, world, locals
  <2>2. ASSUME NEW c \in Callers, Heartbeat(c) \/ HangUp(c) \/ RelayToldGone(c) \/ Sweep(c) PROVE Rest
    BY <1>t, <2>2 DEF Heartbeat, HangUp, RelayToldGone, Sweep, world, locals, Goto
  <2>3. ASSUME NEW c \in Callers, BeatAsk(c) \/ Ask(c) PROVE Rest
    <3>1. UNCHANGED failures \/ Fail
      BY <2>3 DEF BeatAsk, Ask, Answers
    <3>2. UNCHANGED <<peer, media, opener>> /\ \E b \in BOOLEAN : gone' = [gone EXCEPT ![c] = b]
      BY <2>3 DEF BeatAsk, Ask, world
    <3>3. \E step \in {"keep", "revive", "again", "fresh"} : Goto(c, step)
      BY <2>3 DEF BeatAsk, Ask
    <3> QED
      BY <1>t, <2>0, <3>1, <3>2, <3>3 DEF Goto
  <2>4. ASSUME NEW c \in Callers, Revive(c) \/ BeatAgain(c) \/ Fresh(c) PROVE Rest
    BY <1>t, <2>4 DEF Revive, BeatAgain, Fresh, Return, world, locals, Goto
  <2>5. ASSUME NEW c \in Callers, Keep(c) PROVE Rest
    <3>1. UNCHANGED <<peer, media, opener, failures>>
          /\ (Return(c) \/ (Goto(c, "fresh") /\ UNCHANGED gone))
      BY <2>5 DEF Keep
    <3> QED
      BY <1>t, <3>1 DEF Return, Goto
  <2>6. ASSUME NEW c \in Callers, Charge(c) PROVE Rest
    BY <1>t, <2>6 DEF Charge, world, Goto
  <2>7. ASSUME NEW c \in Callers, NudgeOut(c) \/ Stamped(c) \/ CallerDies(c) PROVE Rest
    <3>1. UNCHANGED <<peer, media, opener>> /\ Return(c) /\ (UNCHANGED failures \/ Fail)
      BY <2>7 DEF NudgeOut, Stamped, CallerDies, world
    <3> QED
      BY <1>t, <2>0, <3>1 DEF Return, Goto
  <2> QED
    BY <1>t, <2>1, <2>2, <2>3, <2>4, <2>5, <2>6, <2>7 DEF Step, CallerStep, Request
<1>7. meter' \in [live: BOOLEAN, charged: Nat]
  <2>1. CASE UNCHANGED meter
    BY <1>t, <2>1 DEF Types
  <2>2. CASE GiveUpAbandons
    BY <1>t, <2>2 DEF GiveUpAbandons, Types
  <2>3. ASSUME NEW c \in Callers, Charge(c) PROVE meter' \in [live: BOOLEAN, charged: Nat]
    <3>1. mine[c] \in CallRow /\ at[c] \in Time
      BY <1>t DEF Types
    <3>2. Price(mine[c], at[c]) \in Nat
      BY <3>1, Prices DEF IInv, RowsAreSound, Sound
    <3> QED
      BY <1>t, <2>3, <3>2 DEF Charge, Charged, Types
  <2> QED
    BY <1>t, <2>1, <2>2, <2>3 DEF Step, OpenerStep, CallerStep, Request, OfferAnswered, OfferFailed,
       RecordAnswer, GiveUpStamps, OpenerDies, Tick, Connects, PeerGone, Heartbeat,
       BeatAsk, Revive, BeatAgain, HangUp, RelayToldGone, Sweep, Ask, Keep, Fresh,
       NudgeOut, Stamped, CallerDies
<1> QED
  BY <1>1, <1>2, <1>3, <1>4, <1>5, <1>6, <1>7 DEF Types

\* What was sound stays so: the media stays known, a nudge taken, life vouched for.
LEMMA SoundStays ==
    ASSUME IInv, Next, NEW r \in CallRow,
           r.connected # Never => r.answered # Never /\ r.answered <= r.connected /\ media,
           r.nudged # Never => nudge # Never /\ nudge <= r.nudged, ProofOfLife(r) <= vouched
    PROVE  /\ r.connected # Never => r.answered # Never /\ r.answered <= r.connected /\ media'
           /\ r.nudged # Never => nudge' # Never /\ nudge' <= r.nudged
           /\ ProofOfLife(r) <= vouched'
<1>1. WorldMoves /\ vouched <= vouched'
  BY StepWorld, StepVouched DEF IInv, Next
<1>2. ProofOfLife(r) \in Int /\ vouched \in Int /\ vouched' \in Int
  BY LifeIsTime, StepVouched DEF IInv, Types, Time
<1> QED
  BY <1>1, <1>2 DEF WorldMoves

\* Once answered, a row keeps its answer; once connected, it stays so, or more.
LEMMA AnswersStay ==
    ASSUME IInv, Next
    PROVE  /\ row.answered # Never => row'.answered = row.answered /\ opener' = "done"
           /\ row.connected # Never => row'.connected # Never /\ row'.connected <= row.connected
           /\ row' \in CallRow
<1>1. RowMoves
  BY StepRow DEF Next
<1>2. row.answered # Never => opener = "done"
  BY DEF IInv, RowsAreSound
<1>3. opener = "done" => opener' = "done"
  BY DEF Next, Step, OpenerStep, CallerStep, Request, OfferAnswered, OfferFailed, RecordAnswer,
         GiveUpAbandons, GiveUpStamps, OpenerDies, Tick, Connects, PeerGone, Heartbeat, BeatAsk,
         Revive, BeatAgain, HangUp, RelayToldGone, Sweep, Ask, Keep, Fresh, Charge, NudgeOut,
         Stamped, CallerDies
<1>4. row.connected \in Int
  BY Fields DEF IInv, Types
<1> QED
  BY <1>1, <1>2, <1>3, <1>4 DEF RowMoves

LEMMA StepSound == ASSUME IInv, Next PROVE RowsAreSound'
<1>t. /\ row \in CallRow /\ row' \in CallRow /\ now \in Int
      /\ mine \in [Callers -> CallRow] /\ at \in [Callers -> Time]
  BY AnswersStay DEF IInv, Types, Time
<1>w. WorldMoves /\ CopiesMove /\ RowMoves
  BY StepWorld, StepCopies, StepRow DEF IInv, Next
<1>s. Sound(row) /\ (row.answered # Never => opener = "done" /\ row.answered <= now)
  BY DEF IInv, RowsAreSound
<1>1. Sound(row)'
  <2>1. row'.connected # Never => row'.answered # Never /\ row'.answered <= row'.connected /\ media'
    <3>1. CASE row'.connected = row.connected
      <4>1. CASE row'.answered = row.answered
        BY <3>1, <4>1, <1>s, <1>w DEF Sound, WorldMoves
      <4>2. CASE row'.answered # row.answered
        <5>1. row.answered = Never
          BY <4>2, AnswersStay
        <5> QED
          BY <3>1, <5>1, <1>s DEF Sound
      <4> QED
        BY <4>1, <4>2
    <3>2. CASE row'.connected # row.connected
      BY <3>2, <1>w DEF RowMoves, WorldMoves
    <3> QED
      BY <3>1, <3>2
  <2>2. row'.nudged # Never => nudge' # Never /\ nudge' <= row'.nudged
    <3>1. CASE row'.nudged = row.nudged
      BY <3>1, <1>s, <1>t, SoundStays DEF Sound
    <3>2. CASE row'.nudged # row.nudged
      BY <3>2, <1>w DEF RowMoves
    <3> QED
      BY <3>1, <3>2
  <2> QED
    BY <2>1, <2>2, StepVouched DEF Sound
<1>2. row'.answered # Never => opener' = "done" /\ row'.answered <= now'
  <2>1. now <= now' /\ now' \in Int
    BY <1>w, <1>t DEF WorldMoves
  <2>2. CASE row'.answered = row.answered
    BY <2>1, <2>2, <1>s, <1>t, AnswersStay, Fields
  <2>3. CASE row'.answered # row.answered
    BY <2>1, <2>3, <1>w DEF RowMoves
  <2> QED
    BY <2>2, <2>3
<1>3. ASSUME NEW c \in Callers PROVE (Sound(mine[c]) /\ StillTrue(mine[c]) /\ at[c] <= now)'
  <2>1. at'[c] <= now'
    <3>1. at[c] <= now /\ at[c] \in Int /\ 0 <= now
      BY <1>t DEF IInv, RowsAreSound, Types, Time
    <3>2. at'[c] \in {at[c], 0, now}
      BY <1>w DEF CopiesMove
    <3> QED
      BY <3>1, <3>2, <1>w, <1>t DEF WorldMoves
  <2>2. CASE mine'[c] = row /\ row' = row
    <3>1. StillTrue(mine[c])'
      BY <2>2, <1>t, Fields DEF StillTrue
    <3>2. Sound(mine[c])'
      BY <1>1, <2>2 DEF Sound
    <3> QED
      BY <2>1, <3>1, <3>2
  <2>3. CASE mine'[c] = mine[c]
    <3>1. Sound(mine[c]) /\ StillTrue(mine[c]) /\ mine[c] \in CallRow
      BY <1>t DEF IInv, RowsAreSound
    <3>2. Sound(mine[c])'
      BY <2>3, <3>1, SoundStays DEF Sound
    <3>3. mine[c].answered # Never => mine[c].answered = row'.answered
      BY <3>1, AnswersStay DEF StillTrue
    <3>4. mine[c].connected # Never => row'.connected # Never /\ row'.connected <= mine[c].connected
      BY <3>1, <1>t, AnswersStay, Fields DEF StillTrue
    <3> QED
      BY <2>1, <2>3, <3>2, <3>3, <3>4 DEF StillTrue
  <2>4. CASE mine'[c] = Recorded
    <3>1. Recorded.connected = Never /\ Recorded.answered = Never /\ Recorded.nudged = Never
          /\ ProofOfLife(Recorded) = 0
      BY RecordedIsRow DEF Recorded
    <3>2. 0 <= vouched'
      BY StepVouched DEF Time
    <3> QED
      BY <2>1, <2>4, <3>1, <3>2 DEF Sound, StillTrue
  <2> QED
    BY <2>2, <2>3, <2>4, <1>w DEF CopiesMove
<1> QED
  BY <1>1, <1>2, <1>3 DEF RowsAreSound

\* What a caller knows is disturbed by no step but its own.
LEMMA OnlyItsOwn ==
    ASSUME Types, Step, NEW d \in Callers
    PROVE  \/ pc'[d] = pc[d] /\ at'[d] = at[d] /\ mine'[d] = mine[d]
           \/ Request(d) \/ Sweep(d) \/ CallerStep(d) \/ CallerDies(d)
<1> DEFINE Same == pc'[d] = pc[d] /\ at'[d] = at[d] /\ mine'[d] = mine[d]
<1>t. mine \in [Callers -> CallRow] /\ at \in [Callers -> Time] /\ DOMAIN pc = Callers
  BY DEF Types
<1>1. CASE OpenerStep \/ OpenerDies \/ Tick \/ Connects \/ PeerGone
  BY <1>1 DEF OpenerStep, OfferAnswered, OfferFailed, RecordAnswer, GiveUpAbandons,
              GiveUpStamps, OpenerDies, Tick, Connects, PeerGone, locals
<1>2. ASSUME NEW c \in Callers, c # d, Heartbeat(c) \/ HangUp(c) \/ RelayToldGone(c) \/ Sweep(c) PROVE Same
  BY <1>2, <1>t DEF Heartbeat, HangUp, RelayToldGone, Sweep, Load, Goto, locals
<1>3. ASSUME NEW c \in Callers, c # d, BeatAsk(c) \/ Ask(c) \/ Charge(c) PROVE Same
  BY <1>3, <1>t DEF BeatAsk, Ask, Charge, Drop, Goto
<1>4. ASSUME NEW c \in Callers, c # d, Revive(c) \/ BeatAgain(c) \/ Fresh(c) PROVE Same
  BY <1>4, <1>t DEF Revive, BeatAgain, Fresh, Load, Return, Goto, locals
<1>5. ASSUME NEW c \in Callers, c # d, Keep(c) \/ NudgeOut(c) \/ Stamped(c) \/ CallerDies(c) PROVE Same
  <2>1. Return(c) \/ (Goto(c, "fresh") /\ Drop(c) /\ UNCHANGED at)
    BY <1>5 DEF Keep, NudgeOut, Stamped, CallerDies
  <2> QED
    BY <1>5, <2>1, <1>t DEF Return, Drop, Goto
<1> QED
  BY <1>1, <1>2, <1>3, <1>4, <1>5 DEF Step, Request, CallerStep

LEMMA StepAnswered == ASSUME IInv, Next PROVE CallersAreAnswered'
<1>t. /\ Types /\ Step /\ row \in CallRow /\ now \in Int
      /\ mine \in [Callers -> CallRow] /\ at \in [Callers -> Time] /\ DOMAIN pc = Callers
  BY DEF IInv, Next, Types, Time
<1>w. WorldMoves
  BY StepWorld, <1>t
<1> SUFFICES ASSUME NEW d \in Callers
             PROVE  /\ pc'[d] \in {"beatask", "revive", "again"} =>
                           media' /\ row'.answered # Never /\ row'.answered <= at'[d]
                    /\ pc'[d] \in {"ask", "keep"} => mine'[d].answered # Never
  BY DEF CallersAreAnswered
<1>i. /\ pc[d] \in {"beatask", "revive", "again"} =>
             media /\ row.answered # Never /\ row.answered <= at[d]
      /\ pc[d] \in {"ask", "keep"} => mine[d].answered # Never
      /\ row.answered # Never => row.answered <= now
  BY DEF IInv, CallersAreAnswered, RowsAreSound
<1>k. media /\ row.answered # Never /\ row.answered <= at'[d] =>
          media' /\ row'.answered # Never /\ row'.answered <= at'[d]
  BY <1>w, AnswersStay DEF WorldMoves
<1>1. CASE pc'[d] = pc[d] /\ at'[d] = at[d] /\ mine'[d] = mine[d]
  BY <1>1, <1>i, <1>k
<1>2. CASE Heartbeat(d)
  <2>1. CASE pc' = pc /\ at' = at /\ mine' = mine
    BY <2>1, <1>1
  <2>2. CASE media /\ row.answered # Never /\ at'[d] = now /\ mine'[d] = row
    BY <2>2, <1>i, <1>k
  <2> QED
    BY <1>2, <2>1, <2>2, <1>t DEF Heartbeat, Load, Answered, locals
<1>3. CASE HangUp(d) \/ RelayToldGone(d)
  BY <1>3, <1>t DEF HangUp, RelayToldGone, Goto
<1>4. CASE Sweep(d)
  BY <1>4, <1>t DEF Sweep, Load, Goto, Answered
<1>5. CASE BeatAsk(d)
  BY <1>5, <1>i, <1>k, <1>t DEF BeatAsk, Goto
<1>6. CASE Revive(d)
  BY <1>6, <1>i, <1>k, <1>t DEF Revive, Return, Goto, locals
<1>7. CASE BeatAgain(d)
  <2>1. media /\ row.answered # Never
    BY <1>7, <1>i DEF BeatAgain
  <2>2. pc'[d] = "idle" \/ (pc'[d] \in {"revive", "charge"} /\ at'[d] = now)
    BY <1>7, <1>t DEF BeatAgain, Return, Load, Goto
  <2> QED
    BY <2>1, <2>2, <1>i, <1>k
<1>8. CASE Ask(d)
  <2>1. pc'[d] = "fresh" \/ (pc'[d] = "keep" /\ mine' = mine)
    BY <1>8, <1>t DEF Ask, Goto
  <2>2. pc[d] = "ask"
    BY <1>8 DEF Ask
  <2> QED
    BY <2>1, <2>2, <1>i
<1>9. CASE Keep(d) \/ Fresh(d) \/ Charge(d) \/ NudgeOut(d) \/ Stamped(d) \/ CallerDies(d)
  <2>1. pc'[d] \in {"idle", "fresh", "charge", "nudge", "stamp"}
    BY <1>9, <1>t DEF Keep, Fresh, Charge, NudgeOut, Stamped, CallerDies, Return, Goto
  <2> QED
    BY <2>1
<1> QED
  BY <1>1, <1>2, <1>3, <1>4, <1>5, <1>6, <1>7, <1>8, <1>9, <1>t, OnlyItsOwn DEF Request, CallerStep

\* The session closes once, and its charge is what closes it.
LEMMA MeterMoves ==
    ASSUME IInv, Step
    PROVE  \/ meter' = meter
           \/ ~meter'.live /\ meter'.charged = meter.charged
           \/ \E c \in Callers : /\ Charge(c) /\ meter.live
                                 /\ ~meter'.live /\ meter'.charged = Price(mine[c], at[c])
<1>t. meter \in [live: BOOLEAN, charged: Nat]
  BY DEF IInv, Types
<1>1. CASE GiveUpAbandons
  BY <1>1, <1>t DEF GiveUpAbandons
<1>2. ASSUME NEW c \in Callers, Charge(c)
      PROVE  meter' = meter \/ (meter.live /\ ~meter'.live /\ meter'.charged = Price(mine[c], at[c]))
  BY <1>2 DEF Charge, Charged
<1>3. \/ GiveUpAbandons \/ UNCHANGED meter \/ \E c \in Callers : Charge(c)
  BY DEF Step, OpenerStep, CallerStep, Request, OfferAnswered, OfferFailed, RecordAnswer,
         GiveUpStamps, OpenerDies, Tick, Connects, PeerGone, Heartbeat, BeatAsk, Revive, BeatAgain,
         HangUp, RelayToldGone, Sweep, Ask, Keep, Fresh, NudgeOut, Stamped, CallerDies
<1> QED
  BY <1>1, <1>2, <1>3

LEMMA StepStamps == ASSUME IInv, Next PROVE StampsFollow' /\ EndedIsSettled'
<1>t. Types /\ Step /\ DOMAIN pc = Callers /\ meter \in [live: BOOLEAN, charged: Nat]
  BY DEF IInv, Next, Types
<1>1. ~meter.live => ~meter'.live
  BY <1>t, MeterMoves
<1>2. ASSUME NEW d \in Callers, pc'[d] \in {"nudge", "stamp"} PROVE ~meter'.live
  <2>1. CASE pc'[d] = pc[d]
    BY <1>1, <1>2, <2>1 DEF IInv, StampsFollow
  <2>2. CASE Charge(d)
    BY <2>2, <1>t DEF Charge, Charged
  <2>3. CASE BeatAsk(d) \/ Ask(d)
    BY <2>3, <1>2, <1>t DEF BeatAsk, Ask, Goto
  <2>4. CASE Heartbeat(d) \/ HangUp(d) \/ RelayToldGone(d) \/ Sweep(d)
    BY <2>1, <2>4, <1>2, <1>t DEF Heartbeat, HangUp, RelayToldGone, Sweep, Goto
  <2>5. CASE Revive(d) \/ BeatAgain(d) \/ Keep(d) \/ Fresh(d) \/ NudgeOut(d) \/ Stamped(d)
             \/ CallerDies(d)
    <3>1. pc'[d] \in {"idle", "fresh", "charge", "again", "revive"}
      BY <2>5, <1>t DEF Revive, BeatAgain, Keep, Fresh, NudgeOut, Stamped, CallerDies, Return, Goto
    <3> QED
      BY <3>1, <1>2
  <2> QED
    BY <2>1, <2>2, <2>3, <2>4, <2>5, <1>t, OnlyItsOwn DEF Request, CallerStep
<1>3. opener' = "stamp" => ~meter'.live
  <2>1. CASE opener' = opener
    BY <1>1, <2>1 DEF IInv, StampsFollow
  <2>2. CASE GiveUpAbandons
    BY <2>2, <1>t DEF GiveUpAbandons
  <2>3. CASE opener' # opener /\ ~GiveUpAbandons
    BY <2>3, <1>t DEF Step, OpenerStep, CallerStep, Request, OfferAnswered, OfferFailed,
       RecordAnswer, GiveUpStamps, OpenerDies, Tick, Connects, PeerGone, Heartbeat, BeatAsk, Revive,
       BeatAgain, HangUp, RelayToldGone, Sweep, Ask, Keep, Fresh, Charge, NudgeOut, Stamped,
       CallerDies
  <2> QED
    BY <2>1, <2>2, <2>3
<1>4. EndedIsSettled'
  <2>1. row'.ended # Never => row.ended # Never \/ ~meter.live
    BY <1>t, StepRow DEF RowMoves
  <2> QED
    BY <2>1, <1>1 DEF IInv, EndedIsSettled, Live
<1> QED
  BY <1>2, <1>3, <1>4 DEF StampsFollow

\* Only the offer, ICE and the end of the peer move the peer; only a peer that is
\* held takes a nudge; only Tick moves the clock.
LEMMA PeerMoves ==
    ASSUME Types, Step
    PROVE  /\ \/ peer' = peer \/ OfferAnswered \/ Connects \/ PeerGone
           /\ nudge' = nudge \/ (Held /\ TakesNudge /\ now' = now /\ peer' = peer)
           /\ now' = now \/ Tick
           /\ opener' = "offer" => opener = "offer" /\ ~OfferAnswered
<1> DEFINE Here == /\ peer' = peer \/ OfferAnswered \/ Connects \/ PeerGone
                   /\ nudge' = nudge \/ (Held /\ TakesNudge /\ now' = now /\ peer' = peer)
                   /\ now' = now \/ Tick
                   /\ opener' = "offer" => opener = "offer" /\ ~OfferAnswered
<1>1. CASE OpenerStep
  BY <1>1 DEF OpenerStep, OfferAnswered, OfferFailed, RecordAnswer, GiveUpAbandons, GiveUpStamps,
              world
<1>2. CASE OpenerDies \/ Tick \/ Connects \/ PeerGone
  BY <1>2 DEF OpenerDies, Tick, Connects, PeerGone, OfferAnswered, world
<1>3. ASSUME NEW c \in Callers, Keep(c) \/ NudgeOut(c) PROVE Here
  BY <1>3 DEF Keep, NudgeOut, OfferAnswered
<1>4. ASSUME NEW c \in Callers, \/ Request(c) \/ Sweep(c) \/ CallerDies(c) \/ BeatAsk(c) \/ Revive(c)
                                \/ BeatAgain(c) \/ Ask(c) \/ Fresh(c) \/ Charge(c) \/ Stamped(c)
      PROVE  Here
  BY <1>4 DEF Request, Heartbeat, HangUp, RelayToldGone, Sweep, CallerDies, BeatAsk, Revive,
              BeatAgain, Ask, Fresh, Charge, Stamped, OfferAnswered, world
<1> QED
  BY <1>1, <1>2, <1>3, <1>4 DEF Step, CallerStep

LEMMA StepNudges == ASSUME IInv, Next PROVE NudgesTell'
<1>t. /\ Types /\ Step /\ now \in Int /\ now # Never /\ nudge \in Int /\ at \in [Callers -> Time]
      /\ DOMAIN pc = Callers
  BY Numbers DEF IInv, Next, Types, Time, Stamp
<1>i. /\ peer = "up" => media
      /\ opener = "offer" => peer = "none"
      /\ peer = "none" => nudge = Never
      /\ nudge # Never => nudge <= now
      /\ peer = "checking" /\ nudge # Never => now - nudge < NudgeGrace
  BY DEF IInv, NudgesTell
<1>w. WorldMoves
  BY StepWorld, <1>t
<1>p. /\ peer' = peer \/ OfferAnswered \/ Connects \/ PeerGone
      /\ nudge' = nudge \/ (Held /\ TakesNudge /\ now' = now /\ peer' = peer)
      /\ now' = now \/ Tick
      /\ opener' = "offer" => opener = "offer" /\ ~OfferAnswered
  BY PeerMoves, <1>t
<1>1. peer' = "up" => media'
  BY <1>i, <1>p, <1>w DEF WorldMoves, OfferAnswered, Connects, PeerGone
<1>2. opener' = "offer" => peer' = "none"
  BY <1>i, <1>p DEF Connects, PeerGone, Held
<1>3. peer' = "none" => nudge' = Never
  BY <1>i, <1>p DEF OfferAnswered, Connects, PeerGone, Held
<1>4. nudge' # Never => nudge' <= now'
  BY <1>i, <1>t, <1>w DEF WorldMoves
<1>5. ASSUME peer' = "checking", nudge' # Never PROVE now' - nudge' < NudgeGrace
  <2>1. CASE nudge' # nudge
    <3>1. nudge' = now /\ now' = now
      BY <2>1, <1>p DEF TakesNudge
    <3> QED
      BY <3>1, <1>t, Numbers
  <2>2. CASE nudge' = nudge /\ OfferAnswered
    BY <1>5, <2>2, <1>i DEF OfferAnswered
  <2>3. CASE nudge' = nudge /\ ~OfferAnswered
    <3>1. peer = "checking"
      BY <1>5, <2>3, <1>p DEF Connects, PeerGone
    <3>2. CASE now' = now
      BY <1>5, <2>3, <3>1, <3>2, <1>i
    <3>3. CASE Tick
      BY <1>5, <2>3, <3>1, <3>3, <1>t, Numbers DEF Tick
    <3> QED
      BY <3>2, <3>3, <1>p
  <2> QED
    BY <2>1, <2>2, <2>3
<1>6. ASSUME NEW d \in Callers, pc'[d] = "keep", nudge' # Never, at'[d] - nudge' >= NudgeGrace
      PROVE  media'
  <2>1. CASE Ask(d) /\ pc[d] # "keep"
    <3>1. Held /\ at' = [at EXCEPT ![d] = now] /\ nudge' = nudge
      BY <1>6, <2>1, <1>t DEF Ask, Answers, Goto, world
    <3>2. now - nudge >= NudgeGrace
      BY <1>6, <3>1, <1>t
    <3>3. peer # "checking"
      BY <1>6, <3>1, <3>2, <1>i, <1>t, Numbers
    <3> QED
      BY <3>1, <3>3, <1>i, <1>w DEF Held, WorldMoves
  <2>2. CASE pc[d] = "keep" /\ at'[d] = at[d]
    <3>1. CASE nudge' = nudge
      BY <1>6, <2>2, <3>1, <1>w DEF IInv, NudgesTell, WorldMoves
    <3>2. CASE nudge' # nudge
      <4>1. nudge' = now /\ at[d] <= now /\ at[d] \in Int
        BY <3>2, <1>t, <1>w DEF WorldMoves, IInv, RowsAreSound, Time
      <4> QED
        BY <1>6, <2>2, <4>1, <1>t, Numbers
    <3> QED
      BY <3>1, <3>2
  <2>3. (Ask(d) /\ pc[d] # "keep") \/ (pc[d] = "keep" /\ at'[d] = at[d])
    <3>1. CASE pc'[d] = pc[d] /\ at'[d] = at[d]
      BY <1>6, <3>1
    <3>2. CASE Ask(d)
      BY <3>2 DEF Ask
    <3>3. CASE Request(d) \/ Sweep(d)
      BY <3>1, <3>3, <1>6, <1>t DEF Request, Heartbeat, HangUp, RelayToldGone, Sweep, Goto, locals
    <3>4. CASE BeatAsk(d)
      BY <3>4, <1>6, <1>t DEF BeatAsk, Goto
    <3>5. CASE \/ Revive(d) \/ BeatAgain(d) \/ Keep(d) \/ Fresh(d) \/ Charge(d) \/ NudgeOut(d)
               \/ Stamped(d) \/ CallerDies(d)
      <4>1. pc'[d] # "keep"
        BY <3>5, <1>t DEF Revive, BeatAgain, Keep, Fresh, Charge, NudgeOut, Stamped, CallerDies,
                          Return, Goto
      <4> QED
        BY <4>1, <1>6
    <3> QED
      BY <3>1, <3>2, <3>3, <3>4, <3>5, <1>t, OnlyItsOwn DEF CallerStep
  <2> QED
    BY <2>1, <2>2, <2>3
<1> QED
  BY <1>1, <1>2, <1>3, <1>4, <1>5, <1>6 DEF NudgesTell

LEMMA StepBilled == ASSUME IInv, Next PROVE Billed'
<1>t. /\ Types /\ Step /\ row \in CallRow /\ row' \in CallRow
      /\ now \in Int /\ now' \in Int /\ now <= now'
      /\ vouched \in Int /\ vouched' \in Int /\ vouched <= vouched'
      /\ meter \in [live: BOOLEAN, charged: Nat] /\ (media => media')
  <2>1. Types /\ Step /\ Types'
    BY StepTypes DEF IInv, Next
  <2>2. WorldMoves
    BY <2>1, StepWorld
  <2> QED
    BY <2>1, <2>2, StepVouched DEF WorldMoves, Types, Time
<1>f. /\ row.answered \in Int /\ row.connected \in Int
      /\ row'.answered \in Int /\ row'.connected \in Int
  BY <1>t, Fields
<1>c. row.connected # Never => /\ row.answered # Never /\ row'.answered = row.answered
                               /\ row'.connected # Never /\ row'.connected <= row.connected
  BY AnswersStay DEF IInv, RowsAreSound, Sound
<1>1. CASE meter'.charged = meter.charged
  <2> SUFFICES ASSUME meter.charged > 0
               PROVE  /\ media' /\ row'.connected # Never
                      /\ \/ meter.charged <= 1
                         \/ meter.charged <= Ceiling /\ meter.charged <= now' - row'.answered
                      /\ meter.charged <= 1 \/ meter.charged <= vouched' + Timeout - row'.connected
    BY <1>1 DEF Billed
  <2>1. /\ media /\ row.connected # Never
        /\ \/ meter.charged <= 1
           \/ meter.charged <= Ceiling /\ meter.charged <= now - row.answered
        /\ meter.charged <= 1 \/ meter.charged <= vouched + Timeout - row.connected
    BY DEF IInv, Billed
  <2> QED
    BY <2>1, <1>c, <1>f, <1>t, Numbers
<1>2. ASSUME NEW c \in Callers, Charge(c), meter'.charged = Price(mine[c], at[c])
      PROVE  Billed'
  <2> DEFINE p == Price(mine[c], at[c])
             r == mine[c]
  <2>1. r \in CallRow /\ at[c] \in Time /\ at[c] \in Int /\ at[c] <= now
    BY <1>t DEF IInv, Types, Time, RowsAreSound
  <2>2. Sound(r) /\ StillTrue(r)
    BY DEF IInv, RowsAreSound
  <2>3. /\ p \in Nat
        /\ p > 0 => r.connected # Never
        /\ r.connected # Never =>
             /\ p <= 1 \/ (p <= Ceiling /\ p <= at[c] - r.answered)
             /\ p <= 1 \/ p <= ProofOfLife(r) + Timeout - r.connected
    BY <2>1, <2>2, Prices DEF Sound
  <2>4. r.connected # Never => /\ media /\ r.answered = row.answered
                               /\ row.connected # Never /\ row.connected <= r.connected
    BY <2>2 DEF Sound, StillTrue
  <2>5. row' = row
    BY <1>2 DEF Charge
  <2>6. ProofOfLife(r) <= vouched /\ ProofOfLife(r) \in Int /\ r.connected \in Int
        /\ r.answered \in Int
    BY <2>1, <2>2, LifeIsTime, Fields DEF Sound, Time
  <2> HIDE DEF p, r
  <2> SUFFICES ASSUME p > 0
               PROVE  /\ media' /\ row'.connected # Never
                      /\ p <= 1 \/ (p <= Ceiling /\ p <= now' - row'.answered)
                      /\ p <= 1 \/ p <= vouched' + Timeout - row'.connected
    BY <1>2 DEF Billed, p
  <2>7. media' /\ row'.connected # Never
    BY <2>3, <2>4, <2>5, <1>t
  <2>8. p <= 1 \/ (p <= Ceiling /\ p <= now' - row'.answered)
    BY <2>1, <2>3, <2>4, <2>5, <2>6, <1>t, <1>f
  <2>9. p <= 1 \/ p <= vouched' + Timeout - row'.connected
    BY <2>3, <2>4, <2>5, <2>6, <1>t, <1>f, Numbers
  <2> QED
    BY <2>7, <2>8, <2>9
<1>3. \/ meter'.charged = meter.charged
      \/ \E c \in Callers : Charge(c) /\ meter'.charged = Price(mine[c], at[c])
  BY <1>t, MeterMoves
<1> QED
  BY <1>1, <1>2, <1>3

-----------------------------------------------------------------------------
(* The theorems.                                                            *)

LEMMA InitIInv == ASSUME Init PROVE IInv
<1>1. Recorded \in CallRow /\ ProofOfLife(Recorded) = 0 /\ 0 \in Time /\ 0 # Never
      /\ Never \in Stamp /\ 0 \in 0..MaxFailures
  BY RecordedIsRow, Numbers DEF Time, Stamp
<1>2. Recorded.connected = Never /\ Recorded.answered = Never /\ Recorded.nudged = Never
      /\ Recorded.ended = Never
  BY DEF Recorded
<1>3. Types
  BY <1>1 DEF Init, Types
<1>4. RowsAreSound
  BY <1>1, <1>2 DEF Init, RowsAreSound, Sound, StillTrue
<1>5. CallersAreAnswered /\ NudgesTell /\ StampsFollow
  BY DEF Init, CallersAreAnswered, NudgesTell, StampsFollow
<1>6. EndedIsSettled /\ Billed
  BY <1>2 DEF Init, EndedIsSettled, Billed, Live
<1> QED
  BY <1>3, <1>4, <1>5, <1>6 DEF IInv

LEMMA Inductive == ASSUME IInv, [Next]_<<vars, vouched>> PROVE IInv'
<1>1. CASE Next
  BY <1>1, StepTypes, StepSound, StepAnswered, StepNudges, StepStamps, StepBilled DEF IInv
<1>2. CASE UNCHANGED <<vars, vouched>>
  <2>1. UNCHANGED <<now, row, meter, peer, nudge, media>>
    BY <1>2 DEF vars, world
  <2>2. UNCHANGED <<opener, pc, mine, at, gone, failures, vouched>>
    BY <1>2 DEF vars, locals
  <2>3. Types' /\ StampsFollow' /\ EndedIsSettled' /\ Billed'
    BY <2>1, <2>2 DEF IInv, Types, StampsFollow, EndedIsSettled, Billed, Live
  <2>4. RowsAreSound'
    BY <2>1, <2>2 DEF IInv, RowsAreSound, Sound, StillTrue
  <2>5. CallersAreAnswered' /\ NudgesTell'
    BY <2>1, <2>2 DEF IInv, CallersAreAnswered, NudgesTell
  <2> QED
    BY <2>3, <2>4, <2>5 DEF IInv
<1> QED
  BY <1>1, <1>2

LEMMA Invariance == Spec => []IInv
  BY InitIInv, Inductive, PTL DEF Spec

\* For any callers, times and deaths every row, stamp and step has its type, and
\* what a session is charged fits the column TypeOK gives it.
THEOREM TypeCorrect == Spec => []TypeOK
<1>1. IInv => TypeOK
  <2> SUFFICES ASSUME IInv PROVE TypeOK
    OBVIOUS
  <2>1. meter \in [live: BOOLEAN, charged: Nat]
    BY DEF IInv, Types
  <2>2. meter.charged <= 1 \/ meter.charged <= Ceiling \/ meter.charged = 0
    BY <2>1 DEF IInv, Billed
  <2>3. meter.charged \in 0..(Ceiling + MaxTime)
    BY <2>1, <2>2, Numbers
  <2>4. meter \in [live: BOOLEAN, charged: 0..(Ceiling + MaxTime)]
    BY <2>1, <2>3
  <2> QED
    BY <2>4 DEF IInv, Types, TypeOK
<1> QED
  BY <1>1, Invariance, PTL

\* No row says its call is over while the call's session is open, whoever of the
\* resolvers, the opener and the sweep stamps it, and whoever of them dies.
THEOREM EndsFollowSettlement == Spec => []EndedIsSettled
<1>1. IInv => EndedIsSettled
  BY DEF IInv
<1> QED
  BY <1>1, Invariance, PTL

\* A call is charged only if its media was up, for no more than from its answer to
\* the ceiling or the present, nor past its last sign of life and the timeout.
THEOREM TalkIsBilled == Spec => []OnlyTalkIsBilled
<1>1. IInv => OnlyTalkIsBilled
  <2> SUFFICES ASSUME IInv, meter.charged > 0
               PROVE  /\ media
                      /\ meter.charged <= Max({1, Min({Ceiling, now - row.answered})})
                      /\ meter.charged <= Max({1, vouched + Timeout - row.connected})
    BY DEF OnlyTalkIsBilled
  <2> DEFINE n == now - row.answered
             m == Min({Ceiling, n})
             k == vouched + Timeout - row.connected
  <2>1. row.answered \in Int /\ row.connected \in Int /\ now \in Int /\ vouched \in Int
        /\ meter.charged \in Nat
    BY Fields DEF IInv, Types, Time
  <2>2. /\ media
        /\ meter.charged <= 1 \/ (meter.charged <= Ceiling /\ meter.charged <= n)
        /\ meter.charged <= 1 \/ meter.charged <= k
    BY DEF IInv, Billed
  <2>3. Ceiling \in Int /\ n \in Int /\ k \in Int /\ 1 \in Int
    BY <2>1, Numbers
  <2> HIDE DEF n, k
  <2>4. m \in {Ceiling, n} /\ m \in Int
    BY <2>3, MinOfTwo
  <2> HIDE DEF m
  <2>5. 1 <= Max({1, m}) /\ m <= Max({1, m}) /\ Max({1, m}) \in Int
    BY <2>3, <2>4, MaxOfTwo
  <2>6. 1 <= Max({1, k}) /\ k <= Max({1, k}) /\ Max({1, k}) \in Int
    BY <2>3, MaxOfTwo
  <2>7. meter.charged <= Max({1, m})
    BY <2>1, <2>2, <2>3, <2>4, <2>5
  <2>8. meter.charged <= Max({1, k})
    BY <2>1, <2>2, <2>3, <2>6
  <2> QED
    BY <2>2, <2>7, <2>8 DEF m, n, k
<1> QED
  BY <1>1, Invariance, PTL

-----------------------------------------------------------------------------
(* Silence. What a probe or a verdict found stays true until it is acted on.  *)

Unheard ==
    \A c \in Callers :
        /\ pc[c] \in {"ask", "keep"} => Live(mine[c]) /\ Quiet(mine[c], at[c])
        /\ pc[c] = "fresh" => row.answered # Never
        /\ Trusted /\ failures = 0 =>
              /\ pc[c] = "fresh" => ~Held \/ PastCeiling(row, now)
              /\ pc[c] = "again" => ~Held \/ ~Live(row)

LEMMA EndedStaysEnded == ASSUME IInv, Step, ~Live(row) PROVE ~Live(row')
<1>t. row \in CallRow /\ row.ended # Never
  BY DEF IInv, Types, Live
<1>1. CASE RowStays
  BY <1>1, StaysMeansSame DEF Live
<1>2. CASE RecordAnswer \/ GiveUpStamps
  BY <1>2 DEF RecordAnswer, GiveUpStamps
<1>3. ASSUME NEW c \in Callers, Heartbeat(c) \/ Revive(c) PROVE row' = row
  BY <1>3 DEF Heartbeat, HeartbeatTaken, Revive
<1>4. ASSUME NEW c \in Callers, Keep(c) PROVE row' = row
  BY <1>4 DEF Keep
<1>5. ASSUME NEW c \in Callers, NudgeOut(c) \/ Stamped(c) PROVE ~Live(row')
  <2>1. row' = row \/ row' = Stamps(c)
    BY <1>5 DEF NudgeOut, Stamped
  <2>2. Stamps(c).ended = row.ended
    BY <1>t DEF Stamps, CallRow
  <2> QED
    BY <2>1, <2>2, <1>t DEF Live
<1> QED
  BY <1>1, <1>2, <1>3, <1>4, <1>5, RowStaysOrMoves

LEMMA StepUnheard == ASSUME IInv, Unheard, Next PROVE Unheard'
<1>t. /\ Types /\ Step /\ row \in CallRow /\ row' \in CallRow /\ now \in Int /\ now' \in Int
      /\ now <= now' /\ failures \in Nat
      /\ mine \in [Callers -> CallRow] /\ at \in [Callers -> Time] /\ DOMAIN pc = Callers
  <2>1. Types /\ Step /\ WorldMoves /\ Types'
    BY StepWorld, StepTypes DEF IInv, Next
  <2> QED
    BY <2>1 DEF WorldMoves, Types, Time
<1>f. row.answered \in Int
  BY <1>t, Fields
<1>1. row.answered # Never => row'.answered # Never
  BY AnswersStay
<1>2. row.answered # Never /\ ~Held => ~Held'
  <2>1. row.answered # Never => opener = "done"
    BY DEF IInv, RowsAreSound
  <2> QED
    BY <2>1, <1>t, PeerMoves DEF Held, OfferAnswered, Connects, PeerGone
<1>3. row.answered # Never /\ PastCeiling(row, now) => PastCeiling(row', now')
  BY <1>t, <1>f, AnswersStay, Numbers DEF PastCeiling
<1>4. ~Live(row) => ~Live(row')
  BY <1>t, EndedStaysEnded
<1>5. failures' = 0 => failures = 0
  <2>1. failures' = failures \/ Fail
    BY <1>t DEF Step, OpenerStep, CallerStep, Request, OfferAnswered, OfferFailed, RecordAnswer,
       GiveUpAbandons, GiveUpStamps, OpenerDies, Tick, Connects, PeerGone, Heartbeat, BeatAsk,
       Answers, Revive, BeatAgain, HangUp, RelayToldGone, Sweep, Ask, Keep, Fresh, Charge,
       NudgeOut, Stamped, CallerDies
  <2> QED
    BY <2>1, <1>t DEF Fail
<1> SUFFICES ASSUME NEW d \in Callers
             PROVE  /\ pc'[d] \in {"ask", "keep"} => Live(mine'[d]) /\ Quiet(mine'[d], at'[d])
                    /\ pc'[d] = "fresh" => row'.answered # Never
                    /\ Trusted /\ failures' = 0 =>
                          /\ pc'[d] = "fresh" => ~Held' \/ PastCeiling(row', now')
                          /\ pc'[d] = "again" => ~Held' \/ ~Live(row')
  BY DEF Unheard, Live, Quiet, PastCeiling, ProofOfLife
<1>i. /\ pc[d] \in {"ask", "keep"} => Live(mine[d]) /\ Quiet(mine[d], at[d])
      /\ pc[d] = "fresh" => row.answered # Never
      /\ Trusted /\ failures = 0 =>
            /\ pc[d] = "fresh" => ~Held \/ PastCeiling(row, now)
            /\ pc[d] = "again" => ~Held \/ ~Live(row)
  BY DEF Unheard
<1>k. /\ pc[d] = "again" => row.answered # Never
      /\ pc[d] = "beatask" => row.answered # Never
      /\ pc[d] \in {"ask", "keep"} => /\ mine[d].answered # Never
                                      /\ mine[d].answered = row.answered
                                      /\ row.answered # Never
  BY DEF IInv, CallersAreAnswered, RowsAreSound, StillTrue
<1>m. mine[d] \in CallRow /\ at[d] \in Int /\ at[d] <= now
  BY <1>t DEF IInv, RowsAreSound, Time
<1>6. CASE pc'[d] = pc[d] /\ at'[d] = at[d] /\ mine'[d] = mine[d]
  BY <1>6, <1>i, <1>k, <1>1, <1>2, <1>3, <1>4, <1>5
<1>7. CASE Heartbeat(d)
  <2>1. \/ pc'[d] = pc[d] /\ at'[d] = at[d] /\ mine'[d] = mine[d]
        \/ pc'[d] \in {"beatask", "charge"}
        \/ pc'[d] = "ask" /\ Live(row) /\ Quiet(row, now) /\ mine'[d] = row /\ at'[d] = now
    BY <1>7, <1>t DEF Heartbeat, Load, Goto, locals
  <2> QED
    BY <2>1, <1>6
<1>8. CASE HangUp(d) \/ RelayToldGone(d)
  BY <1>8, <1>t DEF HangUp, RelayToldGone, Goto
<1>9. CASE Sweep(d)
  <2>1. Live(row)
    <3>1. Verdict(row, now) # "none"
      BY <1>9 DEF Sweep
    <3>2. ~Live(row) => Verdict(row, now) = "none"
      <4> SUFFICES ASSUME ~Live(row) PROVE Verdict(row, now) = "none"
        OBVIOUS
      <4> HIDE DEF Live
      <4> QED
        BY DEF Verdict
    <3> QED
      BY <3>1, <3>2
  <2>2. pc'[d] = "charge" \/ (pc'[d] = "ask" /\ Quiet(row, now) /\ mine'[d] = row /\ at'[d] = now)
    BY <1>9, <1>t DEF Sweep, Load, Goto
  <2> QED
    BY <2>1, <2>2
<1>a. ASSUME NEW answer \in Probed, Answers(answer), answer # "held", Trusted, failures' = 0
      PROVE  ~Held
  BY <1>a, <1>t DEF Answers, Fail
<1>10. CASE BeatAsk(d)
  <2>1. \E answer \in Probed : /\ Answers(answer)
                               /\ Goto(d, IF answer = "held" THEN "revive" ELSE "again")
    BY <1>10 DEF BeatAsk
  <2>2. PICK answer \in Probed : /\ Answers(answer)
                                 /\ Goto(d, IF answer = "held" THEN "revive" ELSE "again")
    BY <2>1
  <2>3. pc'[d] = IF answer = "held" THEN "revive" ELSE "again"
    BY <2>2, <1>t DEF Goto
  <2>4. row.answered # Never
    BY <1>10, <1>k DEF BeatAsk
  <2>5. answer # "held" /\ Trusted /\ failures' = 0 => ~Held'
    BY <2>2, <2>4, <1>a, <1>2
  <2> QED
    BY <2>3, <2>5
<1>11. CASE Revive(d)
  <2>1. pc'[d] \in {"idle", "charge"} \/ (pc'[d] = "again" /\ ~Live(row))
    BY <1>11, <1>t DEF Revive, Return, Goto
  <2> QED
    BY <2>1, <1>4
<1>12. CASE Ask(d)
  <2>1. PICK answer \in Probed :
           /\ Answers(answer)
           /\ IF answer = "held"
              THEN Goto(d, "keep") /\ at' = [at EXCEPT ![d] = now] /\ UNCHANGED mine
              ELSE Goto(d, "fresh") /\ Drop(d) /\ UNCHANGED at
    BY <1>12 DEF Ask
  <2>2. pc[d] = "ask"
    BY <1>12 DEF Ask
  <2>3. CASE answer = "held"
    <3>1. pc'[d] = "keep" /\ at'[d] = now /\ mine'[d] = mine[d]
      BY <2>1, <2>3, <1>t DEF Goto
    <3>2. ProofOfLife(mine[d]) \in Int
      BY <1>m, LifeIsTime DEF Time
    <3>3. Live(mine[d]) /\ Quiet(mine[d], now)
      BY <2>2, <3>2, <1>i, <1>m, <1>t, Numbers DEF Quiet
    <3> QED
      BY <3>1, <3>3
  <2>4. CASE answer # "held"
    <3>1. pc'[d] = "fresh"
      BY <2>1, <2>4, <1>t DEF Goto
    <3>2. row.answered # Never
      BY <2>2, <1>k
    <3>3. Trusted /\ failures' = 0 => ~Held'
      BY <2>1, <2>4, <3>2, <1>a, <1>2
    <3> QED
      BY <3>1, <3>2, <3>3, <1>1
  <2> QED
    BY <2>3, <2>4
<1>13. CASE Keep(d)
  <2>1. pc[d] = "keep"
    BY <1>13 DEF Keep
  <2>2. pc'[d] = "idle" \/ (pc'[d] = "fresh" /\ Verdict(mine[d], at[d]) # "ask")
    BY <1>13, <1>t DEF Keep, Return, Goto
  <2>3. ASSUME Verdict(mine[d], at[d]) # "ask" PROVE PastCeiling(row, now)
    <3>1. PastCeiling(mine[d], at[d])
      BY <2>1, <2>3, <1>i, <1>k DEF Verdict, Answered
    <3> QED
      BY <2>1, <3>1, <1>k, <1>m, <1>t, <1>f, Numbers DEF PastCeiling
  <2> QED
    BY <2>1, <2>2, <2>3, <1>k, <1>1, <1>3
<1>14. CASE BeatAgain(d) \/ Fresh(d) \/ Charge(d) \/ NudgeOut(d) \/ Stamped(d) \/ CallerDies(d)
  <2>1. pc'[d] \in {"idle", "revive", "charge", "nudge", "stamp"}
    BY <1>14, <1>t DEF BeatAgain, Fresh, Charge, NudgeOut, Stamped, CallerDies, Return, Goto
  <2> QED
    BY <2>1
<1> QED
  BY <1>6, <1>7, <1>8, <1>9, <1>10, <1>11, <1>12, <1>13, <1>14, <1>t, OnlyItsOwn
     DEF Request, CallerStep

LEMMA UnheardStays == Spec => []Unheard
<1>1. Init => Unheard
  BY DEF Init, Unheard
<1>2. IInv /\ Unheard /\ [Next]_<<vars, vouched>> => Unheard'
  <2>1. CASE Next
    BY <2>1, StepUnheard
  <2>2. ASSUME UNCHANGED <<vars, vouched>>, Unheard PROVE Unheard'
    <3>1. UNCHANGED <<now, row, peer, pc, mine, at, failures>>
      BY <2>2 DEF vars, world, locals
    <3> QED
      BY <2>2, <3>1 DEF Unheard, Held, Live, Quiet, PastCeiling, ProofOfLife
  <2> QED
    BY <2>1, <2>2
<1> QED
  BY <1>1, <1>2, Invariance, PTL DEF Spec

\* A sweep or a late heartbeat that settles a call the agent still holds does so at
\* the ceiling, whatever happened between its probe and the row it read again.
THEOREM SilenceIsNotFree == Spec => SilenceKeepsTheMeter
<1>1. ASSUME IInv, Unheard, Next, NEW c \in Callers,
             pc[c] \in {"fresh", "again"}, pc'[c] = "charge", Trusted, failures = 0
      PROVE  ~Held \/ PastCeiling(row, now)
  <2>1. CASE pc[c] = "fresh"
    BY <1>1, <2>1 DEF Unheard
  <2>2. CASE pc[c] = "again"
    <3>1. Types /\ Step
      BY <1>1 DEF IInv, Next
    <3>2. Request(c) \/ Sweep(c) \/ CallerStep(c) \/ CallerDies(c)
      BY <1>1, <2>2, <3>1, OnlyItsOwn
    <3>3. BeatAgain(c) \/ CallerDies(c)
      BY <2>2, <3>2 DEF Request, Heartbeat, HangUp, RelayToldGone, Sweep, CallerStep, BeatAsk,
         Revive, Ask, Keep, Fresh, Charge, NudgeOut, Stamped
    <3>4. Live(row)
      BY <1>1, <3>1, <3>3 DEF BeatAgain, CallerDies, Return, Goto, Types
    <3> QED
      BY <1>1, <2>2, <3>4 DEF Unheard
  <2> QED
    BY <1>1, <2>1, <2>2
<1> DEFINE Kept == \A c \in Callers :
                      (pc[c] \in {"fresh", "again"} /\ pc'[c] = "charge" /\ Trusted /\ failures = 0)
                         => ~Held \/ PastCeiling(row, now)
<1>2. IInv /\ Unheard /\ [Next]_<<vars, vouched>> => [Kept]_vars
  BY <1>1
<1> QED
  BY <1>2, Invariance, UnheardStays, PTL DEF Spec, SilenceKeepsTheMeter
=============================================================================
