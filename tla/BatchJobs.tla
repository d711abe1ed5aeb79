------------------------------ MODULE BatchJobs ------------------------------
(* app/services/ai/tts_batch_service.py: one batch job and the session that  *)
(* pays for it, from the commit that creates them. Requests, handlers of     *)
(* queue messages and sweeps (all called callers) submit, poll, cancel and   *)
(* expire it. Each action is one statement with its commit, or one exchange  *)
(* with the speech service; between two of them any other caller may run.    *)
(* `mine` is the instance a caller's AsyncSession loaded; it is not the row. *)
(* settle_oneshot is one step here: AiSessions is about its insides.         *)
EXTENDS Integers, FiniteSets

CONSTANTS Callers,     \* connections that run a function of the service
          Creator,     \* the request handing its new job over itself, or Nobody
          Nobody,
          Length,      \* characters of the corpus, all of them held for
          MaxFailures  \* bound: refusals, lost answers, busy wallets, deaths

ASSUME CallersAssumption == Nobody \notin Callers /\ Creator \in Callers \cup {Nobody}
ASSUME BoundsAssumption == Length \in Nat /\ MaxFailures \in Nat

Live     == {"queued", "submitted", "running"}
Terminal == {"succeeded", "failed", "cancelled", "expired"}

\* `upstream`: upstream_job_id is set. `items`: items_json is.
JobRow == [state: Live \cup Terminal, upstream: BOOLEAN, items: BOOLEAN, billed: 0..Length]

Created == [state |-> "queued", upstream |-> FALSE, items |-> TRUE, billed |-> 0]

\* Upstream's states, under the names UPSTREAM_STATES gives them.
SpeechStates == {"none", "refused", "submitted", "running", "succeeded", "failed", "cancelled"}

VARIABLES
    job,      \* the row
    meter,    \* the session: not terminal yet, and the characters it charged
    speech,   \* the speech service: its job, and the characters it has done
    overdue,  \* TTS_BATCH_MAX_POLL_SECONDS have passed (`_has_expired`)
    pollDue,  \* next_poll_at has passed (`_is_due`)
    pc,       \* each caller: its next step
    mine,     \* each caller: the job as it loaded it
    unsaved,  \* each caller: `mine` carries the claim's values, not yet flushed
    want,     \* each caller: the state it is about to write
    usage,    \* each caller: the characters it is about to charge
    failures

row    == <<job, meter, overdue, pollDue>>
locals == <<mine, unsaved, want, usage>>
vars   == <<row, speech, pc, locals, failures>>

Steps == {"idle", "post", "claim", "reload", "poll", "advance", "stop", "count",
          "charge", "stamp", "outrun", "outsettled", "halt"}

TypeOK ==
    /\ job \in JobRow
    /\ meter \in [live: BOOLEAN, charged: 0..Length]
    /\ speech \in [state: SpeechStates, done: 0..Length]
    /\ overdue \in BOOLEAN /\ pollDue \in BOOLEAN
    /\ pc \in [Callers -> Steps]
    /\ mine \in [Callers -> JobRow]
    /\ unsaved \in [Callers -> BOOLEAN]
    /\ want \in [Callers -> Live \cup Terminal]
    /\ usage \in [Callers -> 0..Length]
    /\ failures \in 0..MaxFailures

\* create_job has committed. With no broker, its request goes on to submit_job.
Init ==
    /\ job = Created
    /\ meter = [live |-> TRUE, charged |-> 0]
    /\ speech = [state |-> "none", done |-> 0]
    /\ overdue = FALSE /\ pollDue = FALSE
    /\ pc = [c \in Callers |-> IF c = Creator THEN "post" ELSE "idle"]
    /\ mine = [c \in Callers |-> Created]
    /\ unsaved = [c \in Callers |-> FALSE]
    /\ want = [c \in Callers |-> "queued"]
    /\ usage = [c \in Callers |-> 0]
    /\ failures = 0

-----------------------------------------------------------------------------
(* Steps of every function.                                                 *)

Fail == failures < MaxFailures /\ failures' = failures + 1

Goto(c, step) == pc' = [pc EXCEPT ![c] = step]

\* The caller raises or returns: its AsyncSession closes, and forgets.
Leave(c) ==
    /\ Goto(c, "idle")
    /\ mine' = [mine EXCEPT ![c] = Created]
    /\ unsaved' = [unsaved EXCEPT ![c] = FALSE]
    /\ want' = [want EXCEPT ![c] = "queued"]
    /\ usage' = [usage EXCEPT ![c] = 0]

\* settle_job is called with this state and this usage.
Settle(c, state, characters) ==
    /\ Goto(c, "charge")
    /\ want' = [want EXCEPT ![c] = state]
    /\ usage' = [usage EXCEPT ![c] = characters]

-----------------------------------------------------------------------------
(* The speech service. Our job id is its idempotency key, so a second POST   *)
(* is answered with the job the first one made. A payload refused once is   *)
(* refused again.                                                            *)

\* Mutant: an answer whose state has no branch is taken as it is.
Unmapped == speech

Accepted == IF speech.state = "none" THEN [state |-> "submitted", done |-> 0] ELSE speech

Stopped == IF speech.state \in {"submitted", "running"}
           THEN [speech EXCEPT !.state = "cancelled"] ELSE speech

SpeechRuns ==
    /\ speech.state \in {"submitted", "running"}
    /\ \E done \in {speech.done, speech.done + 1} \cap 0..Length :
          speech' = [state |-> "running", done |-> done]
    /\ UNCHANGED <<row, pc, locals, failures>>

SpeechEnds ==
    /\ speech.state = "running"
    /\ \E state \in {"succeeded", "failed"} : speech' = [speech EXCEPT !.state = state]
    /\ UNCHANGED <<row, pc, locals, failures>>

-----------------------------------------------------------------------------
(* submit_job.                                                              *)

\* A queued job without its payload is settled; one with it is posted.
BeginSubmit(c) ==
    /\ mine' = [mine EXCEPT ![c] = job]
    /\ UNCHANGED unsaved
    /\ IF job.items THEN Goto(c, "post") /\ UNCHANGED <<want, usage>>
                    ELSE Settle(c, "failed", 0)

\* A submit message is taken, first or again.
Submit(c) ==
    /\ pc[c] = "idle" /\ job.state = "queued"
    /\ BeginSubmit(c)
    /\ UNCHANGED <<row, speech, failures>>

PostAnswered(c) ==
    /\ pc[c] = "post" /\ speech.state # "refused"
    /\ speech' = Accepted
    /\ Goto(c, "claim")
    /\ want' = [want EXCEPT ![c] = Accepted.state]
    /\ usage' = [usage EXCEPT ![c] = Accepted.done]
    /\ UNCHANGED <<row, mine, unsaved, failures>>

PostRefused(c) ==
    /\ pc[c] = "post"
    /\ \/ speech.state = "none" /\ Fail
       \/ speech.state = "refused" /\ UNCHANGED failures
    /\ speech' = [state |-> "refused", done |-> 0]
    /\ Settle(c, "failed", 0)
    /\ UNCHANGED <<row, mine, unsaved>>

\* The answer is lost, or names no job; the request may have been served.
PostLost(c) ==
    /\ pc[c] = "post" /\ Fail
    /\ speech' \in {speech, Accepted}
    /\ Leave(c)
    /\ UNCHANGED row

\* What the claim writes, over whatever the row says.
ClaimOver(r, state) == [r EXCEPT !.state = state, !.upstream = TRUE, !.items = FALSE]

ClaimedState(answer) == IF answer \in Terminal THEN "submitted" ELSE answer

MayClaim(c) == job.state = "queued"

\* UPDATE ... WHERE state = 'queued'. It stamps submitted_at, which moves the
\* deadline. The new values are assigned to the instance by hand, after the
\* commit: a job that came back finished is then settled with them pending.
Claim(c) ==
    /\ pc[c] = "claim" /\ MayClaim(c)
    /\ job' = ClaimOver(job, ClaimedState(want[c]))
    /\ overdue' = FALSE /\ pollDue' = FALSE
    /\ IF want[c] \in Terminal
       THEN /\ mine' = [mine EXCEPT ![c] = job']
            /\ unsaved' = [unsaved EXCEPT ![c] = TRUE]
            /\ Settle(c, want[c], usage[c])
       ELSE Leave(c)
    /\ UNCHANGED <<meter, speech, failures>>

\* uq_tts_batch_jobs_upstream_job_id: upstream gave us another job's id.
ClaimCollides(c) ==
    /\ pc[c] = "claim" /\ MayClaim(c) /\ Fail
    /\ Goto(c, "reload")
    /\ UNCHANGED <<row, speech, locals>>

Reload(c) ==
    /\ pc[c] = "reload"
    /\ IF job.state \in Terminal
       THEN Leave(c)
       ELSE /\ mine' = [mine EXCEPT ![c] = job]
            /\ Settle(c, "failed", 0)
            /\ UNCHANGED unsaved
    /\ UNCHANGED <<row, speech, failures>>

ClaimLost(c) ==
    /\ pc[c] = "claim" /\ ~MayClaim(c)
    /\ Goto(c, "outrun")
    /\ UNCHANGED <<row, speech, locals, failures>>

\* The id on the row is the one we were given: both submits got one job.
ClaimedByOurTwin == job.upstream

\* _overtaken_submit.
Outrun(c) ==
    /\ pc[c] = "outrun"
    /\ IF ClaimedByOurTwin THEN Leave(c) ELSE Goto(c, "halt") /\ UNCHANGED locals
    /\ UNCHANGED <<row, speech, failures>>

\* The best-effort DELETE of _overtaken_submit and _overtaken_settlement.
Halt(c) ==
    /\ pc[c] = "halt"
    /\ Leave(c)
    /\ \/ speech' = Stopped /\ UNCHANGED failures
       \/ Fail /\ UNCHANGED speech
    /\ UNCHANGED row

-----------------------------------------------------------------------------
(* refresh_job, expire_job and cancel_job.                                   *)

\* A poll message, a read of the job, or a sweep's turn at it.
Refresh(c) ==
    /\ pc[c] = "idle" /\ job.state \in Live
    /\ \/ /\ overdue
          /\ mine' = [mine EXCEPT ![c] = job]
          /\ UNCHANGED unsaved
          /\ IF job.upstream
             THEN /\ Goto(c, "count")
                  /\ want' = [want EXCEPT ![c] = "expired"]
                  /\ UNCHANGED usage
             ELSE Settle(c, "expired", 0)
       \/ /\ ~overdue /\ (job.state = "queued" \/ ~job.upstream)
          /\ BeginSubmit(c)
       \/ /\ ~overdue /\ job.state # "queued" /\ job.upstream /\ pollDue
          /\ mine' = [mine EXCEPT ![c] = job]
          /\ Goto(c, "poll")
          /\ UNCHANGED <<unsaved, want, usage>>
    /\ UNCHANGED <<row, speech, failures>>

\* sweep_stale_jobs: a candidate past its deadline. Due or not, it is expired.
Sweep(c) == overdue /\ Refresh(c)

PollAnswered(c) ==
    /\ pc[c] = "poll" /\ speech.state \notin {"none", "refused"}
    /\ IF speech.state \in Terminal
       THEN Settle(c, speech.state, speech.done)
       ELSE /\ Goto(c, "advance")
            /\ want' = [want EXCEPT ![c] = speech.state]
            /\ UNCHANGED usage
    /\ UNCHANGED <<row, speech, mine, unsaved, failures>>

\* Upstream no longer knows the job: nothing to count, nothing charged.
PollVanished(c) ==
    /\ pc[c] = "poll" /\ Fail
    /\ Settle(c, "failed", 0)
    /\ UNCHANGED <<row, speech, mine, unsaved>>

PollLost(c) ==
    /\ pc[c] = "poll" /\ Fail
    /\ Leave(c)
    /\ UNCHANGED <<row, speech>>

\* Mutant: the poll's result is written whatever the row says now.
WritesAnyway(c) == TRUE

\* WHERE state = :entry_state, of the poll's result and of the final stamp.
StillAsLoaded(c) == job.state = mine[c].state

Advance(c) ==
    /\ pc[c] = "advance"
    /\ IF StillAsLoaded(c)
       THEN job' = [job EXCEPT !.state = want[c]] /\ pollDue' = FALSE
       ELSE UNCHANGED <<job, pollDue>>
    /\ Leave(c)
    /\ UNCHANGED <<meter, overdue, speech, failures>>

\* DELETE /tts/batch/{id}.
Cancel(c) ==
    /\ pc[c] = "idle" /\ job.state \in Live
    /\ mine' = [mine EXCEPT ![c] = job]
    /\ UNCHANGED unsaved
    /\ IF job.upstream
       THEN /\ Goto(c, "stop")
            /\ want' = [want EXCEPT ![c] = "cancelled"]
            /\ UNCHANGED usage
       ELSE Settle(c, "cancelled", 0)
    /\ UNCHANGED <<row, speech, failures>>

\* Upstream's DELETE answers with counters, or without, and then they are read.
Stop(c) ==
    /\ pc[c] = "stop"
    /\ speech' = Stopped
    /\ \/ Settle(c, "cancelled", speech.done)
       \/ Goto(c, "count") /\ UNCHANGED <<want, usage>>
    /\ UNCHANGED <<row, mine, unsaved, failures>>

StopUnknown(c) ==
    /\ pc[c] = "stop" /\ Fail
    /\ Goto(c, "count")
    /\ UNCHANGED <<row, speech, locals>>

StopLost(c) ==
    /\ pc[c] = "stop" /\ Fail
    /\ speech' \in {speech, Stopped}
    /\ Leave(c)
    /\ UNCHANGED row

\* batch_status for the usage alone; an error means zero.
Count(c) ==
    /\ pc[c] = "count"
    /\ \/ Settle(c, want[c], speech.done) /\ UNCHANGED failures
       \/ Settle(c, want[c], 0) /\ Fail
    /\ UNCHANGED <<row, speech, mine, unsaved>>

-----------------------------------------------------------------------------
(* settle_job.                                                              *)

\* Mutant: the job is stamped without the session having been settled.
ChargeNothing(c) == meter

Charged(c) == [live |-> FALSE, charged |-> usage[c]]

\* settle_oneshot commits. On a live session it flushes, and with the session's
\* row goes whatever is pending on the job. On a finished one it only reads, or
\* collides with the other settlement's event, and rolls back what is pending.
Charge(c) ==
    /\ pc[c] = "charge"
    /\ IF meter.live
       THEN /\ meter' = Charged(c)
            /\ job' = IF unsaved[c] THEN ClaimOver(job, mine[c].state) ELSE job
            /\ unsaved' = [unsaved EXCEPT ![c] = FALSE]
       ELSE /\ UNCHANGED <<meter, job>>
            /\ unsaved' \in {unsaved, [unsaved EXCEPT ![c] = FALSE]}
    /\ Goto(c, "stamp")
    /\ UNCHANGED <<overdue, pollDue, speech, mine, want, usage, failures>>

\* `wallet_busy`, 409. create_job takes it for a refusal of the payload and settles
\* again as failed, in the transaction the first attempt left open: the event of
\* that attempt collides, everything is rolled back, and the session is read as it was.
WalletBusy(c) ==
    /\ pc[c] = "charge" /\ meter.live /\ Fail
    /\ IF c = Creator
       THEN /\ Goto(c, "stamp")
            /\ unsaved' = [unsaved EXCEPT ![c] = FALSE]
            /\ want' = [want EXCEPT ![c] = "failed"]
            /\ usage' = [usage EXCEPT ![c] = 0]
            /\ UNCHANGED mine
       ELSE Leave(c)
    /\ UNCHANGED <<row, speech>>

Stamped(c) == [job EXCEPT !.state = want[c], !.billed = usage[c], !.items = FALSE]

\* The conditional stamp, and the commit, which flushes what is still pending.
Stamp(c) ==
    /\ pc[c] = "stamp"
    /\ LET written == IF StillAsLoaded(c) THEN Stamped(c) ELSE job
       IN  job' = IF unsaved[c] THEN ClaimOver(written, mine[c].state) ELSE written
    /\ IF StillAsLoaded(c)
       THEN Leave(c)
       ELSE /\ Goto(c, "outsettled")
            /\ unsaved' = [unsaved EXCEPT ![c] = FALSE]
            /\ UNCHANGED <<mine, want, usage>>
    /\ UNCHANGED <<meter, overdue, pollDue, speech, failures>>

\* Mutant: _overtaken_settlement returns whatever it finds.
NothingToStop == TRUE

NoneToStop == job.state \in Terminal \/ ~job.upstream

\* _overtaken_settlement: the money is settled, so upstream must not go on.
Outsettled(c) ==
    /\ pc[c] = "outsettled"
    /\ IF NoneToStop THEN Leave(c) ELSE Goto(c, "halt") /\ UNCHANGED locals
    /\ UNCHANGED <<row, speech, failures>>

-----------------------------------------------------------------------------
(* The process dies, or the connection does; time passes.                    *)

Die(c) ==
    /\ pc[c] # "idle" /\ Fail
    /\ Leave(c)
    /\ UNCHANGED <<row, speech>>

\* Mutant: the deadline runs from submitted_at alone.
NeverQueued == job.state \in Live \ {"queued"}

OnTheClock == job.state \in Live

DeadlinePasses ==
    /\ OnTheClock /\ ~overdue
    /\ overdue' = TRUE
    /\ UNCHANGED <<job, meter, pollDue, speech, pc, locals, failures>>

PollComesDue ==
    /\ job.state \in Live /\ job.upstream /\ ~pollDue
    /\ pollDue' = TRUE
    /\ UNCHANGED <<job, meter, overdue, speech, pc, locals, failures>>

\* The request that created the job does nothing else.
Begin(c) == c # Creator /\ (Submit(c) \/ Refresh(c) \/ Cancel(c))

Proceed(c) ==
    \/ PostAnswered(c) \/ PostRefused(c) \/ PostLost(c)
    \/ Claim(c) \/ ClaimCollides(c) \/ Reload(c) \/ ClaimLost(c) \/ Outrun(c) \/ Halt(c)
    \/ PollAnswered(c) \/ PollVanished(c) \/ PollLost(c) \/ Advance(c)
    \/ Stop(c) \/ StopUnknown(c) \/ StopLost(c) \/ Count(c)
    \/ Charge(c) \/ WalletBusy(c) \/ Stamp(c) \/ Outsettled(c)

\* A finished job with nobody at work on it.
AllDone ==
    /\ job.state \in Terminal
    /\ \A c \in Callers : pc[c] = "idle"
    /\ UNCHANGED vars

Next ==
    \/ \E c \in Callers : Begin(c) \/ Proceed(c) \/ Die(c)
    \/ SpeechRuns \/ SpeechEnds \/ DeadlinePasses \/ PollComesDue \/ AllDone

Spec == Init /\ [][Next]_vars

\* A running call is awaited, so it goes on; time passes; sweeps keep coming.
Fairness ==
    /\ \A c \in Callers : WF_vars(Proceed(c))
    /\ WF_vars(DeadlinePasses)
    /\ WF_vars(\E c \in Callers \ {Creator} : Sweep(c))

FairSpec == Spec /\ Fairness

-----------------------------------------------------------------------------
(* Properties.                                                              *)

\* The money first, the bookkeeping second (settle_job): a job is terminal only
\* over a session that has been settled, whoever stamped and whoever settled.
MoneyFirst == job.state \in Terminal => ~meter.live

\* Guards are conditional writes (the module's docstring): whatever a caller had
\* read before its exchanges and its settlement, no UPDATE of a claim, a poll or
\* a stamp moves a terminal row. Only a flush of pending values can.
GuardsHold ==
    [][job.state \in Terminal => job' = job \/ \E c \in Callers : unsaved[c]]_vars

\* Work nobody can be charged for is stopped (_overtaken_submit, _overtaken_settlement):
\* when every call has ended and nothing failed, a settled session leaves no job
\* running upstream, unless the job expired with upstream still at it.
UnpaidWorkStops ==
    /\ failures = 0 /\ ~meter.live
    /\ \A c \in Callers : pc[c] = "idle"
    => \/ speech.state \notin {"submitted", "running"}
       \/ job.state = "expired" /\ job.upstream

\* Whatever upstream does and however calls fail, the deadline and the sweep
\* (sweep_stale_jobs) bring every job to an end it stays at.
JobsEnd == <>[](job.state \in Terminal)

\* settle_job's comment: a terminal row is never written over by what an instance
\* still carries; nothing polls, charges or revives a finished job.
FinishedJobsStay == [][job.state \in Terminal => job' = job]_vars

\* models/tts_job.py: billed_characters is what the settlement actually charged.
BilledAsCharged == job.state \in Terminal => job.billed = meter.charged
=============================================================================
