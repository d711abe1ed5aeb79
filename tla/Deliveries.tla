----------------------------- MODULE Deliveries -----------------------------
(* The three gateways that sell a delivery: tts_service.synthesize (speech), *)
(* stt_service.transcribe (upload) and stt_stream_service.run (live). Each   *)
(* opens a metered session, relays what upstream sends and ends the session, *)
(* while its request can be cancelled at any await. What ends it then is a   *)
(* shielded task, which a shutdown may or may not wait for. Sessions are     *)
(* those of AiSessions, one step each: whoever ends one first ends it.       *)
EXTENDS Integers, FiniteSets

CONSTANTS
    Requests,       \* requests that carry one idempotency key
    Nobody,
    Kinds,          \* the gateways of an instance
    MaxChunks,      \* bound: chunks, or transcribed segments, of a delivery
    MaxFailures     \* bound: failed settlements, full disks, drain timeouts, crashes

KindsAssumption == Kinds \subseteq {"speech", "upload", "live"}
RequestsAssumption == Nobody \notin Requests
BoundsAssumption == MaxChunks \in Nat \ {0} /\ MaxFailures \in Nat

VARIABLES
    kind,       \* the gateway
    session,    \* the session the key names: how it stands and who opened it
    due,        \* it is past its deadline, and no progress was stamped lately
    stage,      \* each request: its next step
    replay,     \* each request: its ticket is of a session another one opened
    delivered,  \* each request: chunks handed to its client
    written,    \* each request: chunks in the copy it keeps
    copy,       \* each request: its recording_store.Writer
    task,       \* each request: its shielded task's next step
    server,     \* "up", "draining" or "down"
    failures

work == <<replay, delivered, written, copy>>
vars == <<kind, session, due, stage, work, task, server, failures>>

Stages == {"idle", "check", "begin", "connect", "relay", "closing", "settle", "abandon", "keep",
           "done", "refused"}

\* A borrower keeps no copy, and only a request on its way out has a task.
TypeOK ==
    /\ kind \in Kinds
    /\ session \in [status: {"none", "open", "charged", "free", "reaped"},
                    by: Requests \cup {Nobody}]
    /\ due \in BOOLEAN /\ stage \in [Requests -> Stages] /\ replay \in [Requests -> BOOLEAN]
    /\ delivered \in [Requests -> 0..MaxChunks] /\ written \in [Requests -> 0..MaxChunks]
    /\ copy \in [Requests -> {"none", "open", "broken", "kept"}]
    /\ task \in [Requests -> {"none", "settle", "record"}]
    /\ server \in {"up", "draining", "down"} /\ failures \in 0..MaxFailures
    /\ \A r \in Requests : /\ replay[r] => copy[r] = "none" /\ session.by # r
                           /\ task[r] # "none" => stage[r] \in {"closing", "done"}

Init ==
    /\ kind \in Kinds
    /\ session = [status |-> "none", by |-> Nobody] /\ due = FALSE
    /\ stage = [r \in Requests |-> "idle"] /\ replay = [r \in Requests |-> FALSE]
    /\ delivered = [r \in Requests |-> 0] /\ written = [r \in Requests |-> 0]
    /\ copy = [r \in Requests |-> "none"] /\ task = [r \in Requests |-> "none"]
    /\ server = "up" /\ failures = 0

Goto(r, s)  == stage' = [stage EXCEPT ![r] = s]
Start(r, t) == task' = [task EXCEPT ![r] = t]
Fail        == failures < MaxFailures /\ failures' = failures + 1
Leave(r)    == Goto(r, "closing") /\ Start(r, "settle")

-----------------------------------------------------------------------------
(* Opening.                                                                 *)

Opened == [speech |-> "begin", upload |-> "connect", live |-> "connect"]

\* A live stream has no key, so nobody replays it; an upload refuses a replay.
Replayed == [speech |-> "check", upload |-> "refused", live |-> "idle"]

Open(r) ==
    /\ stage[r] = "idle" /\ server = "up"
    /\ \/ /\ session.status = "none"
          /\ session' = [status |-> "open", by |-> r]
          /\ Goto(r, Opened[kind]) /\ UNCHANGED replay
       \/ /\ session.status # "none" /\ kind # "live"
          /\ replay' = [replay EXCEPT ![r] = TRUE]
          /\ Goto(r, Replayed[kind]) /\ UNCHANGED session
    /\ UNCHANGED <<kind, due, delivered, written, copy, task, server, failures>>

\* Mutant: a borrower goes on to keep a copy of its own.
CheckThenBegin(r) ==
    /\ stage[r] = "check"
    /\ Goto(r, IF session.status = "open" THEN "begin" ELSE "refused")
    /\ UNCHANGED <<kind, session, due, work, task, server, failures>>

\* _require_matching_replay, of a request that does match.
Check(r) ==
    /\ stage[r] = "check"
    /\ Goto(r, IF session.status = "open" THEN "connect" ELSE "refused")
    /\ UNCHANGED <<kind, session, due, work, task, server, failures>>

\* A writer, or none: recording is off, or the disk refused.
Begin(r) ==
    /\ stage[r] = "begin"
    /\ \E w \in {"open", "none"} : copy' = [copy EXCEPT ![r] = w]
    /\ Goto(r, "connect")
    /\ UNCHANGED <<kind, session, due, replay, delivered, written, task, server, failures>>

Connected(r) ==
    /\ stage[r] = "connect"
    /\ Goto(r, IF kind = "upload" THEN "settle" ELSE "relay")
    /\ UNCHANGED <<kind, session, due, work, task, server, failures>>

\* Upstream refuses, times out or fails before anything was delivered.
ConnectFailed(r) ==
    /\ stage[r] = "connect"
    /\ IF kind = "live" THEN Goto(r, "abandon") /\ UNCHANGED task ELSE Leave(r)
    /\ UNCHANGED <<kind, session, due, work, server, failures>>

-----------------------------------------------------------------------------
(* The relay.                                                               *)

\* Mutant: a failed write is forgotten, and the next one goes on.
WritesOn(r) ==
    /\ \/ /\ copy[r] = "open"
          /\ written' = [written EXCEPT ![r] = @ + 1] /\ UNCHANGED <<copy, failures>>
       \/ copy[r] = "open" /\ Fail /\ UNCHANGED <<copy, written>>
       \/ copy[r] # "open" /\ UNCHANGED <<copy, written, failures>>

\* Writer.write: goes quiet for good at the first write that fails.
Writes(r) ==
    /\ \/ /\ copy[r] = "open"
          /\ written' = [written EXCEPT ![r] = @ + 1] /\ UNCHANGED <<copy, failures>>
       \/ /\ copy[r] = "open" /\ Fail
          /\ copy' = [copy EXCEPT ![r] = "broken"] /\ UNCHANGED written
       \/ copy[r] # "open" /\ UNCHANGED <<copy, written, failures>>

\* Progress is stamped, by the session's own request, at most now and then.
Chunk(r) ==
    /\ stage[r] = "relay" /\ delivered[r] < MaxChunks
    /\ delivered' = [delivered EXCEPT ![r] = @ + 1]
    /\ Writes(r)
    /\ due' \in {due, due /\ replay[r]}
    /\ UNCHANGED <<kind, session, stage, replay, task, server>>

\* Upstream is done or fails, the client stops or falls silent, the ceiling.
RelayEnds(r) ==
    /\ stage[r] = "relay"
    /\ IF kind = "live" THEN Goto(r, "settle") /\ UNCHANGED task ELSE Leave(r)
    /\ UNCHANGED <<kind, session, due, work, server, failures>>

\* The client has gone, or the server is shutting down. Only from an await that
\* upstream's answer is tied to does a cancelled request start its task.
Cancelled(r) ==
    /\ stage[r] \in Stages \ {"idle", "done", "refused"}
    /\ IF stage[r] \in {"connect", "relay"} THEN Leave(r) ELSE Goto(r, "done") /\ UNCHANGED task
    /\ UNCHANGED <<kind, session, due, work, server, failures>>

-----------------------------------------------------------------------------
(* The end of the session, awaited where it is or in a shielded task.       *)

\* Mutant: a live stream that is cancelled gives its hold back.
OutcomeOfCancelled(r) ==
    CASE kind = "speech" -> IF delivered[r] > 0 THEN "charged" ELSE "free"
      [] kind = "upload" -> IF task[r] = "settle" THEN "free" ELSE "charged"
      [] kind = "live"   -> IF stage[r] = "settle" THEN "charged" ELSE "free"

\* Speech is charged for if any was delivered, an upload if it was transcribed,
\* and a live stream, for its time, once its handshake was not refused.
Outcome(r) ==
    CASE kind = "speech" -> IF delivered[r] > 0 THEN "charged" ELSE "free"
      [] kind = "upload" -> IF task[r] = "settle" THEN "free" ELSE "charged"
      [] kind = "live"   -> IF stage[r] = "abandon" THEN "free" ELSE "charged"

\* Mutant: a borrower ends the session too.
EndsAnyway(r) ==
    session' = IF session.status = "open" THEN [session EXCEPT !.status = Outcome(r)] ELSE session

\* A session that is over stays as it is, and a borrower ends nothing.
EndsSession(r) ==
    session' = IF session.status = "open" /\ ~replay[r]
               THEN [session EXCEPT !.status = Outcome(r)] ELSE session

TaskSettles(r) ==
    /\ task[r] = "settle"
    /\ \/ EndsSession(r) /\ UNCHANGED failures
       \/ Fail /\ ~replay[r] /\ UNCHANGED session
    /\ Start(r, IF kind = "speech" THEN "record" ELSE "none")
    /\ stage' = IF kind = "speech" THEN stage ELSE [stage EXCEPT ![r] = "done"]
    /\ UNCHANGED <<kind, due, work, server>>

\* Inline. An upload whose settlement raises is answered with the error.
Settles(r) ==
    /\ stage[r] \in {"settle", "abandon"}
    /\ \/ /\ EndsSession(r) /\ UNCHANGED failures
          /\ Goto(r, IF kind = "upload" THEN "keep" ELSE "done")
       \/ Fail /\ UNCHANGED session /\ Goto(r, "done")
    /\ UNCHANGED <<kind, due, work, task, server>>

\* _finalise's last part: what was delivered is kept, or the writer aborted. A
\* commit or a row that fails keeps nothing.
Records(r) ==
    /\ task[r] = "record"
    /\ IF replay[r] \/ delivered[r] = 0 \/ copy[r] # "open"
       THEN copy' = [copy EXCEPT ![r] = "none"] /\ UNCHANGED failures
       ELSE \/ copy' = [copy EXCEPT ![r] = "kept"] /\ UNCHANGED failures
            \/ Fail /\ copy' = [copy EXCEPT ![r] = "none"]
    /\ Start(r, "none") /\ Goto(r, "done")
    /\ UNCHANGED <<kind, session, due, replay, delivered, written, server>>

\* An upload is kept, or is not, and the transcript goes to the client.
Answers(r) ==
    /\ stage[r] = "keep"
    /\ \E w \in {"kept", "none"} : copy' = [copy EXCEPT ![r] = w]
    /\ delivered' = [delivered EXCEPT ![r] = 1] /\ written' = [written EXCEPT ![r] = 1]
    /\ Goto(r, "done")
    /\ UNCHANGED <<kind, session, due, replay, task, server, failures>>

-----------------------------------------------------------------------------
(* The deadline, and the process.                                           *)

Lapse ==
    /\ session.status = "open" /\ ~due
    /\ due' = TRUE
    /\ UNCHANGED <<kind, session, stage, work, task, server, failures>>

\* Mutant: only a session that has ever stamped progress is reaped.
ReapsOnlyHeard ==
    /\ session.status = "open" /\ due /\ delivered[session.by] > 0
    /\ session' = [session EXCEPT !.status = "reaped"]
    /\ UNCHANGED <<kind, due, stage, work, task, server, failures>>

\* reap_expired_sessions, in this process or another: the estimate is charged.
Reap ==
    /\ session.status = "open" /\ due
    /\ session' = [session EXCEPT !.status = "reaped"]
    /\ UNCHANGED <<kind, due, stage, work, task, server, failures>>

Shutdown ==
    /\ server = "up"
    /\ server' = "draining"
    /\ UNCHANGED <<kind, session, due, stage, work, task, failures>>

Finished == {"idle", "done", "refused"}

Down ==
    /\ server' = "down"
    /\ stage' = [r \in Requests |-> "done"] /\ task' = [r \in Requests |-> "none"]
    /\ UNCHANGED <<kind, session, due, work>>

\* Requests are cancelled; drain_settlements waits for the tasks it knows of,
\* which are those of speech, or gives up at its timeout.
Exit ==
    /\ server = "draining"
    /\ \A r \in Requests : stage[r] \in Finished
    /\ \/ (kind = "speech" => \A r \in Requests : task[r] = "none") /\ UNCHANGED failures
       \/ Fail
    /\ Down

Crash == server # "down" /\ Fail /\ Down

-----------------------------------------------------------------------------
RequestStep(r) ==
    \/ Check(r) \/ Begin(r) \/ Connected(r) \/ ConnectFailed(r)
    \/ Chunk(r) \/ RelayEnds(r) \/ Settles(r) \/ Answers(r)

TaskStep(r) == TaskSettles(r) \/ Records(r)

Next ==
    \/ \E r \in Requests : Open(r) \/ RequestStep(r) \/ Cancelled(r) \/ TaskStep(r)
    \/ Lapse \/ Reap \/ Shutdown \/ Exit \/ Crash

Spec == Init /\ [][Next]_vars

\* Nothing is asked of a request or of a task, which may hang: a deadline
\* comes, and reconciliation runs on its schedule.
Fairness == WF_vars(Lapse) /\ SF_vars(Reap)

FairSpec == Spec /\ Fairness

-----------------------------------------------------------------------------
(* Properties.                                                              *)

\* What was delivered is never given away: a session ended for free is one whose
\* opener handed its client nothing, nor does so later, however it was cut off.
\* And after an orderly shutdown no speech that was heard is left to the reaper.
HeardIsCharged ==
    /\ session.status = "free" => delivered[session.by] = 0
    /\ (server = "down" /\ failures = 0 /\ kind = "speech" /\ session.status = "open")
          => delivered[session.by] = 0

\* A session is not ended under the request it pays for: neither by a borrower's
\* end nor by a task that outlives its request. Only the deadline may.
NotEndedUnderway ==
    [][session.status = "open" /\ session'.status \in {"charged", "free"}
         => stage[session.by] \notin {"begin", "connect", "relay"}]_vars

\* A copy that is kept holds all that was delivered, cut short though it may be.
KeptIsWhole == \A r \in Requests : copy[r] = "kept" => written[r] = delivered[r]

\* Every session opened is ended, wherever its request was cancelled, its task
\* lost or its process killed.
SessionsEnd == session.status = "open" ~> session.status # "open"

\* "Once the hold exists every exit goes through `_settle`"
\* (stt_stream_service.py:184): a live stream that is over has ended its session.
LiveExitsSettle ==
    (kind = "live" /\ server = "up" /\ failures = 0 /\ session.status = "open")
        => stage[session.by] # "done" \/ task[session.by] # "none"
=============================================================================
