---------------------------- MODULE Endings_proofs ----------------------------
(* Proofs about what must end. The invariant is the gateways': who owns the    *)
(* session, which steps a request of each kind can be at, and what is in its  *)
(* copy. The properties that the runs check are stated of AnySpec, a behaviour *)
(* of which is, for each module, a behaviour of that module.                   *)
EXTENDS Endings, AiSessions_proofs

-----------------------------------------------------------------------------
(* The invariant of the gateways.                                            *)

\* TypeOK, without what it says of borrowers and of tasks.
Typed ==
    /\ d_kind \in Kinds
    /\ d_session \in [status: {"none", "open", "charged", "free", "reaped"},
                      by: Requests \cup {Nobody}]
    /\ d_due \in BOOLEAN /\ d_stage \in [Requests -> D!Stages]
    /\ d_replay \in [Requests -> BOOLEAN]
    /\ d_delivered \in [Requests -> 0..MaxChunks]
    /\ d_written \in [Requests -> 0..MaxChunks]
    /\ d_copy \in [Requests -> {"none", "open", "broken", "kept"}]
    /\ d_task \in [Requests -> {"none", "settle", "record"}]
    /\ d_server \in {"up", "draining", "down"} /\ d_failures \in 0..MaxFailures

\* The steps of a gateway's requests, and of those that borrow a session.
StagesFit(r) ==
    /\ d_stage[r] \in {"check", "begin"} => d_kind = "speech"
    /\ d_stage[r] = "relay" => d_kind # "upload"
    /\ d_stage[r] = "settle" => d_kind # "speech"
    /\ d_stage[r] = "keep" => d_kind = "upload"
    /\ d_stage[r] = "abandon" => d_kind = "live"
    /\ d_replay[r] =>
          \/ d_kind # "live" /\ d_stage[r] \in {"refused", "done"}
          \/ d_kind = "speech" /\ d_stage[r] \in {"check", "connect", "relay", "closing"}
    /\ d_task[r] # "none" => d_stage[r] \in {"closing", "done"}
    /\ d_task[r] = "record" => d_kind = "speech"

\* What has not been connected has delivered nothing.
NothingYet(r) ==
    \/ d_stage[r] \in {"idle", "check", "begin", "connect", "abandon", "keep"}
    \/ d_kind = "upload" /\ (d_stage[r] = "settle" \/ d_task[r] = "settle")
    => d_delivered[r] = 0 /\ d_written[r] = 0

\* A copy that goes on is whole.
Copies(r) ==
    /\ d_written[r] <= d_delivered[r]
    /\ d_copy[r] \in {"open", "kept"} => d_written[r] = d_delivered[r]
    /\ d_copy[r] = "kept" => d_stage[r] = "done"
    /\ d_stage[r] = "idle" => d_copy[r] = "none"

\* A borrower keeps no copy, and is not who opened the session.
Lent(r) == d_replay[r] => d_copy[r] = "none" /\ d_session.by # r

\* Who is underway, or leaves a task, and borrows nothing opened the session.
Owned(r) ==
    ~d_replay[r] /\ (d_stage[r] \notin {"idle", "done", "refused"} \/ d_task[r] # "none")
        => d_session.by = r

RequestOK(r) == StagesFit(r) /\ NothingYet(r) /\ Copies(r) /\ Lent(r) /\ Owned(r)

RequestsFit == \A r \in Requests : RequestOK(r)

\* The session is of the request that opened it, and speech that was heard is charged
\* by its relay's end or by the task that outlives it.
SessionFits ==
    /\ d_session.status # "none" =>
          d_session.by \in Requests /\ d_stage[d_session.by] # "idle"
    /\ d_session.status = "none" => d_session.by = Nobody
    /\ d_session.status = "free" =>
          d_delivered[d_session.by] = 0 /\ d_stage[d_session.by] \in {"closing", "done"}
    /\ (/\ d_kind = "speech" /\ d_failures = 0
        /\ d_session.status = "open" /\ d_delivered[d_session.by] > 0)
          => d_stage[d_session.by] = "relay" \/ d_task[d_session.by] = "settle"

\* A process that is down runs nothing.
Stopped ==
    d_server = "down" => \A r \in Requests : d_stage[r] = "done" /\ d_task[r] = "none"

DeliveriesInv == Typed /\ RequestsFit /\ SessionFits /\ Stopped

-----------------------------------------------------------------------------
(* Every action keeps the invariant.                                         *)

\* A replay waits for its check.
LEMMA CheckKeeps ==
    ASSUME DeliveriesAssumption, DeliveriesInv, NEW r \in Requests, D!Check(r)
    PROVE  DeliveriesInv'
<1>0. d_kind \in {"speech", "upload", "live"}
  BY DEF DeliveriesAssumption, D!KindsAssumption, DeliveriesInv, Typed
<1>1. Typed'
  BY DEF DeliveriesAssumption, D!BoundsAssumption, DeliveriesInv, Typed, RequestsFit,
         RequestOK, StagesFit, NothingYet, Copies, D!Stages, D!Check, D!Goto, D!work
<1>2. RequestsFit'
  BY <1>0
  DEF DeliveriesInv, Typed, RequestsFit, RequestOK, StagesFit, NothingYet, Copies, Lent,
      Owned, SessionFits, D!Check, D!Goto, D!work
<1>3. SessionFits'
  BY <1>0
  DEF DeliveriesInv, Typed, RequestsFit, RequestOK, StagesFit, NothingYet, Lent, Owned,
      SessionFits, D!Check, D!Goto, D!work
<1>4. Stopped'
  BY DEF DeliveriesInv, Typed, Stopped, D!Check, D!Goto, D!work
<1> QED
  BY <1>1, <1>2, <1>3, <1>4 DEF DeliveriesInv

\* A copy begins with nothing in it.
LEMMA CopyBeginKeeps ==
    ASSUME DeliveriesAssumption, DeliveriesInv, NEW r \in Requests, D!Begin(r)
    PROVE  DeliveriesInv'
<1>0. d_kind \in {"speech", "upload", "live"}
  BY DEF DeliveriesAssumption, D!KindsAssumption, DeliveriesInv, Typed
<1>1. Typed'
  BY DEF DeliveriesAssumption, D!BoundsAssumption, DeliveriesInv, Typed, RequestsFit,
         RequestOK, StagesFit, NothingYet, Copies, D!Stages, D!Begin, D!Goto
<1>2. RequestsFit'
  BY <1>0
  DEF DeliveriesInv, Typed, RequestsFit, RequestOK, StagesFit, NothingYet, Copies, Lent,
      Owned, SessionFits, D!Begin, D!Goto
<1>3. SessionFits'
  BY <1>0
  DEF DeliveriesInv, Typed, RequestsFit, RequestOK, StagesFit, NothingYet, Lent, Owned,
      SessionFits, D!Begin, D!Goto
<1>4. Stopped'
  BY DEF DeliveriesInv, Typed, Stopped, D!Begin, D!Goto
<1> QED
  BY <1>1, <1>2, <1>3, <1>4 DEF DeliveriesInv

\* Upstream has answered.
LEMMA ConnectedKeeps ==
    ASSUME DeliveriesAssumption, DeliveriesInv, NEW r \in Requests, D!Connected(r)
    PROVE  DeliveriesInv'
<1>0. d_kind \in {"speech", "upload", "live"}
  BY DEF DeliveriesAssumption, D!KindsAssumption, DeliveriesInv, Typed
<1>1. Typed'
  BY DEF DeliveriesAssumption, D!BoundsAssumption, DeliveriesInv, Typed, RequestsFit,
         RequestOK, StagesFit, NothingYet, Copies, D!Stages, D!Connected, D!Goto, D!work
<1>2. RequestsFit'
  BY <1>0
  DEF DeliveriesInv, Typed, RequestsFit, RequestOK, StagesFit, NothingYet, Copies, Lent,
      Owned, SessionFits, D!Connected, D!Goto, D!work
<1>3. SessionFits'
  BY <1>0
  DEF DeliveriesInv, Typed, RequestsFit, RequestOK, StagesFit, NothingYet, Lent, Owned,
      SessionFits, D!Connected, D!Goto, D!work
<1>4. Stopped'
  BY DEF DeliveriesInv, Typed, Stopped, D!Connected, D!Goto, D!work
<1> QED
  BY <1>1, <1>2, <1>3, <1>4 DEF DeliveriesInv

\* Upstream has not.
LEMMA ConnectFailedKeeps ==
    ASSUME DeliveriesAssumption, DeliveriesInv, NEW r \in Requests, D!ConnectFailed(r)
    PROVE  DeliveriesInv'
<1>0. d_kind \in {"speech", "upload", "live"}
  BY DEF DeliveriesAssumption, D!KindsAssumption, DeliveriesInv, Typed
<1>1. Typed'
  BY DEF DeliveriesAssumption, D!BoundsAssumption, DeliveriesInv, Typed, RequestsFit,
         RequestOK, StagesFit, NothingYet, Copies, D!Stages, D!ConnectFailed, D!Goto,
         D!Leave, D!Start, D!work
<1>2. RequestsFit'
  BY <1>0
  DEF DeliveriesInv, Typed, RequestsFit, RequestOK, StagesFit, NothingYet, Copies, Lent,
      Owned, SessionFits, D!ConnectFailed, D!Goto, D!Leave, D!Start, D!work
<1>3. SessionFits'
  BY <1>0
  DEF DeliveriesInv, Typed, RequestsFit, RequestOK, StagesFit, NothingYet, Lent, Owned,
      SessionFits, D!ConnectFailed, D!Goto, D!Leave, D!Start, D!work
<1>4. Stopped'
  BY DEF DeliveriesInv, Typed, Stopped, D!ConnectFailed, D!Goto, D!Leave, D!Start, D!work
<1> QED
  BY <1>1, <1>2, <1>3, <1>4 DEF DeliveriesInv

\* A chunk is delivered, and written where the copy is whole.
LEMMA ChunkKeeps ==
    ASSUME DeliveriesAssumption, DeliveriesInv, NEW r \in Requests, D!Chunk(r)
    PROVE  DeliveriesInv'
<1>0. d_kind \in {"speech", "upload", "live"}
  BY DEF DeliveriesAssumption, D!KindsAssumption, DeliveriesInv, Typed
<1>1. Typed'
  BY DEF DeliveriesAssumption, D!BoundsAssumption, DeliveriesInv, Typed, RequestsFit,
         RequestOK, StagesFit, NothingYet, Copies, D!Stages, D!Chunk, D!Writes, D!Fail
<1>2. RequestsFit'
  BY <1>0
  DEF DeliveriesInv, Typed, RequestsFit, RequestOK, StagesFit, NothingYet, Copies, Lent,
      Owned, SessionFits, D!Chunk, D!Writes, D!Fail
<1>3. SessionFits'
  BY <1>0
  DEF DeliveriesInv, Typed, RequestsFit, RequestOK, StagesFit, NothingYet, Lent, Owned,
      SessionFits, D!Chunk, D!Writes, D!Fail
<1>4. Stopped'
  BY DEF DeliveriesInv, Typed, Stopped, D!Chunk, D!Writes, D!Fail
<1> QED
  BY <1>1, <1>2, <1>3, <1>4 DEF DeliveriesInv

\* The relay is over, and the session is about to be ended.
LEMMA RelayEndsKeeps ==
    ASSUME DeliveriesAssumption, DeliveriesInv, NEW r \in Requests, D!RelayEnds(r)
    PROVE  DeliveriesInv'
<1>0. d_kind \in {"speech", "upload", "live"}
  BY DEF DeliveriesAssumption, D!KindsAssumption, DeliveriesInv, Typed
<1>1. Typed'
  BY DEF DeliveriesAssumption, D!BoundsAssumption, DeliveriesInv, Typed, RequestsFit,
         RequestOK, StagesFit, NothingYet, Copies, D!Stages, D!RelayEnds, D!Goto, D!Leave,
         D!Start, D!work
<1>2. RequestsFit'
  BY <1>0
  DEF DeliveriesInv, Typed, RequestsFit, RequestOK, StagesFit, NothingYet, Copies, Lent,
      Owned, SessionFits, D!RelayEnds, D!Goto, D!Leave, D!Start, D!work
<1>3. SessionFits'
  BY <1>0
  DEF DeliveriesInv, Typed, RequestsFit, RequestOK, StagesFit, NothingYet, Lent, Owned,
      SessionFits, D!RelayEnds, D!Goto, D!Leave, D!Start, D!work
<1>4. Stopped'
  BY DEF DeliveriesInv, Typed, Stopped, D!RelayEnds, D!Goto, D!Leave, D!Start, D!work
<1> QED
  BY <1>1, <1>2, <1>3, <1>4 DEF DeliveriesInv

\* Who is cancelled in its relay, or before it, leaves a task.
LEMMA CancelledKeeps ==
    ASSUME DeliveriesAssumption, DeliveriesInv, NEW r \in Requests, D!Cancelled(r)
    PROVE  DeliveriesInv'
<1>0. d_kind \in {"speech", "upload", "live"}
  BY DEF DeliveriesAssumption, D!KindsAssumption, DeliveriesInv, Typed
<1>1. Typed'
  BY DEF DeliveriesAssumption, D!BoundsAssumption, DeliveriesInv, Typed, RequestsFit,
         RequestOK, StagesFit, NothingYet, Copies, D!Stages, D!Cancelled, D!Goto, D!Leave,
         D!Start, D!work
<1>2. RequestsFit'
  BY <1>0
  DEF DeliveriesInv, Typed, RequestsFit, RequestOK, StagesFit, NothingYet, Copies, Lent,
      Owned, SessionFits, D!Cancelled, D!Goto, D!Leave, D!Start, D!work, D!Stages
<1>3. SessionFits'
  BY <1>0
  DEF DeliveriesInv, Typed, RequestsFit, RequestOK, StagesFit, NothingYet, Lent, Owned,
      SessionFits, D!Cancelled, D!Goto, D!Leave, D!Start, D!work, D!Stages
<1>4. Stopped'
  BY DEF DeliveriesInv, Typed, Stopped, D!Cancelled, D!Goto, D!Leave, D!Start, D!work,
         D!Stages
<1> QED
  BY <1>1, <1>2, <1>3, <1>4 DEF DeliveriesInv

\* The task ends the session, unless the request borrowed it.
LEMMA TaskSettlesKeeps ==
    ASSUME DeliveriesAssumption, DeliveriesInv, NEW r \in Requests, D!TaskSettles(r)
    PROVE  DeliveriesInv'
<1>0. d_kind \in {"speech", "upload", "live"}
  BY DEF DeliveriesAssumption, D!KindsAssumption, DeliveriesInv, Typed
<1>1. Typed'
  BY <1>0
  DEF DeliveriesAssumption, D!BoundsAssumption, DeliveriesInv, Typed, RequestsFit,
      RequestOK, StagesFit, NothingYet, Copies, D!Stages, D!TaskSettles, D!EndsSession,
      D!Outcome, D!Start, D!Fail, D!work
<1>2. RequestsFit'
  BY <1>0
  DEF DeliveriesInv, Typed, RequestsFit, RequestOK, StagesFit, NothingYet, Copies, Lent,
      Owned, SessionFits, D!TaskSettles, D!EndsSession, D!Outcome, D!Start, D!Fail, D!work
<1>3. SessionFits'
  BY <1>0
  DEF DeliveriesInv, Typed, RequestsFit, RequestOK, StagesFit, NothingYet, Lent, Owned,
      SessionFits, D!TaskSettles, D!EndsSession, D!Outcome, D!Start, D!Fail, D!work
<1>4. Stopped'
  BY DEF DeliveriesInv, Typed, Stopped, D!TaskSettles, D!EndsSession, D!Outcome, D!Start,
         D!Fail, D!work
<1> QED
  BY <1>1, <1>2, <1>3, <1>4 DEF DeliveriesInv

\* The request ends the session itself.
LEMMA SettlesKeeps ==
    ASSUME DeliveriesAssumption, DeliveriesInv, NEW r \in Requests, D!Settles(r)
    PROVE  DeliveriesInv'
<1>0. d_kind \in {"speech", "upload", "live"}
  BY DEF DeliveriesAssumption, D!KindsAssumption, DeliveriesInv, Typed
<1>1. Typed'
  BY <1>0
  DEF DeliveriesAssumption, D!BoundsAssumption, DeliveriesInv, Typed, RequestsFit,
      RequestOK, StagesFit, NothingYet, Copies, D!Stages, D!Settles, D!EndsSession,
      D!Outcome, D!Goto, D!Fail, D!work
<1>2. RequestsFit'
  BY <1>0
  DEF DeliveriesInv, Typed, RequestsFit, RequestOK, StagesFit, NothingYet, Copies, Lent,
      Owned, SessionFits, D!Settles, D!EndsSession, D!Outcome, D!Goto, D!Fail, D!work
<1>3. SessionFits'
  BY <1>0
  DEF DeliveriesInv, Typed, RequestsFit, RequestOK, StagesFit, NothingYet, Lent, Owned,
      SessionFits, D!Settles, D!EndsSession, D!Outcome, D!Goto, D!Fail, D!work
<1>4. Stopped'
  BY DEF DeliveriesInv, Typed, Stopped, D!Settles, D!EndsSession, D!Outcome, D!Goto, D!Fail,
         D!work
<1> QED
  BY <1>1, <1>2, <1>3, <1>4 DEF DeliveriesInv

\* The task keeps a copy that is whole, or none.
LEMMA RecordsKeeps ==
    ASSUME DeliveriesAssumption, DeliveriesInv, NEW r \in Requests, D!Records(r)
    PROVE  DeliveriesInv'
<1>0. d_kind \in {"speech", "upload", "live"}
  BY DEF DeliveriesAssumption, D!KindsAssumption, DeliveriesInv, Typed
<1>1. Typed'
  BY DEF DeliveriesAssumption, D!BoundsAssumption, DeliveriesInv, Typed, RequestsFit,
         RequestOK, StagesFit, NothingYet, Copies, D!Stages, D!Records, D!Start, D!Goto,
         D!Fail
<1>2. RequestsFit'
  BY <1>0
  DEF DeliveriesInv, Typed, RequestsFit, RequestOK, StagesFit, NothingYet, Copies, Lent,
      Owned, SessionFits, D!Records, D!Start, D!Goto, D!Fail
<1>3. SessionFits'
  BY <1>0
  DEF DeliveriesInv, Typed, RequestsFit, RequestOK, StagesFit, NothingYet, Lent, Owned,
      SessionFits, D!Records, D!Start, D!Goto, D!Fail
<1>4. Stopped'
  BY DEF DeliveriesInv, Typed, Stopped, D!Records, D!Start, D!Goto, D!Fail
<1> QED
  BY <1>1, <1>2, <1>3, <1>4 DEF DeliveriesInv

\* An upload is kept whole, or not.
LEMMA AnswersKeeps ==
    ASSUME DeliveriesAssumption, DeliveriesInv, NEW r \in Requests, D!Answers(r)
    PROVE  DeliveriesInv'
<1>0. d_kind \in {"speech", "upload", "live"}
  BY DEF DeliveriesAssumption, D!KindsAssumption, DeliveriesInv, Typed
<1>1. Typed'
  BY DEF DeliveriesAssumption, D!BoundsAssumption, DeliveriesInv, Typed, RequestsFit,
         RequestOK, StagesFit, NothingYet, Copies, D!Stages, D!Answers, D!Goto
<1>2. RequestsFit'
  BY <1>0
  DEF DeliveriesInv, Typed, RequestsFit, RequestOK, StagesFit, NothingYet, Copies, Lent,
      Owned, SessionFits, D!Answers, D!Goto
<1>3. SessionFits'
  BY <1>0
  DEF DeliveriesInv, Typed, RequestsFit, RequestOK, StagesFit, NothingYet, Lent, Owned,
      SessionFits, D!Answers, D!Goto
<1>4. Stopped'
  BY DEF DeliveriesInv, Typed, Stopped, D!Answers, D!Goto
<1> QED
  BY <1>1, <1>2, <1>3, <1>4 DEF DeliveriesInv

\* A request opens the session, or borrows the one that its key names.
LEMMA OpenKeeps ==
    ASSUME DeliveriesAssumption, DeliveriesInv, NEW r \in Requests, D!Open(r)
    PROVE  DeliveriesInv'
<1>0. d_kind \in {"speech", "upload", "live"}
  BY DEF DeliveriesAssumption, D!KindsAssumption, DeliveriesInv, Typed
<1>a. D!Opened[d_kind] = IF d_kind = "speech" THEN "begin" ELSE "connect"
  BY <1>0 DEF D!Opened
<1>b. d_kind # "live" =>
          D!Replayed[d_kind] = IF d_kind = "speech" THEN "check" ELSE "refused"
  BY <1>0 DEF D!Replayed
<1>n. /\ d_stage[r] = "idle" /\ d_task[r] = "none" /\ ~d_replay[r]
      /\ d_delivered[r] = 0 /\ d_written[r] = 0 /\ d_copy[r] = "none"
      /\ d_server = "up" /\ d_session.by # r
      /\ UNCHANGED <<d_kind, d_due, d_delivered, d_written, d_copy>>
      /\ UNCHANGED <<d_task, d_server, d_failures>>
  <2>1. /\ d_stage[r] = "idle" /\ d_server = "up"
        /\ UNCHANGED <<d_kind, d_due, d_delivered, d_written, d_copy>>
        /\ UNCHANGED <<d_task, d_server, d_failures>>
    BY DEF D!Open
  <2>2. RequestOK(r) /\ d_task[r] \in {"none", "settle", "record"}
    BY DEF DeliveriesInv, Typed, RequestsFit
  <2>3. d_session.by # r
    BY <2>1 DEF DeliveriesInv, SessionFits, DeliveriesAssumption, D!RequestsAssumption
  <2> QED
    BY <2>1, <2>2, <2>3 DEF RequestOK, StagesFit, NothingYet, Copies
<1>1. CASE d_session.status = "none" /\ d_session' = [status |-> "open", by |-> r]
  <2>1. d_stage' = [d_stage EXCEPT ![r] = IF d_kind = "speech" THEN "begin" ELSE "connect"]
        /\ d_replay' = d_replay
    BY <1>1, <1>a DEF D!Open, D!Goto
  <2>2. Typed'
    BY <1>n, <1>1, <2>1 DEF DeliveriesInv, Typed, D!Stages
  <2>3. ASSUME NEW q \in Requests, q # r PROVE RequestOK(q)'
    <3>1. d_session.by = Nobody /\ Nobody # q
      BY <1>1 DEF DeliveriesInv, SessionFits, DeliveriesAssumption, D!RequestsAssumption
    <3> QED
      BY <1>n, <1>1, <2>1, <2>3, <3>1
      DEF DeliveriesInv, Typed, RequestsFit, RequestOK, StagesFit, NothingYet, Copies, Lent,
          Owned
  <2>4. RequestOK(r)'
    BY <1>0, <1>n, <1>1, <2>1
    DEF DeliveriesInv, Typed, RequestsFit, RequestOK, StagesFit, NothingYet, Copies, Lent,
        Owned
  <2>5. RequestsFit'
    BY <2>3, <2>4 DEF RequestsFit
  <2>6. SessionFits'
    BY <1>0, <1>n, <1>1, <2>1 DEF DeliveriesInv, Typed, SessionFits
  <2>7. Stopped'
    BY <1>n DEF Stopped
  <2> QED
    BY <2>2, <2>5, <2>6, <2>7 DEF DeliveriesInv
<1>2. CASE /\ d_session.status # "none" /\ d_kind # "live"
           /\ d_replay' = [d_replay EXCEPT ![r] = TRUE]
  <2>1. d_stage' = [d_stage EXCEPT ![r] = IF d_kind = "speech" THEN "check" ELSE "refused"]
        /\ d_session' = d_session
    BY <1>2, <1>b DEF D!Open, D!Goto
  <2>2. Typed'
    BY <1>n, <1>2, <2>1 DEF DeliveriesInv, Typed, D!Stages
  <2>3. ASSUME NEW q \in Requests, q # r PROVE RequestOK(q)'
    BY <1>n, <1>2, <2>1, <2>3
    DEF DeliveriesInv, Typed, RequestsFit, RequestOK, StagesFit, NothingYet, Copies, Lent,
        Owned
  <2>4. RequestOK(r)'
    BY <1>0, <1>n, <1>2, <2>1
    DEF DeliveriesInv, Typed, RequestsFit, RequestOK, StagesFit, NothingYet, Copies, Lent,
        Owned, SessionFits
  <2>5. RequestsFit'
    BY <2>3, <2>4 DEF RequestsFit
  <2>6. SessionFits'
    BY <1>0, <1>n, <1>2, <2>1 DEF DeliveriesInv, Typed, SessionFits
  <2>7. Stopped'
    BY <1>n DEF Stopped
  <2> QED
    BY <2>2, <2>5, <2>6, <2>7 DEF DeliveriesInv
<1>3. \/ d_session.status = "none" /\ d_session' = [status |-> "open", by |-> r]
      \/ /\ d_session.status # "none" /\ d_kind # "live"
         /\ d_replay' = [d_replay EXCEPT ![r] = TRUE]
  BY Zenon DEF D!Open
<1> QED
  BY <1>1, <1>2, <1>3

\* Deadlines, the reaper and the start of a shutdown.
LEMMA WorldKeeps ==
    ASSUME DeliveriesAssumption, DeliveriesInv, D!Lapse \/ D!Reap \/ D!Shutdown
    PROVE  DeliveriesInv'
<1>1. Typed'
  BY DEF DeliveriesInv, Typed, D!Lapse, D!Reap, D!Shutdown, D!work
<1>2. RequestsFit'
  BY DEF DeliveriesInv, Typed, RequestsFit, RequestOK, StagesFit, NothingYet, Copies, Lent,
         Owned, D!Lapse, D!Reap, D!Shutdown, D!work
<1>3. SessionFits'
  BY DEF DeliveriesInv, Typed, SessionFits, D!Lapse, D!Reap, D!Shutdown, D!work
<1>4. Stopped'
  BY DEF DeliveriesInv, Typed, Stopped, D!Lapse, D!Reap, D!Shutdown, D!work
<1> QED
  BY <1>1, <1>2, <1>3, <1>4 DEF DeliveriesInv

\* An exit that did not give up has waited for every task of speech, and a crash counts
\* among the failures.
LEMMA DownKeeps ==
    ASSUME DeliveriesAssumption, DeliveriesInv, D!Exit \/ D!Crash
    PROVE  DeliveriesInv'
<1>0. /\ D!Down /\ d_failures' \in 0..MaxFailures
      /\ d_failures' = d_failures \/ d_failures' # 0
  BY DEF DeliveriesAssumption, D!BoundsAssumption, DeliveriesInv, Typed, D!Exit, D!Crash,
         D!Fail
<1>1. Typed'
  BY <1>0 DEF DeliveriesInv, Typed, D!Down, D!Stages, D!work
<1>2. RequestsFit'
  BY <1>0
  DEF DeliveriesInv, Typed, RequestsFit, RequestOK, StagesFit, NothingYet, Copies, Lent,
      Owned, D!Down, D!work
<1>3. SessionFits'
  <2>1. d_kind = "speech" /\ d_failures' = 0 /\ d_session.status = "open"
           => d_delivered[d_session.by] = 0
    <3> SUFFICES ASSUME d_kind = "speech", d_failures' = 0, d_session.status = "open"
                 PROVE  d_delivered[d_session.by] = 0
      OBVIOUS
    <3>1. d_failures = 0 /\ d_session.by \in Requests
      BY <1>0 DEF DeliveriesInv, SessionFits
    <3>2. ~D!Fail
      BY <3>1 DEF D!Fail, DeliveriesInv, Typed
    <3>3. d_stage[d_session.by] # "relay" /\ d_task[d_session.by] = "none"
      BY <3>1, <3>2 DEF D!Exit, D!Crash, D!Finished
    <3>4. d_delivered[d_session.by] \in 0..MaxChunks
      BY <3>1 DEF DeliveriesInv, Typed
    <3> QED
      BY <3>1, <3>3, <3>4 DEF DeliveriesInv, SessionFits
  <2> QED
    BY <1>0, <2>1 DEF DeliveriesInv, Typed, SessionFits, D!Down, D!work
<1>4. Stopped'
  BY <1>0 DEF Stopped, D!Down
<1> QED
  BY <1>1, <1>2, <1>3, <1>4 DEF DeliveriesInv

\* The invariant holds at the start.
LEMMA DeliveriesStart == ASSUME DeliveriesAssumption, D!Init PROVE DeliveriesInv
<1>1. Typed
  <2>1. 0 \in 0..MaxChunks /\ 0 \in 0..MaxFailures
    BY DEF DeliveriesAssumption, D!BoundsAssumption
  <2> QED
    BY <2>1 DEF D!Init, Typed, D!Stages
<1>2. RequestsFit
  BY DEF D!Init, RequestsFit, RequestOK, StagesFit, NothingYet, Copies, Lent, Owned
<1> QED
  BY <1>1, <1>2 DEF D!Init, DeliveriesInv, SessionFits, Stopped

\* Every step keeps the invariant.
LEMMA DeliveriesStep ==
    ASSUME DeliveriesAssumption, DeliveriesInv, [D!Next]_(D!vars)
    PROVE  DeliveriesInv'
<1>1. ASSUME NEW r \in Requests, D!RequestStep(r) PROVE DeliveriesInv'
  BY <1>1, CheckKeeps, CopyBeginKeeps, ConnectedKeeps, ConnectFailedKeeps, ChunkKeeps,
     RelayEndsKeeps, SettlesKeeps, AnswersKeeps
  DEF D!RequestStep
<1>2. ASSUME NEW r \in Requests, D!Open(r) \/ D!Cancelled(r) \/ D!TaskStep(r)
      PROVE  DeliveriesInv'
  BY <1>2, OpenKeeps, CancelledKeeps, TaskSettlesKeeps, RecordsKeeps DEF D!TaskStep
<1>3. CASE D!Lapse \/ D!Reap \/ D!Shutdown \/ D!Exit \/ D!Crash
  BY <1>3, WorldKeeps, DownKeeps
<1>4. CASE UNCHANGED D!vars
  BY <1>4
  DEF D!vars, D!work, DeliveriesInv, Typed, RequestsFit, RequestOK, StagesFit, NothingYet,
      Copies, Lent, Owned, SessionFits, Stopped
<1> QED
  BY <1>1, <1>2, <1>3, <1>4 DEF D!Next

\* The invariant holds of every behaviour of the gateways.
LEMMA DeliveriesInductive == ASSUME DeliveriesAssumption PROVE D!Spec => []DeliveriesInv
<1>1. D!Init => DeliveriesInv
  BY DeliveriesStart
<1>2. DeliveriesInv /\ [D!Next]_(D!vars) => DeliveriesInv'
  BY DeliveriesStep
<1> QED
  BY <1>1, <1>2, PTL DEF D!Spec

\* What the invariant says of types, borrowers and tasks.
LEMMA DeliveriesTyped == ASSUME DeliveriesAssumption, DeliveriesInv PROVE D!TypeOK
BY DEF DeliveriesInv, Typed, RequestsFit, RequestOK, StagesFit, Lent, D!TypeOK

\* What is free was not heard, and what was heard did not outlast an exit.
LEMMA HeardCharged == ASSUME DeliveriesAssumption, DeliveriesInv PROVE D!HeardIsCharged
<1>1. ASSUME d_server = "down", d_failures = 0, d_kind = "speech", d_session.status = "open"
      PROVE  d_delivered[d_session.by] = 0
  <2>1. d_session.by \in Requests
    BY <1>1 DEF DeliveriesInv, SessionFits
  <2>2. /\ d_stage[d_session.by] = "done" /\ d_task[d_session.by] = "none"
        /\ d_delivered[d_session.by] \in Nat
    BY <1>1, <2>1 DEF DeliveriesInv, Typed, Stopped
  <2> QED
    BY <1>1, <2>2 DEF DeliveriesInv, SessionFits
<1> QED
  BY <1>1 DEF D!HeardIsCharged, DeliveriesInv, SessionFits

\* A copy that is kept is whole.
LEMMA KeptWhole == DeliveriesInv => D!KeptIsWhole
BY DEF DeliveriesInv, RequestsFit, RequestOK, Copies, D!KeptIsWhole

\* A request that ends a session opened it, and is past its relay.
LEMMA EndersAreDone ==
    ASSUME DeliveriesInv, [D!Next]_(D!vars),
           d_session.status = "open", d_session'.status \in {"charged", "free"}
    PROVE  d_stage[d_session.by] \notin {"begin", "connect", "relay"}
<1>1. ASSUME NEW r \in Requests, D!Settles(r) \/ D!TaskSettles(r)
      PROVE  d_stage[d_session.by] \notin {"begin", "connect", "relay"}
  <2>1. ~d_replay[r]
    BY <1>1 DEF D!Settles, D!TaskSettles, D!EndsSession
  <2>2. d_session.by = r
    BY <1>1, <2>1 DEF DeliveriesInv, RequestsFit, RequestOK, Owned, D!Settles, D!TaskSettles
  <2> QED
    BY <1>1, <2>2
    DEF DeliveriesInv, RequestsFit, RequestOK, StagesFit, D!Settles, D!TaskSettles
<1>2. CASE \A r \in Requests : ~D!Settles(r) /\ ~D!TaskSettles(r)
  <2>1. d_session'.status \in {"open", "reaped"}
    <3>1. d_session' = d_session \/ d_session' = [d_session EXCEPT !.status = "reaped"]
      BY <1>2
      DEF D!Next, D!RequestStep, D!TaskStep, D!Open, D!Check, D!Begin, D!Connected,
          D!ConnectFailed, D!Chunk, D!RelayEnds, D!Answers, D!Cancelled, D!Records, D!Lapse,
          D!Reap, D!Shutdown, D!Exit, D!Crash, D!Down, D!vars
    <3> QED
      BY <3>1 DEF DeliveriesInv, Typed
  <2> QED
    BY <2>1
<1> QED
  BY <1>1, <1>2

-----------------------------------------------------------------------------
(* The scenes side by side.                                                  *)

\* Of the gateways, a behaviour of any scene is one of theirs.
LEMMA DeliveriesScene == AnySpec => D!Spec
<1>1. AnyInit => D!Init
  BY DEF AnyInit
<1>2. ASSUME [AnyNext]_allVars PROVE [D!Next]_(D!vars)
  BY <1>2 DEF AnyNext, SessionsMove, BatchMoves, DeliveriesMove, LinesMove, allVars, d_vars,
              D!vars, D!work
<1> QED
  BY <1>1, <1>2, PTL DEF AnySpec, D!Spec

\* And of the sessions.
LEMMA SessionsScene == AnySpec => Spec
<1>1. AnyInit => Init
  BY DEF AnyInit
<1>2. ASSUME [AnyNext]_allVars PROVE [Next]_vars
  BY <1>2 DEF AnyNext, SessionsMove, BatchMoves, DeliveriesMove, LinesMove, allVars
<1> QED
  BY <1>1, <1>2, PTL DEF AnySpec, Spec

\* The invariant of the gateways holds of every behaviour of any scene.
LEMMA AnyInductive == AnySpec => []DeliveriesInv
<1>1. D!Spec => []DeliveriesInv
  BY DeliveriesInductive, EndingsAssumption
<1> QED
  BY <1>1, DeliveriesScene, PTL

\* Deliveries and sessions keep their type invariants: a borrower keeps no copy and
\* never is the opener, and only a request on its way out has a task
\* (_require_matching_replay, _spawn_settlement).
THEOREM TypesHold == AnySpec => []TypesOK
<1>1. DeliveriesInv => D!TypeOK
  BY DeliveriesTyped, EndingsAssumption
<1>2. AnySpec => []TypeOK
  BY SessionsScene, TypeCorrect, PTL
<1>3. D!TypeOK /\ TypeOK => TypesOK
  BY DEF TypesOK
<1> QED
  BY <1>1, <1>2, <1>3, AnyInductive, PTL

\* A session ended for free was heard by nobody, at whatever await its request was
\* cancelled, and an orderly shutdown leaves no speech that was heard to the reaper
\* (tts_service._finalise, drain_settlements).
THEOREM NothingHeardIsFree == AnySpec => []HeardIsCharged
<1>1. DeliveriesInv => HeardIsCharged
  BY HeardCharged, EndingsAssumption DEF HeardIsCharged
<1> QED
  BY <1>1, AnyInductive, PTL

\* A copy that is kept is all that was delivered, though a write of it may fail in
\* the middle (_Capture, recording_store.Writer).
THEOREM CopiesAreWhole == AnySpec => []KeptIsWhole
<1>1. DeliveriesInv => KeptIsWhole
  BY KeptWhole DEF KeptIsWhole
<1> QED
  BY <1>1, AnyInductive, PTL

\* Only the deadline ends a session under the request it pays for: neither a
\* borrower nor a task that outlives its request does (_require_matching_replay).
THEOREM EndedByItsOwner == AnySpec => NotEndedUnderway
<1> DEFINE Fair ==
      d_session.status = "open" /\ d_session'.status \in {"charged", "free"}
         => d_stage[d_session.by] \notin {"begin", "connect", "relay"}
<1>1. DeliveriesInv /\ [D!Next]_(D!vars) => [Fair]_(D!vars)
  BY EndersAreDone
<1>2. D!Spec => [][D!Next]_(D!vars)
  BY PTL DEF D!Spec
<1>3. AnySpec => [][Fair]_(D!vars)
  BY <1>1, <1>2, AnyInductive, DeliveriesScene, PTL
<1> QED
  BY <1>3 DEF NotEndedUnderway, D!NotEndedUnderway
=============================================================================
