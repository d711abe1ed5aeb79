------------------------------- MODULE Endings -------------------------------
(* What must end: metered sessions, batch jobs, deliveries and voice calls     *)
(* that fail to open, side by side. They share no state here: a behaviour is   *)
(* of one of them, its scene, and the others rest. AiSessions is extended and  *)
(* keeps its names; the others are instances, their variables and constants    *)
(* under names of their own.                                                   *)
EXTENDS AiSessions, Sequences

CONSTANTS
    \* BatchJobs: its MaxFailures
    Callers, Creator, Length, BatchFailures,
    \* Deliveries
    Requests, Kinds, MaxChunks,
    \* VoiceLines
    Calls, Relays, Limit, Exempt, MaxCandidates, MaxBatch

VARIABLES
    scene,      \* the service the behaviour is of
    b_job, b_meter, b_speech, b_overdue, b_pollDue, b_pc, b_mine, b_unsaved, b_want,
    b_usage, b_failures,
    d_kind, d_session, d_due, d_stage, d_replay, d_delivered, d_written, d_copy, d_task,
    d_server, d_failures,
    l_opener, l_counted, l_held, l_row, l_aged, l_peer, l_proven, l_unasked, l_order,
    l_orphans, l_spent, l_relayed, l_relay, l_failures

b_vars == <<
    b_job, b_meter, b_speech, b_overdue, b_pollDue, b_pc, b_mine, b_unsaved, b_want,
    b_usage, b_failures >>
d_vars == <<
    d_kind, d_session, d_due, d_stage, d_replay, d_delivered, d_written, d_copy, d_task,
    d_server, d_failures >>
l_vars == <<
    l_opener, l_counted, l_held, l_row, l_aged, l_peer, l_proven, l_unasked, l_order,
    l_orphans, l_spent, l_relayed, l_relay, l_failures >>

B == INSTANCE BatchJobs WITH
    MaxFailures <- BatchFailures,
    job <- b_job, meter <- b_meter, speech <- b_speech, overdue <- b_overdue,
    pollDue <- b_pollDue, pc <- b_pc, mine <- b_mine, unsaved <- b_unsaved,
    want <- b_want, usage <- b_usage, failures <- b_failures

D == INSTANCE Deliveries WITH
    kind <- d_kind, session <- d_session, due <- d_due, stage <- d_stage,
    replay <- d_replay, delivered <- d_delivered, written <- d_written, copy <- d_copy,
    task <- d_task, server <- d_server, failures <- d_failures

L == INSTANCE VoiceLines WITH
    opener <- l_opener, counted <- l_counted, held <- l_held, row <- l_row,
    aged <- l_aged, peer <- l_peer, proven <- l_proven, unasked <- l_unasked,
    order <- l_order, orphans <- l_orphans, spent <- l_spent, relayed <- l_relayed,
    relay <- l_relay, failures <- l_failures

-----------------------------------------------------------------------------
allVars == <<scene, vars, b_vars, d_vars, l_vars>>

AnyInit ==
    /\ scene \in {"sessions", "batch", "deliveries", "lines"}
    /\ Init /\ B!Init /\ D!Init /\ L!Init
    /\ scene = "deliveries" \/ d_kind = CHOOSE k \in Kinds : TRUE

SessionsMove ==
    /\ scene = "sessions" /\ Next
    /\ UNCHANGED <<scene, b_vars, d_vars, l_vars>>
BatchMoves ==
    /\ scene = "batch" /\ B!Next
    /\ UNCHANGED <<scene, vars, d_vars, l_vars>>
DeliveriesMove ==
    /\ scene = "deliveries" /\ D!Next
    /\ UNCHANGED <<scene, vars, b_vars, l_vars>>
LinesMove ==
    /\ scene = "lines" /\ L!Next
    /\ UNCHANGED <<scene, vars, b_vars, d_vars>>

AnyNext == SessionsMove \/ BatchMoves \/ DeliveriesMove \/ LinesMove

AnySpec == AnyInit /\ [][AnyNext]_allVars

\* The Fairness of each module, where its scene is on.
On(s) == scene = s
AnyFairness ==
    /\ \A w \in Workers : /\ WF_vars(On("sessions") /\ (Step(w) \/ AuditStep(w)))
                          /\ SF_vars(On("sessions") /\ InsertEvent(w))
    /\ \A w \in Reconcilers, s \in Sessions : SF_vars(On("sessions") /\ Reap(w, s))
    /\ \A c \in Callers : WF_b_vars(On("batch") /\ B!Proceed(c))
    /\ WF_b_vars(On("batch") /\ B!DeadlinePasses)
    /\ WF_b_vars(On("batch") /\ \E c \in Callers \ {Creator} : B!Sweep(c))
    /\ WF_d_vars(On("deliveries") /\ D!Lapse)
    /\ SF_d_vars(On("deliveries") /\ D!Reap)
    /\ WF_l_vars(On("lines") /\ L!Scans)
    /\ \A c \in Calls :
        /\ WF_l_vars(On("lines") /\ L!OpenStep(c)) /\ WF_l_vars(On("lines") /\ L!Ages(c))
        /\ WF_l_vars(On("lines") /\ L!FreesOrphan(c)) /\ WF_l_vars(On("lines") /\ L!Settles(c))

AnyFairSpec == AnySpec /\ AnyFairness

\* What Deliveries, and the theorems, take of their constants.
DeliveriesAssumption == D!KindsAssumption /\ D!RequestsAssumption /\ D!BoundsAssumption

ASSUME EndingsAssumption == DeliveriesAssumption

-----------------------------------------------------------------------------
(* Properties: each is its module's.                                        *)

\* Deliveries and sessions keep their type invariants.
TypesOK == D!TypeOK /\ (scene = "sessions" => TypeOK)

\* What was delivered is neither given away nor left to the reaper by an orderly
\* shutdown (tts_service._finalise, drain_settlements).
HeardIsCharged == D!HeardIsCharged

\* A copy that is kept is all that was delivered (_Capture, recording_store).
KeptIsWhole == D!KeptIsWhole

\* No session is settled under the delivery it pays for (_require_matching_replay).
NotEndedUnderway == D!NotEndedUnderway

\* The deadline and the sweep bring every batch job to an end (sweep_stale_jobs).
JobsEnd == <>[](scene = "batch" => b_job.state \in B!Terminal)

\* Every session that a gateway opens is ended, and no session stays live that is
\* silent and past its deadline (reconcile_service).
SessionsEnd == D!SessionsEnd /\ SilentSessionsEnd

\* The hold of a call that failed to open is given back (_sweep_orphans).
HoldsGivenBack == L!HoldsGivenBack
=============================================================================
