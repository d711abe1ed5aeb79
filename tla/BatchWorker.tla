----------------------------- MODULE BatchWorker -----------------------------
(* app/workers/tts_batch.py and app/core/broker.py: the messages that drive  *)
(* batch jobs, from the publish of create_job to an ack or the dead-letter   *)
(* queue. A worker is one process; a slot is one of its unacked messages.    *)
(* submit_job and refresh_job are what they answer here, BatchJobs is their  *)
(* insides. Both pauses of _publish are one wait: only the shutdown event or *)
(* the timer ends it, and which of the two lengths it had changes nothing.   *)
EXTENDS Integers, FiniteSets

CONSTANTS Jobs, Workers, Slots,
          Owner,        \* the worker each slot belongs to
          RetryDelays,         \* len(RETRY_DELAYS)
          MaxPublishFailures,  \* MAX_PUBLISH_FAILURES
          MaxFailures   \* bound: signals, crashes and confirms that got lost

Kinds    == {"submit", "poll"}
Messages == [kind: Kinds, job: Jobs, attempt: 0..RetryDelays]

ASSUME OwnerAssumption == Owner \in [Slots -> Workers]
ASSUME FiniteAssumption == IsFiniteSet(Slots) /\ Jobs # {}
ASSUME BoundAssumption ==
    RetryDelays \in Nat /\ MaxPublishFailures \in Nat \ {0} /\ MaxFailures \in Nat

VARIABLES
    job,      \* each job, as submit_job and refresh_job find it
    due,      \* jobs whose next refresh ends them: upstream or the deadline has
    handed,   \* jobs whose submit message the broker has confirmed
    ready, delayed, dead,   \* messages in a work queue, a delay queue, the DLQ
    worker,   \* each process
    tries,    \* its _message_failures, by follow-up kind and job
    pc,       \* each slot: the next step of its handler
    msg,      \* each slot: the message it was delivered
    follow,   \* each slot: the follow-up it is scheduling
    failures

jobVars   == <<job, due, handed>>
queues    == <<ready, delayed, dead>>
slotVars  == <<pc, msg, follow>>
vars      == <<jobVars, queues, worker, tries, slotVars, failures>>

Steps == {"idle", "call", "publish", "ack", "handover", "pause", "lastpause", "refuse", "spent"}

TypeOK ==
    /\ job \in [Jobs -> {"unborn", "queued", "running", "over"}]
    /\ due \subseteq Jobs /\ handed \subseteq Jobs
    /\ ready \in [Messages -> Nat] /\ delayed \in [Messages -> Nat] /\ dead \subseteq Messages
    /\ worker \in [Workers -> {"up", "stopping", "down"}]
    /\ tries \in [Workers -> [Kinds \X Jobs -> Nat]]
    /\ pc \in [Slots -> Steps]
    /\ msg \in [Slots -> Messages] /\ follow \in [Slots -> Messages]
    /\ failures \in 0..MaxFailures

Submission(j) == [kind |-> "submit", job |-> j, attempt |-> 0]
NextPoll(j)   == [kind |-> "poll", job |-> j, attempt |-> 0]

\* What an idle slot holds: the last message, canonically.
Unused == Submission(CHOOSE j \in Jobs : TRUE)

Init ==
    /\ job = [j \in Jobs |-> "unborn"]
    /\ due = {} /\ handed = {}
    /\ ready = [m \in Messages |-> 0] /\ delayed = ready /\ dead = {}
    /\ worker = [w \in Workers |-> "up"]
    /\ tries = [w \in Workers |-> [k \in Kinds \X Jobs |-> 0]]
    /\ pc = [s \in Slots |-> "idle"]
    /\ msg = [s \in Slots |-> Unused] /\ follow = msg
    /\ failures = 0

-----------------------------------------------------------------------------
(* Parts of the steps.                                                      *)

Put(queue, m)  == [queue EXCEPT ![m] = @ + 1]
Take(queue, m) == [queue EXCEPT ![m] = @ - 1]

Fail == failures < MaxFailures /\ failures' = failures + 1

Goto(s, step) == pc' = [pc EXCEPT ![s] = step]

\* The handler returns: the slot is free for another delivery.
Free(s) ==
    /\ Goto(s, "idle")
    /\ msg' = [msg EXCEPT ![s] = Unused]
    /\ follow' = [follow EXCEPT ![s] = Unused]

\* _budget_key: the follow-up's routing key and job, in this process.
Budget(s) == tries[Owner[s]][<<follow[s].kind, follow[s].job>>]

\* Mutant: the budget belongs to the delivery, so each redelivery has a new one.
BudgetPerDelivery(s, n) == UNCHANGED tries

SetBudget(s, n) == tries' = [tries EXCEPT ![Owner[s]][<<follow[s].kind, follow[s].job>>] = n]

ForgetBudget(s) ==
    tries' = [tries EXCEPT ![Owner[s]] =
                 [k \in Kinds \X Jobs |-> IF k[2] = msg[s].job THEN 0 ELSE @[k]]]

-----------------------------------------------------------------------------
(* The API: create_job publishes once its job is committed; without a        *)
(* confirm it submits the job itself, and queues nothing.                   *)

Create(j) ==
    /\ job[j] = "unborn"
    /\ job' = [job EXCEPT ![j] = "queued"]
    /\ handed' = handed \cup {j}
    /\ ready' = Put(ready, Submission(j))
    /\ UNCHANGED <<due, delayed, dead, worker, tries, slotVars, failures>>

\* No confirm in time; the message may be in the queue all the same.
CreateInline(j) ==
    /\ job[j] = "unborn"
    /\ \E state \in {"queued", "running", "over"} : job' = [job EXCEPT ![j] = state]
    /\ \/ UNCHANGED <<ready, failures>>
       \/ ready' = Put(ready, Submission(j)) /\ Fail
    /\ UNCHANGED <<due, handed, delayed, dead, worker, tries, slotVars>>

\* Upstream finishes, or TTS_BATCH_MAX_POLL_SECONDS pass.
ComesDue(j) ==
    /\ job[j] = "running" /\ j \notin due
    /\ due' = due \cup {j}
    /\ UNCHANGED <<job, handed, queues, worker, tries, slotVars, failures>>

\* A read, a cancel or the sweep ends the job from another process.
EndsElsewhere(j) ==
    /\ job[j] \in {"queued", "running"}
    /\ job' = [job EXCEPT ![j] = "over"]
    /\ UNCHANGED <<due, handed, queues, worker, tries, slotVars, failures>>

-----------------------------------------------------------------------------
(* The broker.                                                              *)

\* A message's TTL in its delay queue ends: dead-lettered to the work exchange.
DelayEnds(m) ==
    /\ delayed[m] > 0
    /\ delayed' = Take(delayed, m) /\ ready' = Put(ready, m)
    /\ UNCHANGED <<jobVars, dead, worker, tries, slotVars, failures>>

Deliver(s, m) ==
    /\ worker[Owner[s]] = "up" /\ pc[s] = "idle" /\ ready[m] > 0
    /\ ready' = Take(ready, m)
    /\ msg' = [msg EXCEPT ![s] = m]
    /\ Goto(s, "call")
    /\ UNCHANGED <<jobVars, delayed, dead, worker, tries, follow, failures>>

-----------------------------------------------------------------------------
(* _process: the service call, then its follow-up, then the ack.            *)

\* Mutant: the last delay is used and counted once more.
OneRetryMore(m) == m.attempt <= RetryDelays

\* The follow-up of a call that failed transiently, if it has attempts left.
Retried(m) == [m EXCEPT !.attempt = @ + 1]
MayRetry(m) == m.attempt < RetryDelays

\* The call returns a terminal job.
AnsweredOver(s) ==
    /\ pc[s] = "call"
    /\ LET j == msg[s].job IN
       /\ \/ job[j] = "over" /\ UNCHANGED job
          \/ /\ \/ job[j] = "queued" /\ msg[s].kind = "submit"
                \/ job[j] = "running" /\ j \in due
             /\ job' = [job EXCEPT ![j] = "over"]
       /\ Goto(s, "ack")
       /\ ForgetBudget(s)
    /\ UNCHANGED <<due, handed, queues, worker, msg, follow, failures>>

\* The call returns a live job: submitted just now, or still running upstream.
AnsweredLive(s) ==
    /\ pc[s] = "call"
    /\ LET j == msg[s].job IN
       /\ \/ job[j] = "queued" /\ job' = [job EXCEPT ![j] = IF msg[s].kind = "submit" THEN "running" ELSE @]
          \/ job[j] = "running" /\ (msg[s].kind = "poll" => j \notin due) /\ UNCHANGED job
       /\ follow' = [follow EXCEPT ![s] = NextPoll(j)]
       /\ Goto(s, "publish")
    /\ UNCHANGED <<due, handed, queues, worker, tries, msg, failures>>

\* 5xx, 429, a database that blinked: published again later, or rejected.
AnsweredTransient(s) ==
    /\ pc[s] = "call" /\ job[msg[s].job] # "over"
    /\ IF MayRetry(msg[s])
       THEN /\ follow' = [follow EXCEPT ![s] = Retried(msg[s])]
            /\ Goto(s, "publish") /\ UNCHANGED tries
       ELSE Goto(s, "spent") /\ ForgetBudget(s) /\ UNCHANGED follow
    /\ UNCHANGED <<jobVars, queues, worker, msg, failures>>

\* Upstream refused the corpus, and submit_job has settled the job.
AnsweredPermanent(s) ==
    /\ pc[s] = "call" /\ msg[s].kind = "submit" /\ job[msg[s].job] = "queued"
    /\ job' = [job EXCEPT ![msg[s].job] = "over"]
    /\ Goto(s, "refuse") /\ ForgetBudget(s)
    /\ UNCHANGED <<due, handed, queues, worker, msg, follow, failures>>

\* The settlement itself is answered 409 wallet_busy: a 4xx like any other.
AnsweredBusy(s) ==
    /\ pc[s] = "call"
    /\ \/ msg[s].kind = "submit" /\ job[msg[s].job] = "queued"
       \/ job[msg[s].job] = "running" /\ msg[s].job \in due
    /\ Fail
    /\ Goto(s, "refuse") /\ ForgetBudget(s)
    /\ UNCHANGED <<jobVars, queues, worker, msg, follow>>

-----------------------------------------------------------------------------
(* _publish and what ends a handler.                                        *)

\* Mutant: the message is handed back although its follow-up is queued.
RequeuedToo(s) == Goto(s, "pause") /\ delayed' = Put(delayed, follow[s]) /\ UNCHANGED <<msg, follow>>

Scheduled(s) == Goto(s, "handover") /\ delayed' = Put(delayed, follow[s]) /\ UNCHANGED <<msg, follow>>

\* The broker confirms the follow-up.
Published(s) ==
    /\ pc[s] = "publish"
    /\ Scheduled(s)
    /\ SetBudget(s, 0)
    /\ UNCHANGED <<jobVars, ready, dead, worker, failures>>

Counted(s) ==
    /\ SetBudget(s, Budget(s) + 1)
    /\ Goto(s, IF Budget(s) + 1 >= MaxPublishFailures THEN "lastpause" ELSE "pause")

\* A refusal, a timeout, a delay queue that answers every declaration with a
\* 406: publish answers False and nothing was queued. This may go on for ever.
PublishFailed(s) ==
    /\ pc[s] = "publish"
    /\ Counted(s)
    /\ UNCHANGED <<jobVars, queues, worker, msg, follow, failures>>

\* No confirm within the timeout, but the message is in its delay queue.
ConfirmLost(s) ==
    /\ pc[s] = "publish"
    /\ Counted(s)
    /\ delayed' = Put(delayed, follow[s])
    /\ Fail
    /\ UNCHANGED <<jobVars, ready, dead, worker, msg, follow>>

Acked(s) ==
    /\ pc[s] \in {"ack", "handover"}
    /\ Free(s)
    /\ UNCHANGED <<jobVars, queues, worker, tries, failures>>

\* nack(requeue=False): the queue's dead-letter exchange has it.
Rejected(s) ==
    /\ pc[s] \in {"refuse", "spent"}
    /\ dead' = dead \cup {msg[s]}
    /\ Free(s)
    /\ UNCHANGED <<jobVars, ready, delayed, worker, tries, failures>>

\* The pause before a requeue ends, by its timer or by the shutdown.
Requeued(s) ==
    /\ \/ pc[s] = "pause"
       \/ pc[s] = "lastpause" /\ worker[Owner[s]] = "stopping"
    /\ ready' = Put(ready, msg[s])
    /\ Free(s)
    /\ UNCHANGED <<jobVars, delayed, dead, worker, tries, failures>>

\* The pause after the budget's last failure ends by its timer.
Discarded(s) ==
    /\ pc[s] = "lastpause" /\ worker[Owner[s]] = "up"
    /\ SetBudget(s, 0)
    /\ dead' = dead \cup {msg[s]}
    /\ Free(s)
    /\ UNCHANGED <<jobVars, ready, delayed, worker, failures>>

-----------------------------------------------------------------------------
(* Signals and crashes.                                                     *)

SlotsOf(w) == {s \in Slots : Owner[s] = w}
InHand(w)  == {s \in SlotsOf(w) : pc[s] # "idle"}

\* Mutant: messages are acked on delivery, so a worker that goes takes them along.
AckedOnDelivery(w) == ready

\* The connection closes: whatever was never acked is delivered again.
Redelivered(w) ==
    [m \in Messages |-> ready[m] + Cardinality({s \in InHand(w) : msg[s] = m})]

Gone(w) ==
    /\ worker' = [worker EXCEPT ![w] = "down"]
    /\ ready' = Redelivered(w)
    /\ pc' = [s \in Slots |-> IF Owner[s] = w THEN "idle" ELSE pc[s]]
    /\ msg' = [s \in Slots |-> IF Owner[s] = w THEN Unused ELSE msg[s]]
    /\ follow' = [s \in Slots |-> IF Owner[s] = w THEN Unused ELSE follow[s]]
    /\ tries' = [tries EXCEPT ![w] = [k \in Kinds \X Jobs |-> 0]]
    /\ UNCHANGED <<jobVars, delayed, dead>>

\* First signal: the consumers are cancelled, running handlers go on.
Signalled(w) ==
    /\ worker[w] = "up" /\ Fail
    /\ worker' = [worker EXCEPT ![w] = "stopping"]
    /\ UNCHANGED <<jobVars, queues, tries, slotVars>>

\* The drain ends: handlers still running (its timeout, or a second signal) are
\* cancelled with their messages unacked.
Drained(w) == worker[w] = "stopping" /\ Gone(w) /\ UNCHANGED failures

Crashed(w) == worker[w] # "down" /\ Gone(w) /\ Fail

Started(w) ==
    /\ worker[w] = "down"
    /\ worker' = [worker EXCEPT ![w] = "up"]
    /\ UNCHANGED <<jobVars, queues, tries, slotVars, failures>>

-----------------------------------------------------------------------------
Answered(s) == AnsweredOver(s) \/ AnsweredLive(s) \/ AnsweredTransient(s)
               \/ AnsweredPermanent(s) \/ AnsweredBusy(s)
Ended(s)    == Acked(s) \/ Rejected(s) \/ Requeued(s) \/ Discarded(s)
SlotStep(s) == Answered(s) \/ Published(s) \/ PublishFailed(s) \/ ConfirmLost(s) \/ Ended(s)

JobStep(j) == Create(j) \/ CreateInline(j) \/ ComesDue(j) \/ EndsElsewhere(j)
ProcessStep(w) == Signalled(w) \/ Drained(w) \/ Crashed(w) \/ Started(w)

Next ==
    \/ \E j \in Jobs : JobStep(j)
    \/ \E m \in Messages : DelayEnds(m) \/ \E s \in Slots : Deliver(s, m)
    \/ \E s \in Slots : SlotStep(s)
    \/ \E w \in Workers : ProcessStep(w)

Spec == Init /\ [][Next]_vars

\* Handlers run on; a TTL ends; a queue is served in order; the orchestrator
\* ends a drain and starts the process again; upstream, or the deadline, comes.
Fairness ==
    /\ \A s \in Slots : WF_vars(SlotStep(s))
    /\ \A m \in Messages : WF_vars(DelayEnds(m)) /\ SF_vars(\E s \in Slots : Deliver(s, m))
    /\ \A w \in Workers : WF_vars(Drained(w)) /\ WF_vars(Started(w))
    /\ \A j \in Jobs : WF_vars(ComesDue(j))

FairSpec == Spec /\ Fairness

-----------------------------------------------------------------------------
(* Properties.                                                              *)

Of(queue, j) == {m \in Messages : m.job = j /\ queue[m] > 0}
HeldFor(j)   == {s \in Slots : pc[s] # "idle" /\ msg[s].job = j}

\* Slots whose message is neither answered for good nor has a successor queued.
Owing(j) == {s \in HeldFor(j) : pc[s] \notin {"ack", "handover"}}

\* A job the broker has taken and nothing has ended keeps a message that will
\* come round again, or has one in the dead-letter queue where it is seen: no
\* crash, signal, retry, refusal or lost confirm drops its timer silently.
NothingLost ==
    \A j \in handed :
       \/ job[j] = "over"
       \/ Of(ready, j) \cup Of(delayed, j) \cup {m \in dead : m.job = j} # {}
       \/ Owing(j) # {}

\* The copies of a job's messages in a queue, one by one.
Instances(queue, j) == UNION {{m} \X (1..queue[m]) : m \in Of(queue, j)}
Copies(queue, j) == Cardinality(Instances(queue, j))
InFlight(j) == Copies(ready, j) + Copies(delayed, j) + Cardinality(HeldFor(j))

\* Publishing before acking adds a second chain of messages to a job only when
\* its process dies, or a confirm is lost, in between, and then at most one for
\* each unacked message: chains never multiply by themselves. (The message of a
\* slot about to ack is not counted: its successor is queued already.)
Handing(j) == {s \in HeldFor(j) : pc[s] = "handover"}
ChainsNeedFaults ==
    \A j \in Jobs : InFlight(j) - Cardinality(Handing(j)) <= 1 + failures * Cardinality(Slots)

\* Every message is acked or dead-lettered in the end, even if a delay queue
\* refuses every follow-up: no chain of polls, retries or requeues is endless.
QueuesDrain == \A j \in Jobs : <>[](InFlight(j) = 0)

\* "The service has already settled the job and released the hold on every
\* permanent branch it has" (tts_batch.py:421): a message on its way to the DLQ
\* as a permanent failure belongs to a job that is over.
PermanentIsSettled == \A s \in Slots : pc[s] = "refuse" => job[msg[s].job] = "over"
==============================================================================
