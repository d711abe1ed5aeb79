-------------------------- MODULE BatchWorker_proofs --------------------------
(* Machine-checked proofs about BatchWorker, for any jobs, any processes and *)
(* prefetch windows, any retry and publish budgets and any number of faults. *)
EXTENDS BatchWorker, FiniteSetTheorems, TLAPS

-----------------------------------------------------------------------------
(* Types.                                                                   *)

LEMMA UnusedType == Unused \in Messages
BY FiniteAssumption, BoundAssumption DEF Unused, Submission, Messages, Kinds

LEMMA FollowUpType ==
    ASSUME NEW j \in Jobs
    PROVE  /\ Submission(j) \in Messages /\ Submission(j).job = j
           /\ NextPoll(j) \in Messages /\ NextPoll(j).job = j
BY BoundAssumption DEF Submission, NextPoll, Messages, Kinds

LEMMA MessageParts ==
    ASSUME NEW m \in Messages
    PROVE  m.job \in Jobs /\ m.kind \in Kinds /\ m.attempt \in 0..RetryDelays
BY DEF Messages

LEMMA RetriedType ==
    ASSUME NEW m \in Messages, MayRetry(m)
    PROVE  Retried(m) \in Messages /\ Retried(m).job = m.job
BY BoundAssumption DEF Messages, MayRetry, Retried

LEMMA PutType ==
    ASSUME NEW q \in [Messages -> Nat], NEW m \in Messages
    PROVE  /\ Put(q, m) \in [Messages -> Nat] /\ Put(q, m)[m] > 0
           /\ \A n \in Messages : q[n] > 0 => Put(q, m)[n] > 0
BY DEF Put

LEMMA TakeType ==
    ASSUME NEW q \in [Messages -> Nat], NEW m \in Messages, q[m] > 0
    PROVE  /\ Take(q, m) \in [Messages -> Nat]
           /\ \A n \in Messages : n # m /\ q[n] > 0 => Take(q, m)[n] > 0
BY DEF Take

\* The messages a dying process held are in the work queue again.
LEMMA RedeliveredType ==
    ASSUME TypeOK, NEW w \in Workers
    PROVE  /\ Redelivered(w) \in [Messages -> Nat]
           /\ \A m \in Messages : ready[m] > 0 => Redelivered(w)[m] > 0
           /\ \A s \in InHand(w) : Redelivered(w)[msg[s]] > 0
<1> DEFINE H(m) == {s \in InHand(w) : msg[s] = m}
<1>1. \A m \in Messages : IsFiniteSet(H(m)) /\ Cardinality(H(m)) \in Nat
  <2> TAKE m \in Messages
  <2>1. H(m) \subseteq Slots
    BY DEF InHand, SlotsOf
  <2> QED BY <2>1, FiniteAssumption, FS_Subset, FS_CardinalityType
<1>2. \A m \in Messages : Redelivered(w)[m] = ready[m] + Cardinality(H(m))
  BY DEF Redelivered
<1>3. Redelivered(w) \in [Messages -> Nat]
  <2>1. Redelivered(w) = [m \in Messages |-> ready[m] + Cardinality(H(m))]
    BY DEF Redelivered
  <2>2. \A m \in Messages : ready[m] \in Nat
    BY DEF TypeOK
  <2> HIDE DEF H
  <2>3. \A m \in Messages : ready[m] + Cardinality(H(m)) \in Nat
    BY <1>1, <2>2
  <2> QED BY <2>1, <2>3
<1>4. \A s \in InHand(w) : Redelivered(w)[msg[s]] > 0
  <2> TAKE s \in InHand(w)
  <2>1. s \in Slots /\ msg[s] \in Messages
    BY DEF InHand, SlotsOf, TypeOK
  <2>2. Cardinality(H(msg[s])) # 0
    <3>1. s \in H(msg[s])
      OBVIOUS
    <3> QED BY <3>1, <2>1, <1>1, FS_EmptySet
  <2>3. Cardinality(H(msg[s])) \in Nat /\ ready[msg[s]] \in Nat
    BY <1>1, <2>1 DEF TypeOK
  <2>4. Redelivered(w)[msg[s]] = ready[msg[s]] + Cardinality(H(msg[s]))
    BY <1>2, <2>1
  <2> HIDE DEF H
  <2> QED BY <2>2, <2>3, <2>4
<1>5. \A m \in Messages : ready[m] > 0 => Redelivered(w)[m] > 0
  <2> TAKE m \in Messages
  <2> HIDE DEF H
  <2>1. Cardinality(H(m)) \in Nat /\ ready[m] \in Nat
    BY <1>1 DEF TypeOK
  <2> QED BY <2>1, <1>2
<1> QED BY <1>3, <1>4, <1>5

LEMMA InitType == Init => TypeOK
<1> SUFFICES ASSUME Init PROVE TypeOK
  OBVIOUS
<1>1. msg \in [Slots -> Messages] /\ follow \in [Slots -> Messages]
  BY UnusedType DEF Init
<1>2. ready \in [Messages -> Nat] /\ delayed \in [Messages -> Nat] /\ dead \subseteq Messages
  BY DEF Init
<1>3. tries \in [Workers -> [Kinds \X Jobs -> Nat]]
  BY DEF Init
<1> QED BY <1>1, <1>2, <1>3, BoundAssumption DEF Init, TypeOK, Steps

-----------------------------------------------------------------------------
(* Steps keep the types. A slot moved by Goto or Free keeps its.            *)

LEMMA GotoType ==
    ASSUME TypeOK, NEW s \in Slots, NEW step \in Steps, Goto(s, step)
    PROVE  pc' \in [Slots -> Steps]
BY DEF TypeOK, Goto

LEMMA FreeType ==
    ASSUME TypeOK, NEW s \in Slots, Free(s)
    PROVE  /\ pc' \in [Slots -> Steps]
           /\ msg' \in [Slots -> Messages] /\ follow' \in [Slots -> Messages]
<1>1. "idle" \in Steps
  BY DEF Steps
<1> QED BY <1>1, GotoType, UnusedType DEF TypeOK, Free

LEMMA BudgetType ==
    ASSUME TypeOK, NEW s \in Slots
    PROVE  /\ Budget(s) \in Nat
           /\ \A n \in Nat : SetBudget(s, n) => tries' \in [Workers -> [Kinds \X Jobs -> Nat]]
           /\ ForgetBudget(s) => tries' \in [Workers -> [Kinds \X Jobs -> Nat]]
<1>1. Owner[s] \in Workers /\ tries[Owner[s]] \in [Kinds \X Jobs -> Nat]
  BY OwnerAssumption DEF TypeOK
<1>2. <<follow[s].kind, follow[s].job>> \in Kinds \X Jobs
  BY MessageParts DEF TypeOK
<1>3. Budget(s) \in Nat
  BY <1>1, <1>2 DEF Budget
<1>4. ASSUME NEW n \in Nat, SetBudget(s, n)
      PROVE  tries' \in [Workers -> [Kinds \X Jobs -> Nat]]
  BY <1>1, <1>2, <1>4 DEF TypeOK, SetBudget
<1>5. ASSUME ForgetBudget(s)
      PROVE  tries' \in [Workers -> [Kinds \X Jobs -> Nat]]
  <2>1. [k \in Kinds \X Jobs |-> IF k[2] = msg[s].job THEN 0 ELSE tries[Owner[s]][k]]
           \in [Kinds \X Jobs -> Nat]
    BY <1>1
  <2> QED BY <1>1, <1>5, <2>1 DEF TypeOK, ForgetBudget
<1> QED BY <1>3, <1>4, <1>5

LEMMA FailType == ASSUME TypeOK, Fail PROVE failures' \in 0..MaxFailures
BY BoundAssumption DEF TypeOK, Fail

LEMMA JobType ==
    ASSUME TypeOK, NEW j \in Jobs, JobStep(j)
    PROVE  TypeOK'
<1>1. CASE Create(j)
  BY <1>1, FollowUpType, PutType DEF Create, TypeOK, slotVars
<1>2. CASE CreateInline(j)
  <2>1. job' \in [Jobs -> {"unborn", "queued", "running", "over"}]
    BY <1>2 DEF CreateInline, TypeOK
  <2>2. ready' \in [Messages -> Nat] /\ failures' \in 0..MaxFailures
    <3>1. Put(ready, Submission(j)) \in [Messages -> Nat]
      BY FollowUpType, PutType DEF TypeOK
    <3>2. ready' \in {ready, Put(ready, Submission(j))} /\ (failures' = failures \/ Fail)
      BY <1>2 DEF CreateInline
    <3> QED BY <3>1, <3>2, FailType DEF TypeOK
  <2> QED BY <1>2, <2>1, <2>2 DEF CreateInline, TypeOK, slotVars
<1>3. CASE ComesDue(j)
  BY <1>3 DEF ComesDue, TypeOK, slotVars, queues
<1>4. CASE EndsElsewhere(j)
  BY <1>4 DEF EndsElsewhere, TypeOK, slotVars, queues
<1> QED BY <1>1, <1>2, <1>3, <1>4 DEF JobStep

LEMMA BrokerType ==
    ASSUME TypeOK, NEW m \in Messages, DelayEnds(m) \/ \E s \in Slots : Deliver(s, m)
    PROVE  TypeOK'
<1>1. CASE DelayEnds(m)
  BY <1>1, PutType, TakeType DEF DelayEnds, TypeOK, jobVars, slotVars
<1>2. ASSUME NEW s \in Slots, Deliver(s, m) PROVE TypeOK'
  <2>1. pc' \in [Slots -> Steps]
    BY <1>2, GotoType DEF Deliver, Steps
  <2>2. ready' \in [Messages -> Nat]
    BY <1>2, TakeType DEF Deliver, TypeOK
  <2> QED BY <1>2, <2>1, <2>2 DEF Deliver, TypeOK, jobVars
<1> QED BY <1>1, <1>2

LEMMA AnswerType ==
    ASSUME TypeOK, NEW s \in Slots, Answered(s)
    PROVE  TypeOK'
<1>1. pc' \in [Slots -> Steps]
  BY GotoType DEF Answered, AnsweredOver, AnsweredLive, AnsweredTransient, AnsweredPermanent,
                  AnsweredBusy, Steps
<1>2. tries' \in [Workers -> [Kinds \X Jobs -> Nat]]
  BY BudgetType DEF Answered, AnsweredOver, AnsweredLive, AnsweredTransient,
                    AnsweredPermanent, AnsweredBusy, TypeOK
<1>3. job' \in [Jobs -> {"unborn", "queued", "running", "over"}]
  <2>1. msg[s].job \in Jobs
    BY MessageParts DEF TypeOK
  <2> QED BY <2>1 DEF Answered, AnsweredOver, AnsweredLive, AnsweredTransient,
                      AnsweredPermanent, AnsweredBusy, TypeOK, jobVars
<1>4. follow' \in [Slots -> Messages]
  <2>1. msg[s] \in Messages /\ msg[s].job \in Jobs
    BY MessageParts DEF TypeOK
  <2> QED BY <2>1, FollowUpType, RetriedType DEF Answered, AnsweredOver, AnsweredLive,
             AnsweredTransient, AnsweredPermanent, AnsweredBusy, TypeOK
<1>5. failures' \in 0..MaxFailures
  BY FailType DEF Answered, AnsweredOver, AnsweredLive, AnsweredTransient,
                  AnsweredPermanent, AnsweredBusy, TypeOK
<1>6. UNCHANGED <<due, handed, queues, worker, msg>>
  BY DEF Answered, AnsweredOver, AnsweredLive, AnsweredTransient, AnsweredPermanent,
         AnsweredBusy, jobVars
<1> QED BY <1>1, <1>2, <1>3, <1>4, <1>5, <1>6 DEF TypeOK, queues

LEMMA PublishType ==
    ASSUME TypeOK, NEW s \in Slots, Published(s) \/ PublishFailed(s) \/ ConfirmLost(s)
    PROVE  TypeOK'
<1>1. pc' \in [Slots -> Steps]
  BY GotoType DEF Published, Scheduled, PublishFailed, ConfirmLost, Counted, Steps
<1>2. tries' \in [Workers -> [Kinds \X Jobs -> Nat]]
  <2>1. 0 \in Nat /\ Budget(s) + 1 \in Nat
    BY BudgetType
  <2> QED BY <2>1, BudgetType DEF Published, PublishFailed, ConfirmLost, Counted
<1>3. delayed' \in [Messages -> Nat]
  BY PutType DEF Published, Scheduled, PublishFailed, ConfirmLost, TypeOK, queues
<1>4. failures' \in 0..MaxFailures
  BY FailType DEF Published, PublishFailed, ConfirmLost, TypeOK
<1>5. UNCHANGED <<jobVars, ready, dead, worker, msg, follow>>
  BY DEF Published, Scheduled, PublishFailed, ConfirmLost, queues
<1> QED BY <1>1, <1>2, <1>3, <1>4, <1>5 DEF TypeOK, jobVars

LEMMA EndedType ==
    ASSUME TypeOK, NEW s \in Slots, Ended(s)
    PROVE  TypeOK'
<1>1. /\ pc' \in [Slots -> Steps]
      /\ msg' \in [Slots -> Messages] /\ follow' \in [Slots -> Messages]
  BY FreeType DEF Ended, Acked, Rejected, Requeued, Discarded
<1>2. tries' \in [Workers -> [Kinds \X Jobs -> Nat]]
  BY BudgetType DEF Ended, Acked, Rejected, Requeued, Discarded, TypeOK
<1>3. ready' \in [Messages -> Nat] /\ delayed' \in [Messages -> Nat] /\ dead' \subseteq Messages
  BY PutType DEF Ended, Acked, Rejected, Requeued, Discarded, TypeOK, queues
<1>4. UNCHANGED <<jobVars, worker, failures>>
  BY DEF Ended, Acked, Rejected, Requeued, Discarded
<1> QED BY <1>1, <1>2, <1>3, <1>4 DEF TypeOK, jobVars

LEMMA GoneType ==
    ASSUME TypeOK, NEW w \in Workers, Gone(w)
    PROVE  /\ worker' \in [Workers -> {"up", "stopping", "down"}]
           /\ ready' \in [Messages -> Nat] /\ pc' \in [Slots -> Steps]
           /\ msg' \in [Slots -> Messages] /\ follow' \in [Slots -> Messages]
           /\ tries' \in [Workers -> [Kinds \X Jobs -> Nat]]
<1>1. worker' \in [Workers -> {"up", "stopping", "down"}] /\ pc' \in [Slots -> Steps]
  BY DEF Gone, TypeOK, Steps
<1>2. ready' \in [Messages -> Nat]
  BY RedeliveredType DEF Gone
<1>3. msg' \in [Slots -> Messages] /\ follow' \in [Slots -> Messages]
  BY UnusedType DEF Gone, TypeOK
<1>4. tries' \in [Workers -> [Kinds \X Jobs -> Nat]]
  BY DEF Gone, TypeOK
<1> QED BY <1>1, <1>2, <1>3, <1>4

LEMMA ProcessType ==
    ASSUME TypeOK, NEW w \in Workers, ProcessStep(w)
    PROVE  TypeOK'
<1>1. CASE Signalled(w)
  BY <1>1, FailType DEF Signalled, TypeOK, jobVars, queues, slotVars
<1>2. CASE Drained(w)
  BY <1>2, GoneType DEF Drained, Gone, TypeOK, jobVars
<1>3. CASE Crashed(w)
  BY <1>3, GoneType, FailType DEF Crashed, Gone, TypeOK, jobVars
<1>4. CASE Started(w)
  BY <1>4 DEF Started, TypeOK, jobVars, queues, slotVars
<1> QED BY <1>1, <1>2, <1>3, <1>4 DEF ProcessStep

LEMMA NextType == ASSUME TypeOK, [Next]_vars PROVE TypeOK'
<1>1. CASE \E j \in Jobs : JobStep(j)
  BY <1>1, JobType
<1>2. CASE \E m \in Messages : DelayEnds(m) \/ \E s \in Slots : Deliver(s, m)
  BY <1>2, BrokerType
<1>3. CASE \E s \in Slots : SlotStep(s)
  BY <1>3, AnswerType, PublishType, EndedType DEF SlotStep
<1>4. CASE \E w \in Workers : ProcessStep(w)
  BY <1>4, ProcessType
<1>5. CASE UNCHANGED vars
  BY <1>5 DEF vars, TypeOK, jobVars, queues, slotVars
<1> QED BY <1>1, <1>2, <1>3, <1>4, <1>5 DEF Next

\* Every reachable state is well typed: no queue is ever owed a message, and no
\* message is retried beyond the delays RETRY_DELAYS lists.
THEOREM TypeCorrect == Spec => []TypeOK
<1>1. Init => TypeOK
  BY InitType
<1>2. TypeOK /\ [Next]_vars => TypeOK'
  BY NextType
<1> QED BY <1>1, <1>2, PTL DEF Spec

-----------------------------------------------------------------------------
(* Nothing is lost. NothingLost is inductive once a slot that is publishing  *)
(* is known to publish for the job of the message it holds.                 *)

FollowsOwn == \A s \in Slots : pc[s] = "publish" => follow[s].job = msg[s].job

IInv == TypeOK /\ FollowsOwn /\ NothingLost

\* What keeps a job's timer, for one job.
Timed(j) ==
    \/ job[j] = "over"
    \/ \E m \in Messages : m.job = j /\ (ready[m] > 0 \/ delayed[m] > 0 \/ m \in dead)
    \/ \E s \in Slots : pc[s] \notin {"idle", "ack", "handover"} /\ msg[s].job = j

LEMMA TimedIsNothingLost ==
    ASSUME TypeOK
    PROVE  NothingLost <=> \A j \in handed : Timed(j)
BY DEF TypeOK, NothingLost, Timed, Of, Owing, HeldFor

LEMMA TimedIsNothingLostNext ==
    ASSUME TypeOK'
    PROVE  NothingLost' <=> \A j \in handed' : Timed(j)'
BY DEF TypeOK, NothingLost, Timed, Of, Owing, HeldFor

LEMMA FollowsOwnNext == ASSUME IInv, [Next]_vars, TypeOK' PROVE FollowsOwn'
<1>1. CASE \E j \in Jobs : JobStep(j)
  BY <1>1 DEF IInv, FollowsOwn, JobStep, Create, CreateInline, ComesDue, EndsElsewhere, slotVars
<1>2. CASE \E m \in Messages : DelayEnds(m)
  BY <1>2 DEF IInv, FollowsOwn, DelayEnds, slotVars
<1>3. CASE \E m \in Messages : \E s \in Slots : Deliver(s, m)
  BY <1>3 DEF IInv, TypeOK, FollowsOwn, Deliver, Goto
<1>4. ASSUME NEW s \in Slots, SlotStep(s) PROVE FollowsOwn'
  <2>1. msg[s] \in Messages /\ msg[s].job \in Jobs
    BY MessageParts DEF IInv, TypeOK
  <2>2. CASE Answered(s)
    <3>1. CASE AnsweredLive(s)
      BY <3>1, <2>1, FollowUpType DEF IInv, TypeOK, FollowsOwn, AnsweredLive, Goto
    <3>2. CASE AnsweredTransient(s)
      BY <3>2, <2>1, RetriedType DEF IInv, TypeOK, FollowsOwn, AnsweredTransient, Goto
    <3>3. CASE AnsweredOver(s) \/ AnsweredPermanent(s) \/ AnsweredBusy(s)
      BY <3>3 DEF IInv, TypeOK, FollowsOwn, AnsweredOver, AnsweredPermanent, AnsweredBusy, Goto
    <3> QED BY <2>2, <3>1, <3>2, <3>3 DEF Answered
  <2>3. CASE Published(s) \/ PublishFailed(s) \/ ConfirmLost(s)
    BY <2>3 DEF IInv, TypeOK, FollowsOwn, Published, Scheduled, PublishFailed, ConfirmLost,
                Counted, Goto
  <2>4. CASE Ended(s)
    <3>1. Free(s)
      BY <2>4 DEF Ended, Acked, Rejected, Requeued, Discarded
    <3> QED BY <3>1 DEF IInv, TypeOK, FollowsOwn, Free, Goto
  <2> QED BY <1>4, <2>2, <2>3, <2>4 DEF SlotStep
<1>5. CASE \E w \in Workers : ProcessStep(w)
  BY <1>5 DEF IInv, TypeOK, FollowsOwn, ProcessStep, Signalled, Drained, Crashed, Gone, Started,
              slotVars
<1>6. CASE UNCHANGED vars
  BY <1>6 DEF IInv, FollowsOwn, vars, slotVars
<1> QED BY <1>1, <1>2, <1>3, <1>4, <1>5, <1>6 DEF Next

LEMMA TimedNext ==
    ASSUME IInv, [Next]_vars, TypeOK', NEW j \in handed', j \in handed => Timed(j)
    PROVE  Timed(j)'
<1>0. TypeOK /\ j \in Jobs
  BY DEF IInv, TypeOK
<1>1. ASSUME NEW i \in Jobs, JobStep(i) PROVE Timed(j)'
  <2>1. CASE Create(i)
    <3>1. Submission(i) \in Messages /\ ready'[Submission(i)] > 0 /\ Submission(i).job = i
      BY <2>1, <1>0, FollowUpType, PutType DEF Create, TypeOK
    <3>2. \A m \in Messages : ready[m] > 0 => ready'[m] > 0
      BY <2>1, <1>0, FollowUpType, PutType DEF Create, TypeOK
    <3>3. CASE j = i
      BY <3>1, <3>3 DEF Timed
    <3>4. CASE j # i
      BY <3>2, <3>4, <2>1, <1>0 DEF Create, Timed, TypeOK, slotVars
    <3> QED BY <3>3, <3>4
  <2>2. CASE CreateInline(i)
    <3>1. Put(ready, Submission(i)) \in [Messages -> Nat]
          /\ \A m \in Messages : ready[m] > 0 => Put(ready, Submission(i))[m] > 0
      BY <1>0, FollowUpType, PutType DEF TypeOK
    <3>2. \A m \in Messages : ready[m] > 0 => ready'[m] > 0
      BY <2>2, <3>1 DEF CreateInline
    <3>3. job[i] = "unborn" /\ (j # i => job'[j] = job[j]) /\ j \in handed
      BY <2>2, <1>0 DEF CreateInline, TypeOK
    <3>4. Timed(j) /\ (job[j] = "over" => job'[j] = "over")
      BY <3>3
    <3> QED BY <3>2, <3>4, <2>2 DEF CreateInline, Timed, slotVars
  <2>3. CASE ComesDue(i)
    BY <2>3 DEF ComesDue, Timed, queues, slotVars
  <2>4. CASE EndsElsewhere(i)
    BY <2>4, <1>0 DEF EndsElsewhere, Timed, TypeOK, queues, slotVars
  <2> QED BY <1>1, <2>1, <2>2, <2>3, <2>4 DEF JobStep
<1>2. ASSUME NEW n \in Messages, DelayEnds(n) PROVE Timed(j)'
  <2>1. /\ ready'[n] > 0
        /\ \A m \in Messages : ready[m] > 0 => ready'[m] > 0
        /\ \A m \in Messages : m # n /\ delayed[m] > 0 => delayed'[m] > 0
    BY <1>2, <1>0, PutType, TakeType DEF DelayEnds, TypeOK
  <2> QED BY <2>1, <1>2 DEF DelayEnds, Timed, jobVars, slotVars
<1>3. ASSUME NEW n \in Messages, NEW s \in Slots, Deliver(s, n) PROVE Timed(j)'
  <2>1. \A m \in Messages : m # n /\ ready[m] > 0 => ready'[m] > 0
    BY <1>3, <1>0, TakeType DEF Deliver, TypeOK
  <2>2. pc'[s] = "call" /\ msg'[s] = n
    BY <1>3, <1>0 DEF Deliver, Goto, TypeOK
  <2>3. \A t \in Slots : t # s => pc'[t] = pc[t] /\ msg'[t] = msg[t]
    BY <1>3, <1>0 DEF Deliver, Goto, TypeOK
  <2> QED BY <2>1, <2>2, <2>3, <1>3 DEF Deliver, Timed, jobVars
<1>4. ASSUME NEW s \in Slots, Answered(s) PROVE Timed(j)'
  <2>1. UNCHANGED <<handed, queues, msg>>
    BY <1>4 DEF Answered, AnsweredOver, AnsweredLive, AnsweredTransient, AnsweredPermanent,
                AnsweredBusy, jobVars
  <2>2. \A t \in Slots : t # s => pc'[t] = pc[t]
    BY <1>4, <1>0 DEF Answered, AnsweredOver, AnsweredLive, AnsweredTransient,
                AnsweredPermanent, AnsweredBusy, Goto, TypeOK
  <2>3. job[j] = "over" => job'[j] = "over"
    BY <1>4, <1>0 DEF Answered, AnsweredOver, AnsweredLive, AnsweredTransient,
                AnsweredPermanent, AnsweredBusy, jobVars, TypeOK
  <2>4. pc'[s] \notin {"idle", "ack", "handover"} \/ job'[msg[s].job] = "over"
    <3>1. msg[s].job \in Jobs
      BY <1>0, MessageParts DEF TypeOK
    <3> QED BY <3>1, <1>4, <1>0 DEF Answered, AnsweredOver, AnsweredLive, AnsweredTransient,
                AnsweredPermanent, AnsweredBusy, Goto, TypeOK
  <2> QED BY <2>1, <2>2, <2>3, <2>4 DEF Timed, queues
<1>5. ASSUME NEW s \in Slots, Published(s) \/ PublishFailed(s) \/ ConfirmLost(s) PROVE Timed(j)'
  <2>1. UNCHANGED <<jobVars, ready, dead, msg>>
    BY <1>5 DEF Published, Scheduled, PublishFailed, ConfirmLost, queues
  <2>2. \A t \in Slots : t # s => pc'[t] = pc[t]
    BY <1>5, <1>0 DEF Published, Scheduled, PublishFailed, ConfirmLost, Counted, Goto, TypeOK
  <2>3. \A m \in Messages : delayed[m] > 0 => delayed'[m] > 0
    BY <1>5, <1>0, PutType DEF Published, Scheduled, PublishFailed, ConfirmLost, queues, TypeOK
  <2>4. \/ pc'[s] \in {"pause", "lastpause"}
        \/ (follow[s] \in Messages /\ delayed'[follow[s]] > 0 /\ follow[s].job = msg[s].job)
    <3>1. CASE Published(s)
      BY <3>1, <1>0, PutType DEF Published, Scheduled, IInv, FollowsOwn, TypeOK
    <3>2. CASE PublishFailed(s) \/ ConfirmLost(s)
      <4>1. Goto(s, "pause") \/ Goto(s, "lastpause")
        BY <3>2 DEF PublishFailed, ConfirmLost, Counted
      <4>2. pc'[s] \in {"pause", "lastpause"}
        BY <4>1, <1>0 DEF Goto, TypeOK
      <4> QED BY <4>2
    <3> QED BY <1>5, <3>1, <3>2
  <2> QED BY <2>1, <2>2, <2>3, <2>4 DEF Timed, jobVars
<1>6. ASSUME NEW s \in Slots, Ended(s) PROVE Timed(j)'
  <2>1. UNCHANGED <<jobVars, delayed>> /\ Free(s)
    BY <1>6 DEF Ended, Acked, Rejected, Requeued, Discarded, queues
  <2>2. \A t \in Slots : t # s => pc'[t] = pc[t] /\ msg'[t] = msg[t]
    BY <2>1, <1>0 DEF Free, Goto, TypeOK
  <2>3. \A m \in Messages : (ready[m] > 0 => ready'[m] > 0) /\ (m \in dead => m \in dead')
    BY <1>6, <1>0, PutType DEF Ended, Acked, Rejected, Requeued, Discarded, queues, TypeOK
  <2>4. \/ pc[s] \in {"ack", "handover"}
        \/ (msg[s] \in Messages /\ (ready'[msg[s]] > 0 \/ msg[s] \in dead'))
    BY <1>6, <1>0, PutType DEF Ended, Acked, Rejected, Requeued, Discarded, TypeOK
  <2> QED BY <2>1, <2>2, <2>3, <2>4 DEF Timed, jobVars
<1>7. ASSUME NEW w \in Workers, ProcessStep(w) PROVE Timed(j)'
  <2>1. CASE Signalled(w) \/ Started(w)
    BY <2>1 DEF Signalled, Started, Timed, jobVars, queues, slotVars
  <2>2. CASE Gone(w)
    <3>1. /\ \A m \in Messages : ready[m] > 0 => ready'[m] > 0
          /\ \A s \in InHand(w) : ready'[msg[s]] > 0 /\ msg[s] \in Messages
      BY <2>2, <1>0, RedeliveredType DEF Gone, InHand, SlotsOf, TypeOK
    <3>2. \A s \in Slots : pc[s] # "idle" /\ s \notin InHand(w)
                               => pc'[s] = pc[s] /\ msg'[s] = msg[s]
      BY <2>2 DEF Gone, InHand, SlotsOf
    <3> QED BY <3>1, <3>2, <2>2 DEF Gone, Timed, jobVars
  <2> QED BY <1>7, <2>1, <2>2 DEF ProcessStep, Drained, Crashed
<1>8. CASE UNCHANGED vars
  BY <1>8 DEF vars, Timed, jobVars, queues, slotVars
<1> QED BY <1>1, <1>2, <1>3, <1>4, <1>5, <1>6, <1>7, <1>8 DEF Next, SlotStep

LEMMA IInvNext == ASSUME IInv, [Next]_vars PROVE IInv'
<1>1. TypeOK /\ TypeOK'
  BY NextType DEF IInv
<1>2. \A j \in handed : Timed(j)
  BY <1>1, TimedIsNothingLost DEF IInv
<1>3. \A j \in handed' : Timed(j)'
  BY <1>1, <1>2, TimedNext
<1> QED BY <1>1, <1>3, FollowsOwnNext, TimedIsNothingLostNext DEF IInv

\* No crash, signal, retry, refusal or lost confirm leaves a job the broker has
\* taken without a message in a queue, in a handler or in the dead-letter queue.
THEOREM TimersAreKept == Spec => []NothingLost
<1>1. Init => IInv
  BY InitType DEF Init, IInv, FollowsOwn, NothingLost
<1>2. IInv /\ [Next]_vars => IInv'
  BY IInvNext
<1>3. IInv => NothingLost
  BY DEF IInv
<1> QED BY <1>1, <1>2, <1>3, PTL DEF Spec

-----------------------------------------------------------------------------
(* Copies. A message that is put or taken is one more or one fewer.         *)

\* A job's messages are finitely many.
LEMMA OfIsFinite == ASSUME NEW q, NEW j \in Jobs PROVE IsFiniteSet(Of(q, j))
<1> DEFINE Codes == Kinds \X (0..RetryDelays)
           Named == {m \in Messages : m.job = j}
           Name == [c \in Codes |-> [kind |-> c[1], job |-> j, attempt |-> c[2]]]
<1>1. IsFiniteSet(Codes)
  <2>1. IsFiniteSet(Kinds)
    <3>1. Kinds = {"submit"} \cup {"poll"}
      BY DEF Kinds
    <3> QED BY <3>1, FS_Singleton, FS_AddElement
  <2>2. IsFiniteSet(0..RetryDelays)
    BY FS_Interval, BoundAssumption
  <2> QED BY <2>1, <2>2, FS_Product
<1>2. Name \in Surjection(Codes, Named)
  <2>1. Name \in [Codes -> Named]
    BY DEF Messages
  <2>2. ASSUME NEW m \in Named PROVE \E c \in Codes : Name[c] = m
    <3>1. <<m.kind, m.attempt>> \in Codes
      BY MessageParts
    <3>2. Name[<<m.kind, m.attempt>>] = m
      BY <3>1 DEF Messages
    <3> QED BY <3>1, <3>2
  <2> QED BY <2>1, <2>2 DEF Surjection
<1>3. IsFiniteSet(Named)
  BY <1>1, <1>2, FS_Surjection
<1>4. Of(q, j) \in SUBSET Named
  BY DEF Of
<1> QED BY <1>3, <1>4, FS_Subset

\* What an instance is: a message of the job, and one of its copies.
LEMMA InstanceIs ==
    ASSUME NEW q \in [Messages -> Nat], NEW j \in Jobs, NEW m, NEW i
    PROVE  <<m, i>> \in Instances(q, j) <=> m \in Messages /\ m.job = j /\ i \in 1..q[m]
BY DEF Instances, Of

\* Every instance is such a pair.
LEMMA InstancesArePairs ==
    ASSUME NEW q \in [Messages -> Nat], NEW j \in Jobs, NEW c \in Instances(q, j)
    PROVE  \E m \in Messages, i \in Nat : m.job = j /\ i \in 1..q[m] /\ c = <<m, i>>
BY DEF Instances, Of

\* The copies of a job are finitely many.
LEMMA CopiesType ==
    ASSUME NEW q \in [Messages -> Nat], NEW j \in Jobs
    PROVE  IsFiniteSet(Instances(q, j)) /\ Copies(q, j) \in Nat
<1> DEFINE Slice == [m \in Of(q, j) |-> {m} \X (1..q[m])]
           Slices == {{m} \X (1..q[m]) : m \in Of(q, j)}
<1>1. Slice \in Surjection(Of(q, j), Slices)
  BY DEF Surjection
<1>2. IsFiniteSet(Slices)
  BY <1>1, OfIsFinite, FS_Surjection
<1>3. \A T \in Slices : IsFiniteSet(T)
  <2> SUFFICES ASSUME NEW m \in Of(q, j) PROVE IsFiniteSet({m} \X (1..q[m]))
    OBVIOUS
  <2>1. q[m] \in Int
    BY DEF Of
  <2>2. IsFiniteSet(1..q[m])
    BY <2>1, FS_Interval
  <2> QED BY <2>2, FS_Singleton, FS_Product
<1>4. IsFiniteSet(UNION Slices)
  BY <1>2, <1>3, FS_UNION
<1> QED BY <1>4, FS_CardinalityType DEF Instances, Copies

\* A message that is put is one copy more.
LEMMA CopiesPut ==
    ASSUME NEW q \in [Messages -> Nat], NEW m \in Messages, NEW j \in Jobs
    PROVE  Copies(Put(q, m), j) = Copies(q, j) + (IF m.job = j THEN 1 ELSE 0)
<1>1. Put(q, m) \in [Messages -> Nat]
  BY PutType
<1>2. IsFiniteSet(Instances(q, j)) /\ Copies(q, j) \in Nat
  BY CopiesType
<1>3. CASE m.job = j
  <2>1. Instances(Put(q, m), j) = Instances(q, j) \cup {<<m, q[m] + 1>>}
    <3>1. ASSUME NEW c \in Instances(Put(q, m), j)
          PROVE  c \in Instances(q, j) \cup {<<m, q[m] + 1>>}
      <4>1. PICK n \in Messages, i \in Nat : n.job = j /\ i \in 1..Put(q, m)[n] /\ c = <<n, i>>
        BY <1>1, InstancesArePairs
      <4>2. i \in 1..q[n] \/ (n = m /\ i = q[m] + 1)
        BY <4>1 DEF Put
      <4> QED BY <4>1, <4>2, InstanceIs
    <3>2. Instances(q, j) \subseteq Instances(Put(q, m), j)
      <4> SUFFICES ASSUME NEW c \in Instances(q, j) PROVE c \in Instances(Put(q, m), j)
        OBVIOUS
      <4>1. PICK n \in Messages, i \in Nat : n.job = j /\ i \in 1..q[n] /\ c = <<n, i>>
        BY InstancesArePairs
      <4>2. i \in 1..Put(q, m)[n]
        BY <4>1 DEF Put
      <4> QED BY <4>1, <4>2, <1>1, InstanceIs
    <3>3. <<m, q[m] + 1>> \in Instances(Put(q, m), j)
      <4>1. q[m] + 1 \in 1..Put(q, m)[m]
        BY DEF Put
      <4> QED BY <4>1, <1>1, <1>3, InstanceIs
    <3> QED BY <3>1, <3>2, <3>3
  <2>2. <<m, q[m] + 1>> \notin Instances(q, j)
    BY InstanceIs
  <2> QED BY <1>2, <1>3, <2>1, <2>2, FS_AddElement DEF Copies
<1>4. CASE m.job # j
  <2>1. \A n \in Messages : n.job = j => Put(q, m)[n] = q[n]
    BY <1>4 DEF Put
  <2>2. Instances(Put(q, m), j) = Instances(q, j)
    BY <2>1 DEF Instances, Of
  <2> QED BY <1>2, <1>4, <2>2 DEF Copies
<1> QED BY <1>3, <1>4

\* A message that is taken is one copy fewer.
LEMMA CopiesTake ==
    ASSUME NEW q \in [Messages -> Nat], NEW m \in Messages, q[m] > 0, NEW j \in Jobs
    PROVE  Copies(q, j) = Copies(Take(q, m), j) + (IF m.job = j THEN 1 ELSE 0)
<1>1. Take(q, m) \in [Messages -> Nat]
  BY TakeType
<1>2. \A n \in Messages : Put(Take(q, m), m)[n] = q[n]
  BY DEF Put, Take
<1>3. Put(Take(q, m), m) = q
  <2>1. Put(Take(q, m), m) \in [Messages -> Nat]
    BY <1>1, PutType
  <2> QED BY <1>2, <2>1
<1> QED BY <1>1, <1>3, CopiesPut

\* The messages of a process that goes come back, each in one copy for its slot.
LEMMA CopiesRedelivered ==
    ASSUME TypeOK, NEW w \in Workers, NEW j \in Jobs
    PROVE  Copies(Redelivered(w), j)
             <= Copies(ready, j) + Cardinality({s \in InHand(w) : msg[s].job = j})
<1> DEFINE H(m) == {s \in InHand(w) : msg[s] = m}
           Mine == {s \in InHand(w) : msg[s].job = j}
           More == Instances(Redelivered(w), j) \ Instances(ready, j)
           Count == [m \in Messages |->
                        CHOOSE f : f \in Bijection(1..Cardinality(H(m)), H(m))]
           Slot == [c \in More |-> Count[c[1]][c[2] - ready[c[1]]]]
<1>1. InHand(w) \subseteq Slots
  BY DEF InHand, SlotsOf
<1>2. IsFiniteSet(Mine) /\ Cardinality(Mine) \in Nat
  <2>1. Mine \in SUBSET Slots
    BY <1>1
  <2> QED BY <2>1, FiniteAssumption, FS_Subset, FS_CardinalityType
<1>3. ASSUME NEW m \in Messages
      PROVE  /\ Cardinality(H(m)) \in Nat
             /\ Count[m] \in Bijection(1..Cardinality(H(m)), H(m))
             /\ Redelivered(w)[m] = ready[m] + Cardinality(H(m))
  <2>1. H(m) \in SUBSET Slots
    BY <1>1
  <2>2. IsFiniteSet(H(m))
    BY <2>1, FiniteAssumption, FS_Subset
  <2>3. Cardinality(H(m)) \in Nat /\ ExistsBijection(1..Cardinality(H(m)), H(m))
    BY <2>2, FS_CardinalityType
  <2>4. Count[m] \in Bijection(1..Cardinality(H(m)), H(m))
    <3>1. \E f : f \in Bijection(1..Cardinality(H(m)), H(m))
      BY <2>3 DEF ExistsBijection
    <3>2. Count[m] = CHOOSE f : f \in Bijection(1..Cardinality(H(m)), H(m))
      OBVIOUS
    <3> HIDE DEF H, Count
    <3> QED BY <3>1, <3>2
  <2> QED BY <2>3, <2>4 DEF Redelivered
<1>4. ready \in [Messages -> Nat] /\ Redelivered(w) \in [Messages -> Nat]
  BY RedeliveredType DEF TypeOK
<1>5. ASSUME NEW c \in More
      PROVE  \E m \in Messages, i \in Nat :
                /\ c = <<m, i>> /\ m.job = j /\ i - ready[m] \in 1..Cardinality(H(m))
                /\ Slot[c] = Count[m][i - ready[m]] /\ Slot[c] \in H(m)
  <2>1. PICK m \in Messages, i \in Nat : m.job = j /\ i \in 1..Redelivered(w)[m] /\ c = <<m, i>>
    BY <1>4, InstancesArePairs
  <2>2. i \notin 1..ready[m]
    BY <2>1, <1>4, InstanceIs
  <2>3. /\ Cardinality(H(m)) \in Nat
        /\ Count[m] \in Bijection(1..Cardinality(H(m)), H(m))
        /\ Redelivered(w)[m] = ready[m] + Cardinality(H(m))
        /\ ready[m] \in Nat
    BY <1>3, <1>4
  <2>4. c[1] = m /\ c[2] = i
    BY <2>1
  <2>5. Slot[c] = Count[m][i - ready[m]]
    BY <2>4
  <2> HIDE DEF H, Count, Slot, More
  <2>6. i - ready[m] \in 1..Cardinality(H(m))
    BY <2>1, <2>2, <2>3
  <2>7. Count[m][i - ready[m]] \in H(m)
    BY <2>3, <2>6 DEF Bijection, Surjection, Injection
  <2> QED BY <2>1, <2>5, <2>6, <2>7
<1>6. Slot \in Injection(More, Mine)
  <2>1. ASSUME NEW c \in More PROVE Slot[c] \in Mine
    BY <1>5
  <2>2. ASSUME NEW c \in More, NEW d \in More, Slot[c] = Slot[d] PROVE c = d
    <3>1. PICK m \in Messages, i \in Nat :
                /\ c = <<m, i>> /\ m.job = j /\ i - ready[m] \in 1..Cardinality(H(m))
                /\ Slot[c] = Count[m][i - ready[m]] /\ Slot[c] \in H(m)
      BY <1>5
    <3>2. PICK n \in Messages, k \in Nat :
                /\ d = <<n, k>> /\ n.job = j /\ k - ready[n] \in 1..Cardinality(H(n))
                /\ Slot[d] = Count[n][k - ready[n]] /\ Slot[d] \in H(n)
      BY <1>5
    <3>3. m = n
      BY <3>1, <3>2, <2>2
    <3>4. Count[m] \in Bijection(1..Cardinality(H(m)), H(m)) /\ ready[m] \in Nat
      BY <1>3, <1>4
    <3> HIDE DEF H, Count, Slot, More
    <3>5. i - ready[m] = k - ready[m]
      BY <2>2, <3>1, <3>2, <3>3, <3>4 DEF Bijection, Injection, IsInjective
    <3> QED BY <3>1, <3>2, <3>3, <3>4, <3>5
  <2>3. Slot \in [More -> Mine]
    BY <2>1
  <2> HIDE DEF H, Count, Slot, More, Mine
  <2> QED BY <2>2, <2>3 DEF Injection, IsInjective
<1>7. IsFiniteSet(More) /\ Cardinality(More) <= Cardinality(Mine)
  BY <1>2, <1>6, FS_Injection
<1>8. IsFiniteSet(Instances(ready, j)) /\ IsFiniteSet(Instances(Redelivered(w), j))
  BY <1>4, CopiesType
<1>9. Cardinality(More)
        = Copies(Redelivered(w), j)
            - Cardinality(Instances(Redelivered(w), j) \cap Instances(ready, j))
  BY <1>8, FS_Difference DEF Copies
<1>10. Cardinality(Instances(Redelivered(w), j) \cap Instances(ready, j)) <= Copies(ready, j)
  BY <1>8, FS_Intersection DEF Copies
<1>11. /\ Cardinality(Instances(Redelivered(w), j) \cap Instances(ready, j)) \in Nat
       /\ Copies(ready, j) \in Nat /\ Copies(Redelivered(w), j) \in Nat
       /\ Cardinality(More) \in Nat
  <2>1. IsFiniteSet(Instances(Redelivered(w), j) \cap Instances(ready, j))
    BY <1>8, FS_Intersection
  <2> QED BY <2>1, <1>4, <1>7, CopiesType, FS_CardinalityType
<1> HIDE DEF More, Mine
<1>12. Copies(Redelivered(w), j) <= Copies(ready, j) + Cardinality(Mine)
  BY <1>2, <1>7, <1>9, <1>10, <1>11
<1> QED BY <1>12 DEF Mine

-----------------------------------------------------------------------------
(* Chains. What is counted for a job is its messages, in a queue or in a slot *)
(* that has queued no successor; a worker that is stopping is charged ahead   *)
(* for the slots it may drop between their publish and their ack.             *)

Bare(j) == {s \in Slots : pc[s] \notin {"idle", "handover"} /\ msg[s].job = j}
Dropping == {s \in Slots : worker[Owner[s]] = "stopping"}

Chains(j) == Copies(ready, j) + Copies(delayed, j) + Cardinality(Bare(j))
Load(j) == Chains(j) + Cardinality(Dropping)
Allowed == 1 + failures * Cardinality(Slots)

\* Nothing is sent for a job that is not there.
Unsent(j) ==
    job[j] = "unborn" =>
       /\ \A m \in Messages : m.job = j => ready[m] = 0 /\ delayed[m] = 0
       /\ \A s \in Slots : pc[s] # "idle" => msg[s].job # j

SignalsCount == Dropping # {} => failures > 0

ChainsInv == IInv /\ SignalsCount /\ \A j \in Jobs : Unsent(j) /\ Load(j) <= Allowed

\* Slots are finitely many.
LEMMA SlotsAreFinite ==
    ASSUME NEW S \in SUBSET Slots
    PROVE  /\ IsFiniteSet(S) /\ Cardinality(S) \in Nat
           /\ Cardinality(S) <= Cardinality(Slots) /\ Cardinality(Slots) \in Nat
BY FiniteAssumption, FS_Subset, FS_CardinalityType

\* What is counted is a number.
LEMMA LoadType ==
    ASSUME TypeOK, NEW j \in Jobs
    PROVE  /\ Copies(ready, j) \in Nat /\ Copies(delayed, j) \in Nat
           /\ IsFiniteSet(Bare(j)) /\ Cardinality(Bare(j)) \in Nat
           /\ Cardinality(Dropping) \in Nat
           /\ Load(j) \in Nat
<1>1. Copies(ready, j) \in Nat /\ Copies(delayed, j) \in Nat
  BY CopiesType DEF TypeOK
<1>2. Bare(j) \in SUBSET Slots /\ Dropping \in SUBSET Slots
  BY DEF Bare, Dropping
<1> QED BY <1>1, <1>2, SlotsAreFinite DEF Load, Chains

\* And is one after a step.
LEMMA LoadTypeNext ==
    ASSUME TypeOK', NEW j \in Jobs
    PROVE  /\ Copies(ready, j)' \in Nat /\ Copies(delayed, j)' \in Nat
           /\ Cardinality(Bare(j))' \in Nat /\ Cardinality(Dropping)' \in Nat
           /\ Load(j)' \in Nat
<1>1. Copies(ready', j) \in Nat /\ Copies(delayed', j) \in Nat
  BY CopiesType DEF TypeOK
<1>2. Bare(j)' \in SUBSET Slots /\ Dropping' \in SUBSET Slots
  BY DEF Bare, Dropping
<1> QED BY <1>1, <1>2, SlotsAreFinite DEF Load, Chains

\* InFlight, less the slots about to ack, is what is counted here.
LEMMA ChainsAreInFlight ==
    ASSUME TypeOK, NEW j \in Jobs
    PROVE  InFlight(j) - Cardinality(Handing(j)) = Chains(j)
<1>1. HeldFor(j) \in SUBSET Slots
  BY DEF HeldFor
<1>2. Bare(j) = HeldFor(j) \ Handing(j) /\ HeldFor(j) \cap Handing(j) = Handing(j)
  BY DEF Bare, HeldFor, Handing
<1>3. Cardinality(Bare(j)) = Cardinality(HeldFor(j)) - Cardinality(Handing(j))
  BY <1>1, <1>2, SlotsAreFinite, FS_Difference
<1>4. Handing(j) \in SUBSET Slots
  BY <1>1 DEF Handing
<1> QED BY <1>1, <1>3, <1>4, SlotsAreFinite, LoadType DEF InFlight, Chains

\* One slot moves: what is bare changes by it alone.
LEMMA BareStep ==
    ASSUME TypeOK, TypeOK', NEW s \in Slots, NEW j \in Jobs,
           \A t \in Slots \ {s} : pc'[t] = pc[t] /\ msg'[t] = msg[t]
    PROVE  Cardinality(Bare(j)') = Cardinality(Bare(j))
              - (IF s \in Bare(j) THEN 1 ELSE 0) + (IF s \in Bare(j)' THEN 1 ELSE 0)
<1>1. Bare(j) \in SUBSET Slots /\ Bare(j)' \in SUBSET Slots
  BY DEF Bare
<1>2. Bare(j) \ {s} = Bare(j)' \ {s}
  BY DEF Bare
<1>3. /\ Cardinality(Bare(j) \ {s})
           = IF s \in Bare(j) THEN Cardinality(Bare(j)) - 1 ELSE Cardinality(Bare(j))
      /\ Cardinality(Bare(j)' \ {s})
           = IF s \in Bare(j)' THEN Cardinality(Bare(j)') - 1 ELSE Cardinality(Bare(j)')
  BY <1>1, SlotsAreFinite, FS_RemoveElement
<1>4. Cardinality(Bare(j)) \in Nat /\ Cardinality(Bare(j)') \in Nat
  BY <1>1, SlotsAreFinite
<1> QED BY <1>2, <1>3, <1>4

\* A step that fails may add a slot's worth of chains for each slot.
LEMMA FailureAllows ==
    ASSUME TypeOK
    PROVE  /\ Allowed \in Nat /\ Allowed >= 1
           /\ Fail => Allowed' = Allowed + Cardinality(Slots)
           /\ failures > 0 => 1 + Cardinality(Slots) <= Allowed
<1> DEFINE N == Cardinality(Slots)
<1>1. N \in Nat /\ failures \in Nat
  BY FiniteAssumption, FS_CardinalityType DEF TypeOK
<1> HIDE DEF N
<1>2. failures * N \in Nat /\ (failures + 1) * N = failures * N + N
  BY <1>1
<1>3. failures > 0 => N <= failures * N
  <2> SUFFICES ASSUME failures > 0 PROVE N <= failures * N
    OBVIOUS
  <2>1. failures - 1 \in Nat /\ failures = (failures - 1) + 1
    BY <1>1
  <2>2. ((failures - 1) + 1) * N = (failures - 1) * N + N /\ (failures - 1) * N \in Nat
    BY <1>1, <2>1
  <2> QED BY <1>1, <2>1, <2>2
<1>4. Allowed = 1 + failures * N /\ Allowed' = 1 + failures' * N
  BY DEF Allowed, N
<1>5. Allowed \in Nat /\ Allowed >= 1
  BY <1>2, <1>4
<1>6. Fail => Allowed' = Allowed + N
  <2> SUFFICES ASSUME Fail PROVE Allowed' = Allowed + N
    OBVIOUS
  <2>1. failures' * N = (failures + 1) * N
    BY DEF Fail
  <2> QED BY <1>1, <1>2, <1>4, <2>1
<1>7. failures > 0 => 1 + N <= Allowed
  BY <1>1, <1>2, <1>3, <1>4
<1> QED BY <1>5, <1>6, <1>7 DEF N

\* A step adds nothing to a job's load, or is a failure and adds no more than slots.
Grows(j) ==
    \/ failures' = failures /\ Load(j)' <= Load(j)
    \/ Fail /\ Load(j)' <= Load(j) + Cardinality(Slots)

LEMMA GrowthIsAllowed ==
    ASSUME TypeOK, TypeOK', NEW j \in Jobs, Load(j) <= Allowed, Grows(j)
    PROVE  Load(j)' <= Allowed'
<1>1. Load(j) \in Nat /\ Load(j)' \in Nat /\ Allowed \in Nat /\ Cardinality(Slots) \in Nat
  BY LoadType, LoadTypeNext, FailureAllows, FiniteAssumption, FS_CardinalityType
<1>2. CASE failures' = failures /\ Load(j)' <= Load(j)
  <2>1. Allowed' = Allowed
    BY <1>2 DEF Allowed
  <2> QED BY <1>1, <1>2, <2>1
<1>3. CASE Fail /\ Load(j)' <= Load(j) + Cardinality(Slots)
  BY <1>1, <1>3, FailureAllows
<1> QED BY <1>2, <1>3 DEF Grows

\* The broker moves messages from one place to the next.
LEMMA BrokerGrows ==
    ASSUME TypeOK, TypeOK', NEW j \in Jobs, NEW m \in Messages,
           DelayEnds(m) \/ \E s \in Slots : Deliver(s, m)
    PROVE  Grows(j)
<1>0. /\ Copies(ready, j) \in Nat /\ Copies(delayed, j) \in Nat
      /\ Cardinality(Bare(j)) \in Nat /\ Cardinality(Dropping) \in Nat
      /\ Copies(ready, j)' \in Nat /\ Copies(delayed, j)' \in Nat
      /\ Cardinality(Bare(j))' \in Nat
  BY LoadType, LoadTypeNext
<1>1. CASE DelayEnds(m)
  <2>1. Copies(ready', j) = Copies(ready, j) + (IF m.job = j THEN 1 ELSE 0)
    BY <1>1, CopiesPut DEF DelayEnds, TypeOK
  <2>2. Copies(delayed, j) = Copies(delayed', j) + (IF m.job = j THEN 1 ELSE 0)
    BY <1>1, CopiesTake DEF DelayEnds, TypeOK
  <2>3. Bare(j)' = Bare(j) /\ Dropping' = Dropping /\ failures' = failures
    BY <1>1 DEF DelayEnds, Bare, Dropping, slotVars
  <2>4. Load(j)' = Load(j)
    BY <1>0, <2>1, <2>2, <2>3 DEF Load, Chains
  <2> QED BY <2>3, <2>4, LoadType DEF Grows
<1>2. ASSUME NEW s \in Slots, Deliver(s, m) PROVE Grows(j)
  <2>1. Copies(ready, j) = Copies(ready', j) + (IF m.job = j THEN 1 ELSE 0)
    BY <1>2, CopiesTake DEF Deliver, TypeOK
  <2>2. delayed' = delayed /\ Dropping' = Dropping /\ failures' = failures
    BY <1>2 DEF Deliver, Dropping
  <2>3. \A t \in Slots \ {s} : pc'[t] = pc[t] /\ msg'[t] = msg[t]
    BY <1>2 DEF Deliver, Goto, TypeOK
  <2>4. s \notin Bare(j) /\ (s \in Bare(j)' <=> m.job = j)
    BY <1>2 DEF Deliver, Bare, Goto, TypeOK
  <2>5. Cardinality(Bare(j)') = Cardinality(Bare(j)) + (IF m.job = j THEN 1 ELSE 0)
    BY <1>0, <2>3, <2>4, BareStep
  <2>6. Load(j)' = Load(j)
    BY <1>0, <2>1, <2>2, <2>5 DEF Load, Chains
  <2> QED BY <2>2, <2>6, LoadType DEF Grows
<1> QED BY <1>1, <1>2

\* An answer leaves its slot as it was counted.
LEMMA AnswerGrows ==
    ASSUME TypeOK, TypeOK', NEW j \in Jobs, NEW s \in Slots, Answered(s)
    PROVE  Grows(j)
<1>1. pc[s] = "call" /\ UNCHANGED <<ready, delayed, msg, worker>> /\ (failures' = failures \/ Fail)
  BY DEF Answered, AnsweredOver, AnsweredLive, AnsweredTransient, AnsweredPermanent,
         AnsweredBusy, queues
<1>2. \E step \in {"ack", "publish", "spent", "refuse"} : Goto(s, step)
  BY DEF Answered, AnsweredOver, AnsweredLive, AnsweredTransient, AnsweredPermanent,
         AnsweredBusy
<1>3. Bare(j)' = Bare(j)
  BY <1>1, <1>2 DEF Bare, Goto, TypeOK
<1>4. Load(j)' = Load(j)
  BY <1>1, <1>3 DEF Load, Chains, Dropping
<1> QED BY <1>1, <1>4, LoadType, SlotsAreFinite DEF Grows

\* A confirmed follow-up takes its slot's place; one whose confirm is lost does not.
LEMMA PublishGrows ==
    ASSUME IInv, TypeOK', NEW j \in Jobs, NEW s \in Slots,
           Published(s) \/ PublishFailed(s) \/ ConfirmLost(s)
    PROVE  Grows(j)
<1>t. TypeOK
  BY DEF IInv
<1>0. /\ Copies(ready, j) \in Nat /\ Copies(delayed, j) \in Nat
      /\ Cardinality(Bare(j)) \in Nat /\ Cardinality(Dropping) \in Nat
      /\ Copies(delayed, j)' \in Nat /\ Cardinality(Bare(j))' \in Nat
  BY <1>t, LoadType, LoadTypeNext
<1>n. Cardinality(Slots) \in Nat /\ Cardinality(Slots) >= 1
  BY FiniteAssumption, FS_CardinalityType, FS_EmptySet
<1>1. /\ pc[s] = "publish" /\ follow[s].job = msg[s].job /\ follow[s] \in Messages
      /\ UNCHANGED <<ready, msg, worker>>
      /\ \A t \in Slots \ {s} : pc'[t] = pc[t] /\ msg'[t] = msg[t]
  BY <1>t DEF Published, Scheduled, PublishFailed, ConfirmLost, Counted, Goto, IInv, FollowsOwn,
              TypeOK, queues
<1>2. Dropping' = Dropping
  BY <1>1 DEF Dropping
<1>3. CASE Published(s)
  <2>1. /\ pc' = [pc EXCEPT ![s] = "handover"] /\ delayed' = Put(delayed, follow[s])
        /\ failures' = failures
    BY <1>3 DEF Published, Scheduled, Goto
  <2>2. Copies(delayed', j) = Copies(delayed, j) + (IF msg[s].job = j THEN 1 ELSE 0)
    BY <1>t, <1>1, <2>1, CopiesPut DEF TypeOK
  <2>3. (s \in Bare(j) <=> msg[s].job = j) /\ s \notin Bare(j)'
    BY <1>t, <1>1, <2>1 DEF Bare, TypeOK
  <2>4. Cardinality(Bare(j)') = Cardinality(Bare(j)) - (IF msg[s].job = j THEN 1 ELSE 0)
    BY <1>t, <1>0, <1>1, <2>3, BareStep
  <2>5. Load(j)' = Load(j)
    BY <1>0, <1>1, <1>2, <2>2, <2>4 DEF Load, Chains
  <2> QED BY <1>t, <2>1, <2>5, LoadType DEF Grows
<1>4. CASE PublishFailed(s) \/ ConfirmLost(s)
  <2>1. Goto(s, "pause") \/ Goto(s, "lastpause")
    BY <1>4 DEF PublishFailed, ConfirmLost, Counted
  <2>2. Bare(j)' = Bare(j)
    BY <1>t, <1>1, <2>1 DEF Bare, Goto, TypeOK
  <2>3. CASE PublishFailed(s)
    <3>1. delayed' = delayed /\ failures' = failures
      BY <2>3 DEF PublishFailed, queues
    <3>2. Load(j)' = Load(j)
      BY <1>1, <1>2, <2>2, <3>1 DEF Load, Chains
    <3> QED BY <1>t, <3>1, <3>2, LoadType DEF Grows
  <2>4. CASE ConfirmLost(s)
    <3>1. delayed' = Put(delayed, follow[s]) /\ Fail
      BY <2>4 DEF ConfirmLost
    <3>2. Copies(delayed', j) = Copies(delayed, j) + (IF follow[s].job = j THEN 1 ELSE 0)
      BY <1>t, <1>1, <3>1, CopiesPut DEF TypeOK
    <3>3. Load(j)' <= Load(j) + 1
      BY <1>0, <1>1, <1>2, <2>2, <3>2 DEF Load, Chains
    <3> QED BY <1>t, <1>n, <3>1, <3>3, LoadType, LoadTypeNext DEF Grows
  <2> QED BY <1>4, <2>3, <2>4
<1> QED BY <1>3, <1>4

\* A handler that ends gives its message back, once, or away.
LEMMA EndedGrows ==
    ASSUME TypeOK, TypeOK', NEW j \in Jobs, NEW s \in Slots, Ended(s)
    PROVE  Grows(j)
<1>0. /\ Copies(ready, j) \in Nat /\ Copies(delayed, j) \in Nat
      /\ Cardinality(Bare(j)) \in Nat /\ Cardinality(Dropping) \in Nat
      /\ Copies(ready, j)' \in Nat /\ Cardinality(Bare(j))' \in Nat
  BY LoadType, LoadTypeNext
<1>1. Free(s) /\ UNCHANGED <<delayed, worker, failures>>
  BY DEF Ended, Acked, Rejected, Requeued, Discarded, queues
<1>2. s \notin Bare(j)' /\ \A t \in Slots \ {s} : pc'[t] = pc[t] /\ msg'[t] = msg[t]
  BY <1>1 DEF Bare, Free, Goto, TypeOK
<1>3. Cardinality(Bare(j)') = Cardinality(Bare(j)) - (IF s \in Bare(j) THEN 1 ELSE 0)
  BY <1>0, <1>2, BareStep
<1>4. Copies(ready', j) <= Copies(ready, j) + (IF s \in Bare(j) THEN 1 ELSE 0)
  <2>1. CASE Requeued(s)
    <3>1. ready' = Put(ready, msg[s]) /\ pc[s] \in {"pause", "lastpause"} /\ msg[s] \in Messages
      BY <2>1 DEF Requeued, TypeOK
    <3>2. s \in Bare(j) <=> msg[s].job = j
      BY <3>1 DEF Bare
    <3>3. Copies(ready', j) = Copies(ready, j) + (IF msg[s].job = j THEN 1 ELSE 0)
      BY <3>1, CopiesPut DEF TypeOK
    <3> QED BY <1>0, <3>2, <3>3
  <2>2. CASE Acked(s) \/ Rejected(s) \/ Discarded(s)
    <3>1. ready' = ready
      BY <2>2 DEF Acked, Rejected, Discarded, queues
    <3> QED BY <1>0, <3>1
  <2> QED BY <2>1, <2>2 DEF Ended
<1>5. Dropping' = Dropping
  BY <1>1 DEF Dropping
<1>6. Load(j)' <= Load(j)
  BY <1>0, <1>1, <1>3, <1>4, <1>5 DEF Load, Chains
<1> QED BY <1>1, <1>6 DEF Grows

\* A process that goes turns its slots into messages; those it was about to ack
\* have successors, and were charged for when it was signalled, or are by its crash.
LEMMA GoneGrows ==
    ASSUME TypeOK, TypeOK', NEW j \in Jobs, NEW w \in Workers, Drained(w) \/ Crashed(w)
    PROVE  Grows(j)
<1> DEFINE Back == {s \in InHand(w) : msg[s].job = j}
           Gap == Cardinality(SlotsOf(w))
<1>0. /\ Copies(ready, j) \in Nat /\ Copies(delayed, j) \in Nat
      /\ Cardinality(Bare(j)) \in Nat /\ Cardinality(Dropping) \in Nat
      /\ Copies(ready, j)' \in Nat /\ Cardinality(Bare(j))' \in Nat
      /\ Cardinality(Dropping)' \in Nat
  BY LoadType, LoadTypeNext
<1>1. Gone(w)
  BY DEF Drained, Crashed
<1>2. Back \in SUBSET SlotsOf(w) /\ SlotsOf(w) \in SUBSET Slots
  BY DEF InHand, SlotsOf
<1>3. /\ Cardinality(Back) \in Nat /\ Gap \in Nat /\ Cardinality(Slots) \in Nat
      /\ Cardinality(Back) <= Gap /\ Gap <= Cardinality(Slots)
  BY <1>2, SlotsAreFinite, FS_Subset
<1> HIDE DEF Gap
<1>4. Copies(ready', j) <= Copies(ready, j) + Gap
  <2>1. Copies(ready', j) <= Copies(ready, j) + Cardinality(Back)
    BY <1>1, CopiesRedelivered DEF Gone
  <2> QED BY <1>0, <1>3, <2>1
<1>5. Cardinality(Bare(j)') <= Cardinality(Bare(j))
  <2>1. Bare(j)' \in SUBSET Bare(j) /\ Bare(j) \in SUBSET Slots
    BY <1>1 DEF Bare, Gone
  <2> QED BY <2>1, SlotsAreFinite, FS_Subset
<1>6. delayed' = delayed
  BY <1>1 DEF Gone
<1>7. CASE Drained(w)
  <2>1. Dropping' = Dropping \ SlotsOf(w) /\ Dropping \cap SlotsOf(w) = SlotsOf(w)
    BY <1>7, OwnerAssumption DEF Drained, Gone, Dropping, SlotsOf, TypeOK
  <2>2. Dropping \in SUBSET Slots
    BY DEF Dropping
  <2>3. Cardinality(Dropping') = Cardinality(Dropping) - Gap
    BY <2>1, <2>2, SlotsAreFinite, FS_Difference DEF Gap
  <2>4. Load(j)' <= Load(j)
    BY <1>0, <1>3, <1>4, <1>5, <1>6, <2>3 DEF Load, Chains
  <2> QED BY <1>7, <2>4 DEF Drained, Grows
<1>8. CASE Crashed(w)
  <2>1. Dropping' \in SUBSET Dropping /\ Dropping \in SUBSET Slots
    BY <1>8, OwnerAssumption DEF Crashed, Gone, Dropping, TypeOK
  <2>2. Cardinality(Dropping') <= Cardinality(Dropping)
    BY <2>1, SlotsAreFinite, FS_Subset
  <2>3. Load(j)' <= Load(j) + Cardinality(Slots)
    BY <1>0, <1>3, <1>4, <1>5, <1>6, <2>2 DEF Load, Chains
  <2> QED BY <1>8, <2>3 DEF Crashed, Grows
<1> QED BY <1>7, <1>8

\* A signal charges its process for all of its slots.
LEMMA ProcessGrows ==
    ASSUME TypeOK, TypeOK', NEW j \in Jobs, NEW w \in Workers, ProcessStep(w)
    PROVE  Grows(j)
<1>0. /\ Copies(ready, j) \in Nat /\ Copies(delayed, j) \in Nat
      /\ Cardinality(Bare(j)) \in Nat /\ Cardinality(Dropping) \in Nat
      /\ Cardinality(Dropping)' \in Nat
  BY LoadType, LoadTypeNext
<1>1. CASE Signalled(w)
  <2>1. Bare(j)' = Bare(j) /\ UNCHANGED <<ready, delayed>> /\ Fail
    BY <1>1 DEF Signalled, Bare, queues, slotVars
  <2>2. Dropping' \in SUBSET Slots
    BY DEF Dropping
  <2>3. Cardinality(Dropping') <= Cardinality(Slots) /\ Cardinality(Slots) \in Nat
    BY <2>2, SlotsAreFinite
  <2>4. Load(j)' <= Load(j) + Cardinality(Slots)
    BY <1>0, <2>1, <2>3 DEF Load, Chains
  <2> QED BY <2>1, <2>4 DEF Grows
<1>2. CASE Started(w)
  <2>1. Bare(j)' = Bare(j) /\ UNCHANGED <<ready, delayed, failures>>
    BY <1>2 DEF Started, Bare, queues, slotVars
  <2>2. Dropping' = Dropping
    BY <1>2, OwnerAssumption DEF Started, Dropping, TypeOK
  <2>3. Load(j)' = Load(j)
    BY <2>1, <2>2 DEF Load, Chains
  <2> QED BY <2>1, <2>3, LoadType DEF Grows
<1>3. CASE Drained(w) \/ Crashed(w)
  BY <1>3, GoneGrows
<1> QED BY <1>1, <1>2, <1>3 DEF ProcessStep

\* The first message of a job is its only one.
LEMMA JobLoads ==
    ASSUME ChainsInv, TypeOK', NEW j \in Jobs, NEW i \in Jobs, JobStep(i)
    PROVE  Load(j)' <= Allowed'
<1>t. TypeOK /\ Unsent(j) /\ Load(j) <= Allowed
  BY DEF ChainsInv, IInv
<1>0. /\ Copies(ready, j) \in Nat /\ Copies(delayed, j) \in Nat
      /\ Cardinality(Bare(j)) \in Nat /\ Cardinality(Dropping) \in Nat /\ Load(j) \in Nat
  BY <1>t, LoadType
<1>n. /\ Cardinality(Slots) \in Nat /\ Allowed \in Nat /\ Allowed >= 1
      /\ failures > 0 => 1 + Cardinality(Slots) <= Allowed
      /\ Fail => Allowed' = Allowed + Cardinality(Slots)
  BY <1>t, FailureAllows, FiniteAssumption, FS_CardinalityType
<1>1. /\ delayed' = delayed /\ Bare(j)' = Bare(j) /\ Dropping' = Dropping
      /\ ready' = ready \/ (ready' = Put(ready, Submission(i)) /\ job[i] = "unborn")
      /\ failures' = failures \/ Fail
  BY DEF JobStep, Create, CreateInline, ComesDue, EndsElsewhere, Bare, Dropping, queues,
         slotVars
<1>2. Allowed' >= Allowed
  <2>1. CASE failures' = failures
    <3>1. Allowed' = Allowed
      BY <2>1 DEF Allowed
    <3> QED BY <3>1, <1>n
  <2>2. CASE Fail
    BY <2>2, <1>n
  <2> QED BY <1>1, <2>1, <2>2
<1>a. Allowed' \in Nat
  <2>1. CASE failures' = failures
    <3>1. Allowed' = Allowed
      BY <2>1 DEF Allowed
    <3> QED BY <3>1, <1>n
  <2>2. CASE Fail
    BY <2>2, <1>n
  <2> QED BY <1>1, <2>1, <2>2
<1>3. CASE ready' = ready
  <2>1. Load(j)' = Load(j)
    BY <1>1, <1>3 DEF Load, Chains
  <2> QED BY <1>t, <1>0, <1>n, <1>2, <1>a, <2>1
<1>4. CASE ready' = Put(ready, Submission(i)) /\ job[i] = "unborn"
  <2>0. Submission(i) \in Messages /\ Submission(i).job = i /\ ready \in [Messages -> Nat]
    BY <1>t, FollowUpType DEF TypeOK
  <2>1. Copies(ready', j) = Copies(ready, j) + (IF i = j THEN 1 ELSE 0)
    BY <1>4, <2>0, CopiesPut
  <2>2. CASE i # j
    <3>1. Load(j)' = Load(j)
      BY <1>0, <1>1, <2>1, <2>2 DEF Load, Chains
    <3> QED BY <1>t, <1>0, <1>n, <1>2, <1>a, <3>1
  <2>3. CASE i = j
    <3>1. /\ \A m \in Messages : m.job = j => ready[m] = 0 /\ delayed[m] = 0
          /\ \A s \in Slots : pc[s] # "idle" => msg[s].job # j
      BY <1>t, <1>4, <2>3 DEF Unsent
    <3>2. Instances(ready, j) = {} /\ Instances(delayed, j) = {} /\ Bare(j) = {}
      BY <3>1 DEF Instances, Of, Bare
    <3>3. Copies(ready, j) = 0 /\ Copies(delayed, j) = 0 /\ Cardinality(Bare(j)) = 0
      BY <3>2, FS_EmptySet DEF Copies
    <3>4. Load(j)' = 1 + Cardinality(Dropping)
      BY <1>0, <1>1, <2>1, <2>3, <3>3 DEF Load, Chains
    <3>5. CASE Dropping = {}
      BY <1>n, <1>2, <1>a, <3>4, <3>5, FS_EmptySet
    <3>6. CASE Dropping # {}
      <4>1. Dropping \in SUBSET Slots
        BY DEF Dropping
      <4>2. failures > 0 /\ Cardinality(Dropping) <= Cardinality(Slots)
        BY <3>6, <4>1, SlotsAreFinite DEF ChainsInv, SignalsCount
      <4> QED BY <1>0, <1>n, <1>2, <1>a, <3>4, <4>2
    <3> QED BY <3>5, <3>6
  <2> QED BY <2>2, <2>3
<1> QED BY <1>1, <1>3, <1>4

\* Nothing is sent for a job that is not there, by any step.
LEMMA UnsentNext ==
    ASSUME IInv, TypeOK', [Next]_vars, NEW j \in Jobs, Unsent(j)
    PROVE  Unsent(j)'
<1>t. TypeOK /\ FollowsOwn
  BY DEF IInv
<1> SUFFICES ASSUME job'[j] = "unborn"
             PROVE  /\ \A m \in Messages : m.job = j => ready'[m] = 0 /\ delayed'[m] = 0
                    /\ \A s \in Slots : pc'[s] # "idle" => msg'[s].job # j
  BY DEF Unsent
<1> DEFINE Empty == \A m \in Messages : m.job = j => ready[m] = 0 /\ delayed[m] = 0
           Away  == \A s \in Slots : pc[s] # "idle" => msg[s].job # j
<1>1. ASSUME NEW i \in Jobs, JobStep(i) PROVE Empty' /\ Away'
  <2>1. job[j] = "unborn" /\ UNCHANGED <<slotVars, delayed>>
    BY <1>t, <1>1 DEF JobStep, Create, CreateInline, ComesDue, EndsElsewhere, TypeOK, queues
  <2>2. ready' = ready \/ (ready' = Put(ready, Submission(i)) /\ i # j)
    BY <1>t, <1>1 DEF JobStep, Create, CreateInline, ComesDue, EndsElsewhere, TypeOK, queues
  <2>3. Submission(i).job = i /\ Empty /\ Away
    BY <2>1, FollowUpType DEF Unsent
  <2>4. \A m \in Messages : m.job = j => ready'[m] = ready[m]
    BY <1>t, <2>2, <2>3 DEF Put, TypeOK
  <2> QED BY <2>1, <2>3, <2>4 DEF slotVars
<1>2. ASSUME NEW n \in Messages, DelayEnds(n) PROVE Empty' /\ Away'
  <2>1. job[j] = "unborn" /\ UNCHANGED slotVars
    BY <1>2 DEF DelayEnds, jobVars
  <2>2. n.job # j /\ Empty /\ Away
    BY <1>2, <2>1 DEF DelayEnds, Unsent
  <2>3. \A m \in Messages : m.job = j => ready'[m] = ready[m] /\ delayed'[m] = delayed[m]
    BY <1>t, <1>2, <2>2 DEF DelayEnds, Put, Take, TypeOK
  <2> QED BY <2>1, <2>2, <2>3 DEF slotVars
<1>3. ASSUME NEW n \in Messages, NEW s \in Slots, Deliver(s, n) PROVE Empty' /\ Away'
  <2>1. job[j] = "unborn" /\ delayed' = delayed
    BY <1>3 DEF Deliver, jobVars
  <2>2. n.job # j /\ Empty /\ Away
    BY <1>3, <2>1 DEF Deliver, Unsent
  <2>3. \A m \in Messages : m.job = j => ready'[m] = ready[m]
    BY <1>t, <1>3, <2>2 DEF Deliver, Take, TypeOK
  <2>4. \A t \in Slots : msg'[t] = n \/ (msg'[t] = msg[t] /\ pc'[t] = pc[t])
    BY <1>t, <1>3 DEF Deliver, Goto, TypeOK
  <2> QED BY <2>1, <2>2, <2>3, <2>4
<1>4. ASSUME NEW s \in Slots, Answered(s) PROVE Empty' /\ Away'
  <2>1. job[j] = "unborn" /\ UNCHANGED <<ready, delayed, msg>> /\ pc[s] = "call"
    <3>1. msg[s].job \in Jobs
      BY <1>t, MessageParts DEF TypeOK
    <3> QED BY <1>t, <1>4, <3>1 DEF Answered, AnsweredOver, AnsweredLive, AnsweredTransient,
                AnsweredPermanent, AnsweredBusy, TypeOK, queues, jobVars
  <2>2. \A t \in Slots : pc'[t] # "idle" => pc[t] # "idle"
    BY <1>t, <1>4, <2>1 DEF Answered, AnsweredOver, AnsweredLive, AnsweredTransient,
                AnsweredPermanent, AnsweredBusy, Goto, TypeOK
  <2> QED BY <2>1, <2>2 DEF Unsent
<1>5. ASSUME NEW s \in Slots, Published(s) \/ PublishFailed(s) \/ ConfirmLost(s)
      PROVE  Empty' /\ Away'
  <2>1. job[j] = "unborn" /\ UNCHANGED <<ready, msg>> /\ pc[s] = "publish"
    BY <1>5 DEF Published, Scheduled, PublishFailed, ConfirmLost, jobVars, queues
  <2>2. Empty /\ Away /\ follow[s].job # j
    BY <1>t, <2>1 DEF Unsent, FollowsOwn
  <2>3. \A m \in Messages : m.job = j => delayed'[m] = delayed[m]
    BY <1>t, <1>5, <2>2 DEF Published, Scheduled, PublishFailed, ConfirmLost, Put, TypeOK, queues
  <2>4. \A t \in Slots : pc'[t] # "idle" => pc[t] # "idle"
    BY <1>t, <1>5, <2>1 DEF Published, Scheduled, PublishFailed, ConfirmLost, Counted, Goto,
                TypeOK
  <2> QED BY <2>1, <2>2, <2>3, <2>4
<1>6. ASSUME NEW s \in Slots, Ended(s) PROVE Empty' /\ Away'
  <2>1. job[j] = "unborn" /\ delayed' = delayed /\ Free(s) /\ pc[s] # "idle"
    BY <1>6 DEF Ended, Acked, Rejected, Requeued, Discarded, jobVars, queues
  <2>2. Empty /\ Away /\ msg[s].job # j
    BY <2>1 DEF Unsent
  <2>3. ready' = ready \/ ready' = Put(ready, msg[s])
    BY <1>6 DEF Ended, Acked, Rejected, Requeued, Discarded, queues
  <2>4. \A m \in Messages : m.job = j => ready'[m] = ready[m]
    BY <1>t, <2>2, <2>3 DEF Put, TypeOK
  <2>5. \A t \in Slots : pc'[t] # "idle" => pc[t] # "idle" /\ msg'[t] = msg[t]
    BY <1>t, <2>1 DEF Free, Goto, TypeOK
  <2> QED BY <2>1, <2>2, <2>4, <2>5
<1>7. ASSUME NEW w \in Workers, ProcessStep(w) PROVE Empty' /\ Away'
  <2>1. job[j] = "unborn" /\ delayed' = delayed
    BY <1>7 DEF ProcessStep, Signalled, Drained, Crashed, Gone, Started, jobVars, queues
  <2>2. Empty /\ Away
    BY <2>1 DEF Unsent
  <2>3. CASE Gone(w)
    <3>1. ASSUME NEW m \in Messages, m.job = j PROVE ready'[m] = 0
      <4>1. {s \in InHand(w) : msg[s] = m} = {}
        BY <2>2, <3>1 DEF InHand, SlotsOf
      <4>2. ready'[m] = ready[m] + Cardinality({s \in InHand(w) : msg[s] = m})
        BY <2>3 DEF Gone, Redelivered
      <4>3. Cardinality({s \in InHand(w) : msg[s] = m}) = 0
        BY <4>1, FS_EmptySet
      <4>4. ready[m] = 0
        BY <2>2, <3>1
      <4> QED BY <4>2, <4>3, <4>4
    <3>2. \A t \in Slots : pc'[t] # "idle" => pc[t] # "idle" /\ msg'[t] = msg[t]
      BY <2>3 DEF Gone
    <3> QED BY <2>1, <2>2, <3>1, <3>2
  <2>4. CASE Signalled(w) \/ Started(w)
    BY <2>2, <2>4 DEF Signalled, Started, queues, slotVars
  <2> QED BY <1>7, <2>3, <2>4 DEF ProcessStep, Drained, Crashed
<1>8. CASE UNCHANGED vars
  BY <1>8 DEF vars, jobVars, queues, slotVars, Unsent
<1>9. Empty' /\ Away'
  BY <1>1, <1>2, <1>3, <1>4, <1>5, <1>6, <1>7, <1>8 DEF Next, SlotStep
<1> QED BY <1>9

\* A process that stops was signalled, and signals are counted.
LEMMA SignalsNext ==
    ASSUME TypeOK, TypeOK', [Next]_vars, SignalsCount
    PROVE  SignalsCount'
<1>0. failures \in Nat /\ failures' \in Nat
  BY DEF TypeOK
<1>1. failures' >= failures
  BY <1>0 DEF Next, JobStep, Create, CreateInline, ComesDue, EndsElsewhere, DelayEnds, Deliver,
         SlotStep, Answered, AnsweredOver, AnsweredLive, AnsweredTransient, AnsweredPermanent,
         AnsweredBusy, Published, PublishFailed, ConfirmLost, Ended, Acked, Rejected, Requeued,
         Discarded, ProcessStep, Signalled, Drained, Crashed, Started, Fail, vars
<1>2. CASE \E w \in Workers : Signalled(w)
  BY <1>0, <1>2 DEF Signalled, Fail, SignalsCount
<1>3. CASE \E w \in Workers : Drained(w) \/ Crashed(w) \/ Started(w)
  <2>1. Dropping' \subseteq Dropping
    BY <1>3, OwnerAssumption DEF Drained, Crashed, Gone, Started, Dropping, TypeOK
  <2> QED BY <1>0, <1>1, <2>1 DEF SignalsCount
<1>4. CASE UNCHANGED worker
  BY <1>0, <1>1, <1>4 DEF SignalsCount, Dropping
<1>5. UNCHANGED worker \/ \E w \in Workers : ProcessStep(w)
  BY DEF Next, JobStep, Create, CreateInline, ComesDue, EndsElsewhere, DelayEnds, Deliver,
         SlotStep, Answered, AnsweredOver, AnsweredLive, AnsweredTransient, AnsweredPermanent,
         AnsweredBusy, Published, PublishFailed, ConfirmLost, Ended, Acked, Rejected, Requeued,
         Discarded, vars
<1> QED BY <1>2, <1>3, <1>4, <1>5 DEF ProcessStep

\* Every step keeps the invariant.
LEMMA ChainsNext == ASSUME ChainsInv, [Next]_vars PROVE ChainsInv'
<1>1. IInv' /\ TypeOK /\ TypeOK' /\ IInv
  BY IInvNext DEF ChainsInv, IInv
<1>2. SignalsCount'
  BY <1>1, SignalsNext DEF ChainsInv
<1>3. ASSUME NEW j \in Jobs PROVE Unsent(j)' /\ Load(j)' <= Allowed'
  <2>1. Unsent(j)'
    BY <1>1, UnsentNext DEF ChainsInv
  <2>2. Load(j) <= Allowed
    BY DEF ChainsInv
  <2>3. CASE \E i \in Jobs : JobStep(i)
    BY <1>1, <2>1, <2>3, JobLoads
  <2>4. CASE Grows(j)
    BY <1>1, <2>1, <2>2, <2>4, GrowthIsAllowed
  <2>5. CASE UNCHANGED vars
    <3>1. Bare(j)' = Bare(j) /\ Dropping' = Dropping /\ UNCHANGED <<ready, delayed, failures>>
      BY <2>5 DEF vars, queues, slotVars, Bare, Dropping
    <3>2. Load(j)' = Load(j) /\ Allowed' = Allowed
      BY <3>1 DEF Load, Chains, Allowed
    <3> QED BY <2>1, <2>2, <3>2
  <2>6. \/ \E i \in Jobs : JobStep(i)
        \/ UNCHANGED vars
        \/ Grows(j)
    BY <1>1, BrokerGrows, AnswerGrows, PublishGrows, EndedGrows, ProcessGrows
    DEF Next, SlotStep
  <2> QED BY <2>3, <2>4, <2>5, <2>6
<1> QED BY <1>1, <1>2, <1>3 DEF ChainsInv

\* It holds at the start.
LEMMA ChainsInit == Init => ChainsInv
<1> SUFFICES ASSUME Init PROVE ChainsInv
  OBVIOUS
<1>1. IInv
  BY InitType DEF Init, IInv, FollowsOwn, NothingLost
<1>2. Dropping = {}
  BY OwnerAssumption DEF Init, Dropping
<1>3. ASSUME NEW j \in Jobs PROVE Unsent(j) /\ Load(j) <= Allowed
  <2>1. Unsent(j)
    BY DEF Init, Unsent
  <2>2. Instances(ready, j) = {} /\ Instances(delayed, j) = {} /\ Bare(j) = {}
    BY DEF Init, Instances, Of, Bare
  <2>3. Load(j) = 0
    BY <1>2, <2>2, FS_EmptySet DEF Load, Chains, Copies
  <2>4. Allowed \in Nat
    BY <1>1, FailureAllows DEF IInv
  <2> QED BY <2>1, <2>3, <2>4
<1> QED BY <1>1, <1>2, <1>3 DEF ChainsInv, SignalsCount

\* However a job's messages are redelivered, retried and requeued, it has one chain
\* of them, and for each failure at most one more for each slot (_publish, _process).
THEOREM OneChainPerJob == Spec => []ChainsNeedFaults
<1>1. ChainsInv => ChainsNeedFaults
  <2> SUFFICES ASSUME ChainsInv, NEW j \in Jobs
               PROVE  InFlight(j) - Cardinality(Handing(j)) <= Allowed
    BY DEF ChainsNeedFaults, Allowed
  <2>1. TypeOK /\ Load(j) <= Allowed
    BY DEF ChainsInv, IInv
  <2>2. Chains(j) \in Nat /\ Cardinality(Dropping) \in Nat /\ Allowed \in Nat
    BY <2>1, LoadType, FailureAllows DEF Chains
  <2> QED BY <2>1, <2>2, ChainsAreInFlight DEF Load
<1> QED BY <1>1, ChainsInit, ChainsNext, PTL DEF Spec
===============================================================================
