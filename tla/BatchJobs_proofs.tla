--------------------------- MODULE BatchJobs_proofs ---------------------------
(* Machine-checked proofs about BatchJobs, for any callers, any corpus and   *)
(* any number of failures.                                                   *)
EXTENDS BatchJobs, TLAPS

-----------------------------------------------------------------------------
(* Types.                                                                   *)

LEMMA InitType == Init => TypeOK
<1> SUFFICES ASSUME Init PROVE TypeOK
  OBVIOUS
<1>1. Created \in JobRow /\ 0 \in 0..Length /\ 0 \in 0..MaxFailures
  BY BoundsAssumption DEF Created, JobRow, Live
<1>2. job \in JobRow /\ mine \in [Callers -> JobRow]
  BY <1>1 DEF Init
<1>3. meter \in [live: BOOLEAN, charged: 0..Length]
  BY <1>1 DEF Init
<1>4. speech \in [state: SpeechStates, done: 0..Length]
  BY <1>1 DEF Init, SpeechStates
<1>5. pc \in [Callers -> Steps]
  BY DEF Init, Steps
<1>6. /\ unsaved \in [Callers -> BOOLEAN] /\ usage \in [Callers -> 0..Length]
      /\ want \in [Callers -> Live \cup Terminal]
  BY <1>1 DEF Init, Live
<1> QED BY <1>1, <1>2, <1>3, <1>4, <1>5, <1>6 DEF Init, TypeOK

LEMMA ClaimOverType ==
    ASSUME NEW r \in JobRow, NEW state \in Live \cup Terminal
    PROVE  ClaimOver(r, state) \in JobRow /\ ClaimOver(r, state).state = state
BY DEF ClaimOver, JobRow

LEMMA SpeechType ==
    ASSUME TypeOK
    PROVE  /\ Accepted \in [state: SpeechStates, done: 0..Length]
           /\ Stopped \in [state: SpeechStates, done: 0..Length]
           /\ Accepted.state # "none"
BY BoundsAssumption DEF TypeOK, Accepted, Stopped, SpeechStates

\* Settle, Leave and BeginSubmit keep the types of what they write.
LEMMA SettleType ==
    ASSUME TypeOK, NEW c \in Callers, NEW state \in Live \cup Terminal,
           NEW n \in 0..Length, Settle(c, state, n)
    PROVE  pc' \in [Callers -> Steps] /\ want' \in [Callers -> Live \cup Terminal]
           /\ usage' \in [Callers -> 0..Length]
BY DEF TypeOK, Settle, Goto, Steps

LEMMA LeaveType ==
    ASSUME TypeOK, NEW c \in Callers, Leave(c)
    PROVE  /\ pc' \in [Callers -> Steps] /\ mine' \in [Callers -> JobRow]
           /\ unsaved' \in [Callers -> BOOLEAN]
           /\ want' \in [Callers -> Live \cup Terminal] /\ usage' \in [Callers -> 0..Length]
BY BoundsAssumption DEF TypeOK, Leave, Goto, Steps, Created, JobRow, Live

LEMMA BeginSubmitType ==
    ASSUME TypeOK, NEW c \in Callers, BeginSubmit(c)
    PROVE  /\ pc' \in [Callers -> Steps] /\ mine' \in [Callers -> JobRow]
           /\ unsaved' \in [Callers -> BOOLEAN]
           /\ want' \in [Callers -> Live \cup Terminal] /\ usage' \in [Callers -> 0..Length]
<1>1. mine' \in [Callers -> JobRow] /\ unsaved' \in [Callers -> BOOLEAN]
  BY DEF TypeOK, BeginSubmit
<1>2. CASE job.items
  BY <1>1, <1>2 DEF TypeOK, BeginSubmit, Goto, Steps
<1>3. CASE ~job.items
  BY <1>1, <1>3, SettleType, BoundsAssumption DEF BeginSubmit, Terminal
<1> QED BY <1>2, <1>3

LEMMA FailType == ASSUME TypeOK, Fail PROVE failures' \in 0..MaxFailures
BY BoundsAssumption DEF TypeOK, Fail

\* What only a caller's own step may change, and its types.
LocalsOK ==
    /\ pc \in [Callers -> Steps] /\ mine \in [Callers -> JobRow]
    /\ unsaved \in [Callers -> BOOLEAN]
    /\ want \in [Callers -> Live \cup Terminal] /\ usage \in [Callers -> 0..Length]

LEMMA BeginType ==
    ASSUME TypeOK, NEW c \in Callers, Begin(c)
    PROVE  TypeOK'
<1>1. LocalsOK'
  <2>1. CASE Submit(c)
    BY <2>1, BeginSubmitType DEF Submit, LocalsOK
  <2>2. CASE Refresh(c)
    <3>0. mine' = [mine EXCEPT ![c] = job] => mine' \in [Callers -> JobRow]
      BY DEF TypeOK
    <3>1. CASE overdue /\ job.upstream
      BY <2>2, <3>0, <3>1 DEF Refresh, Goto, Steps, Terminal, TypeOK, LocalsOK
    <3>2. CASE overdue /\ ~job.upstream
      <4>1. Settle(c, "expired", 0) /\ mine' = [mine EXCEPT ![c] = job] /\ unsaved' = unsaved
        BY <2>2, <3>2 DEF Refresh
      <4>2. "expired" \in Live \cup Terminal /\ 0 \in 0..Length
        BY BoundsAssumption DEF Terminal
      <4> QED BY <3>0, <4>1, <4>2, SettleType DEF TypeOK, LocalsOK
    <3>3. CASE BeginSubmit(c)
      BY <3>3, BeginSubmitType DEF LocalsOK
    <3>4. CASE Goto(c, "poll") /\ mine' = [mine EXCEPT ![c] = job]
               /\ UNCHANGED <<unsaved, want, usage>>
      BY <3>0, <3>4 DEF Goto, Steps, TypeOK, LocalsOK
    <3> QED BY <2>2, <3>1, <3>2, <3>3, <3>4 DEF Refresh
  <2>3. CASE Cancel(c)
    <3>0. mine' \in [Callers -> JobRow] /\ unsaved' \in [Callers -> BOOLEAN]
      BY <2>3 DEF Cancel, TypeOK
    <3>1. CASE job.upstream
      BY <2>3, <3>0, <3>1 DEF Cancel, Goto, Steps, Terminal, TypeOK, LocalsOK
    <3>2. CASE ~job.upstream
      <4>1. Settle(c, "cancelled", 0)
        BY <2>3, <3>2 DEF Cancel
      <4>2. "cancelled" \in Live \cup Terminal /\ 0 \in 0..Length
        BY BoundsAssumption DEF Terminal
      <4> QED BY <3>0, <4>1, <4>2, SettleType DEF LocalsOK
    <3> QED BY <3>1, <3>2
  <2> QED BY <2>1, <2>2, <2>3 DEF Begin
<1>2. UNCHANGED <<row, speech, failures>>
  BY DEF Begin, Submit, Refresh, Cancel
<1> QED BY <1>1, <1>2 DEF TypeOK, LocalsOK, row

\* submit_job, from the POST to the halt.
LEMMA SubmitType ==
    ASSUME TypeOK, NEW c \in Callers,
           \/ PostAnswered(c) \/ PostRefused(c) \/ PostLost(c)
           \/ Claim(c) \/ ClaimCollides(c) \/ Reload(c) \/ ClaimLost(c)
           \/ Outrun(c) \/ Halt(c)
    PROVE  TypeOK'
<1>0. "failed" \in Live \cup Terminal /\ 0 \in 0..Length
  BY BoundsAssumption DEF Terminal
<1>1. CASE PostAnswered(c)
  <2>1. Accepted.state \in Live \cup Terminal /\ Accepted.done \in 0..Length
    BY <1>1, SpeechType DEF PostAnswered, Accepted, SpeechStates, Live, Terminal
  <2> QED BY <1>1, <2>1, SpeechType DEF PostAnswered, Goto, Steps, TypeOK, row
<1>2. CASE PostRefused(c)
  <2>1. speech' \in [state: SpeechStates, done: 0..Length]
    BY <1>0, <1>2 DEF PostRefused, SpeechStates
  <2>2. failures' \in 0..MaxFailures
    BY <1>2, FailType DEF PostRefused, TypeOK
  <2> QED BY <1>0, <1>2, <2>1, <2>2, SettleType DEF PostRefused, TypeOK, row
<1>3. CASE PostLost(c)
  BY <1>3, SpeechType, LeaveType, FailType DEF PostLost, TypeOK, row
<1>4. CASE Claim(c)
  <2>0. ClaimedState(want[c]) \in Live
    BY DEF ClaimedState, TypeOK, Live, Terminal
  <2>1. job' \in JobRow /\ overdue' \in BOOLEAN /\ pollDue' \in BOOLEAN
    BY <1>4, <2>0, ClaimOverType DEF Claim, TypeOK
  <2>2. LocalsOK'
    <3>1. CASE want[c] \in Terminal
      <4>1. Settle(c, want[c], usage[c]) /\ mine' = [mine EXCEPT ![c] = job']
            /\ unsaved' = [unsaved EXCEPT ![c] = TRUE]
        BY <1>4, <3>1 DEF Claim
      <4>2. want[c] \in Live \cup Terminal /\ usage[c] \in 0..Length
        BY DEF TypeOK
      <4> QED BY <2>1, <4>1, <4>2, SettleType DEF TypeOK, LocalsOK
    <3>2. CASE want[c] \notin Terminal
      BY <1>4, <3>2, LeaveType DEF Claim, LocalsOK
    <3> QED BY <3>1, <3>2
  <2> QED BY <1>4, <2>1, <2>2 DEF Claim, TypeOK, LocalsOK
<1>5. CASE ClaimCollides(c)
  BY <1>5, FailType DEF ClaimCollides, Goto, Steps, TypeOK, row, locals
<1>6. CASE Reload(c)
  <2>1. CASE job.state \in Terminal
    BY <1>6, <2>1, LeaveType DEF Reload, TypeOK, row
  <2>2. CASE job.state \notin Terminal
    BY <1>0, <1>6, <2>2, SettleType DEF Reload, TypeOK, row
  <2> QED BY <2>1, <2>2
<1>7. CASE ClaimLost(c)
  BY <1>7 DEF ClaimLost, Goto, Steps, TypeOK, row, locals
<1>8. CASE Outrun(c)
  <2>1. CASE ClaimedByOurTwin
    BY <1>8, <2>1, LeaveType DEF Outrun, TypeOK, row
  <2>2. CASE ~ClaimedByOurTwin
    BY <1>8, <2>2 DEF Outrun, Goto, Steps, TypeOK, row, locals
  <2> QED BY <2>1, <2>2
<1>9. CASE Halt(c)
  BY <1>9, SpeechType, LeaveType, FailType DEF Halt, TypeOK, row
<1> QED BY <1>1, <1>2, <1>3, <1>4, <1>5, <1>6, <1>7, <1>8, <1>9

\* refresh_job, expire_job and cancel_job.
LEMMA PollType ==
    ASSUME TypeOK, NEW c \in Callers,
           \/ PollAnswered(c) \/ PollVanished(c) \/ PollLost(c) \/ Advance(c)
           \/ Stop(c) \/ StopUnknown(c) \/ StopLost(c) \/ Count(c)
    PROVE  TypeOK'
<1>0. /\ {"failed", "cancelled"} \subseteq Live \cup Terminal /\ 0 \in 0..Length
      /\ speech.done \in 0..Length /\ want[c] \in Live \cup Terminal
  BY BoundsAssumption DEF Terminal, TypeOK
<1>1. CASE PollAnswered(c)
  <2>0. speech.state \in Live \cup Terminal
    BY <1>1 DEF PollAnswered, TypeOK, SpeechStates, Live, Terminal
  <2>1. CASE speech.state \in Terminal
    BY <1>0, <1>1, <2>0, <2>1, SettleType DEF PollAnswered, TypeOK, row
  <2>2. CASE speech.state \notin Terminal
    BY <1>1, <2>0, <2>2 DEF PollAnswered, Goto, Steps, TypeOK, row
  <2> QED BY <2>1, <2>2
<1>2. CASE PollVanished(c)
  BY <1>0, <1>2, SettleType, FailType DEF PollVanished, TypeOK, row
<1>3. CASE PollLost(c)
  BY <1>3, LeaveType, FailType DEF PollLost, TypeOK, row
<1>4. CASE Advance(c)
  <2>1. job' \in JobRow /\ pollDue' \in BOOLEAN
    BY <1>0, <1>4 DEF Advance, TypeOK, JobRow
  <2> QED BY <1>4, <2>1, LeaveType DEF Advance, TypeOK
<1>5. CASE Stop(c)
  <2>1. CASE Settle(c, "cancelled", speech.done)
    BY <1>0, <1>5, <2>1, SettleType, SpeechType DEF Stop, TypeOK, row
  <2>2. CASE Goto(c, "count") /\ UNCHANGED <<want, usage>>
    BY <1>5, <2>2, SpeechType DEF Stop, Goto, Steps, TypeOK, row
  <2> QED BY <1>5, <2>1, <2>2 DEF Stop
<1>6. CASE StopUnknown(c)
  BY <1>6, FailType DEF StopUnknown, Goto, Steps, TypeOK, row, locals
<1>7. CASE StopLost(c)
  BY <1>7, SpeechType, LeaveType, FailType DEF StopLost, TypeOK, row
<1>8. CASE Count(c)
  BY <1>0, <1>8, SettleType, FailType DEF Count, TypeOK, row
<1> QED BY <1>1, <1>2, <1>3, <1>4, <1>5, <1>6, <1>7, <1>8

\* settle_job.
LEMMA SettlementType ==
    ASSUME TypeOK, NEW c \in Callers,
           Charge(c) \/ WalletBusy(c) \/ Stamp(c) \/ Outsettled(c)
    PROVE  TypeOK'
<1>0. /\ mine[c].state \in Live \cup Terminal /\ want[c] \in Live \cup Terminal
      /\ "failed" \in Live \cup Terminal
      /\ usage[c] \in 0..Length /\ 0 \in 0..Length
  BY BoundsAssumption DEF TypeOK, JobRow, Terminal
<1>1. CASE Charge(c)
  <2>1. pc' \in [Callers -> Steps]
    BY <1>1 DEF Charge, Goto, Steps, TypeOK
  <2>2. CASE meter.live
    <3>1. job' \in JobRow
      BY <1>0, <1>1, <2>2, ClaimOverType DEF Charge, TypeOK
    <3>2. meter' \in [live: BOOLEAN, charged: 0..Length]
      <4>1. meter' = [live |-> FALSE, charged |-> usage[c]]
        BY <1>1, <2>2 DEF Charge, Charged
      <4> QED BY <1>0, <4>1
    <3>3. unsaved' \in [Callers -> BOOLEAN]
      BY <1>1, <2>2 DEF Charge, TypeOK
    <3> QED BY <1>1, <2>1, <3>1, <3>2, <3>3 DEF Charge, TypeOK
  <2>3. CASE ~meter.live
    <3>1. unsaved' \in [Callers -> BOOLEAN]
      BY <1>1, <2>3 DEF Charge, TypeOK
    <3> QED BY <1>1, <2>1, <2>3, <3>1 DEF Charge, TypeOK
  <2> QED BY <2>2, <2>3
<1>2. CASE WalletBusy(c)
  <2>1. CASE c = Creator
    <3>1. failures' \in 0..MaxFailures
      BY <1>2, FailType DEF WalletBusy
    <3>2. /\ pc' = [pc EXCEPT ![c] = "stamp"] /\ want' = [want EXCEPT ![c] = "failed"]
          /\ usage' = [usage EXCEPT ![c] = 0] /\ unsaved' = [unsaved EXCEPT ![c] = FALSE]
          /\ mine' = mine /\ UNCHANGED <<row, speech>>
      BY <1>2, <2>1 DEF WalletBusy, Goto
    <3> QED
      BY <1>0, <3>1, <3>2 DEF Steps, TypeOK, row
  <2>2. CASE c # Creator
    BY <1>2, <2>2, LeaveType, FailType DEF WalletBusy, TypeOK, row
  <2> QED BY <2>1, <2>2
<1>4. CASE Stamp(c)
  <2> DEFINE written == IF StillAsLoaded(c) THEN Stamped(c) ELSE job
  <2>1. written \in JobRow
    BY <1>0 DEF Stamped, TypeOK, JobRow
  <2>2. job' = IF unsaved[c] THEN ClaimOver(written, mine[c].state) ELSE written
    BY <1>4 DEF Stamp
  <2>3. job' \in JobRow
    <3> HIDE DEF written
    <3> QED BY <1>0, <2>1, <2>2, ClaimOverType
  <2>4. LocalsOK'
    <3>1. CASE StillAsLoaded(c)
      BY <1>4, <3>1, LeaveType DEF Stamp, LocalsOK
    <3>2. CASE ~StillAsLoaded(c)
      BY <1>4, <3>2 DEF Stamp, Goto, Steps, TypeOK, LocalsOK
    <3> QED BY <3>1, <3>2
  <2> QED BY <1>4, <2>3, <2>4 DEF Stamp, TypeOK, LocalsOK
<1>5. CASE Outsettled(c)
  <2>1. CASE NoneToStop
    BY <1>5, <2>1, LeaveType DEF Outsettled, TypeOK, row
  <2>2. CASE ~NoneToStop
    BY <1>5, <2>2 DEF Outsettled, Goto, Steps, TypeOK, row, locals
  <2> QED BY <2>1, <2>2
<1> QED BY <1>1, <1>2, <1>4, <1>5

LEMMA NextType == TypeOK /\ [Next]_vars => TypeOK'
<1> SUFFICES ASSUME TypeOK, [Next]_vars PROVE TypeOK'
  OBVIOUS
<1>1. ASSUME NEW c \in Callers, Begin(c) PROVE TypeOK'
  BY <1>1, BeginType
<1>2. ASSUME NEW c \in Callers, Proceed(c) PROVE TypeOK'
  BY <1>2, SubmitType, PollType, SettlementType DEF Proceed
<1>3. ASSUME NEW c \in Callers, Die(c) PROVE TypeOK'
  BY <1>3, LeaveType, FailType DEF Die, TypeOK, row
<1>4. CASE SpeechRuns
  BY <1>4 DEF SpeechRuns, TypeOK, SpeechStates, row, locals
<1>5. CASE SpeechEnds
  BY <1>5 DEF SpeechEnds, TypeOK, SpeechStates, row, locals
<1>6. CASE DeadlinePasses \/ PollComesDue
  BY <1>6 DEF DeadlinePasses, PollComesDue, TypeOK, locals
<1>7. CASE UNCHANGED vars
  BY <1>7 DEF vars, row, locals, TypeOK
<1> QED BY <1>1, <1>2, <1>3, <1>4, <1>5, <1>6, <1>7 DEF Next, AllDone

\* Every variable keeps its type, whatever fails: no count leaves the corpus, no
\* instance carries a state the code has no name for.
THEOREM TypeCorrect == Spec => []TypeOK
<1>1. Init => TypeOK
  BY InitType
<1>2. TypeOK /\ [Next]_vars => TypeOK'
  BY NextType
<1> QED BY <1>1, <1>2, PTL DEF Spec

-----------------------------------------------------------------------------
(* What the guards rest on: nobody acts on a finished job, a poll writes     *)
(* only live states, and a stamp comes after the settlement.                 *)

InstancesAreLive == \A c \in Callers : mine[c].state \in Live

PollsAreLive == \A c \in Callers : pc[c] = "advance" => want[c] \in Live

StampsFollowCharges == \A c \in Callers : pc[c] = "stamp" => ~meter.live

\* One caller's step, of which the others' locals know nothing.
Mine(c) == \A d \in Callers \ {c} :
              mine'[d] = mine[d] /\ pc'[d] = pc[d] /\ want'[d] = want[d]

LEMMA OthersStay ==
    ASSUME TypeOK, NEW c \in Callers, Begin(c) \/ Proceed(c) \/ Die(c)
    PROVE  Mine(c)
BY DEF TypeOK, Mine, Begin, Proceed, Die, Submit, Refresh, Cancel, BeginSubmit, PostAnswered,
       PostRefused, PostLost, Claim, ClaimCollides, Reload, ClaimLost, Outrun, Halt,
       PollAnswered, PollVanished, PollLost, Advance, Stop, StopUnknown, StopLost, Count,
       Charge, WalletBusy, Stamp, Outsettled, Settle, Leave, Goto, locals

LEMMA OwnInstance ==
    ASSUME TypeOK, InstancesAreLive, NEW c \in Callers, Begin(c) \/ Proceed(c) \/ Die(c)
    PROVE  mine'[c].state \in Live
<1>0. job.state \in Live \cup Terminal /\ mine \in [Callers -> JobRow] /\ mine[c].state \in Live
  BY DEF TypeOK, JobRow, InstancesAreLive
<1>1. CASE mine' = [mine EXCEPT ![c] = job] /\ job.state \in Live
  BY <1>0, <1>1
<1>2. CASE mine'[c] = mine[c]
  BY <1>0, <1>2
<1>3. CASE Leave(c)
  BY <1>0, <1>3 DEF Leave, Created, Live
<1>4. ASSUME Begin(c) PROVE mine' = [mine EXCEPT ![c] = job] /\ job.state \in Live
  BY <1>4 DEF Begin, Submit, Refresh, Cancel, BeginSubmit, Live
<1>5. CASE Claim(c) /\ want[c] \in Terminal
  <2>1. mine'[c] = ClaimOver(job, ClaimedState(want[c]))
    BY <1>0, <1>5 DEF Claim
  <2>2. ClaimedState(want[c]) = "submitted" /\ "submitted" \in Live
    BY <1>5 DEF ClaimedState, Live
  <2>3. job \in JobRow
    BY DEF TypeOK
  <2> QED BY <2>1, <2>2, <2>3, ClaimOverType
<1>6. CASE Reload(c) /\ job.state \notin Terminal
  BY <1>0, <1>1, <1>6 DEF Reload
<1>7. ASSUME Proceed(c), ~Claim(c), ~Reload(c) PROVE Leave(c) \/ mine' = mine
  BY <1>7 DEF Proceed, PostAnswered, PostRefused, PostLost, ClaimCollides, ClaimLost, Outrun,
       Halt, PollAnswered, PollVanished, PollLost, Advance, Stop, StopUnknown, StopLost, Count,
       Charge, WalletBusy, Stamp, Outsettled, locals
<1>8. CASE Claim(c) /\ want[c] \notin Terminal
  BY <1>3, <1>8 DEF Claim
<1>9. CASE Reload(c) /\ job.state \in Terminal
  BY <1>3, <1>9 DEF Reload
<1> QED BY <1>1, <1>2, <1>3, <1>4, <1>5, <1>6, <1>7, <1>8, <1>9 DEF Die

\* Only a poll's answer leads to `advance`, and a terminal answer does not.
LEMMA OwnPoll ==
    ASSUME TypeOK, NEW c \in Callers, Begin(c) \/ Proceed(c) \/ Die(c), pc'[c] = "advance"
    PROVE  want'[c] \in Live
<1>1. PollAnswered(c) /\ speech.state \notin Terminal
  BY DEF TypeOK, Begin, Proceed, Die, Submit, Refresh, Cancel, BeginSubmit, PostAnswered,
       PostRefused, PostLost, Claim, ClaimCollides, Reload, ClaimLost, Outrun, Halt,
       PollAnswered, PollVanished, PollLost, Advance, Stop, StopUnknown, StopLost, Count,
       Charge, WalletBusy, Stamp, Outsettled, Settle, Leave, Goto, locals
<1>2. want'[c] = speech.state
  BY <1>1 DEF PollAnswered, TypeOK
<1> QED BY <1>1, <1>2 DEF PollAnswered, TypeOK, SpeechStates, Live, Terminal

\* The environment and a stutter leave the callers alone.
Outside == SpeechRuns \/ SpeechEnds \/ DeadlinePasses \/ PollComesDue \/ UNCHANGED vars

LEMMA OutsideStays == Outside => UNCHANGED <<job, meter, pc, locals>>
BY DEF Outside, SpeechRuns, SpeechEnds, DeadlinePasses, PollComesDue, vars, row, locals

LEMMA LocalsStep ==
    ASSUME TypeOK, InstancesAreLive, PollsAreLive, [Next]_vars
    PROVE  InstancesAreLive' /\ PollsAreLive'
<1>1. ASSUME NEW c \in Callers, Begin(c) \/ Proceed(c) \/ Die(c)
      PROVE  InstancesAreLive' /\ PollsAreLive'
  <2>1. Mine(c)
    BY <1>1, OthersStay
  <2>2. mine'[c].state \in Live
    BY <1>1, OwnInstance
  <2>3. pc'[c] = "advance" => want'[c] \in Live
    BY <1>1, OwnPoll
  <2> QED BY <2>1, <2>2, <2>3 DEF Mine, InstancesAreLive, PollsAreLive
<1>2. CASE Outside
  BY <1>2, OutsideStays DEF InstancesAreLive, PollsAreLive, locals
<1> QED BY <1>1, <1>2 DEF Next, AllDone, Outside

LEMMA LocalsInv == Spec => [](TypeOK /\ InstancesAreLive /\ PollsAreLive)
<1>1. Init => InstancesAreLive /\ PollsAreLive
  BY CallersAssumption DEF Init, InstancesAreLive, PollsAreLive, Created, Live
<1>2. (TypeOK /\ InstancesAreLive /\ PollsAreLive) /\ [Next]_vars
      => InstancesAreLive' /\ PollsAreLive'
  BY LocalsStep
<1> QED BY <1>1, <1>2, TypeCorrect, PTL DEF Spec

-----------------------------------------------------------------------------

\* Conditional guards (claim, poll, stamp): no such write moves a terminal row: the state a caller compares with is
\* live, so its WHERE clause matches no finished job.
THEOREM GuardsAreConditions == Spec => GuardsHold
<1> DEFINE Held == job.state \in Terminal => job' = job \/ \E c \in Callers : unsaved[c]
<1>1. ASSUME TypeOK, InstancesAreLive, [Next]_vars PROVE Held
  <2> SUFFICES ASSUME job.state \in Terminal, \A c \in Callers : ~unsaved[c]
               PROVE  job' = job
    OBVIOUS
  <2>0. job.state \notin Live
    BY DEF Live, Terminal
  <2>1. ASSUME NEW c \in Callers, Begin(c) \/ Die(c) PROVE job' = job
    BY <2>1 DEF Begin, Die, Submit, Refresh, Cancel, row
  <2>2. ASSUME NEW c \in Callers, Proceed(c) PROVE job' = job
    <3>0. ~StillAsLoaded(c) /\ ~unsaved[c]
      BY <1>1, <2>0 DEF StillAsLoaded, InstancesAreLive
    <3>1. CASE Claim(c)
      BY <2>0, <3>1 DEF Claim, MayClaim, Live
    <3>2. CASE Advance(c)
      BY <3>0, <3>2 DEF Advance
    <3>3. CASE Charge(c)
      BY <3>0, <3>3 DEF Charge
    <3>4. CASE Stamp(c)
      BY <3>0, <3>4 DEF Stamp
    <3> QED BY <2>2, <3>1, <3>2, <3>3, <3>4
            DEF Proceed, PostAnswered, PostRefused, PostLost, ClaimCollides, Reload, ClaimLost,
                Outrun, Halt, PollAnswered, PollVanished, PollLost, Stop, StopUnknown, StopLost,
                Count, WalletBusy, Outsettled, row
  <2>3. CASE Outside
    BY <2>3, OutsideStays
  <2> QED BY <1>1, <2>1, <2>2, <2>3 DEF Next, AllDone, Outside
<1>2. TypeOK /\ InstancesAreLive /\ [Next]_vars => [Held]_vars
  BY <1>1
<1> QED BY <1>2, LocalsInv, PTL DEF Spec, GuardsHold

\* Where a broker took the job, so that no Creator hands it over, a job ends only
\* over a settled session.
MoneyInv == /\ MoneyFirst /\ StampsFollowCharges 

LEMMA OnlyChargesStamp ==
    ASSUME TypeOK, Creator = Nobody, NEW c \in Callers,
           Begin(c) \/ Proceed(c) \/ Die(c)
    PROVE  pc'[c] = "stamp" => ~meter'.live
<1>0. c # Creator
  BY CallersAssumption
<1>1. Charge(c) => ~meter'.live
  BY DEF Charge, Charged
<1>3. pc'[c] = "stamp" => Charge(c)
  BY <1>0 DEF TypeOK, Begin, Proceed, Die, Submit, Refresh, Cancel, BeginSubmit,
       PostAnswered, PostRefused, PostLost, Claim, ClaimCollides, Reload, ClaimLost, Outrun,
       Halt, PollAnswered, PollVanished, PollLost, Advance, Stop, StopUnknown, StopLost, Count,
       Charge, WalletBusy, Stamp, Outsettled, Settle, Leave, Goto, locals
<1> QED BY <1>1, <1>3

\* A settled session stays so: nothing else writes it.
LEMMA SettledStays ==
    ASSUME [Next]_vars, ~meter.live
    PROVE  meter' = meter
BY DEF Next, AllDone, Begin, Proceed, Die, Submit, Refresh, Cancel, PostAnswered,
       PostRefused, PostLost, Claim, ClaimCollides, Reload, ClaimLost, Outrun, Halt,
       PollAnswered, PollVanished, PollLost, Advance, Stop, StopUnknown, StopLost, Count,
       Charge, WalletBusy, Stamp, Outsettled, SpeechRuns, SpeechEnds, DeadlinePasses,
       PollComesDue, vars, row

\* A step that ends a job is a stamp.
LEMMA OnlyStampsEnd ==
    ASSUME TypeOK, InstancesAreLive, PollsAreLive, NEW c \in Callers,
           Begin(c) \/ Proceed(c) \/ Die(c), job.state \in Live, job'.state \in Terminal
    PROVE  pc[c] = "stamp"
<1>0. job'.state \notin Live /\ job' # job
  BY DEF Live, Terminal
<1>1. job \in JobRow /\ want[c] \in Live \cup Terminal /\ mine[c].state \in Live
  BY DEF TypeOK, InstancesAreLive
<1>2. ~Claim(c)
  <2>1. ClaimedState(want[c]) \in Live
    BY <1>1 DEF ClaimedState, Live, Terminal
  <2>2. ClaimedState(want[c]) \in Live \cup Terminal
    BY <2>1
  <2> QED BY <1>0, <1>1, <2>1, <2>2, ClaimOverType DEF Claim
<1>3. ~Charge(c)
  BY <1>0, <1>1, ClaimOverType DEF Charge
<1>4. ~Advance(c)
  BY <1>0, <1>1 DEF Advance, PollsAreLive, JobRow
<1>5. Stamp(c)
  BY <1>0, <1>2, <1>3, <1>4
     DEF Begin, Proceed, Die, Submit, Refresh, Cancel, PostAnswered, PostRefused, PostLost,
         ClaimCollides, Reload, ClaimLost, Outrun, Halt, PollAnswered, PollVanished, PollLost,
         Stop, StopUnknown, StopLost, Count, WalletBusy, Outsettled, row
<1> QED BY <1>5 DEF Stamp

LEMMA MoneyStep ==
    ASSUME TypeOK, InstancesAreLive, PollsAreLive, MoneyInv, Creator = Nobody, [Next]_vars
    PROVE  MoneyInv'
<1>1. ASSUME NEW c \in Callers, Begin(c) \/ Proceed(c) \/ Die(c)
      PROVE  MoneyInv'
  <2>1. Mine(c)
    BY <1>1, OthersStay
  <2>2. pc'[c] = "stamp" => ~meter'.live
    BY <1>1, OnlyChargesStamp
  <2>4. StampsFollowCharges'
    BY <2>1, <2>2, SettledStays DEF Mine, StampsFollowCharges, MoneyInv
  <2>5. MoneyFirst'
    <3>1. job.state \in Live \cup Terminal
      BY DEF TypeOK, JobRow
    <3>2. CASE job.state \in Terminal
      BY <3>2, SettledStays DEF MoneyFirst, MoneyInv
    <3>3. CASE job.state \in Live /\ job'.state \in Terminal
      BY <1>1, <3>3, OnlyStampsEnd, SettledStays DEF MoneyFirst, MoneyInv, StampsFollowCharges
    <3> QED BY <3>1, <3>2, <3>3 DEF MoneyFirst
  <2> QED BY <2>4, <2>5 DEF MoneyInv
<1>2. CASE Outside
  BY <1>2, OutsideStays DEF MoneyInv, MoneyFirst, StampsFollowCharges
<1> QED BY <1>1, <1>2 DEF Next, AllDone, Outside

\* The money first (settle_job): with no inline hand-over, a terminal job's session is settled.
THEOREM MoneyComesFirst == Creator = Nobody => (Spec => []MoneyFirst)
<1> SUFFICES ASSUME Creator = Nobody PROVE Spec => []MoneyFirst
  OBVIOUS
<1>1. Init => MoneyInv
  BY CallersAssumption DEF Init, MoneyInv, MoneyFirst, StampsFollowCharges, Created,
     Terminal
<1>2. (TypeOK /\ InstancesAreLive /\ PollsAreLive) /\ MoneyInv /\ [Next]_vars => MoneyInv'
  BY MoneyStep
<1>3. MoneyInv => MoneyFirst
  BY DEF MoneyInv
<1> QED BY <1>1, <1>2, <1>3, LocalsInv, PTL DEF Spec

-----------------------------------------------------------------------------
(* Work nobody can be charged for is stopped: somebody watches the job that  *)
(* upstream is working on, until it is settled.                              *)

\* Upstream's job has ended, or cannot be made; it is being worked on.
Over    == speech.state \in Terminal \cup {"refused"}
Started == speech.state \in {"submitted", "running"}

Busy == {"submitted", "running"}

\* A row is queued until it is claimed, and then has an upstream id for good.
RowShape ==
    /\ job.state = "queued" => job.items /\ ~job.upstream
    /\ job.state \in Live \ {"queued"} => job.upstream
    /\ job.upstream => speech.state # "none"

\* What a caller holds: an instance as old as the row or older, and a state that
\* fits its step. Pending values are those of a claim that found upstream done.
Shape(c) ==
    /\ mine[c].state = "queued" => ~mine[c].upstream
    /\ mine[c].state # "queued" => job.state # "queued"
    /\ unsaved[c] => Over /\ mine[c].state # "queued" /\ pc[c] \in {"charge", "stamp"}
    /\ pc[c] = "outsettled" => job.state # "queued"
    /\ pc[c] \in {"claim", "outrun", "halt", "poll", "stop", "count"} => speech.state # "none"
    /\ pc[c] = "claim" => want[c] \in Busy \/ (want[c] \in Terminal /\ Over)
    /\ pc[c] = "advance" => want[c] \in Busy
    /\ pc[c] \in {"charge", "stamp", "stop", "count"} => want[c] \in Terminal
    /\ pc[c] \in {"poll", "advance"} => mine[c].state # "queued"

\* Until upstream is over, what is to be settled is an expiry, or the cancelling of a
\* job that was not posted when it was loaded.
Plain(c) ==
    /\ pc[c] = "count" => want[c] = "expired"
    /\ pc[c] \in {"charge", "stamp"} =>
          want[c] = "expired" \/ (want[c] = "cancelled" /\ mine[c].state = "queued")
    /\ pc[c] # "reload"

OnlyExpiry == job.state \in Terminal /\ job.upstream => job.state = "expired"

\* Somebody who will yet look at the row and stop what upstream is working on.
Claimed  == job.state = "queued" => \E c \in Callers : pc[c] = "claim"
Orphaned == job.state \in Terminal /\ ~job.upstream =>
               \E c \in Callers : pc[c] \in {"claim", "outrun", "halt"}
Unpaid   == job.state \in Live /\ ~meter.live =>
               \E c \in Callers : pc[c] \in {"stamp", "outsettled", "halt"}

Watched ==
    /\ ~Over => (\A c \in Callers : Plain(c)) /\ OnlyExpiry /\ Unpaid
    /\ Started => Claimed /\ Orphaned

WatchInv == RowShape /\ (\A c \in Callers : Shape(c)) /\ (failures = 0 => Watched)

LEMMA InitWatch == Init => WatchInv
BY DEF Init, WatchInv, Watched, RowShape, Shape, Plain, OnlyExpiry, Claimed, Orphaned, Unpaid,
       Over, Started, Busy, Created, Live, Terminal

\* What a step does to speech and failures: neither goes back.
LEMMA SpeechMoves ==
    ASSUME TypeOK, [Next]_vars
    PROVE  /\ Over => Over'
           /\ speech.state # "none" => speech'.state # "none"
           /\ failures' = 0 => failures = 0 /\ failures' = failures
<1>1. speech.state \in SpeechStates /\ speech \in [state: SpeechStates, done: 0..Length]
      /\ failures \in Nat
  BY BoundsAssumption DEF TypeOK
<1>2. failures' = failures \/ Fail
  BY DEF Next, AllDone, Begin, Proceed, Die, Submit, Refresh, Cancel, PostAnswered, PostRefused,
     PostLost, Claim, ClaimCollides, Reload, ClaimLost, Outrun, Halt, PollAnswered, PollVanished,
     PollLost, Advance, Stop, StopUnknown, StopLost, Count, Charge, WalletBusy, Stamp, Outsettled,
     SpeechRuns, SpeechEnds, DeadlinePasses, PollComesDue, vars
<1>3. \/ speech' = speech \/ speech' = Accepted \/ speech' = Stopped
      \/ speech'.state = "refused" /\ speech.state \in {"none", "refused"}
      \/ speech.state \in Busy /\ speech'.state \in Busy \cup {"succeeded", "failed"}
  BY <1>1 DEF Next, AllDone, Begin, Proceed, Die, Submit, Refresh, Cancel, PostAnswered,
     PostRefused, PostLost, Claim, ClaimCollides, Reload, ClaimLost, Outrun, Halt, PollAnswered,
     PollVanished, PollLost, Advance, Stop, StopUnknown, StopLost, Count, Charge, WalletBusy,
     Stamp, Outsettled, SpeechRuns, SpeechEnds, DeadlinePasses, PollComesDue, vars, row, Fail, Busy
<1>4. failures' = 0 => failures = 0 /\ failures' = failures
  BY <1>1, <1>2 DEF Fail
<1> QED
  BY <1>1, <1>3, <1>4 DEF Over, Accepted, Stopped, Busy, Terminal

LEMMA OthersUnsaved ==
    ASSUME TypeOK, NEW c \in Callers, Begin(c) \/ Proceed(c) \/ Die(c)
    PROVE  \A d \in Callers \ {c} : unsaved'[d] = unsaved[d]
BY DEF TypeOK, Begin, Proceed, Die, Submit, Refresh, Cancel, BeginSubmit, PostAnswered,
       PostRefused, PostLost, Claim, ClaimCollides, Reload, ClaimLost, Outrun, Halt,
       PollAnswered, PollVanished, PollLost, Advance, Stop, StopUnknown, StopLost, Count,
       Charge, WalletBusy, Stamp, Outsettled, Settle, Leave, Goto, locals

LEMMA ClaimTakes ==
    ASSUME TypeOK, NEW c \in Callers, Shape(c), Claim(c)
    PROVE  job.state = "queued" /\ job'.state \in Busy /\ job'.upstream
<1>1. ClaimedState(want[c]) \in Busy
  BY DEF Shape, ClaimedState, Claim, Busy, Terminal
<1> QED
  BY <1>1 DEF Claim, ClaimOver, MayClaim, TypeOK, JobRow

\* The statements that write the row, and what each makes of it.
LEMMA RowMoves ==
    ASSUME TypeOK, InstancesAreLive, NEW c \in Callers, \A d \in Callers : Shape(d),
           Begin(c) \/ Proceed(c) \/ Die(c)
    PROVE  \/ job' = job
           \/ /\ Claim(c) /\ job.state = "queued"
              /\ job'.state \in Busy /\ job'.upstream
           \/ /\ Advance(c) /\ job.state = mine[c].state
              /\ job'.state = want[c] /\ job'.upstream = job.upstream
           \/ /\ Charge(c) \/ Stamp(c)
              /\ unsaved[c] /\ job'.state = mine[c].state /\ job'.upstream
           \/ /\ Stamp(c) /\ job.state = mine[c].state /\ ~unsaved[c]
              /\ job'.state = want[c] /\ job'.upstream = job.upstream
<1>1. /\ job \in JobRow /\ mine[c] \in JobRow /\ usage[c] \in 0..Length
      /\ want[c] \in Live \cup Terminal /\ mine[c].state \in Live
  BY DEF TypeOK, InstancesAreLive
<1>2. CASE Claim(c)
  BY <1>2, ClaimTakes
<1>3. CASE Advance(c)
  BY <1>1, <1>3 DEF Advance, StillAsLoaded, JobRow
<1>4. CASE Charge(c)
  BY <1>1, <1>4 DEF Charge, ClaimOver, JobRow
<1>5. CASE Stamp(c)
  <2> DEFINE written == IF StillAsLoaded(c) THEN Stamped(c) ELSE job
  <2>1. job' = IF unsaved[c] THEN ClaimOver(written, mine[c].state) ELSE written
    BY <1>5 DEF Stamp
  <2>2. written \in JobRow /\ (StillAsLoaded(c) => written.state = want[c]
                                                   /\ written.upstream = job.upstream)
    BY <1>1 DEF Stamped, JobRow
  <2> QED
    BY <1>1, <1>5, <2>1, <2>2 DEF StillAsLoaded, ClaimOver, JobRow
<1> QED
  BY <1>2, <1>3, <1>4, <1>5
     DEF Begin, Proceed, Die, Submit, Refresh, Cancel, PostAnswered, PostRefused, PostLost,
         ClaimCollides, Reload, ClaimLost, Outrun, Halt, PollAnswered, PollVanished, PollLost,
         Stop, StopUnknown, StopLost, Count, WalletBusy, Outsettled, row

LEMMA StepRowShape ==
    ASSUME TypeOK, InstancesAreLive, RowShape, NEW c \in Callers, \A d \in Callers : Shape(d),
           Begin(c) \/ Proceed(c) \/ Die(c)
    PROVE  /\ RowShape'
           /\ job'.state = "queued" => job' = job
<1>1. Next /\ job \in JobRow /\ mine[c].state \in Live
  BY DEF Next, TypeOK, InstancesAreLive
<1>2. CASE job' = job
  BY <1>1, <1>2, SpeechMoves DEF RowShape
<1>3. CASE Claim(c) /\ job'.state \in Busy /\ job'.upstream
  BY <1>1, <1>3, SpeechMoves DEF Claim, Shape, RowShape, Busy
<1>4. CASE Advance(c) /\ job.state = mine[c].state /\ job'.state = want[c]
           /\ job'.upstream = job.upstream
  BY <1>1, <1>4, SpeechMoves DEF Advance, Shape, RowShape, Busy
<1>5. CASE (Charge(c) \/ Stamp(c)) /\ unsaved[c] /\ job'.state = mine[c].state /\ job'.upstream
  BY <1>1, <1>5, SpeechMoves DEF Shape, RowShape, Over, Terminal
<1>6. CASE Stamp(c) /\ job'.state = want[c] /\ job'.upstream = job.upstream
  BY <1>1, <1>6, SpeechMoves DEF Stamp, Shape, RowShape, Live, Terminal
<1> QED
  BY <1>2, <1>3, <1>4, <1>5, <1>6, RowMoves

\* A caller that begins has read the row as it is; one that is done has forgotten it.
LEMMA StepShape ==
    ASSUME TypeOK, InstancesAreLive, RowShape, NEW c \in Callers, \A d \in Callers : Shape(d),
           Begin(c) \/ Proceed(c) \/ Die(c)
    PROVE  Shape(c)'
<1>1. /\ Next /\ job \in JobRow /\ mine[c] \in JobRow /\ mine[c].state \in Live
      /\ job.state \in Live \cup Terminal /\ want[c] \in Live \cup Terminal
      /\ speech \in [state: SpeechStates, done: 0..Length] /\ pc[c] \in Steps
      /\ mine \in [Callers -> JobRow] /\ unsaved \in [Callers -> BOOLEAN]
      /\ want \in [Callers -> Live \cup Terminal] /\ pc \in [Callers -> Steps]
  BY DEF Next, TypeOK, InstancesAreLive, JobRow
<1>2. /\ Over => Over'
      /\ speech.state # "none" => speech'.state # "none"
      /\ job'.state = "queued" => job' = job
  BY <1>1, SpeechMoves, StepRowShape
<1>3. Shape(c) /\ RowShape
  OBVIOUS
<1>4. CASE Leave(c)
  BY <1>1, <1>4 DEF Leave, Goto, Shape, Created
<1>5. CASE Begin(c)
  <2>1. job' = job /\ mine'[c] = job /\ unsaved'[c] = unsaved[c] /\ pc[c] = "idle"
    BY <1>1, <1>5 DEF Begin, Submit, Refresh, Cancel, BeginSubmit, row
  <2>2. \/ pc'[c] = "post"
        \/ pc'[c] = "poll" /\ job.upstream /\ job.state # "queued"
        \/ pc'[c] \in {"stop", "count"} /\ job.upstream /\ want'[c] \in Terminal
        \/ pc'[c] = "charge" /\ want'[c] \in Terminal
    BY <1>1, <1>3, <1>5
       DEF Begin, Submit, Refresh, Cancel, BeginSubmit, Settle, Goto, RowShape, Terminal
  <2>3. ~unsaved[c]
    BY <1>3, <2>1 DEF Shape
  <2> QED
    BY <1>2, <1>3, <2>1, <2>2, <2>3 DEF Shape, RowShape, Terminal
<1>6. CASE PostAnswered(c) \/ PostRefused(c)
  <2>1. mine'[c] = mine[c] /\ unsaved'[c] = unsaved[c] /\ pc[c] = "post"
    BY <1>6 DEF PostAnswered, PostRefused, Settle
  <2>2. \/ /\ pc'[c] = "claim" /\ speech'.state # "none"
           /\ want'[c] \in Busy \/ (want'[c] \in Terminal /\ Over')
        \/ pc'[c] = "charge" /\ want'[c] \in Terminal
    BY <1>1, <1>6 DEF PostAnswered, PostRefused, Settle, Goto, Accepted, SpeechStates, Over,
       Busy, Terminal
  <2> QED
    BY <1>2, <1>3, <2>1, <2>2 DEF Shape
<1>7. CASE Claim(c)
  <2>1. CASE want[c] \in Terminal
    <3>1. mine'[c] = job' /\ pc'[c] = "charge" /\ want'[c] = want[c]
      BY <1>1, <1>7, <2>1 DEF Claim, Settle, Goto
    <3>3. job'.state \in Busy
      BY <1>1, <1>7, <2>1 DEF Claim, ClaimOver, ClaimedState, JobRow, Busy
    <3>2. Over'
      BY <1>2, <1>3, <1>7, <2>1 DEF Claim, Shape, Busy, Terminal
    <3> QED
      BY <2>1, <3>1, <3>2, <3>3 DEF Shape, Busy
  <2> QED
    BY <1>4, <1>7, <2>1 DEF Claim
<1>8. CASE ClaimCollides(c) \/ ClaimLost(c) \/ StopUnknown(c)
  <2>1. mine'[c] = mine[c] /\ unsaved'[c] = unsaved[c] /\ want'[c] = want[c]
    BY <1>8 DEF ClaimCollides, ClaimLost, StopUnknown, locals
  <2>2. \/ pc'[c] \in {"reload", "outrun"} /\ pc[c] = "claim"
        \/ pc'[c] = "count" /\ pc[c] = "stop" /\ want[c] \in Terminal
    BY <1>1, <1>3, <1>8 DEF ClaimCollides, ClaimLost, StopUnknown, Goto, Shape
  <2> QED
    BY <1>2, <1>3, <2>1, <2>2 DEF Shape
<1>9. CASE (Outrun(c) \/ Outsettled(c)) /\ ~Leave(c)
  <2>1. mine'[c] = mine[c] /\ unsaved'[c] = unsaved[c] /\ pc'[c] = "halt"
    BY <1>1, <1>9 DEF Outrun, Outsettled, Goto, locals
  <2>2. pc[c] \in {"outrun", "outsettled"} /\ speech.state # "none"
    BY <1>3, <1>9 DEF Outrun, Outsettled, NoneToStop, Shape, RowShape
  <2> QED
    BY <1>2, <1>3, <2>1, <2>2 DEF Shape
<1>10. CASE Reload(c) /\ ~Leave(c)
  <2>1. /\ mine'[c] = job /\ job' = job /\ unsaved'[c] = unsaved[c] /\ pc[c] = "reload"
        /\ pc'[c] = "charge" /\ want'[c] = "failed"
    BY <1>1, <1>10 DEF Reload, Settle, Goto, row
  <2> QED
    BY <1>2, <1>3, <2>1 DEF Shape, RowShape, Terminal
<1>11. CASE PollAnswered(c) \/ PollVanished(c)
  <2>1. mine'[c] = mine[c] /\ unsaved'[c] = unsaved[c] /\ pc[c] = "poll"
    BY <1>11 DEF PollAnswered, PollVanished
  <2>2. \/ pc'[c] = "charge" /\ want'[c] \in Terminal
        \/ pc'[c] = "advance" /\ want'[c] \in Busy
    BY <1>1, <1>11 DEF PollAnswered, PollVanished, Settle, Goto, SpeechStates, Busy, Terminal
  <2> QED
    BY <1>2, <1>3, <2>1, <2>2 DEF Shape
<1>12. CASE Stop(c) \/ Count(c)
  <2>1. mine'[c] = mine[c] /\ unsaved'[c] = unsaved[c] /\ pc[c] \in {"stop", "count"}
    BY <1>12 DEF Stop, Count
  <2>2. pc'[c] \in {"charge", "count"} /\ want'[c] \in Terminal
    BY <1>1, <1>3, <1>12 DEF Stop, Count, Settle, Goto, Shape, Terminal
  <2>3. speech.state # "none"
    BY <1>3, <2>1 DEF Shape
  <2> QED
    BY <1>2, <1>3, <2>1, <2>2, <2>3 DEF Shape
<1>13. CASE Charge(c) \/ (WalletBusy(c) /\ ~Leave(c))
  <2>1. /\ mine'[c] = mine[c] /\ (unsaved'[c] => unsaved[c])
        /\ pc[c] = "charge" /\ pc'[c] = "stamp"
    BY <1>1, <1>13 DEF Charge, WalletBusy, Goto
  <2>2. want'[c] \in Terminal
    BY <1>1, <1>3, <1>13 DEF Charge, WalletBusy, Shape, Terminal
  <2> QED
    BY <1>2, <1>3, <2>1, <2>2 DEF Shape
<1>14. CASE Stamp(c) /\ ~Leave(c)
  <2>1. /\ mine'[c] = mine[c] /\ ~unsaved'[c] /\ pc'[c] = "outsettled"
        /\ job.state # mine[c].state
    BY <1>1, <1>14 DEF Stamp, StillAsLoaded, Goto
  <2> QED
    BY <1>2, <1>3, <2>1 DEF Shape
<1> QED
  BY <1>4, <1>5, <1>6, <1>7, <1>8, <1>9, <1>10, <1>11, <1>12, <1>13, <1>14
     DEF Proceed, PostLost, Halt, PollLost, Advance, StopLost, Die
LEMMA StepPlain ==
    ASSUME TypeOK, RowShape, NEW c \in Callers, Shape(c), Plain(c),
           Begin(c) \/ Proceed(c) \/ Die(c), failures' = failures, ~Over, ~Over'
    PROVE  Plain(c)'
<1>1. /\ job \in JobRow /\ speech \in [state: SpeechStates, done: 0..Length] /\ failures \in Nat
      /\ mine \in [Callers -> JobRow] /\ want \in [Callers -> Live \cup Terminal]
      /\ pc \in [Callers -> Steps]
  BY BoundsAssumption DEF TypeOK
<1>2. ~Fail
  BY <1>1 DEF Fail
<1>3. CASE pc'[c] \in {"idle", "post", "claim", "outrun", "halt", "poll", "advance", "stop",
                       "outsettled"}
  BY <1>3 DEF Plain
<1>4. CASE Begin(c)
  <2>1. mine'[c] = job
    BY <1>1, <1>4 DEF Begin, Submit, Refresh, Cancel, BeginSubmit
  <2>2. \/ pc'[c] \in {"post", "poll", "stop"}
        \/ pc'[c] \in {"charge", "count"} /\ want'[c] = "expired"
        \/ pc'[c] = "charge" /\ want'[c] = "cancelled" /\ job.state = "queued"
    BY <1>1, <1>4 DEF Begin, Submit, Refresh, Cancel, BeginSubmit, Settle, Goto, RowShape, Live
  <2> QED
    BY <1>3, <2>1, <2>2 DEF Plain
<1>5. CASE PostAnswered(c) \/ PostRefused(c)
  BY <1>1, <1>3, <1>5 DEF PostAnswered, PostRefused, Goto, Over
<1>6. CASE Claim(c)
  <2>1. want[c] \notin Terminal
    BY <1>6 DEF Claim, Shape, Busy, Terminal
  <2> QED
    BY <1>1, <1>3, <1>6, <2>1 DEF Claim, Leave, Goto
<1>7. CASE PollAnswered(c)
  BY <1>1, <1>3, <1>7 DEF PollAnswered, Goto, Over
<1>8. CASE Stop(c)
  <2>1. speech.state \in Busy
    BY <1>1, <1>8 DEF Stop, Shape, Over, Busy, SpeechStates, Terminal
  <2> QED
    BY <1>1, <1>8, <2>1 DEF Stop, Stopped, Busy, Over, Terminal
<1>9. CASE Count(c)
  <2>1. mine'[c] = mine[c] /\ pc'[c] = "charge" /\ want'[c] = want[c] /\ pc[c] = "count"
    BY <1>1, <1>9 DEF Count, Settle, Goto
  <2> QED
    BY <2>1 DEF Plain
<1>10. CASE Charge(c)
  <2>1. mine'[c] = mine[c] /\ pc'[c] = "stamp" /\ want'[c] = want[c] /\ pc[c] = "charge"
    BY <1>1, <1>10 DEF Charge, Goto
  <2> QED
    BY <2>1 DEF Plain
<1>11. CASE Leave(c) \/ ClaimLost(c) \/ Outrun(c) \/ Advance(c) \/ Outsettled(c) \/ Stamp(c)
  BY <1>1, <1>3, <1>11 DEF Leave, ClaimLost, Outrun, Advance, Outsettled, Stamp, Goto
<1>12. CASE Reload(c)
  BY <1>12 DEF Reload, Plain
<1> QED
  BY <1>2, <1>4, <1>5, <1>6, <1>7, <1>8, <1>9, <1>10, <1>11, <1>12
     DEF Proceed, PostLost, ClaimCollides, Halt, PollVanished, PollLost, StopUnknown, StopLost,
         WalletBusy, Die

\* Nothing but an expiry ends a job that upstream still works on.
LEMMA StepOnlyExpiry ==
    ASSUME TypeOK, InstancesAreLive, PollsAreLive, RowShape, NEW c \in Callers,
           \A d \in Callers : Shape(d), Plain(c), OnlyExpiry,
           Begin(c) \/ Proceed(c) \/ Die(c), ~Over
    PROVE  OnlyExpiry'
<1>1. job \in JobRow /\ mine[c].state \in Live
  BY DEF TypeOK, InstancesAreLive
<1>2. CASE job' = job
  BY <1>2 DEF OnlyExpiry
<1>3. CASE job'.state \in Live
  BY <1>3 DEF OnlyExpiry, Live, Terminal
<1>4. CASE Stamp(c) /\ job.state = mine[c].state /\ job'.state = want[c]
           /\ job'.upstream = job.upstream
  BY <1>4 DEF Stamp, Plain, RowShape, OnlyExpiry
<1>5. ASSUME Advance(c), job'.state = want[c] PROVE job'.state \in Live
  BY <1>5 DEF Advance, PollsAreLive
<1> QED
  BY <1>2, <1>3, <1>4, <1>5, RowMoves DEF Shape, Busy, Live

\* A job that has a caller at its claim, or past a claim it lost, keeps one.
LEMMA StepClaimed ==
    ASSUME TypeOK, InstancesAreLive, PollsAreLive, RowShape, NEW c \in Callers,
           \A d \in Callers : Shape(d), Claimed, Orphaned,
           Begin(c) \/ Proceed(c) \/ Die(c), failures' = failures, Started, ~Over'
    PROVE  Claimed' /\ Orphaned'
<1>1. /\ job \in JobRow /\ mine[c].state \in Live /\ pc \in [Callers -> Steps] /\ failures \in Nat
      /\ ~Over /\ job.state \in Live \cup Terminal /\ mine[c] \in JobRow
  BY BoundsAssumption DEF TypeOK, InstancesAreLive, JobRow, Started, Over, Terminal
<1>2. ~Fail /\ Mine(c)
  BY <1>1, OthersStay DEF Fail
<1>3. ASSUME pc[c] = "claim" PROVE pc'[c] = "outrun" \/ (job'.state \in Busy /\ job'.upstream)
  <2>1. Claim(c) \/ ClaimLost(c)
    BY <1>2, <1>3 DEF Begin, Proceed, Die, Submit, Refresh, Cancel, PostAnswered, PostRefused,
       PostLost, ClaimCollides, Reload, Outrun, Halt, PollAnswered, PollVanished, PollLost,
       Advance, Stop, StopUnknown, StopLost, Count, Charge, WalletBusy, Stamp, Outsettled
  <2>2. CASE Claim(c)
    BY <2>2, ClaimTakes
  <2> QED
    BY <1>1, <2>1, <2>2 DEF ClaimLost, Goto
<1>4. ASSUME pc[c] \in {"outrun", "halt"} PROVE pc'[c] = "halt" \/ job.upstream
  <2>1. Outrun(c) \/ Halt(c)
    BY <1>2, <1>4 DEF Begin, Proceed, Die, Submit, Refresh, Cancel, PostAnswered, PostRefused,
       PostLost, Claim, ClaimCollides, ClaimLost, Reload, PollAnswered, PollVanished, PollLost,
       Advance, Stop, StopUnknown, StopLost, Count, Charge, WalletBusy, Stamp, Outsettled
  <2>2. ~Halt(c)
    <3>1. Halt(c) => speech' = Stopped
      BY <1>2 DEF Halt
    <3>2. Stopped.state = "cancelled"
      BY DEF Stopped, Started, TypeOK
    <3> QED
      BY <3>1, <3>2 DEF Over, Terminal
  <2> QED
    BY <1>1, <2>1, <2>2 DEF Outrun, ClaimedByOurTwin, Goto
<1>5. Claimed'
  <2> SUFFICES ASSUME job'.state = "queued" PROVE \E d \in Callers : pc'[d] = "claim"
    BY DEF Claimed
  <2>1. job' = job
    BY StepRowShape
  <2>2. PICK d \in Callers : pc[d] = "claim"
    BY <2>1 DEF Claimed
  <2>3. CASE d # c
    BY <1>2, <2>2, <2>3 DEF Mine
  <2>4. CASE d = c
    <3>1. Claim(c) \/ ClaimLost(c)
      BY <1>2, <2>2, <2>4 DEF Begin, Proceed, Die, Submit, Refresh, Cancel, PostAnswered,
         PostRefused, PostLost, ClaimCollides, Reload, Outrun, Halt, PollAnswered, PollVanished,
         PollLost, Advance, Stop, StopUnknown, StopLost, Count, Charge, WalletBusy, Stamp,
         Outsettled
    <3>2. ~ClaimLost(c)
      BY <2>1 DEF ClaimLost, MayClaim
    <3>3. job'.state \in Busy
      BY <3>1, <3>2, ClaimTakes
    <3> QED
      BY <3>3 DEF Busy
  <2> QED
    BY <2>3, <2>4
<1>6. Orphaned'
  <2> SUFFICES ASSUME job'.state \in Terminal, ~job'.upstream
               PROVE  \E d \in Callers : pc'[d] \in {"claim", "outrun", "halt"}
    BY DEF Orphaned
  <2>1. CASE job' = job
    <3>1. PICK d \in Callers : pc[d] \in {"claim", "outrun", "halt"}
      BY <2>1 DEF Orphaned
    <3>2. CASE d # c
      BY <1>2, <3>1, <3>2 DEF Mine
    <3>3. CASE d = c
      BY <1>3, <1>4, <2>1, <3>1, <3>3
    <3> QED
      BY <3>2, <3>3
  <2>2. CASE Stamp(c) /\ job.state = mine[c].state /\ job'.upstream = job.upstream
    <3>1. job.state = "queued" /\ pc[c] = "stamp"
      BY <1>1, <2>2 DEF Stamp, RowShape
    <3>2. PICK d \in Callers : pc[d] = "claim"
      BY <3>1 DEF Claimed
    <3> QED
      BY <1>2, <3>1, <3>2 DEF Mine
  <2>3. ~(Advance(c) /\ job'.state = want[c])
    BY DEF Advance, PollsAreLive, Live, Terminal
  <2> QED
    BY <2>1, <2>2, <2>3, RowMoves
<1> QED
  BY <1>5, <1>6

\* Once the session is settled, whoever settled it stamps the job or stops upstream.
LEMMA StepUnpaid ==
    ASSUME TypeOK, InstancesAreLive, RowShape, NEW c \in Callers,
           \A d \in Callers : Shape(d), Unpaid,
           Begin(c) \/ Proceed(c) \/ Die(c), failures' = failures, ~Over, ~Over'
    PROVE  Unpaid'
<1> SUFFICES ASSUME job'.state \in Live, ~meter'.live
             PROVE  \E d \in Callers : pc'[d] \in {"stamp", "outsettled", "halt"}
  BY DEF Unpaid
<1>1. /\ job \in JobRow /\ mine[c].state \in Live /\ pc \in [Callers -> Steps] /\ failures \in Nat
      /\ job.state \in Live \cup Terminal /\ speech \in [state: SpeechStates, done: 0..Length]
      /\ job'.state \notin Terminal
  BY BoundsAssumption DEF TypeOK, InstancesAreLive, JobRow, Live, Terminal
<1>2. ~Fail /\ Mine(c)
  BY <1>1, OthersStay DEF Fail
<1>3. job.state \in Live
  BY <1>1, RowMoves DEF Shape, Live
<1>4. CASE meter.live
  <2>1. Charge(c)
    BY <1>4 DEF Begin, Proceed, Die, Submit, Refresh, Cancel, PostAnswered, PostRefused, PostLost,
       Claim, ClaimCollides, ClaimLost, Outrun, Halt, Reload, PollAnswered, PollVanished, PollLost,
       Advance, Stop, StopUnknown, StopLost, Count, WalletBusy, Stamp, Outsettled, row
  <2> QED
    BY <1>1, <2>1 DEF Charge, Goto
<1>5. CASE ~meter.live
  <2>1. PICK d \in Callers : pc[d] \in {"stamp", "outsettled", "halt"}
    BY <1>3, <1>5 DEF Unpaid
  <2>2. CASE d # c
    BY <1>2, <2>1, <2>2 DEF Mine
  <2>3. CASE d = c
    <3>1. Stamp(c) \/ Outsettled(c) \/ Halt(c)
      BY <1>2, <2>1, <2>3 DEF Begin, Proceed, Die, Submit, Refresh, Cancel, PostAnswered,
         PostRefused, PostLost, Claim, ClaimCollides, ClaimLost, Reload, Outrun, PollAnswered,
         PollVanished, PollLost, Advance, Stop, StopUnknown, StopLost, Count, Charge, WalletBusy
    <3>2. CASE Stamp(c)
      <4>1. ~unsaved[c] /\ want[c] \in Terminal
        BY <3>2 DEF Stamp, Shape
      <4>2. ~StillAsLoaded(c)
        BY <1>1, <3>2, <4>1 DEF Stamp, Stamped, JobRow
      <4> QED
        BY <1>1, <3>2, <4>2 DEF Stamp, Goto
    <3>3. CASE Outsettled(c)
      <4>1. pc[c] = "outsettled" /\ job' = job
        BY <3>3 DEF Outsettled, row
      <4>2. job.upstream
        BY <1>3, <4>1 DEF Shape, RowShape
      <4> QED
        BY <1>1, <3>3, <4>1, <4>2 DEF Outsettled, NoneToStop, Goto
    <3>4. CASE Halt(c)
      <4>1. speech' = Stopped
        BY <1>2, <3>4 DEF Halt
      <4>2. speech.state \in Busy
        BY <1>1, <3>4 DEF Halt, Shape, Over, Busy, SpeechStates, Terminal
      <4>3. Stopped.state = "cancelled"
        BY <1>1, <4>2 DEF Stopped, Busy
      <4> QED
        BY <4>1, <4>3 DEF Over, Terminal
    <3> QED
      BY <3>1, <3>2, <3>3, <3>4
  <2> QED
    BY <2>2, <2>3
<1> QED
  BY <1>4, <1>5

\* Before upstream has started nothing can be lost to it; the caller whose POST made
\* it start is at its claim.
LEMMA StartClaimed ==
    ASSUME TypeOK, NEW c \in Callers, Begin(c) \/ Proceed(c) \/ Die(c), ~Over, ~Started,
           Started', failures' = failures
    PROVE  pc'[c] = "claim"
<1>1. /\ speech.state = "none" /\ failures \in Nat /\ pc \in [Callers -> Steps]
  BY BoundsAssumption DEF TypeOK, SpeechStates, Over, Started, Terminal
<1>2. ~Fail /\ speech' # speech /\ Stopped = speech
  BY <1>1 DEF Fail, Stopped, Started
<1>3. PostAnswered(c)
  BY <1>1, <1>2 DEF Begin, Proceed, Die, Submit, Refresh, Cancel, PostRefused, PostLost, Claim,
     ClaimCollides, ClaimLost, Outrun, Halt, Reload, PollAnswered, PollVanished, PollLost,
     Advance, Stop, StopUnknown, StopLost, Count, Charge, WalletBusy, Stamp, Outsettled, Started
<1> QED
  BY <1>1, <1>3 DEF PostAnswered, Goto

LEMMA StepWatch ==
    ASSUME TypeOK, InstancesAreLive, PollsAreLive, WatchInv, [Next]_vars
    PROVE  WatchInv'
<1>0. /\ Over => Over'
      /\ speech.state # "none" => speech'.state # "none"
      /\ failures' = 0 => failures = 0 /\ failures' = failures
  BY SpeechMoves
<1>1. ASSUME NEW c \in Callers, Begin(c) \/ Proceed(c) \/ Die(c)
      PROVE  WatchInv'
  <2>1. RowShape' /\ (job'.state = "queued" => job' = job)
    BY <1>1, StepRowShape DEF WatchInv
  <2>2. Mine(c) /\ \A d \in Callers \ {c} : unsaved'[d] = unsaved[d]
    BY <1>1, OthersStay, OthersUnsaved
  <2>3. ASSUME NEW d \in Callers PROVE Shape(d)'
    <3>1. CASE d = c
      BY <1>1, <3>1, StepShape DEF WatchInv
    <3>2. CASE d # c
      BY <1>0, <2>1, <2>2, <3>2 DEF Mine, Shape, WatchInv
    <3> QED
      BY <3>1, <3>2
  <2>4. ASSUME failures' = 0 PROVE Watched'
    <3>1. Watched /\ failures' = failures
      BY <1>0, <2>4 DEF WatchInv
    <3>2. ASSUME ~Over' PROVE (\A d \in Callers : Plain(d)') /\ OnlyExpiry' /\ Unpaid'
      <4>1. ~Over /\ (\A d \in Callers : Plain(d)) /\ OnlyExpiry /\ Unpaid
        BY <1>0, <3>1, <3>2 DEF Watched
      <4>2. Plain(c)'
        BY <1>1, <3>1, <3>2, <4>1, StepPlain DEF WatchInv
      <4>3. \A d \in Callers \ {c} : Plain(d)'
        BY <2>2, <4>1 DEF Mine, Plain
      <4>4. OnlyExpiry'
        BY <1>1, <4>1, StepOnlyExpiry DEF WatchInv
      <4>5. Unpaid'
        BY <1>1, <3>1, <3>2, <4>1, StepUnpaid DEF WatchInv
      <4> QED
        BY <4>2, <4>3, <4>4, <4>5
    <3>3. ASSUME Started' PROVE Claimed' /\ Orphaned'
      <4>1. ~Over' /\ ~Over
        BY <1>0, <3>3 DEF Started, Over, Terminal
      <4>2. CASE Started
        BY <1>1, <3>1, <4>1, <4>2, StepClaimed DEF WatchInv, Watched
      <4>3. CASE ~Started
        <5>1. pc'[c] = "claim"
          BY <1>1, <3>1, <3>3, <4>1, <4>3, StartClaimed
        <5> QED
          BY <5>1 DEF Claimed, Orphaned
      <4> QED
        BY <4>2, <4>3
    <3> QED
      BY <3>2, <3>3 DEF Watched
  <2> QED
    BY <2>1, <2>3, <2>4 DEF WatchInv
<1>2. CASE Outside
  <2>1. UNCHANGED <<job, meter, pc, mine, unsaved, want>>
    BY <1>2, OutsideStays DEF locals
  <2>2. Started' => Started
    BY <1>2 DEF Outside, SpeechRuns, SpeechEnds, DeadlinePasses, PollComesDue, vars, Started
  <2>3. RowShape' /\ \A d \in Callers : Shape(d)'
    BY <1>0, <2>1 DEF WatchInv, RowShape, Shape
  <2>4. ASSUME failures' = 0 PROVE Watched'
    BY <1>0, <2>1, <2>2, <2>4
       DEF WatchInv, Watched, Plain, OnlyExpiry, Claimed, Orphaned, Unpaid
  <2> QED
    BY <2>3, <2>4 DEF WatchInv
<1> QED
  BY <1>1, <1>2 DEF Next, AllDone, Outside

\* Work nobody can be charged for is stopped (_overtaken_submit, _overtaken_settlement),
\* whatever the order in which any number of callers claim, settle and stamp.
THEOREM UnpaidWorkIsStopped == Spec => []UnpaidWorkStops
<1>1. (TypeOK /\ InstancesAreLive /\ PollsAreLive) /\ WatchInv /\ [Next]_vars => WatchInv'
  BY StepWatch
<1>2. TypeOK /\ WatchInv => UnpaidWorkStops
  <2> SUFFICES ASSUME TypeOK, WatchInv, failures = 0, ~meter.live, Started,
                      \A c \in Callers : pc[c] = "idle"
               PROVE  job.state = "expired" /\ job.upstream
    BY DEF UnpaidWorkStops, Started
  <2>1. ~Over /\ job.state \in Live \cup Terminal
    BY DEF TypeOK, JobRow, Started, Over, Terminal
  <2>2. OnlyExpiry /\ Unpaid /\ Orphaned
    BY <2>1 DEF WatchInv, Watched
  <2> QED
    BY <2>1, <2>2 DEF OnlyExpiry, Unpaid, Orphaned
<1> QED
  BY <1>1, <1>2, InitWatch, LocalsInv, PTL DEF Spec
=============================================================================
