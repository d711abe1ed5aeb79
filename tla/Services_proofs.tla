--------------------------- MODULE Services_proofs ---------------------------
(* For every value of the constants of Services. Each service has an inductive *)
(* invariant of its own, kept by its own steps; a behaviour of AnySpec is, for *)
(* each service, one of its specification, because the others leave it alone. *)
EXTENDS Services, FiniteSetTheorems, SequenceTheorems, TLAPS
-----------------------------------------------------------------------------
(* The inductive invariant.                                                 *)

\* The types the proofs use; TypeOK has the others.
LineTypes ==
    /\ opener \in [Calls -> {"idle", "linger", "hold", "row", "recount", "offer",
                             "answer", "release", "stamp", "done", "failed", "dead"}]
    /\ held \in [Calls -> BOOLEAN]
    /\ row \in [Calls -> {"none", "dialled", "answered", "ended"}]

BudgetTypes ==
    /\ spent \in [Calls -> 0..MaxCandidates] /\ relayed \in [Calls -> Nat]
    /\ relay \in [Relays -> [on: BOOLEAN, call: Calls, read: 0..MaxCandidates, wants: 0..MaxBatch]]

\* A request has its row only from the step that inserts it.
RowComesLater ==
    \A c \in Calls : opener[c] \in {"idle", "linger", "hold", "row"} => row[c] = "none"

\* From its hold until its row is over, a request that goes on holds.
OpenIsPaid ==
    \A c \in Calls :
        \/ opener[c] = "row"
        \/ opener[c] \in {"recount", "offer", "answer", "done"}
           /\ row[c] \in {"dialled", "answered"}
        => held[c]

\* What the sweep lists is, and stays, a hold of a request that is over.
OrphansAreOver ==
    /\ orphans \subseteq aged /\ aged \subseteq Calls
    /\ \A c \in aged : opener[c] \in {"failed", "dead"}

LinesInv ==
    /\ LineTypes /\ BudgetTypes
    /\ RowComesLater /\ OpenIsPaid /\ OrphansAreOver
    /\ LineCap /\ RelayedIsSpent

-----------------------------------------------------------------------------
LEMMA MinOfTwo ==
    ASSUME NEW a \in Int, NEW b \in Int
    PROVE  Min({a, b}) \in {a, b} /\ Min({a, b}) <= a /\ Min({a, b}) <= b
<1>1. \E x \in {a, b} : \A y \in {a, b} : x <= y
  OBVIOUS
<1> QED
  BY <1>1 DEF Min

\* What a relay takes fits the budget it read.
LEMMA TakeFits ==
    ASSUME LinesAssumption, BudgetTypes, NEW r \in Relays
    PROVE  Take(r) \in Nat /\ relay[r].read + Take(r) \in 0..MaxCandidates
<1>1. /\ relay[r].wants \in Nat /\ relay[r].read \in Nat /\ relay[r].read <= MaxCandidates
      /\ MaxCandidates \in Nat
  BY DEF BudgetTypes, LinesAssumption, NumbersAssumption
<1> DEFINE a == relay[r].wants
           b == MaxCandidates - relay[r].read
<1>2. a \in Nat /\ b \in Nat
  BY <1>1
<1> HIDE DEF a, b
<1>3. Min({a, b}) \in {a, b} /\ Min({a, b}) <= b
  BY <1>2, MinOfTwo
<1>4. Min({a, b}) \in Nat /\ Min({a, b}) <= b
  BY <1>2, <1>3
<1>5. Take(r) \in Nat /\ Take(r) <= MaxCandidates - relay[r].read
  BY <1>4 DEF Take, a, b
<1> QED
  BY <1>1, <1>5

\* A relay takes from the budget it compared, or takes nothing.
LEMMA TakesOrNot ==
    ASSUME NEW r \in Relays, Takes(r)
    PROVE  /\ relay' = [relay EXCEPT ![r] = Idle]
           /\ \/ spent' = spent /\ relayed' = relayed
              \/ /\ spent[relay[r].call] = relay[r].read
                 /\ spent' = [spent EXCEPT ![relay[r].call] = @ + Take(r)]
                 /\ \/ relayed' = relayed
                    \/ relayed' = [relayed EXCEPT ![relay[r].call] = @ + Take(r)]
<1>1. relay' = [relay EXCEPT ![r] = Idle]
  BY DEF Takes
<1>2. CASE row[relay[r].call] = "answered" /\ spent[relay[r].call] = relay[r].read
  <2>1. spent' = [spent EXCEPT ![relay[r].call] = @ + Take(r)]
    BY <1>2 DEF Takes
  <2>2. \/ relayed' = relayed
        \/ relayed' = [relayed EXCEPT ![relay[r].call] = @ + Take(r)]
    BY <1>2 DEF Takes
  <2> QED
    BY <1>1, <1>2, <2>1, <2>2
<1>3. CASE ~(row[relay[r].call] = "answered" /\ spent[relay[r].call] = relay[r].read)
  BY <1>1, <1>3 DEF Takes
<1> QED
  BY <1>2, <1>3

LEMMA SubsetsAreFinite ==
    ASSUME LinesAssumption, NEW S \in SUBSET Calls
    PROVE  IsFiniteSet(S) /\ Cardinality(S) \in Nat
<1>1. IsFiniteSet(S)
  BY FS_Subset DEF LinesAssumption
<1> QED
  BY <1>1, FS_CardinalityType

LEMMA IdleIsRelay ==
    ASSUME LinesAssumption
    PROVE  Idle \in [on: BOOLEAN, call: Calls, read: 0..MaxCandidates, wants: 0..MaxBatch]
<1>1. (CHOOSE c \in Calls : TRUE) \in Calls
  BY DEF LinesAssumption
<1> QED
  BY <1>1 DEF Idle, LinesAssumption, NumbersAssumption

LEMMA LinesInit == ASSUME LinesAssumption, Init PROVE LinesInv
<1>1. LineTypes
  BY DEF Init, LineTypes
<1>2. BudgetTypes
  <2>1. MaxCandidates \in Nat
    BY DEF LinesAssumption, NumbersAssumption
  <2> QED
    BY <2>1, IdleIsRelay DEF Init, BudgetTypes
<1>3. LineCap
  <2>1. {c \in Calls : OnLine(c)} = {}
    BY DEF Init, OnLine
  <2>2. Cardinality({}) = 0 /\ Limit \in Nat
    BY FS_EmptySet DEF LinesAssumption, NumbersAssumption
  <2> QED
    BY <2>1, <2>2 DEF LineCap
<1>4. RowComesLater /\ OpenIsPaid /\ OrphansAreOver
  BY DEF Init, RowComesLater, OpenIsPaid, OrphansAreOver
<1>5. RelayedIsSpent
  BY DEF Init, RelayedIsSpent
<1> QED
  BY <1>1, <1>2, <1>3, <1>4, <1>5 DEF LinesInv

-----------------------------------------------------------------------------
(* Each part is kept by every step.                                         *)

LEMMA StepLineTypes ==
    ASSUME LineTypes, [Next]_vars
    PROVE  LineTypes'
<1> USE DEF LineTypes
<1>1. ASSUME Scans PROVE LineTypes'
  BY <1>1 DEF Scans, Orphan, lines, call, budget
<1>2. ASSUME NEW c \in Calls, Counts(c) PROVE LineTypes'
  BY <1>2 DEF Counts, Goto, call, budget
<1>3. ASSUME NEW c \in Calls, Lingers(c) PROVE LineTypes'
  BY <1>3 DEF Lingers, Goto, call, budget
<1>4. ASSUME NEW c \in Calls, Holds(c) PROVE LineTypes'
  BY <1>4 DEF Holds, Goto, call, budget
<1>5. ASSUME NEW c \in Calls, Dials(c) PROVE LineTypes'
  BY <1>5 DEF Dials, Goto, call, budget
<1>6. ASSUME NEW c \in Calls, Recounts(c) PROVE LineTypes'
  BY <1>6 DEF Recounts, Goto, call, budget
<1>7. ASSUME NEW c \in Calls, Offers(c) PROVE LineTypes'
  BY <1>7 DEF Offers, Goto, call, budget
<1>8. ASSUME NEW c \in Calls, Answers(c) PROVE LineTypes'
  <2>0. [row EXCEPT ![c] = IF @ = "dialled" THEN "answered" ELSE @]
           \in [Calls -> {"none", "dialled", "answered", "ended"}]
    OBVIOUS
  <2>1. row' \in [Calls -> {"none", "dialled", "answered", "ended"}]
    BY <1>8, <2>0 DEF Answers
  <2>2. opener' \in {[opener EXCEPT ![c] = "done"], [opener EXCEPT ![c] = "failed"],
                     [opener EXCEPT ![c] = "release"]}
    BY <1>8 DEF Answers, Goto
  <2> QED
    BY <1>8, <2>1, <2>2 DEF Answers
<1>9. ASSUME NEW c \in Calls, GivesUp(c) PROVE LineTypes'
  BY <1>9 DEF GivesUp, Goto, call, budget
<1>10. ASSUME NEW c \in Calls, StampsGivenUp(c) PROVE LineTypes'
  BY <1>10 DEF StampsGivenUp, Goto, End, call, budget
<1>11. ASSUME NEW c \in Calls, Dies(c) PROVE LineTypes'
  BY <1>11 DEF Dies, Goto, call, budget
<1>12. ASSUME NEW c \in Calls, PeerDrops(c) PROVE LineTypes'
  BY <1>12 DEF PeerDrops, call, budget
<1>13. ASSUME NEW c \in Calls, Proves(c) PROVE LineTypes'
  BY <1>13 DEF Proves, call, budget
<1>14. ASSUME NEW c \in Calls, Settles(c) PROVE LineTypes'
  BY <1>14 DEF Settles, End, call, budget
<1>15. ASSUME NEW c \in Calls, Ages(c) PROVE LineTypes'
  BY <1>15 DEF Ages, call, budget
<1>16. ASSUME NEW c \in Calls, FreesOrphan(c) PROVE LineTypes'
  BY <1>16 DEF FreesOrphan, call, budget
<1>17. ASSUME NEW r \in Relays, NEW c \in Calls, NEW n \in 1..MaxBatch, Reads(r, c, n)
      PROVE  LineTypes'
  BY <1>17 DEF Reads, lines, call
<1>18. ASSUME NEW r \in Relays, Takes(r) PROVE LineTypes'
  BY <1>18 DEF Takes, lines, call, Idle
<1>19. CASE UNCHANGED vars
  BY <1>19 DEF lines, call, vars
<1> QED
  BY <1>1, <1>2, <1>3, <1>4, <1>5, <1>6, <1>7, <1>8, <1>9, <1>10, <1>11, <1>12, <1>13,
     <1>14, <1>15, <1>16, <1>17, <1>18, <1>19 DEF Next, OpenStep

LEMMA StepBudget ==
    ASSUME LinesAssumption, BudgetTypes, RelayedIsSpent, [Next]_vars
    PROVE  BudgetTypes' /\ RelayedIsSpent'
<1>1. CASE UNCHANGED budget
  BY <1>1 DEF budget, BudgetTypes, RelayedIsSpent
<1>2. ASSUME NEW r \in Relays, NEW c \in Calls, NEW n \in 1..MaxBatch, Reads(r, c, n)
      PROVE  BudgetTypes' /\ RelayedIsSpent'
  <2>1. relay' = [relay EXCEPT ![r] = [on |-> TRUE, call |-> c, read |-> spent[c], wants |-> n]]
    BY <1>2 DEF Reads
  <2>2. [on |-> TRUE, call |-> c, read |-> spent[c], wants |-> n]
           \in [on: BOOLEAN, call: Calls, read: 0..MaxCandidates, wants: 0..MaxBatch]
    BY DEF BudgetTypes, LinesAssumption, NumbersAssumption
  <2>3. spent' = spent /\ relayed' = relayed
    BY <1>2 DEF Reads
  <2> QED
    BY <2>1, <2>2, <2>3 DEF BudgetTypes, RelayedIsSpent
<1>3. ASSUME NEW r \in Relays, Takes(r) PROVE BudgetTypes' /\ RelayedIsSpent'
  <2> DEFINE c == relay[r].call
             t == Take(r)
  <2>1. t \in Nat /\ relay[r].read + t \in 0..MaxCandidates /\ c \in Calls
    BY TakeFits DEF BudgetTypes
  <2>2. relay' \in [Relays -> [on: BOOLEAN, call: Calls, read: 0..MaxCandidates, wants: 0..MaxBatch]]
    BY <1>3, TakesOrNot, IdleIsRelay DEF BudgetTypes
  <2>3. \/ spent' = spent /\ relayed' = relayed
        \/ /\ spent[c] = relay[r].read
           /\ spent' = [spent EXCEPT ![c] = @ + t]
           /\ relayed' = relayed \/ relayed' = [relayed EXCEPT ![c] = @ + t]
    BY <1>3, TakesOrNot
  <2> HIDE DEF c, t
  <2>4. /\ spent \in [Calls -> 0..MaxCandidates] /\ relayed \in [Calls -> Nat]
        /\ \A d \in Calls : relayed[d] <= spent[d]
        /\ MaxCandidates \in Nat
    BY DEF BudgetTypes, RelayedIsSpent, LinesAssumption, NumbersAssumption
  <2>5. spent' \in [Calls -> 0..MaxCandidates] /\ relayed' \in [Calls -> Nat]
    BY <2>1, <2>3, <2>4
  <2>6. \A d \in Calls : relayed'[d] <= spent'[d]
    BY <2>1, <2>3, <2>4
  <2> QED
    BY <2>2, <2>5, <2>6 DEF BudgetTypes, RelayedIsSpent
<1>4. ASSUME Scans \/ (\E c \in Calls : OpenStep(c) \/ PeerDrops(c)
               \/ Proves(c) \/ Settles(c) \/ Ages(c)
                                 \/ FreesOrphan(c))
      PROVE  UNCHANGED budget
  BY <1>4 DEF OpenStep, Scans, Counts, Lingers, Holds, Dials, Recounts, Offers, Answers,
     GivesUp, StampsGivenUp, Dies, PeerDrops, Proves, Settles, Ages, FreesOrphan
<1> QED
  BY <1>1, <1>2, <1>3, <1>4 DEF Next, vars

LEMMA StepRows ==
    ASSUME LineTypes, RowComesLater, [Next]_vars
    PROVE  RowComesLater'
<1> USE DEF RowComesLater, LineTypes
<1>1. ASSUME Scans PROVE RowComesLater'
  BY <1>1 DEF Scans, Orphan, lines, call, budget
<1>2. ASSUME NEW c \in Calls, Counts(c) PROVE RowComesLater'
  BY <1>2 DEF Counts, Goto, call, budget
<1>3. ASSUME NEW c \in Calls, Lingers(c) PROVE RowComesLater'
  BY <1>3 DEF Lingers, Goto, call, budget
<1>4. ASSUME NEW c \in Calls, Holds(c) PROVE RowComesLater'
  BY <1>4 DEF Holds, Goto, call, budget
<1>5. ASSUME NEW c \in Calls, Dials(c) PROVE RowComesLater'
  BY <1>5 DEF Dials, Goto, call, budget
<1>6. ASSUME NEW c \in Calls, Recounts(c) PROVE RowComesLater'
  BY <1>6 DEF Recounts, Goto, call, budget
<1>7. ASSUME NEW c \in Calls, Offers(c) PROVE RowComesLater'
  BY <1>7 DEF Offers, Goto, call, budget
<1>8. ASSUME NEW c \in Calls, Answers(c) PROVE RowComesLater'
  BY <1>8 DEF Answers, Goto, call, budget
<1>9. ASSUME NEW c \in Calls, GivesUp(c) PROVE RowComesLater'
  BY <1>9 DEF GivesUp, Goto, call, budget
<1>10. ASSUME NEW c \in Calls, StampsGivenUp(c) PROVE RowComesLater'
  BY <1>10 DEF StampsGivenUp, Goto, End, call, budget
<1>11. ASSUME NEW c \in Calls, Dies(c) PROVE RowComesLater'
  BY <1>11 DEF Dies, Goto, call, budget
<1>12. ASSUME NEW c \in Calls, PeerDrops(c) PROVE RowComesLater'
  BY <1>12 DEF PeerDrops, call, budget
<1>13. ASSUME NEW c \in Calls, Proves(c) PROVE RowComesLater'
  BY <1>13 DEF Proves, call, budget
<1>14. ASSUME NEW c \in Calls, Settles(c) PROVE RowComesLater'
  BY <1>14 DEF Settles, End, LiveRows
<1>15. ASSUME NEW c \in Calls, Ages(c) PROVE RowComesLater'
  BY <1>15 DEF Ages, call, budget
<1>16. ASSUME NEW c \in Calls, FreesOrphan(c) PROVE RowComesLater'
  BY <1>16 DEF FreesOrphan, call, budget
<1>17. ASSUME NEW r \in Relays, NEW c \in Calls, NEW n \in 1..MaxBatch, Reads(r, c, n)
      PROVE  RowComesLater'
  BY <1>17 DEF Reads, lines, call
<1>18. ASSUME NEW r \in Relays, Takes(r) PROVE RowComesLater'
  BY <1>18 DEF Takes, lines, call, Idle
<1>19. CASE UNCHANGED vars
  BY <1>19 DEF lines, call, vars
<1> QED
  BY <1>1, <1>2, <1>3, <1>4, <1>5, <1>6, <1>7, <1>8, <1>9, <1>10, <1>11, <1>12, <1>13,
     <1>14, <1>15, <1>16, <1>17, <1>18, <1>19 DEF Next, OpenStep

LEMMA StepPaid ==
    ASSUME LineTypes, RowComesLater, OpenIsPaid, OrphansAreOver, [Next]_vars
    PROVE  OpenIsPaid' /\ OrphansAreOver'
<1> USE DEF OpenIsPaid, OrphansAreOver, LineTypes
<1>1. ASSUME Scans PROVE OpenIsPaid' /\ OrphansAreOver'
  BY <1>1 DEF Scans, Orphan, lines, call, budget
<1>2. ASSUME NEW c \in Calls, Counts(c) PROVE OpenIsPaid' /\ OrphansAreOver'
  BY <1>2 DEF Counts, Goto, call, budget, RowComesLater, LiveRows
<1>3. ASSUME NEW c \in Calls, Lingers(c) PROVE OpenIsPaid' /\ OrphansAreOver'
  BY <1>3 DEF Lingers, Goto, call, budget, RowComesLater, LiveRows
<1>4. ASSUME NEW c \in Calls, Holds(c) PROVE OpenIsPaid' /\ OrphansAreOver'
  BY <1>4 DEF Holds, Goto, call, budget, RowComesLater, LiveRows
<1>5. ASSUME NEW c \in Calls, Dials(c) PROVE OpenIsPaid' /\ OrphansAreOver'
  BY <1>5 DEF Dials, Goto, call, budget, RowComesLater, LiveRows
<1>6. ASSUME NEW c \in Calls, Recounts(c) PROVE OpenIsPaid' /\ OrphansAreOver'
  BY <1>6 DEF Recounts, Goto, call, budget
<1>7. ASSUME NEW c \in Calls, Offers(c) PROVE OpenIsPaid' /\ OrphansAreOver'
  BY <1>7 DEF Offers, Goto, call, budget
<1>8. ASSUME NEW c \in Calls, Answers(c) PROVE OpenIsPaid' /\ OrphansAreOver'
  BY <1>8 DEF Answers, Goto, call, budget
<1>9. ASSUME NEW c \in Calls, GivesUp(c) PROVE OpenIsPaid' /\ OrphansAreOver'
  BY <1>9 DEF GivesUp, Goto, call, budget
<1>10. ASSUME NEW c \in Calls, StampsGivenUp(c) PROVE OpenIsPaid' /\ OrphansAreOver'
  BY <1>10 DEF StampsGivenUp, Goto, End, call, budget
<1>11. ASSUME NEW c \in Calls, Dies(c) PROVE OpenIsPaid' /\ OrphansAreOver'
  BY <1>11 DEF Dies, Goto, call, budget
<1>12. ASSUME NEW c \in Calls, PeerDrops(c) PROVE OpenIsPaid' /\ OrphansAreOver'
  BY <1>12 DEF PeerDrops, call, budget
<1>13. ASSUME NEW c \in Calls, Proves(c) PROVE OpenIsPaid' /\ OrphansAreOver'
  BY <1>13 DEF Proves, call, budget
<1>14. ASSUME NEW c \in Calls, Settles(c) PROVE OpenIsPaid' /\ OrphansAreOver'
  BY <1>14 DEF Settles, End, call, budget, RowComesLater, LiveRows
<1>15. ASSUME NEW c \in Calls, Ages(c) PROVE OpenIsPaid' /\ OrphansAreOver'
  BY <1>15 DEF Ages, call, budget
<1>16. ASSUME NEW c \in Calls, FreesOrphan(c) PROVE OpenIsPaid' /\ OrphansAreOver'
  BY <1>16 DEF FreesOrphan, call, budget
<1>17. ASSUME NEW r \in Relays, NEW c \in Calls, NEW n \in 1..MaxBatch, Reads(r, c, n)
      PROVE  OpenIsPaid' /\ OrphansAreOver'
  BY <1>17 DEF Reads, lines, call
<1>18. ASSUME NEW r \in Relays, Takes(r) PROVE OpenIsPaid' /\ OrphansAreOver'
  BY <1>18 DEF Takes, lines, call, Idle
<1>19. CASE UNCHANGED vars
  BY <1>19 DEF lines, call, vars
<1> QED
  BY <1>1, <1>2, <1>3, <1>4, <1>5, <1>6, <1>7, <1>8, <1>9, <1>10, <1>11, <1>12, <1>13,
     <1>14, <1>15, <1>16, <1>17, <1>18, <1>19 DEF Next, OpenStep

\* Nobody but a recount brings a call on the line.
LEMMA OnLineShrinks ==
    ASSUME LinesAssumption, LineCap,
           {c \in Calls : OnLine(c)}' \subseteq {c \in Calls : OnLine(c)}
    PROVE  LineCap'
<1> DEFINE On == {c \in Calls : OnLine(c)}
<1>1. IsFiniteSet(On) /\ Cardinality(On) \in Nat
  BY SubsetsAreFinite
<1>2. Cardinality(On') <= Cardinality(On) /\ IsFiniteSet(On')
  BY <1>1, FS_Subset
<1>3. Cardinality(On') \in Nat /\ Limit \in Nat
  BY <1>2, FS_CardinalityType DEF LinesAssumption, NumbersAssumption
<1>4. Cardinality(On) <= Limit
  BY DEF LineCap
<1>5. Cardinality(On') <= Limit
  BY <1>1, <1>2, <1>3, <1>4
<1> QED
  BY <1>5 DEF LineCap

LEMMA StepLineCap ==
    ASSUME LinesAssumption, LineTypes, LineCap, [Next]_vars
    PROVE  LineCap'
<1> DEFINE Fewer == {c \in Calls : OnLine(c)}' \subseteq {c \in Calls : OnLine(c)}
<1> USE DEF LineTypes, OnLine
<1>1. ASSUME Scans PROVE Fewer
  BY <1>1 DEF Scans, Orphan, lines, call, budget
<1>2. ASSUME NEW c \in Calls, Counts(c) PROVE Fewer
  BY <1>2 DEF Counts, Goto, call, budget
<1>3. ASSUME NEW c \in Calls, Lingers(c) PROVE Fewer
  BY <1>3 DEF Lingers, Goto, call, budget
<1>4. ASSUME NEW c \in Calls, Holds(c) PROVE Fewer
  BY <1>4 DEF Holds, Goto, call, budget
<1>5. ASSUME NEW c \in Calls, Dials(c) PROVE Fewer
  BY <1>5 DEF Dials, Goto, call, budget
<1>6. ASSUME NEW c \in Calls, Recounts(c) PROVE LineCap'
  <2> DEFINE Others == LiveRows \ {c}
             On == {o \in Calls : OnLine(o)}
  <2>1. CASE opener' = [opener EXCEPT ![c] = "release"]
    <3>1. {o \in Calls : OnLine(o)}' \subseteq {o \in Calls : OnLine(o)}
      BY <1>6, <2>1 DEF Recounts, call
    <3> QED
      BY <3>1, OnLineShrinks
  <2>2. CASE opener' = [opener EXCEPT ![c] = "offer"] /\ ~(Cardinality(Others) >= Limit)
    <3>1. On' \subseteq Others \cup {c}
      BY <1>6, <2>2 DEF Recounts, call, LiveRows
    <3>2. IsFiniteSet(Others) /\ Cardinality(Others) \in Nat
      BY SubsetsAreFinite DEF LiveRows
    <3>3. Cardinality(Others \cup {c}) = Cardinality(Others) + 1 /\ IsFiniteSet(Others \cup {c})
      BY <3>2, FS_AddElement
    <3>4. Cardinality(On') <= Cardinality(Others \cup {c}) /\ IsFiniteSet(On')
      BY <3>1, <3>3, FS_Subset
    <3>5. Cardinality(On') \in Nat /\ Limit \in Nat
      BY <3>4, FS_CardinalityType DEF LinesAssumption, NumbersAssumption
    <3> HIDE DEF Others, On
    <3>6. Cardinality(On') <= Limit
      BY <2>2, <3>2, <3>3, <3>4, <3>5
    <3> QED
      BY <3>6 DEF On, LineCap
  <2> QED
    BY <1>6, <2>1, <2>2 DEF Recounts, Goto
<1>7. ASSUME NEW c \in Calls, Offers(c) PROVE Fewer
  BY <1>7 DEF Offers, Goto, call, budget
<1>8. ASSUME NEW c \in Calls, Answers(c) PROVE Fewer
  BY <1>8 DEF Answers, Goto, call, budget
<1>9. ASSUME NEW c \in Calls, GivesUp(c) PROVE Fewer
  BY <1>9 DEF GivesUp, Goto, call, budget
<1>10. ASSUME NEW c \in Calls, StampsGivenUp(c) PROVE Fewer
  BY <1>10 DEF StampsGivenUp, Goto, End, call, budget
<1>11. ASSUME NEW c \in Calls, Dies(c) PROVE Fewer
  BY <1>11 DEF Dies, Goto, call, budget
<1>12. ASSUME NEW c \in Calls, PeerDrops(c) PROVE Fewer
  BY <1>12 DEF PeerDrops, call, budget
<1>13. ASSUME NEW c \in Calls, Proves(c) PROVE Fewer
  BY <1>13 DEF Proves, call, budget
<1>14. ASSUME NEW c \in Calls, Settles(c) PROVE Fewer
  BY <1>14 DEF Settles, End, call, budget
<1>15. ASSUME NEW c \in Calls, Ages(c) PROVE Fewer
  BY <1>15 DEF Ages, call, budget
<1>16. ASSUME NEW c \in Calls, FreesOrphan(c) PROVE Fewer
  BY <1>16 DEF FreesOrphan, call, budget
<1>17. ASSUME NEW r \in Relays, NEW c \in Calls, NEW n \in 1..MaxBatch, Reads(r, c, n)
      PROVE  Fewer
  BY <1>17 DEF Reads, lines, call
<1>18. ASSUME NEW r \in Relays, Takes(r) PROVE Fewer
  BY <1>18 DEF Takes, lines, call, Idle
<1>19. CASE UNCHANGED vars
  <2>1. opener' = opener /\ row' = row
    BY <1>19 DEF lines, call, vars
  <2>2. {c \in Calls : OnLine(c)}' = {c \in Calls : OnLine(c)}
    BY <2>1
  <2> QED
    BY <2>2, OnLineShrinks
<1> QED
  BY OnLineShrinks, <1>1, <1>2, <1>3, <1>4, <1>5, <1>6, <1>7, <1>8, <1>9, <1>10, <1>11,
     <1>12, <1>13, <1>14, <1>15, <1>16, <1>17, <1>18, <1>19 DEF Next, OpenStep

LEMMA LinesStep == ASSUME LinesAssumption, LinesInv, [Next]_vars PROVE LinesInv'
BY StepLineTypes, StepBudget, StepRows, StepPaid, StepLineCap DEF LinesInv

LEMMA LinesInductive == ASSUME LinesAssumption PROVE Spec => []LinesInv
<1>1. Init => LinesInv
  BY LinesInit
<1>2. LinesInv /\ [Next]_vars => LinesInv'
  BY LinesStep
<1> QED
  BY <1>1, <1>2, PTL DEF Spec

-----------------------------------------------------------------------------
\* voice_agent_service.open_call: for any number of opens at once, the second
\* count, made when each call is a row, never lets the limit be passed.
THEOREM LinesAreCapped == ASSUME LinesAssumption PROVE Spec => []LineCap
<1>1. LinesInv => LineCap
  BY DEF LinesInv
<1> QED
  BY <1>1, LinesInductive, PTL

\* _sweep_orphans and _give_up: whoever fails or dies, no hold is given back under
\* a call whose browser has its answer.
THEOREM AnsweredStaysPaid == ASSUME LinesAssumption PROVE Spec => []AnsweredIsPaid
<1>1. LinesInv => AnsweredIsPaid
  BY DEF LinesInv, OpenIsPaid, AnsweredIsPaid
<1> QED
  BY <1>1, LinesInductive, PTL

\* _take_candidate_budget: however many relays overlap, what reaches the agent
\* was taken off the call's budget.
THEOREM BudgetIsKept == ASSUME LinesAssumption PROVE Spec => []RelayedIsSpent
<1>1. LinesInv => RelayedIsSpent
  BY DEF LinesInv
<1> QED
  BY <1>1, LinesInductive, PTL
-----------------------------------------------------------------------------
(* What an offer goes by: the lines that are still in use.                  *)

CallTypes ==
    /\ counted \in [Calls -> 0..Cardinality(Calls)]
    /\ proven \subseteq Calls /\ unasked \subseteq Calls
    /\ peer \in [Calls -> {"none", "up", "gone"}]
    /\ order \in Seq(Calls)
    /\ failures \in 0..MaxFailures

\* An answer is recorded only after the agent answered.
AnswersComeLater ==
    \A c \in Calls : row[c] = "answered" \/ opener[c] = "answer" => peer[c] # "none"

\* A call proves that it connected once its request is over; and once it ends it is
\* in the order that lingering_lines asks about.
ProvenAreOver ==
    \A o \in proven :
        /\ opener[o] \in {"done", "failed", "dead"} /\ row[o] \in {"answered", "ended"}
        /\ row[o] = "ended" => \E i \in 1..Len(order) : order[i] = o

\* Calls that connected, and that the agent still holds.
Connected == {o \in proven : peer[o] = "up"}

\* Of those, the ones that live are in the count a request made, until it has
\* asked for the rest; and what it asked for is true as long as it goes on.
ConnectedAreCounted ==
    \A c \in Calls :
        /\ opener[c] = "linger" => Cardinality(Connected \cap LiveRows) <= counted[c]
        /\ opener[c] \in {"hold", "row", "recount", "offer", "answer"} /\ c \notin unasked
              => Cardinality(Connected) < Limit

CallsInv == LinesInv /\ CallTypes /\ AnswersComeLater /\ ProvenAreOver /\ ConnectedAreCounted

LEMMA CallsInit == ASSUME LinesAssumption, Init PROVE CallsInv
<1>1. LinesInv
  BY LinesInit
<1>2. Cardinality(Calls) \in Nat /\ MaxFailures \in Nat
  BY SubsetsAreFinite DEF LinesAssumption, NumbersAssumption
<1>3. CallTypes
  BY <1>2 DEF Init, CallTypes
<1>4. AnswersComeLater /\ ProvenAreOver /\ ConnectedAreCounted
  BY DEF Init, AnswersComeLater, ProvenAreOver, ConnectedAreCounted
<1> QED
  BY <1>1, <1>3, <1>4 DEF CallsInv

\* Which steps change what.
LEMMA LinesEffects ==
    ASSUME [Next]_vars
    PROVE  /\ counted' = counted \/ \E c \in Calls : Counts(c)
           /\ unasked' = unasked \/ \E c \in Calls : Lingers(c)
           /\ peer' = peer \/ \E c \in Calls : Offers(c) \/ PeerDrops(c)
           /\ row' = row \/ \E c \in Calls : Dials(c) \/ Answers(c) \/ StampsGivenUp(c) \/ Settles(c)
           /\ order' = order \/ \E c \in Calls : StampsGivenUp(c) \/ Settles(c)
           /\ proven' = proven \/ \E c \in Calls : Proves(c)
           /\ failures' = failures \/ Fail
<1> USE DEF lines, call, budget
<1>1. ASSUME Scans PROVE UNCHANGED <<counted, unasked, peer, row, order, proven, failures>>
  BY <1>1 DEF Scans
<1>2. ASSUME NEW c \in Calls, Counts(c)
      PROVE  UNCHANGED <<unasked, peer, row, order, proven, failures>>
  BY <1>2 DEF Counts
<1>3. ASSUME NEW c \in Calls, Lingers(c)
      PROVE  UNCHANGED <<counted, peer, row, order, proven>> /\ (failures' = failures \/ Fail)
  BY <1>3 DEF Lingers
<1>4. ASSUME NEW c \in Calls, Holds(c) \/ GivesUp(c) \/ Dies(c) \/ Ages(c) \/ FreesOrphan(c)
      PROVE  /\ UNCHANGED <<counted, unasked, peer, row, order, proven>>
             /\ failures' = failures \/ Fail
  BY <1>4 DEF Holds, GivesUp, Dies, Ages, FreesOrphan
<1>5. ASSUME NEW c \in Calls, Dials(c) \/ Answers(c)
      PROVE  UNCHANGED <<counted, unasked, peer, order, proven>> /\ (failures' = failures \/ Fail)
  BY <1>5 DEF Dials, Answers
<1>6. ASSUME NEW c \in Calls, StampsGivenUp(c) \/ Settles(c)
      PROVE  UNCHANGED <<counted, unasked, peer, proven>> /\ (failures' = failures \/ Fail)
  BY <1>6 DEF StampsGivenUp, Settles
<1>7. ASSUME NEW c \in Calls, Recounts(c)
      PROVE  UNCHANGED <<counted, unasked, peer, row, order, proven, failures>>
  BY <1>7 DEF Recounts
<1>8. ASSUME NEW c \in Calls, Offers(c) \/ PeerDrops(c)
      PROVE  UNCHANGED <<counted, unasked, row, order, proven, failures>>
  BY <1>8 DEF Offers, PeerDrops
<1>9. ASSUME NEW c \in Calls, Proves(c)
      PROVE  UNCHANGED <<counted, unasked, peer, row, order, failures>>
  BY <1>9 DEF Proves
<1>10. ASSUME NEW r \in Relays, NEW c \in Calls, NEW n \in 1..MaxBatch, Reads(r, c, n)
       PROVE  UNCHANGED <<counted, unasked, peer, row, order, proven, failures>>
  BY <1>10 DEF Reads
<1>11. ASSUME NEW r \in Relays, Takes(r)
       PROVE  UNCHANGED <<counted, unasked, peer, row, order, proven>> /\ (failures' = failures \/ Fail)
  BY <1>11 DEF Takes
<1>12. CASE UNCHANGED vars
  BY <1>12 DEF vars
<1> HIDE DEF lines, call, budget
<1> QED
  BY <1>1, <1>2, <1>3, <1>4, <1>5, <1>6, <1>7, <1>8, <1>9, <1>10, <1>11, <1>12 DEF Next, OpenStep

\* How a request goes on: it starts only from idle, and ends for good.
LEMMA OpenersGoOn ==
    ASSUME LineTypes, [Next]_vars, NEW c \in Calls
    PROVE  /\ opener[c] \in {"done", "failed", "dead"} => opener'[c] = opener[c]
           /\ opener'[c] = "linger" => opener[c] = "linger" \/ Counts(c)
           /\ opener'[c] = "hold" => opener[c] = "hold" \/ Lingers(c)
           /\ opener'[c] = "row" => opener[c] \in {"row", "hold"}
           /\ opener'[c] = "recount" => opener[c] \in {"recount", "row"}
           /\ opener'[c] = "offer" => opener[c] \in {"offer", "recount"}
           /\ opener'[c] = "answer" => opener[c] = "answer" \/ (opener[c] = "offer" /\ Offers(c))
<1> USE DEF LineTypes, Goto
<1>1. ASSUME NEW d \in Calls, OpenStep(d), d # c PROVE opener'[c] = opener[c]
  BY <1>1 DEF OpenStep, Counts, Lingers, Holds, Dials, Recounts, Offers, Answers, GivesUp,
              StampsGivenUp, Dies
<1>2. CASE Counts(c)
  BY <1>2 DEF Counts
<1>3. CASE Lingers(c)
  BY <1>3 DEF Lingers
<1>4. CASE Holds(c) \/ Dials(c) \/ Recounts(c)
  BY <1>4 DEF Holds, Dials, Recounts
<1>5. CASE Offers(c)
  BY <1>5 DEF Offers
<1>6. CASE Answers(c) \/ GivesUp(c) \/ StampsGivenUp(c) \/ Dies(c)
  BY <1>6 DEF Answers, GivesUp, StampsGivenUp, Dies
<1>7. ASSUME Scans \/ (\E d \in Calls : PeerDrops(d) \/ Proves(d) \/ Settles(d) \/ Ages(d)
                                          \/ FreesOrphan(d))
      PROVE  opener' = opener
  BY <1>7 DEF Scans, PeerDrops, Proves, Settles, Ages, FreesOrphan, lines, call
<1>8. ASSUME (\E r \in Relays : Takes(r))
             \/ \E d \in Calls : \E r \in Relays : \E n \in 1..MaxBatch : Reads(r, d, n)
      PROVE  opener' = opener
  BY <1>8 DEF Takes, Reads, lines
<1>9. CASE UNCHANGED vars
  BY <1>9 DEF vars, lines
<1> QED
  BY <1>1, <1>2, <1>3, <1>4, <1>5, <1>6, <1>7, <1>8, <1>9 DEF Next, OpenStep

\* An end puts an answered call last in the order, and moves no other.
LEMMA EndOrders ==
    ASSUME LineTypes, CallTypes, [Next]_vars
    PROVE  /\ order' = order \/ \E c \in Calls : order' = Append(order, c)
           /\ order' \in Seq(Calls) /\ Len(order') \in Nat /\ Len(order) \in Nat
           /\ Len(order) <= Len(order') /\ \A i \in 1..Len(order) : order'[i] = order[i]
           /\ \A o \in Calls : row[o] = "answered" /\ row'[o] = "ended"
                 => \E i \in 1..Len(order') : order'[i] = o
<1>0. order \in Seq(Calls) /\ row \in [Calls -> {"none", "dialled", "answered", "ended"}]
  BY DEF LineTypes, CallTypes
<1>1. order' = order \/ \E c \in Calls : order' = Append(order, c)
  BY LinesEffects DEF StampsGivenUp, Settles, End
<1>2. /\ order' \in Seq(Calls) /\ Len(order') \in Nat /\ Len(order) \in Nat
      /\ Len(order) <= Len(order') /\ \A i \in 1..Len(order) : order'[i] = order[i]
  <2>1. CASE order' = order
    BY <1>0, <2>1
  <2>2. ASSUME NEW c \in Calls, order' = Append(order, c)
        PROVE  /\ order' \in Seq(Calls) /\ Len(order') = Len(order) + 1
               /\ \A i \in 1..Len(order) : order'[i] = order[i]
    BY <1>0, <2>2
  <2>3. Len(order) \in Nat
    BY <1>0
  <2> QED
    BY <1>1, <2>1, <2>2, <2>3
<1>3. ASSUME NEW o \in Calls, row[o] = "answered", row'[o] = "ended"
      PROVE  \E i \in 1..Len(order') : order'[i] = o
  <2>1. PICK c \in Calls : Dials(c) \/ Answers(c) \/ StampsGivenUp(c) \/ Settles(c)
    BY <1>3, LinesEffects
  <2>2. CASE Dials(c) \/ Answers(c)
    BY <1>0, <1>3, <2>2 DEF Dials, Answers
  <2>3. CASE StampsGivenUp(c) \/ Settles(c)
    <3>1. End(c)
      BY <1>3, <2>3 DEF StampsGivenUp, Settles
    <3>2. c = o
      BY <1>0, <1>3, <3>1 DEF End
    <3>3. order' = Append(order, o)
      BY <1>3, <3>1, <3>2 DEF End
    <3> QED
      BY <1>0, <3>3
  <2> QED
    BY <2>1, <2>2, <2>3
<1> QED
  BY <1>1, <1>2, <1>3

LEMMA StepCallTypes ==
    ASSUME LinesAssumption, LinesInv, CallTypes, [Next]_vars
    PROVE  CallTypes'
<1>0. LineTypes
  BY DEF LinesInv
<1>1. counted' \in [Calls -> 0..Cardinality(Calls)]
  <2>1. LiveRows \in SUBSET Calls
    BY DEF LiveRows
  <2>2. Cardinality(LiveRows) \in 0..Cardinality(Calls)
    BY <2>1, SubsetsAreFinite, FS_Subset DEF LinesAssumption
  <2> QED
    BY <2>2, LinesEffects DEF Counts, CallTypes
<1>2. proven' \subseteq Calls /\ unasked' \subseteq Calls
  BY LinesEffects DEF Proves, Lingers, CallTypes
<1>3. peer' \in [Calls -> {"none", "up", "gone"}]
  BY LinesEffects DEF Offers, PeerDrops, CallTypes
<1>4. order' \in Seq(Calls)
  BY <1>0, EndOrders
<1>5. failures' \in 0..MaxFailures
  BY LinesEffects DEF Fail, CallTypes, LinesAssumption, NumbersAssumption
<1> QED
  BY <1>1, <1>2, <1>3, <1>4, <1>5 DEF CallTypes

LEMMA StepAnswers ==
    ASSUME LineTypes, CallTypes, AnswersComeLater, [Next]_vars
    PROVE  AnswersComeLater'
<1>0. /\ row \in [Calls -> {"none", "dialled", "answered", "ended"}]
      /\ peer \in [Calls -> {"none", "up", "gone"}]
  BY DEF LineTypes, CallTypes
<1>1. ASSUME NEW c \in Calls, peer[c] # "none" PROVE peer'[c] # "none"
  BY <1>0, <1>1, LinesEffects DEF Offers, PeerDrops
<1>2. ASSUME NEW c \in Calls, row'[c] = "answered", row[c] # "answered"
      PROVE  opener[c] = "answer"
  <2>1. PICK d \in Calls : Dials(d) \/ Answers(d) \/ StampsGivenUp(d) \/ Settles(d)
    BY <1>2, LinesEffects
  <2>2. CASE Answers(d)
    BY <1>0, <1>2, <2>2 DEF Answers
  <2>3. CASE Dials(d)
    BY <1>0, <1>2, <2>3 DEF Dials
  <2>4. CASE StampsGivenUp(d) \/ Settles(d)
    BY <1>0, <1>2, <2>4 DEF StampsGivenUp, Settles, End
  <2> QED
    BY <2>1, <2>2, <2>3, <2>4
<1>3. ASSUME NEW c \in Calls, opener'[c] = "answer" PROVE peer'[c] # "none"
  <2>1. opener[c] = "answer" \/ (opener[c] = "offer" /\ Offers(c))
    BY <1>3, OpenersGoOn
  <2>2. CASE opener[c] = "answer"
    BY <1>1, <2>2 DEF AnswersComeLater
  <2>3. CASE opener[c] = "offer" /\ Offers(c)
    BY <1>0, <1>3, <2>3 DEF Offers, Goto, LineTypes
  <2> QED
    BY <2>1, <2>2, <2>3
<1> QED
  BY <1>1, <1>2, <1>3 DEF AnswersComeLater

LEMMA StepProven ==
    ASSUME LineTypes, CallTypes, RowComesLater, ProvenAreOver, [Next]_vars
    PROVE  ProvenAreOver'
<1>0. /\ row \in [Calls -> {"none", "dialled", "answered", "ended"}] /\ proven \subseteq Calls
  BY DEF LineTypes, CallTypes
<1>1. ASSUME NEW o \in Calls, opener[o] \in {"done", "failed", "dead"},
             row[o] \in {"answered", "ended"}
      PROVE  row'[o] \in {"answered", "ended"} /\ (row[o] = "ended" => row'[o] = "ended")
  <2>1. CASE row' = row
    BY <1>1, <2>1
  <2>2. ASSUME NEW c \in Calls, Dials(c) \/ Answers(c)
        PROVE  row'[o] = row[o]
    BY <1>0, <1>1, <2>2 DEF Dials, Answers
  <2>3. ASSUME NEW c \in Calls, StampsGivenUp(c) \/ Settles(c)
        PROVE  row'[o] = row[o] \/ row'[o] = "ended"
    BY <1>0, <1>1, <2>3 DEF StampsGivenUp, Settles, End
  <2> QED
    BY <1>1, <2>1, <2>2, <2>3, LinesEffects
<1>2. ASSUME NEW o \in proven'
      PROVE  /\ o \in Calls /\ opener[o] \in {"done", "failed", "dead"}
             /\ row[o] \in {"answered", "ended"} /\ (row[o] = "ended" => o \in proven)
  <2>1. CASE o \in proven
    BY <1>0, <2>1 DEF ProvenAreOver
  <2>2. CASE o \notin proven
    <3>1. PICK c \in Calls : Proves(c)
      BY <1>2, <2>2, LinesEffects
    <3>2. o = c
      BY <1>2, <2>2, <3>1 DEF Proves
    <3> QED
      BY <3>1, <3>2 DEF Proves, RowComesLater
  <2> QED
    BY <2>1, <2>2
<1>3. ASSUME NEW o \in proven'
      PROVE  /\ opener'[o] \in {"done", "failed", "dead"} /\ row'[o] \in {"answered", "ended"}
             /\ row'[o] = "ended" => \E i \in 1..Len(order') : order'[i] = o
  <2>1. opener'[o] = opener[o]
    BY <1>2, OpenersGoOn
  <2>2. CASE row[o] = "answered"
    BY <1>1, <1>2, <2>1, <2>2, EndOrders
  <2>3. CASE row[o] = "ended"
    <3>1. PICK i \in 1..Len(order) : order[i] = o
      BY <1>2, <2>3 DEF ProvenAreOver
    <3>2. i \in 1..Len(order') /\ order'[i] = o
      BY <3>1, EndOrders
    <3> QED
      BY <1>1, <1>2, <2>1, <3>2
  <2> QED
    BY <1>2, <2>2, <2>3
<1> QED
  BY <1>3 DEF ProvenAreOver

-----------------------------------------------------------------------------
\* Numbers from zero on that hold all below each of them have a greatest.
LEMMA GreatestBelow ==
    ASSUME NEW m \in Nat, NEW S \in SUBSET (0..m), 0 \in S,
           \A n \in S : \A k \in 0..n : k \in S
    PROVE  Max(S) \in S
<1> DEFINE c == Cardinality(S)
<1>1. IsFiniteSet(0..m)
  BY FS_Interval
<1>2. IsFiniteSet(S) /\ c \in Nat
  BY <1>1, FS_Subset, FS_CardinalityType
<1>3. ASSUME NEW n \in S PROVE n <= c - 1
  <2>1. n \in Nat /\ 0..n \in SUBSET S
    OBVIOUS
  <2>2. Cardinality(0..n) = n + 1
    BY <2>1, FS_Interval
  <2>3. Cardinality(0..n) <= c
    BY <1>2, <2>1, FS_Subset
  <2> QED
    BY <1>2, <2>1, <2>2, <2>3
<1>4. c - 1 \in Nat
  <2>1. 0 <= c - 1
    BY <1>3
  <2> QED
    BY <1>2, <2>1
<1>5. S \in SUBSET (0..(c - 1))
  BY <1>2, <1>3, <1>4
<1>6. IsFiniteSet(0..(c - 1)) /\ Cardinality(0..(c - 1)) = c
  BY <1>2, <1>4, FS_Interval
<1>7. S = 0..(c - 1)
  BY <1>5, <1>6, FS_Subset
<1>8. c - 1 \in S /\ \A n \in S : c - 1 >= n
  BY <1>2, <1>3, <1>4, <1>7
<1> QED
  BY <1>8 DEF Max

\* What is asked about: all that ended, but for some of the last that proved nothing.
LEMMA AskedIs ==
    ASSUME LinesAssumption, CallTypes
    PROVE  \E k \in 0..Len(order) :
              /\ Len(Asked) = Len(order) - k
              /\ \A i \in 1..(Len(order) - k) : Asked[i] = order[i]
              /\ \A j \in (Len(order) - k + 1)..Len(order) : order[j] \notin proven
<1> DEFINE unproven == {n \in 0..Exempt : /\ n <= Len(order)
                           /\ \A j \in (Len(order) - n + 1)..Len(order) : order[j] \notin proven}
           k == Max(unproven)
<1>1. Exempt \in Nat /\ order \in Seq(Calls) /\ Len(order) \in Nat
  BY DEF LinesAssumption, NumbersAssumption, CallTypes
<1>2. 0 \in unproven
  BY <1>1
<1>3. \A n \in unproven : \A m \in 0..n : m \in unproven
  BY <1>1
<1>4. unproven \in SUBSET (0..Exempt)
  OBVIOUS
<1>5. k \in unproven
  <2> HIDE DEF unproven
  <2> QED
    BY <1>1, <1>2, <1>3, <1>4, GreatestBelow
<1>6. /\ k \in 0..Len(order)
      /\ \A j \in (Len(order) - k + 1)..Len(order) : order[j] \notin proven
  <2>1. ASSUME NEW n \in unproven
        PROVE  /\ n \in 0..Len(order)
               /\ \A j \in (Len(order) - n + 1)..Len(order) : order[j] \notin proven
    BY <1>1
  <2> HIDE DEF k, unproven
  <2> QED
    BY <2>1, <1>5
<1>7. Asked = SubSeq(order, 1, Len(order) - k)
  BY DEF Asked
<1> HIDE DEF k, unproven
<1>8. /\ Len(SubSeq(order, 1, Len(order) - k)) = Len(order) - k
      /\ \A i \in 1..(Len(order) - k) : SubSeq(order, 1, Len(order) - k)[i] = order[i]
  BY <1>1, <1>6
<1> QED
  BY <1>6, <1>7, <1>8

\* So the answer of lingering_lines counts every call that connected and is over.
LEMMA StillHeldCounts ==
    ASSUME LinesAssumption, CallTypes, ProvenAreOver
    PROVE  /\ StillHeld \subseteq 1..Len(Asked) /\ Cardinality(StillHeld) \in Nat
           /\ Cardinality(Connected \ LiveRows) <= Cardinality(StillHeld)
<1> DEFINE T == {Asked[i] : i \in StillHeld}
           f == [i \in StillHeld |-> Asked[i]]
<1>1. StillHeld \subseteq 1..Len(Asked)
  BY DEF StillHeld
<1>0. Exempt \in Nat /\ order \in Seq(Calls) /\ Len(order) \in Nat
  BY DEF LinesAssumption, NumbersAssumption, CallTypes
<1>k. PICK k \in 0..Len(order) :
         /\ Len(Asked) = Len(order) - k
         /\ \A i \in 1..(Len(order) - k) : Asked[i] = order[i]
         /\ \A j \in (Len(order) - k + 1)..Len(order) : order[j] \notin proven
  BY AskedIs
<1>2. IsFiniteSet(StillHeld) /\ Cardinality(StillHeld) \in Nat
  <2>1. Len(Asked) \in Nat
    BY <1>0, <1>k
  <2>2. IsFiniteSet(1..Len(Asked))
    BY <2>1, FS_Interval
  <2> QED
    BY <1>1, <2>2, FS_Subset, FS_CardinalityType
<1>3. f \in Surjection(StillHeld, T)
  BY DEF Surjection
<1>4. IsFiniteSet(T) /\ Cardinality(T) <= Cardinality(StillHeld)
  <2> HIDE DEF f, T
  <2> QED
    BY <1>2, <1>3, FS_Surjection
<1>5. Connected \ LiveRows \subseteq T
  <2> SUFFICES ASSUME NEW o \in Connected, o \notin LiveRows PROVE o \in T
    OBVIOUS
  <2>1. o \in proven /\ o \in Calls /\ peer[o] = "up" /\ row[o] = "ended"
    BY DEF Connected, LiveRows, ProvenAreOver, CallTypes
  <2>2. PICK i \in 1..Len(order) : order[i] = o
    BY <2>1 DEF ProvenAreOver
  <2>a. i <= Len(order) - k
    BY <1>0, <1>k, <2>1, <2>2
  <2>3. i \in 1..Len(Asked) /\ Asked[i] = o
    BY <1>0, <1>k, <2>2, <2>a
  <2>4. i \in StillHeld
    BY <2>1, <2>3 DEF StillHeld
  <2> QED
    BY <2>3, <2>4
<1>6. IsFiniteSet(T) /\ Cardinality(Connected \ LiveRows) <= Cardinality(T)
  <2> HIDE DEF T
  <2> QED
    BY <1>4, <1>5, FS_Subset
<1>7. Cardinality(T) \in Nat /\ Cardinality(Connected \ LiveRows) \in Nat
  <2>1. Connected \ LiveRows \in SUBSET Calls
    BY DEF Connected, CallTypes
  <2> HIDE DEF T
  <2> QED
    BY <1>4, <2>1, SubsetsAreFinite, FS_CardinalityType
<1> QED
  BY <1>1, <1>2, <1>4, <1>6, <1>7

-----------------------------------------------------------------------------
\* While a request goes on, no call joins those that connected.
LEMMA ConnectedShrinks ==
    ASSUME LinesAssumption, LineTypes, CallTypes, ProvenAreOver, RowComesLater, [Next]_vars,
           NEW c \in Calls, opener[c] \notin {"idle", "done", "failed", "dead"}
    PROVE  /\ Connected' \subseteq Connected
           /\ Connected' \cap LiveRows' \subseteq Connected \cap LiveRows
<1>0. /\ row \in [Calls -> {"none", "dialled", "answered", "ended"}]
      /\ peer \in [Calls -> {"none", "up", "gone"}] /\ proven \subseteq Calls
  BY DEF LineTypes, CallTypes
<1>1. proven' = proven
  BY LinesEffects DEF Proves
<1>2. ASSUME NEW o \in proven, peer'[o] = "up" PROVE peer[o] = "up"
  <2>1. opener[o] # "offer"
    BY DEF ProvenAreOver
  <2>2. ASSUME NEW d \in Calls, Offers(d) PROVE peer[o] = "up"
    BY <1>0, <1>2, <2>1, <2>2 DEF Offers
  <2>3. ASSUME NEW d \in Calls, PeerDrops(d) PROVE peer[o] = "up"
    BY <1>0, <1>2, <2>3 DEF PeerDrops
  <2> QED
    BY <1>2, <2>2, <2>3, LinesEffects
<1>3. ASSUME NEW o \in proven, row'[o] \in {"dialled", "answered"}
      PROVE  row[o] \in {"dialled", "answered"}
  <2>1. opener[o] \notin {"row", "answer"}
    BY DEF ProvenAreOver
  <2>2. ASSUME NEW d \in Calls, Dials(d) \/ Answers(d) PROVE row'[o] = row[o]
    BY <1>0, <2>1, <2>2 DEF Dials, Answers
  <2>3. ASSUME NEW d \in Calls, StampsGivenUp(d) \/ Settles(d)
        PROVE  row'[o] = row[o] \/ row'[o] = "ended"
    BY <1>0, <2>3 DEF StampsGivenUp, Settles, End
  <2> QED
    BY <1>3, <2>2, <2>3, LinesEffects
<1>4. Connected' \subseteq Connected
  BY <1>1, <1>2 DEF Connected
<1> QED
  BY <1>0, <1>1, <1>3, <1>4 DEF Connected, LiveRows

LEMMA ConnectedIsFinite ==
    ASSUME LinesAssumption, CallTypes, NEW S \in SUBSET Connected
    PROVE  IsFiniteSet(S) /\ Cardinality(S) \in Nat
<1>1. S \in SUBSET Calls
  BY DEF Connected, CallTypes
<1> QED
  BY <1>1, SubsetsAreFinite

\* The count and the answer together bound what is in use.
LEMMA LingersBounds ==
    ASSUME LinesAssumption, CallTypes, ProvenAreOver, NEW c \in Calls, Lingers(c),
           Cardinality(Connected \cap LiveRows) <= counted[c],
           opener \in [Calls -> {"idle", "linger", "hold", "row", "recount", "offer",
                                 "answer", "release", "stamp", "done", "failed", "dead"}],
           opener'[c] = "hold", c \notin unasked'
    PROVE  Cardinality(Connected) < Limit
<1>1. counted[c] + Cardinality(StillHeld) < Limit
  <2>1. ~(Fail /\ Goto(c, "hold") /\ unasked' = unasked \cup {c})
    OBVIOUS
  <2>2. Goto(c, IF counted[c] + Cardinality(StillHeld) >= Limit THEN "failed" ELSE "hold")
    BY <2>1 DEF Lingers
  <2>3. opener'[c] = IF counted[c] + Cardinality(StillHeld) >= Limit THEN "failed" ELSE "hold"
    BY <2>2 DEF Goto
  <2>4. ~(counted[c] + Cardinality(StillHeld) >= Limit)
    BY <2>3
  <2>5. counted[c] \in 0..Cardinality(Calls) /\ Limit \in Nat
    BY DEF CallTypes, LinesAssumption, NumbersAssumption
  <2>6. counted[c] \in Nat /\ Cardinality(StillHeld) \in Nat
    BY <2>5, StillHeldCounts
  <2> QED
    BY <2>4, <2>5, <2>6
<1> DEFINE A == Connected \cap LiveRows
           B == Connected \ LiveRows
<1>2. IsFiniteSet(A) /\ IsFiniteSet(B) /\ Cardinality(A) \in Nat /\ Cardinality(B) \in Nat
  BY ConnectedIsFinite
<1>3. Connected = A \cup B /\ A \cap B = {}
  OBVIOUS
<1>4. Cardinality(B) <= Cardinality(StillHeld) /\ Cardinality(StillHeld) \in Nat
  BY StillHeldCounts
<1>5. Cardinality(A) <= counted[c] /\ counted[c] \in Nat /\ Limit \in Nat
  <2>1. counted[c] \in 0..Cardinality(Calls) /\ Limit \in Nat
    BY DEF CallTypes, LinesAssumption, NumbersAssumption
  <2> QED
    BY <2>1
<1> HIDE DEF A, B
<1>6. Cardinality(Connected) = Cardinality(A) + Cardinality(B)
  BY <1>2, <1>3, FS_Union, FS_EmptySet
<1> QED
  BY <1>1, <1>2, <1>4, <1>5, <1>6

LEMMA StepCounted ==
    ASSUME LinesAssumption, LinesInv, CallTypes, CallTypes', ProvenAreOver, ConnectedAreCounted,
           [Next]_vars
    PROVE  ConnectedAreCounted'
<1>0. LineTypes /\ RowComesLater
  BY DEF LinesInv
<1>n. /\ counted \in [Calls -> 0..Cardinality(Calls)] /\ Limit \in Nat
      /\ counted' \in [Calls -> 0..Cardinality(Calls)]
  BY DEF CallTypes, LinesAssumption, NumbersAssumption
<1>1. ASSUME NEW c \in Calls, opener'[c] = "linger"
      PROVE  Cardinality(Connected \cap LiveRows)' <= counted'[c]
  <2>1. CASE Counts(c)
    <3>1. counted'[c] = Cardinality(LiveRows) /\ UNCHANGED <<row, peer, proven>>
      BY <2>1, <1>n DEF Counts, call
    <3>2. (Connected \cap LiveRows)' = Connected \cap LiveRows
      BY <3>1 DEF Connected, LiveRows
    <3>3. LiveRows \in SUBSET Calls /\ Connected \cap LiveRows \in SUBSET LiveRows
      BY DEF LiveRows
    <3>4. Cardinality(Connected \cap LiveRows) <= Cardinality(LiveRows)
      BY <3>3, SubsetsAreFinite, FS_Subset
    <3> QED
      BY <3>1, <3>2, <3>4
  <2>2. CASE opener[c] = "linger"
    <3>1. Connected' \cap LiveRows' \subseteq Connected \cap LiveRows
      BY <1>0, <2>2, ConnectedShrinks
    <3>2. Connected \cap LiveRows \in SUBSET Connected
      OBVIOUS
    <3>3. /\ IsFiniteSet(Connected \cap LiveRows) /\ Cardinality(Connected \cap LiveRows) \in Nat
          /\ Cardinality((Connected \cap LiveRows)') <= Cardinality(Connected \cap LiveRows)
      BY <3>1, <3>2, ConnectedIsFinite, FS_Subset
    <3>4. Cardinality((Connected \cap LiveRows)') \in Nat
      BY <3>1, <3>3, FS_Subset, FS_CardinalityType
    <3>5. counted'[c] = counted[c]
      BY <2>2, <1>n, LinesEffects DEF Counts
    <3>6. Cardinality(Connected \cap LiveRows) <= counted[c]
      BY <2>2 DEF ConnectedAreCounted
    <3> QED
      BY <1>n, <3>3, <3>4, <3>5, <3>6
  <2> QED
    BY <1>0, <1>1, <2>1, <2>2, OpenersGoOn
<1>2. ASSUME NEW c \in Calls, opener'[c] \in {"hold", "row", "recount", "offer", "answer"},
             c \notin unasked'
      PROVE  Cardinality(Connected)' < Limit
  <2>1. \/ opener[c] \in {"hold", "row", "recount", "offer", "answer"}
        \/ opener'[c] = "hold" /\ Lingers(c)
    BY <1>0, <1>2, OpenersGoOn
  <2>2. opener[c] \notin {"idle", "done", "failed", "dead"}
    BY <2>1 DEF Lingers
  <2>3. c \notin unasked
    BY <1>2, LinesEffects DEF Lingers
  <2>4. Cardinality(Connected) < Limit
    <3>1. CASE opener[c] \in {"hold", "row", "recount", "offer", "answer"}
      BY <2>3, <3>1 DEF ConnectedAreCounted
    <3>2. CASE opener'[c] = "hold" /\ Lingers(c)
      <4>1. opener[c] = "linger"
        BY <3>2 DEF Lingers
      <4>2. Cardinality(Connected \cap LiveRows) <= counted[c]
        BY <4>1 DEF ConnectedAreCounted
      <4> QED
        BY <1>0, <1>2, <3>2, <4>2, LingersBounds DEF LineTypes
    <3> QED
      BY <2>1, <3>1, <3>2
  <2>5. Connected' \subseteq Connected
    BY <1>0, <2>2, ConnectedShrinks
  <2>6. /\ IsFiniteSet(Connected) /\ Cardinality(Connected) \in Nat
        /\ Cardinality(Connected') <= Cardinality(Connected)
    BY <2>5, ConnectedIsFinite, FS_Subset
  <2>7. Cardinality(Connected') \in Nat
    BY <2>5, <2>6, FS_Subset, FS_CardinalityType
  <2> QED
    BY <1>n, <2>4, <2>6, <2>7
<1> QED
  BY <1>1, <1>2 DEF ConnectedAreCounted

LEMMA CallsInductive == ASSUME LinesAssumption PROVE Spec => []CallsInv
<1>1. Init => CallsInv
  BY CallsInit
<1>2. CallsInv /\ [Next]_vars => CallsInv'
  <2> SUFFICES ASSUME CallsInv, [Next]_vars PROVE CallsInv'
    OBVIOUS
  <2>1. LineTypes /\ RowComesLater
    BY DEF CallsInv, LinesInv
  <2>2. LinesInv' /\ CallTypes'
    BY LinesStep, StepCallTypes DEF CallsInv
  <2> QED
    BY <2>1, <2>2, StepAnswers, StepProven, StepCounted DEF CallsInv
<1> QED
  BY <1>1, <1>2, PTL DEF Spec

\* voice_agent_service and voice_call_lifecycle: everything is in its set, and a
\* call is answered only by an agent that was reached.
THEOREM LinesTypeCorrect == ASSUME LinesAssumption PROVE Spec => []TypeOK
<1>1. CallsInv => TypeOK
  BY DEF CallsInv, LinesInv, LineTypes, BudgetTypes, CallTypes, AnswersComeLater, OrphansAreOver,
         TypeOK
<1> QED
  BY <1>1, CallsInductive, PTL

\* lingering_lines: for any number of calls, an offer goes out only while the calls
\* that connected, ended and are still held leave a line free.
THEOREM LingeringLinesCount == ASSUME LinesAssumption PROVE Spec => []LingeringCounts
<1>1. CallsInv => LingeringCounts
  <2> SUFFICES ASSUME CallsInv, NEW c \in Calls, opener[c] = "offer", c \notin unasked
               PROVE  Cardinality({o \in proven : row[o] = "ended" /\ peer[o] = "up"}) < Limit
    BY DEF LingeringCounts
  <2> DEFINE E == {o \in proven : row[o] = "ended" /\ peer[o] = "up"}
  <2>1. Cardinality(Connected) < Limit /\ CallTypes
    BY DEF CallsInv, ConnectedAreCounted
  <2>2. E \in SUBSET Connected
    BY DEF Connected
  <2>3. Limit \in Nat
    BY DEF LinesAssumption, NumbersAssumption
  <2> HIDE DEF E
  <2>4. /\ IsFiniteSet(Connected) /\ Cardinality(Connected) \in Nat /\ Cardinality(E) \in Nat
        /\ Cardinality(E) <= Cardinality(Connected)
    BY <2>1, <2>2, ConnectedIsFinite, FS_Subset
  <2> QED
    BY <2>1, <2>3, <2>4 DEF E
<1> QED
  BY <1>1, CallsInductive, PTL
-----------------------------------------------------------------------------
(* The inductive invariant.                                                 *)

\* A saver writes its row in its last step.
RowsAreDone == \A s \in r_rows : r_spc[s] = "done"

\* A deletion counts the tables in order, and before it commits it has counted none.
CountsInOrder ==
    \A d \in Deleters :
        /\ r_dpc[d] \in {"idle", "delete"} => r_counted[d].tables = 0
        /\ r_dpc[d] = "count" => r_counted[d].tables < Len(Tables)
        /\ r_dpc[d] = "unlink" => r_counted[d].tables = Len(Tables) /\ r_counted[d].found = {}

\* What a deletion is to heed are rows of its file, of savers that are done.
ReliedAreDone ==
    \A d \in Deleters :
        /\ r_dpc[d] = "idle" => r_relied[d] = {}
        /\ \A s \in r_relied[d] : r_spc[s] = "done" /\ Key[s] = Key[r_gone[d]]

\* Of those, a row that is still there was found when its table was counted.
FoundIfCounted ==
    \A d \in Deleters : r_dpc[d] \in {"count", "unlink"} =>
        \A s \in r_relied[d] \cap r_rows : \A i \in 1..r_counted[d].tables :
            Table[s] = Tables[i] => s \in r_counted[d].found

AudioInv ==
    R!TypeOK /\ RowsAreDone /\ CountsInOrder /\ ReliedAreDone /\ FoundIfCounted

-----------------------------------------------------------------------------
LEMMA TablesAreASequence ==
    ASSUME AudioAssumption
    PROVE  /\ Len(Tables) \in Nat \ {0}
           /\ \A s \in Savers : \E i \in 1..Len(Tables) : Table[s] = Tables[i]
<1>1. Tables \in Seq(R!ToSet(Tables)) /\ Tables # <<>> /\ Table \in [Savers -> R!ToSet(Tables)]
  BY DEF AudioAssumption, R!TableAssumption
<1>2. DOMAIN Tables = 1..Len(Tables) /\ Len(Tables) \in Nat
  BY <1>1
<1>3. Len(Tables) # 0
  BY <1>1
<1> QED
  BY <1>1, <1>2, <1>3 DEF R!ToSet

LEMMA AudioInit == ASSUME AudioAssumption, R!Init PROVE AudioInv
<1>1. (CHOOSE s \in Savers : TRUE) \in Savers
  BY DEF AudioAssumption
<1>2. R!TypeOK
  BY <1>1, TablesAreASequence DEF R!Init, R!TypeOK, AudioAssumption, R!BoundAssumption
<1>3. RowsAreDone /\ ReliedAreDone
  BY DEF R!Init, RowsAreDone, ReliedAreDone
<1>4. CountsInOrder
  BY DEF R!Init, CountsInOrder
<1>5. FoundIfCounted
  BY DEF R!Init, FoundIfCounted
<1> QED
  BY <1>2, <1>3, <1>4, <1>5 DEF AudioInv

-----------------------------------------------------------------------------
(* Each part is kept by every step.                                         *)

\* What a step of a saver leaves alone, and what it does to rows.
LEMMA SaverStep ==
    ASSUME R!TypeOK, NEW s \in Savers,
           R!Begin(s) \/ R!Discard(s) \/ R!Commit(s) \/ R!Looks(s) \/ R!Replaces(s)
              \/ R!Saves(s) \/ R!Killed(s)
    PROVE  /\ UNCHANGED <<r_dpc, r_gone, r_counted, r_relied>>
           /\ r_spc[s] # "done" /\ \A t \in Savers : t # s => r_spc'[t] = r_spc[t]
           /\ r_rows' = r_rows \/ (r_rows' = r_rows \cup {s} /\ r_spc'[s] = "done")
<1>1. r_spc \in [Savers -> {"idle", "write", "look", "replace", "save", "done", "dead"}]
  BY DEF R!TypeOK
<1>2. UNCHANGED <<r_dpc, r_gone, r_counted, r_relied>>
  BY DEF R!Begin, R!Discard, R!Commit, R!Looks, R!Replaces, R!Saves, R!Killed, R!deleting
<1>3. r_spc[s] # "done" /\ \E step : r_spc' = [r_spc EXCEPT ![s] = step]
  BY <1>1 DEF R!Begin, R!Discard, R!Commit, R!Looks, R!Replaces, R!Saves, R!Killed, R!Goto
<1>4. r_rows' = r_rows \/ (r_rows' = r_rows \cup {s} /\ r_spc'[s] = "done")
  <2>1. CASE R!Saves(s)
    BY <1>1, <2>1 DEF R!Saves, R!Goto
  <2>2. CASE R!Begin(s) \/ R!Discard(s) \/ R!Commit(s) \/ R!Looks(s) \/ R!Replaces(s) \/ R!Killed(s)
    BY <2>2 DEF R!Begin, R!Discard, R!Commit, R!Looks, R!Replaces, R!Killed
  <2> QED
    BY <2>1, <2>2
<1> QED
  BY <1>1, <1>2, <1>3, <1>4

\* What a step of a deleter does: rows only go, and savers are left alone.
LEMMA DeleterStep ==
    ASSUME NEW d \in Deleters,
           (\E s \in Savers : R!Finds(d, s)) \/ R!Deletes(d) \/ R!Asks(d) \/ R!Unlinks(d) \/ R!DeleterKilled(d)
    PROVE  r_spc' = r_spc /\ r_rows' \subseteq r_rows
  BY DEF R!Finds, R!Deletes, R!Asks, R!Unlinks, R!DeleterKilled, R!saving

LEMMA StepAudioTypes == ASSUME AudioAssumption, AudioInv, R!Next PROVE R!TypeOK'
<1> USE DEF AudioInv, R!Fail, R!Goto, R!saving, R!deleting
<1>b. MaxFailures \in Nat
  BY DEF AudioAssumption, R!BoundAssumption
<1>1. ASSUME NEW s \in Savers, R!Begin(s) PROVE R!TypeOK'
  BY <1>1 DEF R!Begin, R!TypeOK
<1>2. ASSUME NEW s \in Savers, R!Discard(s) PROVE R!TypeOK'
  BY <1>2 DEF R!Discard, R!TypeOK
<1>3. ASSUME NEW s \in Savers, R!Commit(s) PROVE R!TypeOK'
  BY <1>3 DEF R!Commit, R!TypeOK
<1>4. ASSUME NEW s \in Savers, R!Looks(s) PROVE R!TypeOK'
  BY <1>4 DEF R!Looks, R!TypeOK
<1>5. ASSUME NEW s \in Savers, R!Replaces(s) PROVE R!TypeOK'
  <2>1. r_files' \subseteq r_files \cup {Key[s]} /\ Key[s] \in {Key[t] : t \in Savers}
        /\ r_temp' = r_temp \ {s}
           /\ (r_spc' = [r_spc EXCEPT ![s] = "save"] \/ r_spc' = [r_spc EXCEPT ![s] = "done"])
    BY <1>5 DEF R!Replaces
  <2>2. r_broken' \in 0..MaxFailures
    BY <1>5, <1>b DEF R!Replaces, R!TypeOK
  <2>3. r_files' \subseteq {Key[t] : t \in Savers}
    BY <2>1 DEF R!TypeOK
  <2>4. /\ r_spc' \in [Savers -> {"idle", "write", "look", "replace", "save", "done", "dead"}]
        /\ r_temp' \subseteq {t \in Savers : r_spc'[t] \in {"write", "look", "replace", "dead"}}
    BY <2>1 DEF R!TypeOK
  <2> QED
    BY <1>5, <2>2, <2>3, <2>4 DEF R!Replaces, R!TypeOK
<1>6. ASSUME NEW s \in Savers, R!Saves(s) PROVE R!TypeOK'
  BY <1>6, <1>b DEF R!Saves, R!TypeOK
<1>7. ASSUME NEW s \in Savers, R!Killed(s) PROVE R!TypeOK'
  BY <1>7, <1>b DEF R!Killed, R!TypeOK
<1>8. ASSUME NEW d \in Deleters, NEW s \in Savers, R!Finds(d, s) PROVE R!TypeOK'
  BY <1>8 DEF R!Finds, R!TypeOK
<1>9. ASSUME NEW d \in Deleters, R!Deletes(d) PROVE R!TypeOK'
  BY <1>9 DEF R!Deletes, R!TypeOK, R!Naming
<1>10. ASSUME NEW d \in Deleters, R!Asks(d) PROVE R!TypeOK'
  <2>1. r_counted[d].tables \in 0..Len(Tables) /\ r_counted[d].tables < Len(Tables)
        /\ r_counted[d].found \in SUBSET Savers
    BY <1>10 DEF R!Asks, R!TypeOK, CountsInOrder
  <2> DEFINE new == [tables |-> r_counted[d].tables + 1,
                     found |-> r_counted[d].found \cup {s \in R!Naming(Key[r_gone[d]]) :
                                  Table[s] = Tables[r_counted[d].tables + 1]}]
  <2>2. r_counted' = [r_counted EXCEPT ![d] = new]
    BY <1>10 DEF R!Asks
  <2>3. new \in [tables : 0..Len(Tables), found : SUBSET Savers]
    <3>1. R!Naming(Key[r_gone[d]]) \subseteq Savers
      BY DEF R!Naming, R!TypeOK
    <3>2. r_counted[d].tables + 1 \in 0..Len(Tables)
      BY <2>1, TablesAreASequence
    <3> QED
      BY <2>1, <3>1, <3>2
  <2>4. r_counted' \in [Deleters -> [tables : 0..Len(Tables), found : SUBSET Savers]]
    BY <2>2, <2>3 DEF R!TypeOK
  <2>5. r_dpc' \in [Deleters -> {"idle", "delete", "count", "unlink", "done"}]
    BY <1>10 DEF R!Asks, R!TypeOK
  <2> QED
    BY <1>10, <2>4, <2>5 DEF R!Asks, R!TypeOK
<1>11. ASSUME NEW d \in Deleters, R!Unlinks(d) PROVE R!TypeOK'
  BY <1>11, <1>b DEF R!Unlinks, R!TypeOK
<1>12. ASSUME NEW d \in Deleters, R!DeleterKilled(d) PROVE R!TypeOK'
  BY <1>12, <1>b DEF R!DeleterKilled, R!TypeOK
<1> QED
  BY <1>1, <1>2, <1>3, <1>4, <1>5, <1>6, <1>7, <1>8, <1>9, <1>10, <1>11, <1>12 DEF R!Next

LEMMA StepAudioRows == ASSUME AudioAssumption, AudioInv, R!Next PROVE RowsAreDone'
<1>1. ASSUME NEW s \in Savers,
             R!Begin(s) \/ R!Discard(s) \/ R!Commit(s) \/ R!Looks(s) \/ R!Replaces(s)
                \/ R!Saves(s) \/ R!Killed(s)
      PROVE  RowsAreDone'
  <2>1. r_rows \subseteq Savers
    BY DEF AudioInv, R!TypeOK
  <2> QED
    BY <1>1, <2>1, SaverStep DEF AudioInv, RowsAreDone
<1>2. ASSUME NEW d \in Deleters,
             (\E s \in Savers : R!Finds(d, s)) \/ R!Deletes(d) \/ R!Asks(d) \/ R!Unlinks(d) \/ R!DeleterKilled(d)
      PROVE  RowsAreDone'
  BY <1>2, DeleterStep DEF AudioInv, RowsAreDone
<1> QED
  BY <1>1, <1>2 DEF R!Next

LEMMA StepCounts == ASSUME AudioAssumption, AudioInv, R!Next PROVE CountsInOrder'
<1>1. ASSUME NEW s \in Savers,
             R!Begin(s) \/ R!Discard(s) \/ R!Commit(s) \/ R!Looks(s) \/ R!Replaces(s)
                \/ R!Saves(s) \/ R!Killed(s)
      PROVE  CountsInOrder'
  BY <1>1, SaverStep DEF AudioInv, CountsInOrder
<1> USE DEF AudioInv, CountsInOrder
<1>t. r_dpc \in [Deleters -> {"idle", "delete", "count", "unlink", "done"}]
      /\ r_counted \in [Deleters -> [tables : 0..Len(Tables), found : SUBSET Savers]]
  BY DEF R!TypeOK
<1>2. ASSUME NEW d \in Deleters, NEW s \in Savers, R!Finds(d, s) PROVE CountsInOrder'
  BY <1>2, <1>t DEF R!Finds
<1>3. ASSUME NEW d \in Deleters, R!Deletes(d) PROVE CountsInOrder'
  <2>1. r_counted' = r_counted /\ r_dpc' = [r_dpc EXCEPT ![d] = "count"] /\ r_counted[d].tables = 0
    BY <1>3 DEF R!Deletes
  <2>2. 0 < Len(Tables)
    BY TablesAreASequence
  <2> QED
    BY <2>1, <2>2, <1>t
<1>4. ASSUME NEW d \in Deleters, R!Asks(d) PROVE CountsInOrder'
  <2> DEFINE new == [tables |-> r_counted[d].tables + 1,
                     found |-> r_counted[d].found \cup {s \in R!Naming(Key[r_gone[d]]) :
                                  Table[s] = Tables[r_counted[d].tables + 1]}]
  <2>1. r_counted' = [r_counted EXCEPT ![d] = new] /\ r_dpc[d] = "count"
    BY <1>4 DEF R!Asks
  <2>2. r_counted'[d] = new
    BY <2>1, <1>t
  <2>3. r_dpc' = [r_dpc EXCEPT ![d] = IF new.tables < Len(Tables) THEN "count"
                                  ELSE IF new.found = {} THEN "unlink" ELSE "done"]
    BY <1>4, <2>2 DEF R!Asks
  <2>4. new.tables \in Nat /\ new.tables <= Len(Tables) /\ Len(Tables) \in Nat
    BY <2>1, <1>t, TablesAreASequence
  <2> HIDE DEF new
  <2>5. \A e \in Deleters : e # d => r_counted'[e] = r_counted[e] /\ r_dpc'[e] = r_dpc[e]
    BY <2>1, <2>3, <1>t
  <2>6. r_dpc'[d] \notin {"idle", "delete"} /\ (r_dpc'[d] = "count" => new.tables < Len(Tables))
        /\ (r_dpc'[d] = "unlink" => new.tables = Len(Tables) /\ new.found = {})
    BY <2>3, <2>4, <1>t
  <2> QED
    BY <2>2, <2>5, <2>6
<1>5. ASSUME NEW d \in Deleters, R!Unlinks(d) \/ R!DeleterKilled(d) PROVE CountsInOrder'
  BY <1>5, <1>t DEF R!Unlinks, R!DeleterKilled
<1> QED
  BY <1>1, <1>2, <1>3, <1>4, <1>5 DEF R!Next

LEMMA StepRelied == ASSUME AudioAssumption, AudioInv, R!Next PROVE ReliedAreDone'
<1>t. r_gone \in [Deleters -> Savers] /\ r_relied \in [Deleters -> SUBSET Savers]
      /\ r_dpc \in [Deleters -> {"idle", "delete", "count", "unlink", "done"}]
  BY DEF AudioInv, R!TypeOK
<1>1. ASSUME NEW s \in Savers,
             R!Begin(s) \/ R!Discard(s) \/ R!Commit(s) \/ R!Looks(s) \/ R!Replaces(s)
                \/ R!Saves(s) \/ R!Killed(s)
      PROVE  ReliedAreDone'
  <2>1. /\ UNCHANGED <<r_gone, r_relied>> /\ r_spc[s] # "done"
        /\ \A t \in Savers : t # s => r_spc'[t] = r_spc[t]
    BY <1>1, SaverStep DEF AudioInv
  <2> SUFFICES ASSUME NEW d \in Deleters
               PROVE  /\ r_dpc'[d] = "idle" => r_relied'[d] = {}
                      /\ \A t \in r_relied'[d] : r_spc'[t] = "done" /\ Key[t] = Key[r_gone'[d]]
    BY DEF ReliedAreDone
  <2>2. UNCHANGED r_dpc
    BY <1>1, SaverStep DEF AudioInv
  <2>3. \A t \in r_relied[d] : t \in Savers /\ r_spc[t] = "done" /\ Key[t] = Key[r_gone[d]]
    BY <1>t DEF AudioInv, ReliedAreDone
  <2> QED
    BY <2>1, <2>2, <2>3 DEF AudioInv, ReliedAreDone
<1>2. ASSUME NEW d \in Deleters, NEW s \in Savers, R!Finds(d, s) PROVE ReliedAreDone'
  <2>1. r_relied[d] = {} /\ UNCHANGED <<r_spc, r_relied>>
    BY <1>2 DEF R!Finds, R!saving, AudioInv, ReliedAreDone
  <2>2. r_dpc'[d] = "delete" /\ \A e \in Deleters : e # d => r_gone'[e] = r_gone[e]
        /\ r_dpc'[e] = r_dpc[e]
    BY <1>2, <1>t DEF R!Finds
  <2> QED
    BY <2>1, <2>2 DEF AudioInv, ReliedAreDone
<1>3. ASSUME NEW d \in Deleters, R!Deletes(d) PROVE ReliedAreDone'
  <2>1. UNCHANGED <<r_spc, r_gone>> /\ r_relied'[d] \subseteq R!Naming(Key[r_gone[d]])
        /\ r_dpc'[d] = "count"
        /\ \A e \in Deleters : e # d => r_relied'[e] = r_relied[e] /\ r_dpc'[e] = r_dpc[e]
    BY <1>3, <1>t DEF R!Deletes
  <2>2. \A s \in R!Naming(Key[r_gone[d]]) : r_spc[s] = "done" /\ Key[s] = Key[r_gone[d]]
    BY DEF R!Naming, AudioInv, RowsAreDone
  <2> QED
    BY <2>1, <2>2 DEF AudioInv, ReliedAreDone
<1>4. ASSUME NEW d \in Deleters,
          R!Asks(d) \/ R!Unlinks(d) \/ R!DeleterKilled(d) PROVE ReliedAreDone'
  <2>1. UNCHANGED <<r_spc, r_gone, r_relied>> /\ r_dpc'[d] # "idle"
        /\ \A e \in Deleters : e # d => r_dpc'[e] = r_dpc[e]
    BY <1>4, <1>t DEF R!Asks, R!Unlinks, R!DeleterKilled, R!saving
  <2> QED
    BY <2>1 DEF AudioInv, ReliedAreDone
<1> QED
  BY <1>1, <1>2, <1>3, <1>4 DEF R!Next

LEMMA StepFound == ASSUME AudioAssumption, AudioInv, R!Next PROVE FoundIfCounted'
<1>t. /\ r_gone \in [Deleters -> Savers] /\ r_relied \in [Deleters -> SUBSET Savers]
      /\ r_dpc \in [Deleters -> {"idle", "delete", "count", "unlink", "done"}]
      /\ r_counted \in [Deleters -> [tables : 0..Len(Tables), found : SUBSET Savers]]
  BY DEF AudioInv, R!TypeOK
<1>1. ASSUME NEW s \in Savers,
             R!Begin(s) \/ R!Discard(s) \/ R!Commit(s) \/ R!Looks(s) \/ R!Replaces(s)
                \/ R!Saves(s) \/ R!Killed(s)
      PROVE  FoundIfCounted'
  <2>1. UNCHANGED <<r_dpc, r_gone, r_counted, r_relied>> /\ r_rows' \subseteq r_rows \cup {s}
        /\ r_spc[s] # "done"
    BY <1>1, SaverStep DEF AudioInv
  <2>2. \A d \in Deleters : s \notin r_relied[d]
    BY <2>1 DEF AudioInv, ReliedAreDone
  <2> QED
    BY <2>1, <2>2 DEF AudioInv, FoundIfCounted
<1>2. ASSUME NEW d \in Deleters, NEW s \in Savers, R!Finds(d, s) PROVE FoundIfCounted'
  <2>1. UNCHANGED <<r_rows, r_counted, r_relied>> /\ r_dpc' = [r_dpc EXCEPT ![d] = "delete"]
    BY <1>2 DEF R!Finds, R!saving
  <2> QED
    BY <2>1, <1>t DEF AudioInv, FoundIfCounted
<1>3. ASSUME NEW d \in Deleters, R!Deletes(d) PROVE FoundIfCounted'
  <2>1. r_counted' = r_counted /\ r_rows' \subseteq r_rows /\ r_dpc[d] = "delete"
        /\ \A e \in Deleters : e # d => r_dpc'[e] = r_dpc[e] /\ r_relied'[e] = r_relied[e]
    BY <1>3, <1>t DEF R!Deletes
  <2>2. 1..r_counted[d].tables = {}
    BY <2>1 DEF AudioInv, CountsInOrder
  <2> QED
    BY <2>1, <2>2 DEF AudioInv, FoundIfCounted
<1>4. ASSUME NEW d \in Deleters, R!Asks(d) PROVE FoundIfCounted'
  <2> DEFINE t   == r_counted[d].tables + 1
             now == {s \in R!Naming(Key[r_gone[d]]) : Table[s] = Tables[t]}
  <2>1. UNCHANGED <<r_rows, r_relied>> /\ r_dpc[d] = "count"
        /\ r_counted' = [r_counted EXCEPT ![d] = [tables |-> t, found |-> @.found \cup now]]
        /\ \A e \in Deleters : e # d => r_dpc'[e] = r_dpc[e]
    BY <1>4, <1>t DEF R!Asks, R!saving
  <2>2. r_counted'[d].tables = t /\ r_counted'[d].found = r_counted[d].found \cup now
        /\ \A e \in Deleters : e # d => r_counted'[e] = r_counted[e]
    BY <2>1, <1>t
  <2>3. ASSUME NEW s \in r_relied[d] \cap r_rows, NEW i \in 1..t, Table[s] = Tables[i]
        PROVE  s \in r_counted[d].found \cup now
    <3>1. CASE i = t
      <4>1. Key[s] = Key[r_gone[d]]
        BY <2>3 DEF AudioInv, ReliedAreDone
      <4> QED
        BY <2>3, <3>1, <4>1 DEF R!Naming
    <3>2. CASE i # t
      <4>1. r_counted[d].tables \in Nat
        BY <1>t
      <4>2. i \in 1..r_counted[d].tables
        BY <3>2, <4>1
      <4> QED
        BY <2>1, <2>3, <4>2 DEF AudioInv, FoundIfCounted
    <3> QED
      BY <3>1, <3>2
  <2> HIDE DEF t, now
  <2> QED
    BY <2>1, <2>2, <2>3 DEF AudioInv, FoundIfCounted
<1>5. ASSUME NEW d \in Deleters, R!Unlinks(d) \/ R!DeleterKilled(d) PROVE FoundIfCounted'
  <2>1. UNCHANGED <<r_rows, r_counted, r_relied>> /\ r_dpc' = [r_dpc EXCEPT ![d] = "done"]
    BY <1>5 DEF R!Unlinks, R!DeleterKilled, R!saving
  <2> QED
    BY <2>1, <1>t DEF AudioInv, FoundIfCounted
<1> QED
  BY <1>1, <1>2, <1>3, <1>4, <1>5 DEF R!Next

-----------------------------------------------------------------------------
LEMMA AudioInductive == ASSUME AudioAssumption PROVE R!Spec => []AudioInv
<1>1. R!Init => AudioInv
  BY AudioInit
<1>2. AudioInv /\ [R!Next]_(R!vars) => AudioInv'
  <2> SUFFICES ASSUME AudioInv, [R!Next]_(R!vars) PROVE AudioInv'
    OBVIOUS
  <2>1. CASE R!Next
    BY <2>1, StepAudioTypes, StepAudioRows, StepCounts, StepRelied, StepFound DEF AudioInv
  <2>2. CASE UNCHANGED R!vars
    BY <2>2 DEF R!vars, R!saving, R!deleting, AudioInv, R!TypeOK, RowsAreDone, CountsInOrder,
       ReliedAreDone,
                FoundIfCounted
  <2> QED
    BY <2>1, <2>2
<1> QED
  BY <1>1, <1>2, PTL DEF R!Spec

\* recording_store: only a writer at work, or one that was killed, leaves a
\* temporary file; everything else is in its set.
THEOREM AudioTypes == ASSUME AudioAssumption PROVE R!Spec => []R!TypeOK
<1>1. AudioInv => R!TypeOK
  BY DEF AudioInv
<1> QED
  BY <1>1, AudioInductive, PTL

\* release_key: for any tables, savers and deleters, a file goes only when the rows
\* that named it at the deletion are gone.
THEOREM SharedFilesAreKept == ASSUME AudioAssumption PROVE R!Spec => R!SharedFileKept
<1> DEFINE Kept == \A d \in Deleters :
                      r_dpc[d] = "unlink" /\ r_files' # r_files => r_relied[d] \cap r_rows = {}
<1>1. AudioInv /\ [R!Next]_(R!vars) => [Kept]_(R!vars)
  <2> SUFFICES ASSUME AudioInv, NEW d \in Deleters,
      r_dpc[d] = "unlink" PROVE r_relied[d] \cap r_rows = {}
    OBVIOUS
  <2>1. r_counted[d].tables = Len(Tables) /\ r_counted[d].found = {}
    BY DEF AudioInv, CountsInOrder
  <2>2. ASSUME NEW s \in r_relied[d] \cap r_rows PROVE FALSE
    <3>1. s \in Savers
      BY DEF AudioInv, R!TypeOK
    <3>2. PICK i \in 1..Len(Tables) : Table[s] = Tables[i]
      BY <3>1, TablesAreASequence
    <3> QED
      BY <2>1, <3>2 DEF AudioInv, FoundIfCounted
  <2> QED
    BY <2>2
<1> QED
  BY <1>1, AudioInductive, PTL DEF R!Spec, R!SharedFileKept
-----------------------------------------------------------------------------
(* The arithmetic, from division up to a charge.                            *)

LEMMA DivBounds ==
    ASSUME NEW a \in Nat, NEW u \in Nat, u > 0
    PROVE  /\ a \div u \in Nat /\ u * (a \div u) <= a /\ a < u * ((a \div u) + 1)
BY SMT

LEMMA TimesMono ==
    ASSUME NEW k \in Nat, NEW x \in Int, NEW y \in Int, x <= y
    PROVE  x * k <= y * k /\ x * k \in Int /\ y * k \in Int
BY SMT

LEMMA DivMono ==
    ASSUME NEW a \in Nat, NEW b \in Nat, a <= b, NEW u \in Nat, u > 0
    PROVE  a \div u <= b \div u
<1> DEFINE x == a \div u
           y == b \div u
<1>1. x \in Nat /\ y \in Nat /\ u * x <= a /\ b < u * (y + 1)
  BY DivBounds
<1> HIDE DEF x, y
<1>2. CASE y + 1 <= x
  <2>1. (y + 1) * u <= x * u
    BY <1>1, <1>2, TimesMono
  <2>2. (y + 1) * u = u * (y + 1) /\ x * u = u * x /\ u * (y + 1) \in Int /\ u * x \in Int
    BY <1>1
  <2> QED
    BY <1>1, <2>1, <2>2
<1>3. CASE x <= y
  BY <1>3 DEF x, y
<1> QED
  BY <1>1, <1>2, <1>3

\* Rounding up is division of what is one unit less one above.
LEMMA CeilIsDiv ==
    ASSUME NEW n \in Nat, NEW d \in Nat, d > 0
    PROVE  /\ P!ceil_div(n, d) \in Nat
           /\ d * P!ceil_div(n, d) >= n
           /\ d * P!ceil_div(n, d) < n + d
<1> DEFINE x == n \div d
           r == n % d
<1>1. x \in Nat /\ r \in 0..(d - 1) /\ n = d * x + r
  BY SMT
<1>2. P!ceil_div(n, d) = x + (IF r = 0 THEN 0 ELSE 1)
  BY DEF P!ceil_div
<1> HIDE DEF x, r
<1>3. d * (x + 1) = d * x + d /\ d * (x + 0) = d * x /\ d * x \in Int
  BY <1>1
<1> QED
  BY <1>1, <1>2, <1>3

LEMMA CeilMono ==
    ASSUME NEW a \in Nat, NEW b \in Nat, a <= b, NEW d \in Nat, d > 0
    PROVE  P!ceil_div(a, d) <= P!ceil_div(b, d)
<1> DEFINE x == P!ceil_div(a, d)
           y == P!ceil_div(b, d)
<1>1. x \in Nat /\ y \in Nat /\ d * x < a + d /\ d * y >= b
  BY CeilIsDiv
<1> HIDE DEF x, y
<1>2. CASE y + 1 <= x
  <2>1. (y + 1) * d <= x * d
    BY <1>1, <1>2, TimesMono
  <2>2. (y + 1) * d = d * y + d /\ x * d = d * x /\ d * y \in Int /\ d * x \in Int
    BY <1>1
  <2> QED
    BY <1>1, <2>1, <2>2
<1>3. CASE x <= y
  BY <1>3 DEF x, y
<1> QED
  BY <1>1, <1>2, <1>3

LEMMA HalfUpMono ==
    ASSUME NEW a \in Nat, NEW b \in Nat, a <= b, NEW d \in Nat, d > 0
    PROVE  P!half_up_div(a, d) \in Nat /\ P!half_up_div(a, d) <= P!half_up_div(b, d)
<1>1. 2 * a + d \in Nat /\ 2 * b + d \in Nat /\ 2 * a + d <= 2 * b + d /\ 2 * d \in Nat /\ 2 * d > 0
  OBVIOUS
<1>2. (2 * a + d) \div (2 * d) <= (2 * b + d) \div (2 * d) /\ (2 * a + d) \div (2 * d) \in Nat
  BY <1>1, DivMono, DivBounds
<1> QED
  BY <1>2 DEF P!half_up_div

LEMMA BillableMono ==
    ASSUME NEW a \in Nat, NEW b \in Nat, a <= b, NEW u \in Nat, u > 0, NEW how
    PROVE  /\ P!billable_units(a, u, how) \in Nat /\ P!billable_units(b, u, how) \in Nat
           /\ P!billable_units(a, u, how) <= P!billable_units(b, u, how)
<1>1. CASE how = "floor"
  BY <1>1, DivMono, DivBounds DEF P!billable_units
<1>2. CASE how = "half_up"
  BY <1>2, HalfUpMono DEF P!billable_units
<1>3. CASE how \notin {"floor", "half_up"}
  BY <1>3, CeilMono, CeilIsDiv DEF P!billable_units
<1> QED
  BY <1>1, <1>2, <1>3

\* What a line costs before its minimum.
RawOf(n, r) == IF r.rounding = "exact" THEN (n * r.rate) \div r.unit
               ELSE P!billable_units(n, r.unit, r.rounding) * r.rate

LEMMA RawMono ==
    ASSUME NEW a \in Nat, NEW b \in Nat, a <= b, NEW r, P!IsRow(r)
    PROVE  RawOf(a, r) \in Nat /\ RawOf(b, r) \in Nat /\ RawOf(a, r) <= RawOf(b, r)
<1>1. r.unit \in Nat /\ r.unit > 0 /\ r.rate \in Nat
  BY DEF P!IsRow
<1>2. CASE r.rounding = "exact"
  <2>1. a * r.rate \in Nat /\ b * r.rate \in Nat /\ a * r.rate <= b * r.rate
    BY <1>1, TimesMono
  <2> QED
    BY <1>1, <1>2, <2>1, DivMono, DivBounds DEF RawOf
<1>3. CASE r.rounding # "exact"
  <2> DEFINE x == P!billable_units(a, r.unit, r.rounding)
             y == P!billable_units(b, r.unit, r.rounding)
  <2>1. x \in Nat /\ y \in Nat /\ x <= y
    BY <1>1, BillableMono
  <2>2. RawOf(a, r) = x * r.rate /\ RawOf(b, r) = y * r.rate
    BY <1>3 DEF RawOf
  <2> HIDE DEF x, y
  <2>3. x * r.rate \in Nat /\ y * r.rate \in Nat /\ x * r.rate <= y * r.rate
    BY <1>1, <2>1, TimesMono
  <2> QED
    BY <2>2, <2>3
<1> QED
  BY <1>2, <1>3

\* A row never charges less for more: not across its allowance, and not across
\* its minimum.
LEMMA LineMono ==
    ASSUME NEW a \in Nat, NEW b \in Nat, a <= b, NEW r, P!IsRow(r)
    PROVE  /\ P!line_micros(a, r) \in Nat /\ P!line_micros(b, r) \in Nat
           /\ P!line_micros(a, r) <= P!line_micros(b, r)
<1>1. r.included \in Nat /\ r.minimum \in Nat
  BY DEF P!IsRow
<1>2. \A q \in Nat : P!line_micros(q, r) =
         IF q - r.included <= 0 THEN 0
         ELSE IF RawOf(q - r.included, r) >= r.minimum THEN RawOf(q - r.included, r) ELSE r.minimum
  BY DEF P!line_micros, RawOf
<1> DEFINE x == a - r.included
           y == b - r.included
<1>3. x \in Int /\ y \in Int /\ x <= y
  BY <1>1
<1>4. CASE y <= 0
  BY <1>2, <1>3, <1>4
<1>5. CASE y > 0 /\ x <= 0
  <2>1. RawOf(y, r) \in Nat
    BY <1>3, <1>5, RawMono
  <2> QED
    BY <1>1, <1>2, <1>5, <2>1
<1>6. CASE y > 0 /\ x > 0
  <2>1. RawOf(x, r) \in Nat /\ RawOf(y, r) \in Nat /\ RawOf(x, r) <= RawOf(y, r)
    BY <1>3, <1>6, RawMono
  <2> QED
    BY <1>1, <1>2, <1>6, <2>1
<1> QED
  BY <1>3, <1>4, <1>5, <1>6

LEMMA PriceMono ==
    ASSUME NEW t \in Tariffs, P!PriceAssumption,
           NEW p \in P!Quantities, NEW q \in P!Quantities, P!Priced(p, t), P!Priced(q, t),
           \A m \in P!Metrics : p[m] <= q[m]
    PROVE  /\ P!price_cumulative(p, t) \in Nat /\ P!price_cumulative(q, t) \in Nat
           /\ P!price_cumulative(p, t) <= P!price_cumulative(q, t)
<1>1. ASSUME NEW m \in P!Metrics
      PROVE  P!Line(p, t, m) \in Nat /\ P!Line(q, t, m) \in Nat
      /\ P!Line(p, t, m) <= P!Line(q, t, m)
  <2>1. p[m] \in Nat /\ q[m] \in Nat /\ p[m] <= q[m]
    BY DEF P!Quantities, P!PriceAssumption
  <2>2. CASE q[m] = 0
    BY <2>1, <2>2 DEF P!Line
  <2>3. CASE q[m] > 0
    <3>1. P!IsRow(t[m])
      BY <2>3 DEF P!Priced, P!PriceAssumption, P!IsTariff
    <3>2. /\ P!line_micros(p[m], t[m]) \in Nat /\ P!line_micros(q[m], t[m]) \in Nat
          /\ P!line_micros(p[m], t[m]) <= P!line_micros(q[m], t[m])
      BY <2>1, <3>1, LineMono
    <3> QED
      BY <2>1, <2>3, <3>2 DEF P!Line
  <2> QED
    BY <2>1, <2>2, <2>3
<1>2. "work" \in P!Metrics /\ "time" \in P!Metrics
  BY DEF P!Metrics
<1> QED
  BY <1>1, <1>2 DEF P!price_cumulative

-----------------------------------------------------------------------------
(* The sale: what a hold is, for as long as it may be settled.              *)

PriceOf(q) == P!price_cumulative(q, p_book[p_sale.version])

HoldIsQuote ==
    p_sale.status \in {"open", "closed"} =>
        /\ p_sale.version \in Versions
        /\ P!Priced(p_ceiling, p_book[p_sale.version])
        /\ p_hold = PriceOf(p_ceiling)

ClosedAtItsPrice ==
    p_sale.status = "closed" => /\ P!Priced(p_used, p_book[p_sale.version])
                              /\ p_clamped = (PriceOf(p_used) > p_hold)

NothingYet == p_sale.status = "none" => p_charged = 0

PriceInv == P!TypeOK /\ HoldIsQuote /\ ClosedAtItsPrice /\ NothingYet /\ p_sale.status # "raised"

LEMMA PriceIsNat ==
    ASSUME P!PriceAssumption, NEW t \in Tariffs, NEW q \in P!Quantities, P!Priced(q, t)
    PROVE  P!price_cumulative(q, t) \in Nat
<1>1. \A m \in P!Metrics : q[m] <= q[m]
  BY DEF P!Quantities, P!PriceAssumption
<1> QED
  BY <1>1, PriceMono

LEMMA ActiveInForce ==
    ASSUME P!PriceAssumption, P!TypeOK, P!InForce # {}
    PROVE  P!ActiveBook \in Versions
<1>1. P!InForce \in SUBSET Versions
  BY DEF P!TypeOK, P!InForce
<1>2. \E v \in P!InForce : \A w \in P!InForce : w <= v
  BY <1>1 DEF P!PriceAssumption
<1>3. P!ActiveBook \in P!InForce
  BY <1>2 DEF P!ActiveBook
<1> QED
  BY <1>1, <1>3

LEMMA PriceInit == ASSUME P!PriceAssumption, P!Init PROVE PriceInv
<1>1. P!Nothing \in P!Quantities
  BY DEF P!Nothing, P!Quantities, P!PriceAssumption
<1>2. P!TypeOK
  <2>1. p_sale \in [status: {"none", "open", "closed", "raised"}, version: Versions \cup {Unmetered}]
    BY DEF P!Init
  <2>2. p_hold = 0 /\ p_charged \in 0..p_hold /\ p_hold \in Nat
    BY DEF P!Init
  <2>3. p_clamped \in BOOLEAN
    BY Zenon DEF P!Init
  <2> QED
    BY <1>1, <2>1, <2>2, <2>3 DEF P!Init, P!TypeOK
<1>3. p_sale.status = "none" /\ p_charged = 0
  BY DEF P!Init
<1> QED
  BY <1>2, <1>3 DEF PriceInv, HoldIsQuote, ClosedAtItsPrice, NothingYet

LEMMA PriceStep == ASSUME P!PriceAssumption, PriceInv, [P!Next]_(P!vars) PROVE PriceInv'
<1> USE DEF PriceInv, HoldIsQuote, ClosedAtItsPrice, NothingYet, PriceOf
<1>1. ASSUME NEW v \in Versions, P!Publish(v) PROVE PriceInv'
  BY <1>1 DEF P!Publish, P!TypeOK
<1>2. ASSUME NEW v \in Versions, P!Withdraw(v) PROVE PriceInv'
  BY <1>2 DEF P!Withdraw, P!TypeOK, P!InForce
<1>3. ASSUME NEW q \in P!Quantities, P!Open(q) PROVE PriceInv'
  <2>1. P!ActiveBook \in Versions
    BY <1>3, ActiveInForce DEF P!Open
  <2>2. p_book[P!ActiveBook] \in Tariffs /\ P!Priced(q, p_book[P!ActiveBook])
    BY <1>3, <2>1 DEF P!TypeOK, P!Open
  <2>3. P!price_cumulative(q, p_book[P!ActiveBook]) \in Nat
    BY <2>2, PriceIsNat
  <2>4. p_charged = 0 /\ p_clamped' = p_clamped /\ p_used' = p_used /\ p_book' = p_book
        /\ p_charged' = 0
    BY <1>3 DEF P!Open
  <2>5. P!TypeOK'
    BY <1>3, <2>1, <2>3, <2>4 DEF P!Open, P!TypeOK
  <2> QED
    BY <1>3, <2>1, <2>2, <2>5, <2>4 DEF P!Open
<1>4. ASSUME NEW q \in P!Quantities, P!Settle(q) PROVE PriceInv'
  <2> DEFINE t == p_book[p_sale.version]
  <2>1. t \in Tariffs /\ p_sale.version \in Versions /\ p_sale.status = "open"
    BY <1>4 DEF P!TypeOK, P!Settle
  <2>2. P!Priced(q, t)
    BY <1>4, <2>1 DEF P!Settle, P!Reportable, P!Priced
  <2>3. P!price_cumulative(q, t) \in Nat
    BY <2>1, <2>2, PriceIsNat
  <2>4. /\ p_sale' = [p_sale EXCEPT !.status = "closed"]
        /\ p_charged' = P!Charge(P!price_cumulative(q, t))
        /\ p_clamped' = (P!price_cumulative(q, t) > p_hold)
        /\ p_used' = q /\ UNCHANGED <<p_book, p_published, p_over, p_ceiling, p_hold>>
    BY <1>4, <2>2 DEF P!Settle, P!BookOfSale
  <2>5. p_sale'.status = "closed" /\ p_sale'.version = p_sale.version
    BY <2>1, <2>4 DEF P!TypeOK
  <2>6. P!TypeOK'
    BY <2>1, <2>3, <2>4 DEF P!TypeOK, P!Charge
  <2> QED
    BY <2>1, <2>2, <2>4, <2>5, <2>6
<1>5. CASE UNCHANGED P!vars
  BY <1>5 DEF P!vars, P!TypeOK, P!Priced, P!InForce
<1> QED
  BY <1>1, <1>2, <1>3, <1>4, <1>5 DEF P!Next

LEMMA PriceInvCovers == ASSUME P!PriceAssumption, PriceInv PROVE P!QuoteCovers
<1>0. p_sale.status # "raised"
  BY DEF PriceInv
<1> SUFFICES ASSUME p_sale.status = "closed", \A m \in P!Metrics : p_used[m] <= p_ceiling[m]
             PROVE  ~p_clamped
  BY <1>0 DEF P!QuoteCovers
<1> DEFINE t == p_book[p_sale.version]
<1>1. /\ p_sale.version \in Versions /\ P!Priced(p_ceiling, t)
         /\ p_hold = P!price_cumulative(p_ceiling, t)
      /\ P!Priced(p_used, t) /\ p_clamped = (P!price_cumulative(p_used, t) > p_hold)
  BY DEF PriceInv, HoldIsQuote, ClosedAtItsPrice, PriceOf
<1>2. t \in Tariffs /\ p_used \in P!Quantities /\ p_ceiling \in P!Quantities
  BY <1>1 DEF PriceInv, P!TypeOK
<1>3. /\ P!price_cumulative(p_used, t) \in Nat /\ p_hold \in Nat
      /\ P!price_cumulative(p_used, t) <= p_hold
  BY <1>1, <1>2, PriceMono
<1>4. (P!price_cumulative(p_used, t) > p_hold) = FALSE
  BY <1>3
<1>5. p_clamped = FALSE
  BY <1>1, <1>4
<1> QED
  BY <1>5

LEMMA PriceInductive == ASSUME P!PriceAssumption PROVE P!Spec => []PriceInv
<1>1. P!Init => PriceInv
  BY PriceInit
<1>2. PriceInv /\ [P!Next]_(P!vars) => PriceInv'
  BY PriceStep
<1> QED
  BY <1>1, <1>2, PTL DEF P!Spec

\* The tables of the price book are kept as the constraints have them, a charge
\* is never above its hold, and nothing leaves its type.
THEOREM PriceTypes == ASSUME P!PriceAssumption PROVE P!Spec => []P!TypeOK
<1>1. PriceInv => P!TypeOK
  BY DEF PriceInv
<1> QED
  BY <1>1, PriceInductive, PTL

\* session_service.quote and settle_oneshot: for every price book, a sale that
\* used no more than it was quoted for is charged in full, whatever was published
\* or withdrawn between the quote and the settlement, and pricing it does not raise.
THEOREM QuotesAreKept == ASSUME P!PriceAssumption PROVE P!Spec => []P!QuoteCovers
<1>1. PriceInv => P!QuoteCovers
  BY PriceInvCovers
<1> QED
  BY <1>1, PriceInductive, PTL
-----------------------------------------------------------------------------
(* The inductive invariant.                                                 *)

\* A handler at work serves a request that was signed.
ServesSigned ==
    \A h \in Handlers :
        q_pc[h] # "idle" => q_req[h] \in SignedRequests /\ q_stamp[q_req[h]] # Q!Unsent

\* A timestamp is ahead of our clock by as much as its caller's clock is.
StampsAreNear == \A r \in SignedRequests : q_stamp[r] <= q_now + Ahead

\* A nonce is claimed after its request was signed.
ClaimsComeLater ==
    \A r \in SignedRequests : q_nonce[r] # Q!Never => q_stamp[r] # Q!Unsent
    /\ q_stamp[r] - Ahead <= q_nonce[r]

\* An arrival that is about to claim found its timestamp in the window, lately.
ClaimsAreEarly ==
    \A h \in Handlers : q_pc[h] = "claim" =>
        q_now <= q_checked[h] + BodyTime /\ q_checked[h] <= q_stamp[q_req[h]] + SigningWindow

\* The arrivals that go on to their route, or have gone on.
Touching(r) == {h \in Handlers : q_pc[h] = "touch" /\ q_req[h] = r}
Served(r)   == q_honoured[r] + Cardinality(Touching(r))

\* So long after its signing that no window holds its timestamp.
Stale(r) == q_stamp[r] # Q!Unsent /\ q_stamp[r] - Ahead + Q!NonceLife <= q_now

\* A request is served at the cost of a failure; but once for nothing, while its
\* nonce is known or when it is too late to come again.
ServedOnce ==
    \A r \in SignedRequests :
        \/ Served(r) <= q_failures
        \/ Served(r) <= 1 + q_failures /\ (q_nonce[r] # Q!Never \/ Stale(r))

SigningInv ==
    /\ Q!TypeOK
    /\ ServesSigned /\ StampsAreNear /\ ClaimsComeLater /\ ClaimsAreEarly
    /\ ServedOnce

-----------------------------------------------------------------------------
(* Counting arrivals.                                                       *)

LEMMA Numbers ==
    ASSUME SigningAssumption
    PROVE  /\ SigningWindow \in Nat /\ Ahead \in Nat /\ Behind \in Nat /\ BodyTime \in Nat
           /\ Lifetime \in Nat /\ MaxSeconds \in Nat /\ MaxFailures \in Nat
           /\ Ahead + BodyTime < SigningWindow /\ Q!NonceLife = 2 * SigningWindow
           /\ Q!Never = -1 /\ Q!Unsent = -Ahead - Behind - 1
  BY DEF SigningAssumption, Q!TimesAssumption, Q!NonceLife, Q!Never, Q!Unsent

LEMMA TouchingIsFinite ==
    ASSUME SigningAssumption, NEW r
    PROVE  IsFiniteSet(Touching(r)) /\ Cardinality(Touching(r)) \in Nat
<1>1. Touching(r) \in SUBSET Handlers
  BY DEF Touching
<1>2. IsFiniteSet(Touching(r))
  BY <1>1, FS_Subset DEF SigningAssumption
<1> QED
  BY <1>2, FS_CardinalityType

\* A step that brings no handler to its touch, nor takes one from it.
LEMMA NoneTouches ==
    ASSUME NEW r, \A h \in Handlers : (q_pc'[h] = "touch" /\ q_req'[h] = r)
                                         <=> (q_pc[h] = "touch" /\ q_req[h] = r)
    PROVE  Touching(r)' = Touching(r)
  BY DEF Touching

\* One handler comes to its touch.
LEMMA OneComes ==
    ASSUME SigningAssumption, NEW h \in Handlers, NEW r \in SignedRequests,
           q_pc \in [Handlers -> {"idle", "check", "claim", "touch"}], q_pc[h] = "claim",
           q_pc' = [q_pc EXCEPT ![h] = "touch"], q_req' = q_req
    PROVE  Cardinality(Touching(r)') =
              IF q_req[h] = r THEN Cardinality(Touching(r)) + 1 ELSE Cardinality(Touching(r))
<1>1. CASE q_req[h] = r
  <2>1. Touching(r)' = Touching(r) \cup {h} /\ h \notin Touching(r)
    BY <1>1 DEF Touching
  <2> QED
    BY <1>1, <2>1, TouchingIsFinite, FS_AddElement
<1>2. CASE q_req[h] # r
  <2>1. Touching(r)' = Touching(r)
    BY <1>2 DEF Touching
  <2> QED
    BY <1>2, <2>1
<1> QED
  BY <1>1, <1>2

\* One handler leaves, from its touch or from another step.
LEMMA OneLeaves ==
    ASSUME SigningAssumption, NEW h \in Handlers, NEW r \in SignedRequests,
           q_pc \in [Handlers -> {"idle", "check", "claim", "touch"}],
               q_req \in [Handlers -> SignedRequests \cup {Nobody}], Q!Leave(h)
    PROVE  Cardinality(Touching(r)') =
              IF q_pc[h] = "touch" /\ q_req[h] = r THEN Cardinality(Touching(r)) - 1
                                               ELSE Cardinality(Touching(r))
<1>1. Touching(r)' = Touching(r) \ {h}
  <2>1. q_pc' = [q_pc EXCEPT ![h] = "idle"] /\ q_req' = [q_req EXCEPT ![h] = Nobody]
    BY DEF Q!Leave
  <2>2. q_pc'[h] = "idle"
    BY <2>1
  <2>3. \A g \in Handlers : g # h => q_pc'[g] = q_pc[g] /\ q_req'[g] = q_req[g]
    BY <2>1
  <2> QED
    BY <2>2, <2>3 DEF Touching
<1>2. h \in Touching(r) <=> q_pc[h] = "touch" /\ q_req[h] = r
  BY DEF Touching
<1> QED
  BY <1>1, <1>2, TouchingIsFinite, FS_RemoveElement

-----------------------------------------------------------------------------
LEMMA SigningInit == ASSUME SigningAssumption, Q!Init PROVE SigningInv
<1>1. Q!TypeOK
  BY Numbers DEF Q!Init, Q!TypeOK, Q!Time
<1>2. ServesSigned /\ ClaimsAreEarly
  BY DEF Q!Init, ServesSigned, ClaimsAreEarly
<1>3. StampsAreNear /\ ClaimsComeLater
  BY Numbers DEF Q!Init, StampsAreNear, ClaimsComeLater
<1>4. ServedOnce
  <2> SUFFICES ASSUME NEW r \in SignedRequests PROVE Served(r) <= q_failures
    BY DEF ServedOnce
  <2>1. Touching(r) = {}
    BY DEF Q!Init, Touching
  <2>2. Cardinality(Touching(r)) = 0
    BY <2>1, FS_EmptySet
  <2> QED
    BY <2>2 DEF Q!Init, Served
<1> QED
  BY <1>1, <1>2, <1>3, <1>4 DEF SigningInv

-----------------------------------------------------------------------------
(* Each part is kept by every step.                                         *)

\* What a step of a handler uses of the type invariant.
LEMMA Shapes ==
    ASSUME Q!TypeOK
    PROVE  /\ q_pc \in [Handlers -> {"idle", "check", "claim", "touch"}]
           /\ q_req \in [Handlers -> SignedRequests \cup {Nobody}]
           /\ q_stamp \in [SignedRequests -> Int] /\ q_nonce \in [SignedRequests -> Int]
           /\ q_checked \in [Handlers -> Int] /\ q_honoured \in [SignedRequests -> Nat]
           /\ q_now \in Int /\ q_failures \in Int
<1>1. Q!Time \subseteq Int
  BY DEF Q!Time
<1>2. Q!Unsent..(MaxSeconds + Ahead) \subseteq Int
  OBVIOUS
<1>3. Q!Time \cup {Q!Never} \subseteq Int
  BY <1>1 DEF Q!Never
<1> QED
  BY <1>1, <1>2, <1>3 DEF Q!TypeOK

LEMMA StepSigningTypes == ASSUME SigningAssumption, SigningInv, Q!Next PROVE Q!TypeOK'
<1> USE DEF SigningInv, Q!Fail, Q!Goto, Q!Leave
<1>1. CASE Q!Mint
  BY <1>1 DEF Q!Mint, Q!TypeOK
<1>2. CASE Q!Revoke
  BY <1>2 DEF Q!Revoke, Q!TypeOK
<1>3. CASE Q!Tick
  <2>1. q_now' \in Q!Time
    BY <1>3, Numbers DEF Q!Tick, Q!TypeOK, Q!Time
  <2> QED
    BY <1>3, <2>1 DEF Q!Tick, Q!TypeOK
<1>4. ASSUME NEW r \in SignedRequests, Q!Signs(r) PROVE Q!TypeOK'
  <2>1. q_stamp' \in [SignedRequests -> Q!Unsent..(MaxSeconds + Ahead)]
    BY <1>4, Numbers DEF Q!Signs, Q!TypeOK, Q!Time
  <2> QED
    BY <1>4, <2>1 DEF Q!Signs, Q!TypeOK
<1>5. ASSUME NEW r \in SignedRequests, Q!FallsOut(r) PROVE Q!TypeOK'
  BY <1>5 DEF Q!FallsOut, Q!TypeOK
<1>6. ASSUME NEW r \in SignedRequests, NEW h \in Handlers, Q!Arrives(h, r) PROVE Q!TypeOK'
  BY <1>6 DEF Q!Arrives, Q!TypeOK
<1>7. ASSUME NEW h \in Handlers, Q!Checks(h) PROVE Q!TypeOK'
  BY <1>7, Numbers DEF Q!Checks, Q!TypeOK, Q!Time
<1>8. ASSUME NEW h \in Handlers, Q!Claims(h) PROVE Q!TypeOK'
  BY <1>8, Numbers DEF Q!Claims, Q!Claimed, Q!TypeOK, Q!Time
<1>9. ASSUME NEW h \in Handlers, Q!ClaimFails(h) PROVE Q!TypeOK'
  BY <1>9, Numbers DEF Q!ClaimFails, Q!Claimed, Q!TypeOK
<1>10. ASSUME NEW h \in Handlers, Q!Touches(h) PROVE Q!TypeOK'
  <2>1. q_key' \in [status: {"none", "active", "revoked"}, born: Q!Time, uses: Nat]
    BY <1>10 DEF Q!Touches, Q!TypeOK
  <2>2. q_key'.uses = q_key.uses + 1 /\ q_key.uses \in Nat
    BY <1>10 DEF Q!Touches, Q!TypeOK
  <2>3. q_honoured' \in [SignedRequests -> Nat]
        /\ \A r \in SignedRequests : q_honoured'[r] <= q_key'.uses
    <3>1. q_honoured \in [SignedRequests -> Nat]
          /\ \A r \in SignedRequests : q_honoured[r] <= q_key.uses
      BY DEF Q!TypeOK
    <3>2. q_honoured' = [q_honoured EXCEPT ![q_req[h]] = @ + 1]
      BY <1>10 DEF Q!Touches
    <3>3. \A r \in SignedRequests : q_honoured'[r] \in Nat /\ q_honoured'[r] <= q_honoured[r] + 1
      BY <3>1, <3>2
    <3>4. \A r \in SignedRequests : q_honoured'[r] <= q_key'.uses
      <4> SUFFICES ASSUME NEW r \in SignedRequests PROVE q_honoured'[r] <= q_key'.uses
        OBVIOUS
      <4>1. q_honoured[r] \in Nat /\ q_honoured[r] <= q_key.uses
        BY <3>1
      <4>2. q_honoured'[r] \in Nat /\ q_honoured'[r] <= q_honoured[r] + 1
        BY <3>3
      <4> QED
        BY <2>2, <4>1, <4>2
    <3>5. q_honoured' \in [SignedRequests -> Nat]
      <4>1. q_honoured' = [r \in SignedRequests |-> q_honoured'[r]]
        BY <3>1, <3>2
      <4> QED
        BY <3>3, <4>1
    <3> QED
      BY <3>4, <3>5
  <2>4. q_pc' \in [Handlers -> {"idle", "check", "claim", "touch"}]
        /\ q_req' \in [Handlers -> SignedRequests \cup {Nobody}]
           /\ q_checked' \in [Handlers -> Q!Time]
    BY <1>10, Numbers DEF Q!Touches, Q!TypeOK, Q!Time
  <2> QED
    BY <1>10, <2>1, <2>3, <2>4 DEF Q!Touches, Q!TypeOK
<1>11. ASSUME NEW h \in Handlers, Q!Breaks(h) PROVE Q!TypeOK'
  BY <1>11, Numbers DEF Q!Breaks, Q!TypeOK, Q!Time
<1> QED
  BY <1>1, <1>2, <1>3, <1>4, <1>5, <1>6, <1>7, <1>8, <1>9, <1>10, <1>11 DEF Q!Next

LEMMA StepServes == ASSUME SigningAssumption, SigningInv, Q!Next PROVE ServesSigned'
<1> USE DEF SigningInv, Q!Goto, Q!Leave, ServesSigned
<1>0. USE Shapes
<1>1. CASE Q!Mint \/ Q!Revoke \/ Q!Tick
  BY <1>1 DEF Q!Mint, Q!Revoke, Q!Tick
<1>2. ASSUME NEW r \in SignedRequests, Q!Signs(r) PROVE ServesSigned'
  <2>1. q_stamp[r] = Q!Unsent /\ \A s \in SignedRequests : s # r => q_stamp'[s] = q_stamp[s]
    BY <1>2 DEF Q!Signs
  <2>2. q_pc' = q_pc /\ q_req' = q_req
    BY <1>2 DEF Q!Signs
  <2> QED
    BY <2>1, <2>2
<1>3. ASSUME NEW r \in SignedRequests, Q!FallsOut(r) PROVE ServesSigned'
  BY <1>3 DEF Q!FallsOut
<1>4. ASSUME NEW r \in SignedRequests, NEW h \in Handlers, Q!Arrives(h, r) PROVE ServesSigned'
  BY <1>4 DEF Q!Arrives
<1>5. ASSUME NEW h \in Handlers,
          Q!Checks(h) \/ Q!Claims(h) \/ Q!ClaimFails(h) \/ Q!Touches(h) \/ Q!Breaks(h)
      PROVE  ServesSigned'
  <2>1. q_stamp' = q_stamp
    BY <1>5 DEF Q!Checks, Q!Claims, Q!ClaimFails, Q!Touches, Q!Breaks
  <2>2. \/ q_pc[h] # "idle" /\ q_req' = q_req /\ \A g \in Handlers : g # h => q_pc'[g] = q_pc[g]
        \/ q_pc'[h] = "idle" /\ \A g \in Handlers : g # h => q_pc'[g] = q_pc[g]
           /\ q_req'[g] = q_req[g]
    BY <1>5 DEF Q!Checks, Q!Claims, Q!ClaimFails, Q!Touches, Q!Breaks
  <2> QED
    BY <2>1, <2>2
<1> QED
  BY <1>1, <1>2, <1>3, <1>4, <1>5 DEF Q!Next

LEMMA StepNear == ASSUME SigningAssumption, SigningInv, Q!Next PROVE StampsAreNear'
<1> USE DEF SigningInv, StampsAreNear
<1>0. USE Shapes, Numbers
<1>1. ASSUME NEW r \in SignedRequests, Q!Signs(r) PROVE StampsAreNear'
  BY <1>1 DEF Q!Signs
<1>2. CASE Q!Tick
  BY <1>2 DEF Q!Tick
<1>3. CASE UNCHANGED <<q_now, q_stamp>>
  BY <1>3
<1> QED
  BY <1>1, <1>2, <1>3 DEF Q!Next, Q!Mint, Q!Revoke, Q!FallsOut, Q!Arrives, Q!Checks, Q!Claims,
     Q!ClaimFails,
                          Q!Touches, Q!Breaks

LEMMA StepLater == ASSUME SigningAssumption, SigningInv, Q!Next PROVE ClaimsComeLater'
<1> USE DEF SigningInv, ClaimsComeLater
<1>0. USE Shapes
<1>1. ASSUME NEW r \in SignedRequests, Q!Signs(r) PROVE ClaimsComeLater'
  <2>1. q_stamp[r] = Q!Unsent /\ q_nonce' = q_nonce
        /\ \A s \in SignedRequests : s # r => q_stamp'[s] = q_stamp[s]
    BY <1>1 DEF Q!Signs
  <2> QED
    BY <2>1
<1>2. ASSUME NEW r \in SignedRequests, Q!FallsOut(r) PROVE ClaimsComeLater'
  BY <1>2 DEF Q!FallsOut
<1>3. ASSUME NEW h \in Handlers, Q!Claims(h) \/ Q!ClaimFails(h) PROVE ClaimsComeLater'
  <2>1. q_stamp' = q_stamp /\ (q_nonce' = q_nonce \/ q_nonce' = Q!Claimed(q_req[h]))
    BY <1>3 DEF Q!Claims, Q!ClaimFails
  <2>2. q_req[h] \in SignedRequests /\ q_stamp[q_req[h]] # Q!Unsent
    BY <1>3 DEF ServesSigned, Q!Claims, Q!ClaimFails
  <2>3. q_stamp[q_req[h]] - Ahead <= q_now
    BY <2>2, Numbers DEF StampsAreNear
  <2> QED
    BY <2>1, <2>2, <2>3 DEF Q!Claimed
<1>4. CASE UNCHANGED <<q_stamp, q_nonce>>
  BY <1>4
<1> QED
  BY <1>1, <1>2, <1>3, <1>4 DEF Q!Next, Q!Mint, Q!Revoke, Q!Tick, Q!Arrives, Q!Checks, Q!Touches,
     Q!Breaks

LEMMA StepEarly == ASSUME SigningAssumption, SigningInv, Q!Next PROVE ClaimsAreEarly'
<1> USE DEF SigningInv, ClaimsAreEarly, Q!Goto, Q!Leave
<1>0. USE Shapes, Numbers
<1>1. ASSUME NEW r \in SignedRequests, Q!Signs(r) PROVE ClaimsAreEarly'
  <2>1. q_stamp[r] = Q!Unsent /\ UNCHANGED <<q_now, q_pc, q_req, q_checked>>
        /\ \A s \in SignedRequests : s # r => q_stamp'[s] = q_stamp[s]
    BY <1>1 DEF Q!Signs
  <2> QED
    BY <2>1 DEF ServesSigned
<1>2. CASE Q!Tick
  BY <1>2 DEF Q!Tick
<1>3. ASSUME NEW h \in Handlers, Q!Checks(h) PROVE ClaimsAreEarly'
  <2>1. UNCHANGED <<q_now, q_stamp>> /\ \A g \in Handlers : g # h =>
            q_pc'[g] = q_pc[g] /\ q_req'[g] = q_req[g] /\ q_checked'[g] = q_checked[g]
    BY <1>3 DEF Q!Checks
  <2>2. q_pc'[h] = "claim" => Q!InWindow(q_req[h]) /\ q_checked'[h] = q_now /\ q_req'[h] = q_req[h]
    BY <1>3 DEF Q!Checks
  <2>3. q_req[h] \in SignedRequests
    BY <1>3 DEF ServesSigned, Q!Checks
  <2>4. q_pc'[h] = "claim" => q_now <= q_checked'[h] + BodyTime
                            /\ q_checked'[h] <= q_stamp[q_req[h]] + SigningWindow
    BY <2>2, <2>3 DEF Q!InWindow
  <2> QED
    BY <2>1, <2>2, <2>4
<1>4. ASSUME NEW h \in Handlers, NEW r \in SignedRequests, Q!Arrives(h, r) PROVE ClaimsAreEarly'
  BY <1>4 DEF Q!Arrives
<1>5. ASSUME NEW h \in Handlers, Q!Claims(h) \/ Q!ClaimFails(h) \/ Q!Touches(h) \/ Q!Breaks(h)
      PROVE  ClaimsAreEarly'
  <2>1. UNCHANGED <<q_now, q_stamp>> /\ q_pc'[h] # "claim" /\ \A g \in Handlers : g # h =>
            q_pc'[g] = q_pc[g] /\ q_req'[g] = q_req[g] /\ q_checked'[g] = q_checked[g]
    BY <1>5 DEF Q!Claims, Q!ClaimFails, Q!Touches, Q!Breaks
  <2> QED
    BY <2>1
<1>6. CASE UNCHANGED <<q_now, q_stamp, q_pc, q_req, q_checked>>
  BY <1>6
<1> QED
  BY <1>1, <1>2, <1>3, <1>4, <1>5, <1>6 DEF Q!Next, Q!Mint, Q!Revoke, Q!FallsOut

\* An arrival about to claim is not too late, so no forgotten nonce stands in for it.
LEMMA ClaimsAreNotStale ==
    ASSUME SigningAssumption, SigningInv, NEW h \in Handlers, q_pc[h] = "claim"
    PROVE  q_req[h] \in SignedRequests /\ ~Stale(q_req[h])
<1>1. q_req[h] \in SignedRequests
  BY DEF SigningInv, ServesSigned
<1>2. q_now <= q_checked[h] + BodyTime /\ q_checked[h] <= q_stamp[q_req[h]] + SigningWindow
  BY DEF SigningInv, ClaimsAreEarly
<1>3. q_now \in Int /\ q_checked[h] \in Int /\ q_stamp[q_req[h]] \in Int
  BY <1>1, Shapes DEF SigningInv
<1> QED
  BY <1>1, <1>2, <1>3, Numbers DEF Stale

\* The time for a nonce is over only when its timestamp is out of the window.
LEMMA ForgottenIsStale ==
    ASSUME SigningAssumption, SigningInv, NEW r \in SignedRequests, Q!FallsOut(r)
    PROVE  Stale(r)
<1>1. q_nonce[r] # Q!Never /\ q_now >= q_nonce[r] + Q!NonceLife
  BY DEF Q!FallsOut
<1>2. q_stamp[r] # Q!Unsent /\ q_stamp[r] - Ahead <= q_nonce[r]
  BY <1>1 DEF SigningInv, ClaimsComeLater
<1>3. q_now \in Int /\ q_nonce[r] \in Int /\ q_stamp[r] \in Int
  BY Shapes DEF SigningInv
<1> QED
  BY <1>1, <1>2, <1>3, Numbers DEF Stale

LEMMA StepServed == ASSUME SigningAssumption, SigningInv, Q!Next PROVE ServedOnce'
<1> SUFFICES ASSUME NEW r \in SignedRequests
             PROVE  \/ Served(r)' <= q_failures'
                    \/ Served(r)' <= 1 + q_failures' /\ (q_nonce'[r] # Q!Never \/ Stale(r)')
  BY DEF ServedOnce
<1> DEFINE Goal == \/ Served(r)' <= q_failures'
                   \/ Served(r)' <= 1 + q_failures' /\ (q_nonce'[r] # Q!Never \/ Stale(r)')
           n    == Cardinality(Touching(r))
<1>1. \/ q_honoured[r] + n <= q_failures
      \/ q_honoured[r] + n <= 1 + q_failures /\ (q_nonce[r] # Q!Never \/ Stale(r))
  BY DEF SigningInv, ServedOnce, Served
<1>2. q_honoured[r] \in Nat /\ n \in Nat /\ q_failures \in Int /\ q_now \in Int
      /\ q_stamp[r] \in Int
  BY TouchingIsFinite, Shapes DEF SigningInv
<1>3. Served(r)' = q_honoured'[r] + n'
  BY DEF Served
<1>t. /\ q_pc \in [Handlers -> {"idle", "check", "claim", "touch"}]
      /\ q_req \in [Handlers -> SignedRequests \cup {Nobody}]
      /\ q_honoured \in [SignedRequests -> Nat] /\ q_nonce \in [SignedRequests -> Int]
      /\ q_stamp \in [SignedRequests -> Int]
  BY Shapes DEF SigningInv
<1> HIDE DEF n
\* Steps that serve nobody, and let no time pass.
<1>4. ASSUME n' = n, q_honoured' = q_honoured, q_failures' = q_failures,
             q_nonce[r] # Q!Never => q_nonce'[r] # Q!Never \/ Stale(r)', Stale(r) => Stale(r)'
      PROVE  Goal
  BY <1>1, <1>2, <1>3, <1>4
<1>5. ASSUME NEW s \in SignedRequests, Q!Signs(s) PROVE Goal
  <2>1. n' = n /\ q_honoured' = q_honoured /\ q_failures' = q_failures /\ q_nonce' = q_nonce
        /\ q_now' = q_now
    BY <1>5 DEF Q!Signs, n, Touching
  <2>2. Stale(r) => Stale(r)'
    <3>1. Stale(r) => r # s
      BY <1>5 DEF Q!Signs, Stale
    <3>2. r # s => q_stamp'[r] = q_stamp[r]
      BY <1>5, <1>t DEF Q!Signs
    <3> QED
      BY <2>1, <3>1, <3>2 DEF Stale
  <2> QED
    BY <1>4, <2>1, <2>2
<1>6. ASSUME NEW s \in SignedRequests, Q!FallsOut(s) PROVE Goal
  <2>1. n' = n /\ UNCHANGED <<q_honoured, q_failures, q_stamp, q_now>>
    BY <1>6 DEF Q!FallsOut, n, Touching
  <2>2. Stale(r)' = Stale(r)
    BY <2>1 DEF Stale, Q!NonceLife
  <2>3. q_nonce[r] # Q!Never => q_nonce'[r] # Q!Never \/ Stale(r)
    <3>1. CASE r = s
      BY <1>6, <3>1, ForgottenIsStale
    <3>2. CASE r # s
      BY <1>6, <1>t, <3>2 DEF Q!FallsOut
    <3> QED
      BY <3>1, <3>2
  <2> QED
    BY <1>4, <2>1, <2>2, <2>3
<1>7. CASE Q!Tick
  <2>1. n' = n /\ UNCHANGED <<q_honoured, q_failures, q_stamp, q_nonce>> /\ q_now' = q_now + 1
    BY <1>7 DEF Q!Tick, n, Touching
  <2>2. Stale(r) => Stale(r)'
    BY <1>2, <2>1, Numbers DEF Stale, Q!NonceLife
  <2> QED
    BY <1>4, <2>1, <2>2
<1>8. CASE Q!Mint \/ Q!Revoke
  <2>1. n' = n /\ UNCHANGED <<q_honoured, q_failures, q_stamp, q_nonce, q_now>>
    BY <1>8 DEF Q!Mint, Q!Revoke, n, Touching
  <2> QED
    BY <1>4, <2>1 DEF Stale
<1>9. ASSUME NEW h \in Handlers, NEW s \in SignedRequests, Q!Arrives(h, s) PROVE Goal
  <2>1. UNCHANGED <<q_honoured, q_failures, q_stamp, q_nonce, q_now>>
    BY <1>9 DEF Q!Arrives
  <2>2. Touching(r)' = Touching(r)
    BY <1>9, <1>t DEF Q!Arrives, Touching
  <2> QED
    BY <1>4, <2>1, <2>2 DEF Stale, n
<1>10. ASSUME NEW h \in Handlers, Q!Checks(h) PROVE Goal
  <2>1. UNCHANGED <<q_honoured, q_failures, q_stamp, q_nonce, q_now>> /\ q_pc[h] = "check"
    BY <1>10 DEF Q!Checks
  <2>2. n' = n
    <3>1. CASE Q!Leave(h)
      BY <2>1, <3>1, <1>t, <1>2, OneLeaves DEF n
    <3>2. CASE Q!Goto(h, "claim")
      <4>1. Touching(r)' = Touching(r)
        BY <2>1, <3>2, <1>t DEF Q!Goto, Touching
      <4> QED
        BY <4>1 DEF n
    <3> QED
      BY <1>10, <3>1, <3>2 DEF Q!Checks
  <2> QED
    BY <1>4, <2>1, <2>2 DEF Stale
<1>11. ASSUME NEW h \in Handlers, Q!Claims(h) PROVE Goal
  <2>1. UNCHANGED <<q_honoured, q_failures, q_stamp, q_now>> /\ q_pc[h] = "claim"
    BY <1>11 DEF Q!Claims
  <2>2. CASE q_nonce[q_req[h]] = Q!Never
    <3>1. q_nonce' = Q!Claimed(q_req[h]) /\ q_pc' = [q_pc EXCEPT ![h] = "touch"] /\ q_req' = q_req
      BY <1>11, <2>2 DEF Q!Claims, Q!Goto
    <3>2. n' = IF q_req[h] = r THEN n + 1 ELSE n
      BY <2>1, <3>1, <1>t, OneComes DEF n
    <3>3. CASE q_req[h] = r
      <4>1. q_honoured[r] + n <= q_failures
        BY <1>1, <2>1, <2>2, <3>3, ClaimsAreNotStale
      <4>2. q_nonce'[r] # Q!Never
        BY <3>1, <3>3, <1>2, <1>t, Numbers, Shapes DEF Q!Claimed, SigningInv, Q!TypeOK, Q!Time
      <4> QED
        BY <1>2, <1>3, <2>1, <3>2, <3>3, <4>1, <4>2
    <3>4. CASE q_req[h] # r
      <4>1. q_nonce'[r] = q_nonce[r]
        BY <3>1, <3>4, <1>t DEF Q!Claimed
      <4> QED
        BY <1>4, <2>1, <3>2, <3>4, <4>1 DEF Stale
    <3> QED
      BY <3>3, <3>4
  <2>3. CASE q_nonce[q_req[h]] # Q!Never
    <3>1. q_nonce' = q_nonce /\ Q!Leave(h)
      BY <1>11, <2>3 DEF Q!Claims
    <3>2. n' = n
      BY <2>1, <3>1, <1>t, <1>2, OneLeaves DEF n
    <3> QED
      BY <1>4, <2>1, <3>1, <3>2 DEF Stale
  <2> QED
    BY <2>2, <2>3
<1>12. ASSUME NEW h \in Handlers, Q!ClaimFails(h) PROVE Goal
  <2>1. UNCHANGED <<q_honoured, q_stamp, q_now>> /\ q_pc[h] = "claim"
        /\ q_failures' = q_failures + 1
        /\ q_pc' = [q_pc EXCEPT ![h] = "touch"] /\ q_req' = q_req
    BY <1>12 DEF Q!ClaimFails, Q!Goto, Q!Fail
  <2>2. n' = n \/ n' = n + 1
    BY <2>1, <1>t, OneComes DEF n
  <2>3. q_nonce[r] # Q!Never => q_nonce'[r] # Q!Never
    <3>1. q_nonce' = q_nonce \/ q_nonce' = Q!Claimed(q_req[h])
      <4>1. CASE q_nonce[q_req[h]] = Q!Never
        BY <1>12, <4>1 DEF Q!ClaimFails
      <4>2. CASE q_nonce[q_req[h]] # Q!Never
        BY <1>12, <4>2 DEF Q!ClaimFails
      <4> QED
        BY <4>1, <4>2
    <3>2. q_now # Q!Never
      BY Numbers DEF SigningInv, Q!TypeOK, Q!Time
    <3> QED
      BY <3>1, <3>2, <1>t DEF Q!Claimed
  <2>4. Stale(r)' = Stale(r)
    BY <2>1 DEF Stale, Q!NonceLife
  <2> QED
    BY <1>1, <1>2, <1>3, <2>1, <2>2, <2>3, <2>4
<1>13. ASSUME NEW h \in Handlers, Q!Touches(h) PROVE Goal
  <2>1. UNCHANGED <<q_stamp, q_now, q_nonce, q_failures>> /\ q_pc[h] = "touch" /\ Q!Leave(h)
        /\ q_honoured' = [q_honoured EXCEPT ![q_req[h]] = @ + 1]
    BY <1>13 DEF Q!Touches
  <2>2. n' = IF q_req[h] = r THEN n - 1 ELSE n
    BY <2>1, <1>t, OneLeaves DEF n
  <2>3. q_honoured'[r] = IF q_req[h] = r THEN q_honoured[r] + 1 ELSE q_honoured[r]
    BY <2>1, <1>t
  <2>4. q_honoured'[r] + n' = q_honoured[r] + n
    BY <1>2, <2>2, <2>3
  <2>5. Stale(r)' = Stale(r)
    BY <2>1 DEF Stale, Q!NonceLife
  <2> QED
    BY <1>1, <1>2, <1>3, <2>1, <2>4, <2>5
<1>14. ASSUME NEW h \in Handlers, Q!Breaks(h) PROVE Goal
  <2>1. UNCHANGED <<q_honoured, q_stamp, q_now, q_nonce>> /\ Q!Leave(h)
        /\ q_failures' = q_failures + 1
    BY <1>14 DEF Q!Breaks, Q!Fail
  <2>2. n' = n \/ n' = n - 1
    BY <2>1, <1>t, OneLeaves DEF n
  <2> QED
    BY <1>1, <1>2, <1>3, <2>1, <2>2
<1> QED
  BY <1>5, <1>6, <1>7, <1>8, <1>9, <1>10, <1>11, <1>12, <1>13, <1>14 DEF Q!Next

-----------------------------------------------------------------------------
LEMMA SigningInductive == ASSUME SigningAssumption PROVE Q!Spec => []SigningInv
<1>1. Q!Init => SigningInv
  BY SigningInit
<1>2. SigningInv /\ [Q!Next]_(Q!vars) => SigningInv'
  <2> SUFFICES ASSUME SigningInv, [Q!Next]_(Q!vars) PROVE SigningInv'
    OBVIOUS
  <2>1. CASE Q!Next
    BY <2>1, StepSigningTypes, StepServes, StepNear, StepLater, StepEarly, StepServed DEF SigningInv
  <2>2. CASE UNCHANGED Q!vars
    BY <2>2 DEF Q!vars, SigningInv, Q!TypeOK, ServesSigned, StampsAreNear, ClaimsComeLater,
       ClaimsAreEarly,
                ServedOnce, Served, Touching, Stale
  <2> QED
    BY <2>1, <2>2
<1> QED
  BY <1>1, <1>2, PTL DEF Q!Spec

\* verify_internal_caller: a use is counted exactly when an arrival goes on to its
\* route, whatever the clocks and however many arrive at once.
THEOREM SigningTypes == ASSUME SigningAssumption PROVE Q!Spec => []Q!TypeOK
<1>1. SigningInv => Q!TypeOK
  BY DEF SigningInv
<1> QED
  BY <1>1, SigningInductive, PTL

\* claim_once and the window of a signature: for any number of arrivals, however
\* they are delayed, a request is honoured once and once more for each failure.
THEOREM HonouredOnceHolds == ASSUME SigningAssumption PROVE Q!Spec => []Q!HonouredOnce
<1>1. SigningInv => Q!HonouredOnce
  <2> SUFFICES ASSUME SigningInv, NEW r \in SignedRequests PROVE q_honoured[r] <= 1 + q_failures
    BY DEF Q!HonouredOnce
  <2>1. Served(r) <= 1 + q_failures
    <3>1. Served(r) \in Int /\ q_failures \in Int
      BY TouchingIsFinite, Shapes DEF SigningInv, Served
    <3> QED
      BY <3>1 DEF SigningInv, ServedOnce
  <2>2. q_honoured[r] \in Nat /\ Cardinality(Touching(r)) \in Nat /\ q_failures \in Int
    BY TouchingIsFinite, Shapes DEF SigningInv
  <2> QED
    BY <2>1, <2>2 DEF Served
<1> QED
  BY <1>1, SigningInductive, PTL
-----------------------------------------------------------------------------
(* Windows of the clock.                                                    *)

LEMMA WindowsDivide ==
    ASSUME NEW t \in Nat, NEW w \in Nat, w > 0
    PROVE  /\ t - (t % w) = w * (t \div w) /\ t % w \in 0..(w - 1) /\ t \div w \in Nat
           /\ w * (t \div w) \in Nat
BY SMT

LEMMA MultiplesDivide ==
    ASSUME NEW k \in Nat, NEW w \in Nat, w > 0
    PROVE  (w * k) % w = 0
BY SMT

LEMMA OneMultiple ==
    ASSUME NEW a \in Nat, NEW b \in Nat, NEW w \in Nat, w > 0, w * a < w * b + w
    PROVE  a <= b
BY SMT

LEMMA ThrottleNumbers ==
    ASSUME ThrottleAssumption
    PROVE  /\ AttemptLimit \in Nat /\ AttemptLimit > 0 /\ AttemptWindow \in Nat /\ AttemptWindow > 0
           /\ MaxCount \in Nat /\ MaxCount > 0 /\ MaxTicks \in Nat /\ MaxFailures \in Nat
           /\ H!Never = -1 /\ H!Time = 0..MaxTicks
  BY DEF ThrottleAssumption, H!LimitAssumption, H!Never, H!Time

\* The window of a time starts no later than that, and is not over by then.
LEMMA WindowHolds ==
    ASSUME ThrottleAssumption, NEW t \in H!Time
    PROVE  /\ H!WindowStart(t) \in H!Starts /\ H!WindowStart(t) \in Nat
           /\ H!WindowStart(t) <= t /\ t < H!WindowStart(t) + AttemptWindow
<1>1. t \in Nat /\ t <= MaxTicks
  BY ThrottleNumbers
<1>2. t % AttemptWindow \in 0..(AttemptWindow - 1) /\ AttemptWindow * (t \div AttemptWindow) \in Nat
  BY <1>1, WindowsDivide, ThrottleNumbers
<1>3. H!WindowStart(t) = AttemptWindow * (t \div AttemptWindow)
  BY <1>1, WindowsDivide, ThrottleNumbers DEF H!WindowStart
<1>4. H!WindowStart(t) = t - (t % AttemptWindow)
  BY DEF H!WindowStart
<1>5. H!WindowStart(t) \in Nat /\ H!WindowStart(t) <= t /\ t < H!WindowStart(t) + AttemptWindow
  BY <1>1, <1>2, <1>3, <1>4, ThrottleNumbers
<1>6. H!WindowStart(t) % AttemptWindow = 0
  BY <1>1, <1>3, WindowsDivide, MultiplesDivide, ThrottleNumbers
<1> QED
  BY <1>1, <1>5, <1>6, ThrottleNumbers DEF H!Starts

\* The next tick is in the same window, or starts one.
LEMMA NextTick ==
    ASSUME ThrottleAssumption, NEW t \in H!Time, t + 1 \in H!Time
    PROVE  \/ H!WindowStart(t + 1) = t + 1
           \/ H!WindowStart(t + 1) = H!WindowStart(t) /\ t + 1 < H!WindowStart(t) + AttemptWindow
<1> DEFINE a == t \div AttemptWindow
           b == (t + 1) \div AttemptWindow
<1>1. t \in Nat /\ t + 1 \in Nat /\ AttemptWindow \in Nat /\ AttemptWindow > 0
  BY ThrottleNumbers
<1>2. a \in Nat /\ b \in Nat /\ H!WindowStart(t) = AttemptWindow * a
      /\ H!WindowStart(t + 1) = AttemptWindow * b
  BY <1>1, WindowsDivide DEF H!WindowStart
<1>3. /\ H!WindowStart(t) <= t /\ t < H!WindowStart(t) + AttemptWindow
      /\ H!WindowStart(t + 1) <= t + 1 /\ t + 1 < H!WindowStart(t + 1) + AttemptWindow
      /\ H!WindowStart(t) \in Nat /\ H!WindowStart(t + 1) \in Nat
  BY WindowHolds
<1> HIDE DEF a, b
<1>4. CASE H!WindowStart(t + 1) <= t
  <2>1. AttemptWindow * a < AttemptWindow * b + AttemptWindow
    BY <1>1, <1>2, <1>3, <1>4
  <2>2. AttemptWindow * b < AttemptWindow * a + AttemptWindow
    BY <1>1, <1>2, <1>3, <1>4
  <2>3. a <= b
    BY <1>1, <1>2, <2>1, OneMultiple
  <2>4. b <= a
    BY <1>1, <1>2, <2>2, OneMultiple
  <2>5. a = b
    BY <1>2, <2>3, <2>4
  <2> QED
    BY <1>2, <1>3, <2>5
<1>5. CASE ~(H!WindowStart(t + 1) <= t)
  BY <1>1, <1>3, <1>5
<1> QED
  BY <1>4, <1>5

-----------------------------------------------------------------------------
(* The inductive invariant of "enforce".                                    *)

Expiring == {c \in Callers : h_pc[c] = "expire"}
ThisWindow == H!WindowStart(h_now)

\* Whoever created a key is in its window still, alone, and the key counts it.
OneCreates ==
    /\ \A c, d \in Expiring : c = d
    /\ Expiring # {} => h_counter[ThisWindow].n > 0

\* No count falls out before its window is over, and no window is used before it.
CountsLast ==
    \A w \in H!Starts :
        /\ h_counter[w].ends # H!Never => w + AttemptWindow <= h_counter[w].ends
        /\ h_now < w => h_letIn[w] = 0

\* Attempts of this window let through, and the one about to be.
Through == h_letIn[ThisWindow] + (IF Expiring = {} THEN 0 ELSE 1)

\* Each was counted, or cost a failure, and was within the limit, or cost a failure.
ThroughIsCounted ==
    Through <= h_counter[ThisWindow].n + h_failures /\ Through <= AttemptLimit + h_failures

ThrottleInv ==
    /\ H!TypeOK /\ H!WithinBudget
    /\ h_guard = "enforce" => OneCreates /\ CountsLast /\ ThroughIsCounted

-----------------------------------------------------------------------------
LEMMA KeyIsStart ==
    ASSUME ThrottleAssumption, H!TypeOK
    PROVE  H!KeyAt(h_now) \in H!Starts
<1>1. h_now \in H!Time
  BY DEF H!TypeOK
<1>2. 0 \in H!Time
  BY ThrottleNumbers
<1>3. H!WindowStart(0) = 0
  BY <1>2, WindowHolds
<1>4. 0 \in H!Starts
  BY <1>2, <1>3, WindowHolds
<1> QED
  BY <1>1, <1>4, WindowHolds DEF H!KeyAt

LEMMA ThrottleInit == ASSUME ThrottleAssumption, H!Init PROVE ThrottleInv
<1>1. 0 \in H!Time
  BY ThrottleNumbers
<1>2. 0 \in H!Starts /\ ThisWindow = 0
  BY <1>1, WindowHolds DEF H!Init, ThisWindow
<1>3. H!TypeOK
  BY <1>1, <1>2, ThrottleNumbers DEF H!Init, H!TypeOK, H!Counter, H!Missing
<1>4. Expiring = {}
  BY DEF H!Init, Expiring
<1>5. OneCreates
  BY <1>4 DEF OneCreates
<1>6. CountsLast
  BY DEF H!Init, CountsLast, H!Missing
<1>7. Through = 0
  BY <1>2, <1>4 DEF H!Init, Through
<1>8. h_counter[ThisWindow].n = 0 /\ h_failures = 0
  BY <1>2 DEF H!Init, H!Missing
<1>9. ThroughIsCounted
  BY <1>7, <1>8, ThrottleNumbers DEF ThroughIsCounted
<1>10. H!WithinBudget
  BY ThrottleNumbers DEF H!Init, H!WithinBudget
<1> QED
  BY <1>3, <1>5, <1>6, <1>9, <1>10 DEF ThrottleInv

\* INCR keeps the shape of every count.
LEMMA BumpedIsCounter ==
    ASSUME ThrottleAssumption, H!TypeOK, NEW k \in H!Starts, h_counter[k].n < MaxCount
    PROVE  /\ H!Bumped(k) \in [H!Starts -> H!Counter]
           /\ H!Bumped(k)[k].n = h_counter[k].n + 1
           /\ \A w \in H!Starts : H!Bumped(k)[w].ends = h_counter[w].ends
           /\ \A w \in H!Starts : H!Bumped(k)[w].n >= h_counter[w].n
<1>1. h_counter \in [H!Starts -> H!Counter] /\ h_now \in H!Time
  BY DEF H!TypeOK
<1> DEFINE win == [n |-> h_counter[k].n + 1,
                   born |-> IF h_counter[k].n = 0 THEN h_now ELSE h_counter[k].born,
                   ends |-> h_counter[k].ends]
<1>2. H!Bumped(k) = [h_counter EXCEPT ![k] = win]
  BY DEF H!Bumped
<1>3. h_counter[k] \in H!Counter
  BY <1>1
<1>4. win \in H!Counter
  BY <1>1, <1>3, ThrottleNumbers DEF H!Counter
<1>5. \A w \in H!Starts : h_counter[w].n \in Nat
  BY <1>1, ThrottleNumbers DEF H!Counter
<1>6. win.n = h_counter[k].n + 1 /\ win.ends = h_counter[k].ends
  OBVIOUS
<1> HIDE DEF win
<1>7. H!Bumped(k) \in [H!Starts -> H!Counter]
  BY <1>1, <1>2, <1>4
<1>8. H!Bumped(k)[k] = win /\ \A w \in H!Starts : w # k => H!Bumped(k)[w] = h_counter[w]
  BY <1>1, <1>2
<1> QED
  BY <1>5, <1>6, <1>7, <1>8

-----------------------------------------------------------------------------
(* Each step.                                                               *)

LEMMA ThrottleTypes == ASSUME ThrottleAssumption, ThrottleInv, H!Next PROVE H!TypeOK'
<1>0. /\ h_guard \in Guards /\ h_now \in H!Time
      /\ h_counter \in [H!Starts -> H!Counter]
      /\ h_pc \in [Callers -> {"idle", "expire"}]
      /\ h_told \in [Callers -> 0..(MaxTicks + AttemptWindow) \cup {H!Never}]
      /\ h_tripped \in [Callers -> [key: H!Starts, born: H!Time]]
      /\ h_letIn \in [H!Starts -> Nat] /\ h_failures \in 0..MaxFailures
  BY DEF ThrottleInv, H!TypeOK
<1>k. H!KeyAt(h_now) \in H!Starts
  BY KeyIsStart DEF ThrottleInv
<1>w. /\ H!WindowStart(h_now) \in H!Starts /\ H!WindowStart(h_now) \in Nat
      /\ H!WindowStart(h_now) <= h_now
  BY <1>0, WindowHolds
<1>l. ASSUME NEW c \in Callers, H!LetThrough(c)
      PROVE  /\ h_told' \in [Callers -> 0..(MaxTicks + AttemptWindow) \cup {H!Never}]
             /\ h_tripped' \in [Callers -> [key: H!Starts, born: H!Time]]
             /\ h_letIn' \in [H!Starts -> Nat]
  <2>1. 0 \in H!Time
    BY ThrottleNumbers
  <2>2. H!WindowStart(0) = 0
    BY <2>1, WindowHolds
  <2>3. 0 \in H!Starts
    BY <2>1, <2>2, WindowHolds
  <2>4. [key |-> 0, born |-> 0] \in [key: H!Starts, born: H!Time]
    BY <2>1, <2>3
  <2> QED
    BY <1>l, <1>0, <1>w, <2>4 DEF H!LetThrough
<1>r. ASSUME NEW c \in Callers, H!Refuse(c, H!KeyAt(h_now))
      PROVE  /\ h_told' \in [Callers -> 0..(MaxTicks + AttemptWindow) \cup {H!Never}]
             /\ h_tripped' \in [Callers -> [key: H!Starts, born: H!Time]]
             /\ h_letIn' \in [H!Starts -> Nat]
  <2>1. h_now + H!RetryAfter \in 0..(MaxTicks + AttemptWindow)
    <3>1. /\ h_now \in Nat /\ h_now <= MaxTicks /\ MaxTicks \in Nat /\ AttemptWindow \in Nat
          /\ H!WindowStart(h_now) \in Nat /\ H!WindowStart(h_now) <= h_now
      BY <1>0, <1>w, ThrottleNumbers
    <3>2. H!RetryAfter \in {H!WindowStart(h_now) + AttemptWindow - h_now, AttemptWindow}
      BY DEF H!RetryAfter
    <3>3. CASE H!RetryAfter = H!WindowStart(h_now) + AttemptWindow - h_now
      <4>1. h_now + H!RetryAfter = H!WindowStart(h_now) + AttemptWindow
        BY <3>1, <3>3
      <4> QED
        BY <3>1, <4>1
    <3>4. CASE H!RetryAfter = AttemptWindow
      BY <3>1, <3>4
    <3> QED
      BY <3>2, <3>3, <3>4
  <2>2. h_counter[H!KeyAt(h_now)].born \in H!Time
    BY <1>0, <1>k DEF H!Counter
  <2> QED
    BY <1>r, <1>0, <1>k, <2>1, <2>2 DEF H!Refuse
<1>b. ASSUME NEW c \in Callers, H!Attempts(c)
      PROVE  H!Bumped(H!KeyAt(h_now)) \in [H!Starts -> H!Counter]
  BY <1>b, <1>k, BumpedIsCounter DEF H!Attempts, ThrottleInv
<1>1. CASE H!Tick
  <2>1. h_now' \in H!Time
    BY <1>1, <1>0, ThrottleNumbers DEF H!Tick
  <2>2. H!Missing \in H!Counter
    BY ThrottleNumbers DEF H!Missing, H!Counter
  <2>3. h_counter' \in [H!Starts -> H!Counter]
    BY <1>1, <1>0, <2>2 DEF H!Tick
  <2> QED
    BY <1>1, <1>0, <2>1, <2>3 DEF H!Tick, H!TypeOK
<1>2. ASSUME NEW c \in Callers, H!Creates(c) PROVE H!TypeOK'
  <2>1. h_counter' \in [H!Starts -> H!Counter]
    BY <1>2, <1>b DEF H!Creates
  <2> QED
    BY <1>2, <1>0, <2>1 DEF H!Creates, H!TypeOK
<1>3. ASSUME NEW c \in Callers, H!Counts(c) PROVE H!TypeOK'
  <2>1. h_counter' \in [H!Starts -> H!Counter]
    BY <1>3, <1>b DEF H!Counts
  <2>2. H!LetThrough(c) \/ H!Refuse(c, H!KeyAt(h_now))
    BY <1>3 DEF H!Counts
  <2> QED
    BY <1>3, <1>0, <1>l, <1>r, <2>1, <2>2 DEF H!Counts, H!TypeOK
<1>4. ASSUME NEW c \in Callers, H!CountFails(c) PROVE H!TypeOK'
  <2>1. h_counter' \in [H!Starts -> H!Counter]
    BY <1>4, <1>0, <1>b DEF H!CountFails
  <2>2. h_failures' \in 0..MaxFailures
    BY <1>4, <1>0, ThrottleNumbers DEF H!CountFails, H!Fail
  <2> QED
    BY <1>4, <1>0, <1>l, <2>1, <2>2 DEF H!CountFails, H!TypeOK
<1>5. ASSUME NEW c \in Callers, H!Expires(c) PROVE H!TypeOK'
  <2>1. h_counter[H!KeyAt(h_now)] \in H!Counter
    BY <1>0, <1>k
  <2>2. h_now + AttemptWindow \in 0..(MaxTicks + AttemptWindow)
    BY <1>0, ThrottleNumbers
  <2>3. [h_counter[H!KeyAt(h_now)] EXCEPT !.ends = h_now + AttemptWindow] \in H!Counter
    BY <2>1, <2>2 DEF H!Counter
  <2>4. h_counter' \in [H!Starts -> H!Counter]
    BY <1>5, <1>0, <1>k, <2>3 DEF H!Expires
  <2> QED
    BY <1>5, <1>0, <1>l, <2>4 DEF H!Expires, H!TypeOK
<1>6. ASSUME NEW c \in Callers, H!ExpireFails(c) PROVE H!TypeOK'
  <2>1. h_failures' \in 0..MaxFailures
    BY <1>6, <1>0, ThrottleNumbers DEF H!ExpireFails, H!Fail
  <2> QED
    BY <1>6, <1>0, <1>l, <2>1 DEF H!ExpireFails, H!TypeOK
<1> QED
  BY <1>1, <1>2, <1>3, <1>4, <1>5, <1>6 DEF H!Next

\* Within a window: what an attempt of it may change.
LEMMA EnforceStep ==
    ASSUME ThrottleAssumption, ThrottleInv, H!TypeOK', h_guard = "enforce",
           h_guard' = h_guard, h_now' = h_now,
           \A w \in H!Starts : w # ThisWindow => h_letIn'[w] = h_letIn[w],
           \A w \in H!Starts : \/ h_counter'[w].ends = h_counter[w].ends
                               \/ h_counter'[w].ends = h_now + AttemptWindow /\ w = ThisWindow,
           h_failures' \in Nat, h_failures' >= h_failures,
           OneCreates', ThroughIsCounted'
    PROVE  ThrottleInv'
<1>1. h_now \in H!Time /\ h_letIn' \in [H!Starts -> Nat] /\ h_failures \in Nat
  BY ThrottleNumbers DEF ThrottleInv, H!TypeOK
<1>2. ThisWindow \in H!Starts /\ ThisWindow \in Nat /\ ThisWindow <= h_now
  BY <1>1, WindowHolds DEF ThisWindow
<1>3. ThisWindow' = ThisWindow
  BY DEF ThisWindow
<1>4. CountsLast'
  BY <1>1, <1>2, <1>3, ThrottleNumbers DEF ThrottleInv, CountsLast, H!Starts
<1>5. h_letIn'[ThisWindow] <= AttemptLimit + h_failures'
  BY <1>1, <1>2, <1>3, ThrottleNumbers DEF ThroughIsCounted, Through
<1>6. \A w \in H!Starts : h_letIn'[w] <= AttemptLimit + h_failures'
  BY <1>1, <1>5, ThrottleNumbers DEF ThrottleInv, H!WithinBudget
<1> QED
  BY <1>4, <1>6 DEF ThrottleInv, H!WithinBudget

LEMMA TickEnforces ==
    ASSUME ThrottleAssumption, ThrottleInv, H!TypeOK', h_guard = "enforce", H!Tick
    PROVE  ThrottleInv'
<1>1. /\ h_now \in H!Time /\ h_now + 1 \in H!Time /\ h_now' = h_now + 1 /\ h_guard' = h_guard
      /\ h_letIn \in [H!Starts -> Nat] /\ h_failures \in Nat /\ h_counter' \in [H!Starts -> H!Counter]
      /\ h_letIn' = h_letIn /\ h_failures' = h_failures /\ h_pc' = h_pc
      /\ \A c \in Callers : h_pc[c] = "idle"
      /\ \A w \in H!Starts :
            h_counter'[w] = IF h_counter[w].ends = h_now + 1 THEN H!Missing ELSE h_counter[w]
  BY ThrottleNumbers DEF H!Tick, ThrottleInv, H!TypeOK
<1>2. Expiring = {} /\ Expiring' = {}
  BY <1>1 DEF Expiring
<1>3. OneCreates'
  BY <1>2 DEF OneCreates
<1>4. CountsLast'
  <2> SUFFICES ASSUME NEW w \in H!Starts
               PROVE  /\ h_counter'[w].ends # H!Never => w + AttemptWindow <= h_counter'[w].ends
                      /\ h_now' < w => h_letIn'[w] = 0
    BY DEF CountsLast
  <2>1. w \in Nat /\ h_now \in Nat
    BY <1>1, ThrottleNumbers DEF H!Starts
  <2>2. /\ h_counter[w].ends # H!Never => w + AttemptWindow <= h_counter[w].ends
        /\ h_now < w => h_letIn[w] = 0
    BY DEF ThrottleInv, CountsLast
  <2>3. H!Missing.ends = H!Never
    BY DEF H!Missing
  <2>4. h_counter'[w].ends # H!Never => h_counter'[w] = h_counter[w]
    BY <1>1, <2>3
  <2> QED
    BY <1>1, <2>1, <2>2, <2>4
<1>5. H!WithinBudget'
  BY <1>1 DEF ThrottleInv, H!WithinBudget
<1>6. ThroughIsCounted'
  <2>1. /\ ThisWindow' = H!WindowStart(h_now + 1) /\ ThisWindow' \in H!Starts /\ ThisWindow' \in Nat
    BY <1>1, WindowHolds DEF ThisWindow
  <2>2. Through' = h_letIn[ThisWindow']
    BY <1>1, <1>2, <2>1 DEF Through
  <2>3. h_counter'[ThisWindow'].n \in Nat
    BY <1>1, <2>1, ThrottleNumbers DEF H!Counter
  <2>4. CASE ThisWindow' = h_now + 1
    <3>1. h_letIn[ThisWindow'] = 0
      BY <1>1, <2>1, <2>4, ThrottleNumbers DEF ThrottleInv, CountsLast
    <3> QED
      BY <1>1, <2>2, <2>3, <3>1, ThrottleNumbers DEF ThroughIsCounted
  <2>5. CASE ThisWindow' # h_now + 1
    <3>1. ThisWindow' = ThisWindow /\ h_now + 1 < ThisWindow + AttemptWindow
      BY <1>1, <2>1, <2>5, NextTick DEF ThisWindow
    <3>2. h_counter[ThisWindow].ends # h_now + 1
      BY <1>1, <2>1, <3>1, ThrottleNumbers DEF ThrottleInv, CountsLast
    <3>3. h_counter'[ThisWindow'] = h_counter[ThisWindow]
      BY <1>1, <2>1, <3>1, <3>2
    <3>4. Through' = Through
      BY <1>2, <2>2, <3>1, <1>1, <2>1 DEF Through
    <3> QED
      BY <1>1, <3>3, <3>4 DEF ThrottleInv, ThroughIsCounted
  <2> QED
    BY <2>4, <2>5
<1> QED
  BY <1>3, <1>4, <1>5, <1>6 DEF ThrottleInv

\* INCR of a key that is missing: the one caller that may set its expiry.
LEMMA CreatesEnforces ==
    ASSUME ThrottleAssumption, ThrottleInv, H!TypeOK', h_guard = "enforce",
           NEW c \in Callers, H!Creates(c)
    PROVE  ThrottleInv'
<1>1. ThisWindow \in H!Starts /\ ThisWindow' = ThisWindow /\ H!KeyAt(h_now) = ThisWindow
  BY WindowHolds DEF H!Creates, ThisWindow, ThrottleInv, H!TypeOK, H!KeyAt
<1>2. /\ h_counter[ThisWindow].n = 0 /\ h_counter[ThisWindow].n < MaxCount
      /\ h_counter' = H!Bumped(ThisWindow)
  BY <1>1, ThrottleNumbers DEF H!Creates
<1>3. /\ h_counter'[ThisWindow].n = 1
      /\ \A w \in H!Starts : h_counter'[w].ends = h_counter[w].ends
  BY <1>1, <1>2, BumpedIsCounter DEF ThrottleInv
<1>4. Expiring = {}
  BY <1>2 DEF ThrottleInv, OneCreates
<1>5. Expiring' = {c}
  BY <1>4 DEF H!Creates, Expiring, ThrottleInv, H!TypeOK
<1>6. h_letIn' = h_letIn /\ h_failures' = h_failures /\ h_letIn[ThisWindow] \in Nat
      /\ h_failures \in Nat
  BY <1>1, ThrottleNumbers DEF H!Creates, ThrottleInv, H!TypeOK
<1>7. OneCreates'
  BY <1>1, <1>3, <1>5 DEF OneCreates
<1>8. Through = h_letIn[ThisWindow] /\ Through' = h_letIn[ThisWindow] + 1
  BY <1>1, <1>4, <1>5, <1>6 DEF Through
<1>9. ThroughIsCounted'
  BY <1>1, <1>2, <1>3, <1>6, <1>8, ThrottleNumbers DEF ThrottleInv, ThroughIsCounted
<1> QED
  BY <1>3, <1>6, <1>7, <1>9, EnforceStep DEF H!Creates

\* INCR of a key that is there.
LEMMA CountsEnforces ==
    ASSUME ThrottleAssumption, ThrottleInv, H!TypeOK', h_guard = "enforce",
           NEW c \in Callers, H!Counts(c)
    PROVE  ThrottleInv'
<1>1. ThisWindow \in H!Starts /\ ThisWindow' = ThisWindow /\ H!KeyAt(h_now) = ThisWindow
  BY WindowHolds DEF H!Counts, ThisWindow, ThrottleInv, H!TypeOK, H!KeyAt
<1>2. /\ h_counter[ThisWindow].n < MaxCount /\ h_counter' = H!Bumped(ThisWindow)
      /\ IF H!TooMany(h_counter[ThisWindow].n + 1) THEN H!Refuse(c, ThisWindow) ELSE H!LetThrough(c)
  BY <1>1 DEF H!Counts, H!Attempts
<1>3. /\ h_counter'[ThisWindow].n = h_counter[ThisWindow].n + 1
      /\ \A w \in H!Starts : h_counter'[w].ends = h_counter[w].ends
  BY <1>1, <1>2, BumpedIsCounter DEF ThrottleInv
<1>4. h_counter[ThisWindow].n \in Nat /\ h_counter[ThisWindow].n > 0
  BY <1>1, ThrottleNumbers DEF H!Counts, ThrottleInv, H!TypeOK, H!Counter
<1>5. Expiring' = Expiring /\ h_failures' = h_failures /\ h_guard' = h_guard /\ h_now' = h_now
  BY DEF H!Counts, Expiring
<1>6. h_failures \in Nat /\ h_letIn \in [H!Starts -> Nat]
  BY ThrottleNumbers DEF ThrottleInv, H!TypeOK
<1>7. OneCreates'
  BY <1>1, <1>3, <1>4, <1>5 DEF ThrottleInv, OneCreates
<1>8. CASE H!TooMany(h_counter[ThisWindow].n + 1)
  <2>1. h_letIn' = h_letIn
    BY <1>2, <1>8 DEF H!Refuse
  <2>t. Through' = Through /\ Through \in Nat
    BY <1>1, <1>5, <1>6, <2>1 DEF Through
  <2>u. Through <= h_counter[ThisWindow].n + h_failures /\ Through <= AttemptLimit + h_failures
    BY DEF ThrottleInv, ThroughIsCounted
  <2>2. ThroughIsCounted'
    BY <1>1, <1>3, <1>4, <1>5, <1>6, <2>t, <2>u, ThrottleNumbers DEF ThroughIsCounted
  <2> QED
    BY <1>3, <1>5, <1>6, <1>7, <2>1, <2>2, EnforceStep
<1>9. CASE ~H!TooMany(h_counter[ThisWindow].n + 1)
  <2>1. h_letIn' = [h_letIn EXCEPT ![ThisWindow] = @ + 1]
    BY <1>2, <1>9 DEF H!LetThrough, ThisWindow
  <2>2. h_letIn'[ThisWindow] = h_letIn[ThisWindow] + 1
    BY <1>1, <1>6, <2>1
  <2>3. h_counter[ThisWindow].n + 1 <= AttemptLimit
    BY <1>4, <1>9, ThrottleNumbers DEF H!TooMany
  <2>4. Through' = Through + 1
    BY <1>1, <1>5, <1>6, <2>2 DEF Through
  <2>5. Through \in Nat /\ Through <= h_counter[ThisWindow].n + h_failures
    BY <1>1, <1>6 DEF Through, ThrottleInv, ThroughIsCounted
  <2>v. /\ Through' <= h_counter'[ThisWindow].n + h_failures'
        /\ Through' <= AttemptLimit + h_failures'
    <3>1. /\ h_failures \in Nat /\ h_failures' = h_failures /\ AttemptLimit \in Nat
          /\ h_counter'[ThisWindow].n = h_counter[ThisWindow].n + 1
      BY <1>3, <1>5, <1>6, ThrottleNumbers
    <3> QED
      BY <1>4, <2>3, <2>4, <2>5, <3>1
  <2>6. ThroughIsCounted'
    BY <1>1, <2>v DEF ThroughIsCounted
  <2>7. \A w \in H!Starts : w # ThisWindow => h_letIn'[w] = h_letIn[w]
    BY <1>6, <2>1
  <2> QED
    BY <1>3, <1>5, <1>6, <1>7, <2>6, <2>7, EnforceStep
<1> QED
  BY <1>8, <1>9

\* One more through, at the cost of a failure, counted or not.
LEMMA FailureEnforces ==
    ASSUME ThrottleAssumption, ThrottleInv, H!TypeOK', h_guard = "enforce",
           NEW c \in Callers, H!CountFails(c) \/ H!ExpireFails(c)
    PROVE  ThrottleInv'
<1>1. ThisWindow \in H!Starts /\ ThisWindow' = ThisWindow /\ H!KeyAt(h_now) = ThisWindow
  BY WindowHolds DEF H!CountFails, H!ExpireFails, ThisWindow, ThrottleInv, H!TypeOK, H!KeyAt
<1>2. /\ h_failures \in Nat /\ h_letIn \in [H!Starts -> Nat] /\ h_failures' = h_failures + 1
      /\ h_guard' = h_guard /\ h_now' = h_now
      /\ h_letIn' = [h_letIn EXCEPT ![ThisWindow] = @ + 1]
  BY ThrottleNumbers
     DEF ThrottleInv, H!TypeOK, H!CountFails, H!ExpireFails, H!Fail, H!LetThrough, ThisWindow
<1>3. /\ h_letIn'[ThisWindow] = h_letIn[ThisWindow] + 1
      /\ \A w \in H!Starts : w # ThisWindow => h_letIn'[w] = h_letIn[w]
  BY <1>1, <1>2
<1>4. h_counter' = h_counter \/ (h_counter[ThisWindow].n < MaxCount /\ h_counter' = H!Bumped(ThisWindow))
  BY <1>1 DEF H!CountFails, H!ExpireFails, H!Attempts
<1>5. h_counter[ThisWindow].n \in Nat
  BY <1>1, ThrottleNumbers DEF ThrottleInv, H!TypeOK, H!Counter
<1>6. /\ h_counter'[ThisWindow].n \in Nat /\ h_counter'[ThisWindow].n >= h_counter[ThisWindow].n
      /\ \A w \in H!Starts : h_counter'[w].ends = h_counter[w].ends
  BY <1>1, <1>4, <1>5, BumpedIsCounter DEF ThrottleInv
<1>7. Expiring' \subseteq Expiring
  BY DEF H!CountFails, H!ExpireFails, Expiring, ThrottleInv, H!TypeOK
<1>8. OneCreates'
  BY <1>1, <1>5, <1>6, <1>7 DEF ThrottleInv, OneCreates
<1>9. Through \in Nat /\ Through' \in Nat /\ Through' <= Through + 1
  BY <1>1, <1>2, <1>3, <1>7 DEF Through
<1>t. Through <= h_counter[ThisWindow].n + h_failures /\ Through <= AttemptLimit + h_failures
  BY DEF ThrottleInv, ThroughIsCounted
<1>v. /\ h_failures \in Nat /\ h_failures' = h_failures + 1 /\ AttemptLimit \in Nat
      /\ h_counter'[ThisWindow].n \in Nat /\ h_counter'[ThisWindow].n >= h_counter[ThisWindow].n
  BY <1>2, <1>6, ThrottleNumbers
<1>u. /\ Through' <= h_counter'[ThisWindow].n + h_failures'
      /\ Through' <= AttemptLimit + h_failures'
  BY <1>5, <1>9, <1>t, <1>v
<1>10. ThroughIsCounted'
  BY <1>1, <1>u DEF ThroughIsCounted
<1> QED
  BY <1>2, <1>3, <1>6, <1>8, <1>10, EnforceStep

LEMMA ExpiresEnforces ==
    ASSUME ThrottleAssumption, ThrottleInv, H!TypeOK', h_guard = "enforce",
           NEW c \in Callers, H!Expires(c)
    PROVE  ThrottleInv'
<1>1. ThisWindow \in H!Starts /\ ThisWindow' = ThisWindow /\ H!KeyAt(h_now) = ThisWindow
  BY WindowHolds DEF H!Expires, ThisWindow, ThrottleInv, H!TypeOK, H!KeyAt
<1>2. /\ h_failures \in Nat /\ h_letIn \in [H!Starts -> Nat] /\ h_failures' = h_failures
      /\ h_counter \in [H!Starts -> H!Counter]
      /\ h_guard' = h_guard /\ h_now' = h_now
      /\ h_letIn' = [h_letIn EXCEPT ![ThisWindow] = @ + 1]
  BY ThrottleNumbers DEF ThrottleInv, H!TypeOK, H!Expires, H!LetThrough, ThisWindow
<1>3. /\ h_letIn'[ThisWindow] = h_letIn[ThisWindow] + 1
      /\ \A w \in H!Starts : w # ThisWindow => h_letIn'[w] = h_letIn[w]
  BY <1>1, <1>2
<1>4. h_counter' = [h_counter EXCEPT ![ThisWindow].ends = h_now + AttemptWindow]
  BY <1>1 DEF H!Expires
<1>5. h_counter[ThisWindow] \in H!Counter
  BY <1>1, <1>2
<1>6. /\ h_counter'[ThisWindow].n = h_counter[ThisWindow].n
      /\ h_counter'[ThisWindow].ends = h_now + AttemptWindow
      /\ \A w \in H!Starts : w # ThisWindow => h_counter'[w] = h_counter[w]
  BY <1>1, <1>2, <1>4, <1>5 DEF H!Counter
<1>7. c \in Expiring /\ Expiring' = Expiring \ {c}
  BY DEF H!Expires, Expiring, ThrottleInv, H!TypeOK
<1>8. Expiring' = {}
  BY <1>7 DEF ThrottleInv, OneCreates
<1>9. OneCreates'
  BY <1>8 DEF OneCreates
<1>10. Through' = Through
  BY <1>1, <1>2, <1>3, <1>7, <1>8 DEF Through
<1>11. ThroughIsCounted'
  BY <1>1, <1>2, <1>6, <1>10 DEF ThrottleInv, ThroughIsCounted
<1>12. \A w \in H!Starts : \/ h_counter'[w].ends = h_counter[w].ends
                           \/ h_counter'[w].ends = h_now + AttemptWindow /\ w = ThisWindow
  BY <1>6
<1>13. h_failures' \in Nat /\ h_failures' >= h_failures
  BY <1>2
<1> QED
  BY <1>2, <1>3, <1>9, <1>11, <1>12, <1>13, EnforceStep

LEMMA ThrottleStep ==
    ASSUME ThrottleAssumption, ThrottleInv, [H!Next]_(H!vars)
    PROVE  ThrottleInv'
<1>1. CASE H!Next
  <2>1. H!TypeOK'
    BY <1>1, ThrottleTypes
  <2>2. h_guard' = h_guard
    BY <1>1 DEF H!Next, H!Tick, H!Creates, H!Counts, H!CountFails, H!Expires, H!ExpireFails
  <2>3. CASE h_guard = "enforce"
    BY <1>1, <2>1, <2>3, TickEnforces, CreatesEnforces, CountsEnforces, FailureEnforces,
       ExpiresEnforces DEF H!Next
  <2>4. CASE h_guard # "enforce"
    BY <2>1, <2>2, <2>4 DEF ThrottleInv, H!WithinBudget
  <2> QED
    BY <2>3, <2>4
<1>2. CASE UNCHANGED H!vars
  BY <1>2 DEF H!vars, ThrottleInv, H!TypeOK, H!WithinBudget, OneCreates, CountsLast,
              ThroughIsCounted, Through, Expiring, ThisWindow
<1> QED
  BY <1>1, <1>2

LEMMA ThrottleInductive == ASSUME ThrottleAssumption PROVE H!Spec => []ThrottleInv
<1>1. H!Init => ThrottleInv
  BY ThrottleInit
<1>2. ThrottleInv /\ [H!Next]_(H!vars) => ThrottleInv'
  BY ThrottleStep
<1> QED
  BY <1>1, <1>2, PTL DEF H!Spec

-----------------------------------------------------------------------------
\* throttle.enforce: for any limit, window and callers, a window of the clock lets
\* through what the limit says, and one more for each failure of Redis.
THEOREM BudgetHolds == ASSUME ThrottleAssumption PROVE H!Spec => []H!WithinBudget
<1>1. ThrottleInv => H!WithinBudget
  BY DEF ThrottleInv
<1> QED
  BY <1>1, ThrottleInductive, PTL
-----------------------------------------------------------------------------
(* The inductive invariant of the accounts.                                 *)

AccountRequest ==
    [does: {"idle", "flush", "issue", "send", "commit", "verify", "reset", "signin", "link",
            "unlink"},
     user: Users \cup {Nobody}, for: U!Purposes, locks: BOOLEAN, drops: SUBSET (1..MaxCodes),
     identity: Identities, owned: BOOLEAN, proved: BOOLEAN, code: 0..MaxCodes]

\* Only a row that is there is verified, and with its address verified it has its
\* bonus, once.
RowsSettled ==
    \A u \in Users :
        /\ u_user[u].verified => u_user[u].there
        /\ u_user[u].bonus = IF u_user[u].verified THEN 1 ELSE 0

\* What a request goes by is still so when it commits: its code was issued, its
\* user is there, and was verified if it takes that for granted.
Knows(r) ==
    /\ r.does \in {"send", "commit"} => r.code # 0
    /\ r.does \in {"verify", "reset"} => r.user \in Users
    /\ r.user # Nobody => u_user[r.user].there
    /\ r.does = "link" \/ (r.does = "signin" /\ (r.owned \/ r.proved))
          => r.user \in Users /\ u_user[r.user].verified

RequestsKnow == \A q \in AccountRequests : Knows(u_req[q])

AccountsInv == U!TypeOK /\ RowsSettled /\ RequestsKnow

UsersOnlyGain ==
    \A u \in Users : /\ u_user[u].there => u_user'[u].there
                     /\ u_user[u].verified => u_user'[u].verified
OwnersVerified == \A i \in Identities : u_owner[i] # Nobody => u_user[u_owner[i]].verified

-----------------------------------------------------------------------------
LEMMA AccountNumbers ==
    ASSUME AccountsAssumption
    PROVE  MaxCodes \in Nat /\ MaxPasswords \in Nat /\ MaxFailures \in Nat /\ Nobody \notin Users
  BY DEF AccountsAssumption, U!BoundsAssumption, U!UnlinkersAssumption

LEMMA IdleKnows ==
    ASSUME AccountsAssumption
    PROVE  U!Idle \in AccountRequest /\ Knows(U!Idle) /\ Knows(U!Idle)'
<1>1. (CHOOSE i \in Identities : TRUE) \in Identities
  BY DEF AccountsAssumption, U!IdentitiesAssumption
<1> QED
  BY <1>1, AccountNumbers DEF U!Idle, AccountRequest, Knows, U!Purposes

LEMMA AccountsInit == ASSUME AccountsAssumption, U!Init PROVE AccountsInv
<1>1. U!Absent \in U!Row
  BY AccountNumbers DEF U!Absent, U!Row
<1>2. U!TypeOK
  BY <1>1, IdleKnows, AccountNumbers DEF U!Init, U!TypeOK, AccountRequest
<1>3. RowsSettled
  BY DEF U!Init, U!Absent, RowsSettled
<1>4. RequestsKnow
  BY IdleKnows DEF U!Init, RequestsKnow
<1> QED
  BY <1>2, <1>3, <1>4 DEF AccountsInv

LEMMA HolderIsUser ==
    ASSUME U!Holder # Nobody
    PROVE  U!Holder \in Users /\ u_user[U!Holder].there
<1>1. U!Holders # {}
  BY DEF U!Holder
<1>2. U!Holder \in U!Holders
  BY <1>1 DEF U!Holder
<1> QED
  BY <1>2 DEF U!Holders

\* What the grant of the bonus does to a row that has none, or one.
LEMMA GrantedOnce ==
    ASSUME NEW acc, acc.bonus \in {0, 1}
    PROVE  U!Granted(acc) = [acc EXCEPT !.bonus = 1]
<1>1. \A x \in {acc.bonus, 1} : 1 >= x
  OBVIOUS
<1>2. U!Max({acc.bonus, 1}) = 1
  <2>1. \A x \in {acc.bonus, 1} : (\A y \in {acc.bonus, 1} : x >= y) => x = 1
    OBVIOUS
  <2>2. 1 \in {acc.bonus, 1} /\ \A y \in {acc.bonus, 1} : 1 >= y
    OBVIOUS
  <2> QED
    BY <2>1, <2>2 DEF U!Max
<1> QED
  BY <1>2 DEF U!Granted

\* A step of one request, from what it leaves in each variable.
LEMMA AccountsKept ==
    ASSUME AccountsInv, NEW q \in AccountRequests, NEW r \in AccountRequest, Knows(r)',
           u_req' = [u_req EXCEPT ![q] = r],
           u_user' \in [Users -> U!Row], RowsSettled', UsersOnlyGain,
           u_owner' \in [Identities -> Users \cup {Nobody}], OwnersVerified',
           u_codes' \subseteq U!Code, u_inbox' \subseteq 1..MaxCodes, u_issued' \in 0..MaxCodes,
           u_tokens' \subseteq 0..MaxPasswords, u_passwords' \in 0..MaxPasswords,
           u_failures' \in 0..MaxFailures
    PROVE  AccountsInv'
<1>1. u_req \in [AccountRequests -> AccountRequest]
  BY DEF AccountsInv, U!TypeOK, AccountRequest
<1>2. u_req' \in [AccountRequests -> AccountRequest]
  BY <1>1
<1>3. U!TypeOK'
  BY <1>2 DEF U!TypeOK, AccountRequest, OwnersVerified
<1>4. ASSUME NEW p \in AccountRequests PROVE Knows(u_req[p])'
  <2>1. CASE p = q
    BY <1>1, <2>1
  <2>2. CASE p # q
    <3>1. u_req'[p] = u_req[p] /\ Knows(u_req[p]) /\ u_req[p].user \in Users \cup {Nobody}
      BY <1>1, <2>2 DEF AccountsInv, RequestsKnow, AccountRequest
    <3> QED
      BY <3>1 DEF Knows, UsersOnlyGain
  <2> QED
    BY <2>1, <2>2
<1> QED
  BY <1>3, <1>4 DEF AccountsInv, RequestsKnow

\* A step that changes no user, no owner and no password.
LEMMA AccountsKeptAside ==
    ASSUME AccountsAssumption, AccountsInv, NEW q \in AccountRequests, NEW r \in AccountRequest,
           Knows(r), u_req' = [u_req EXCEPT ![q] = r], UNCHANGED <<u_user, u_owner, u_passwords>>,
           u_codes' \subseteq U!Code, u_inbox' \subseteq 1..MaxCodes, u_issued' \in 0..MaxCodes,
           u_tokens' \subseteq 0..MaxPasswords, u_failures' \in 0..MaxFailures
    PROVE  AccountsInv'
<1>1. Knows(r)' /\ UsersOnlyGain /\ RowsSettled'
  BY DEF Knows, UsersOnlyGain, RowsSettled, AccountsInv
<1>2. OwnersVerified' /\ u_user' \in [Users -> U!Row] /\ u_passwords' \in 0..MaxPasswords
      /\ u_owner' \in [Identities -> Users \cup {Nobody}]
  BY DEF OwnersVerified, AccountsInv, U!TypeOK
<1> QED
  BY <1>1, <1>2, AccountsKept

LEMMA AccountTypes ==
    ASSUME AccountsAssumption, AccountsInv
    PROVE  /\ u_user \in [Users -> U!Row] /\ u_owner \in [Identities -> Users \cup {Nobody}]
           /\ u_codes \subseteq U!Code /\ u_inbox \subseteq 1..MaxCodes /\ u_issued \in 0..MaxCodes
           /\ u_tokens \subseteq 0..MaxPasswords /\ u_passwords \in 0..MaxPasswords
           /\ u_failures \in 0..MaxFailures /\ OwnersVerified
           /\ u_req \in [AccountRequests -> AccountRequest]
           /\ \A q \in AccountRequests : Knows(u_req[q])
  BY DEF AccountsInv, RequestsKnow, U!TypeOK, OwnersVerified, AccountRequest

\* A code is deleted, replaced or cooled.
LEMMA CodesAreCodes ==
    ASSUME AccountsAssumption, AccountsInv
    PROVE  /\ \A ids : U!Drop(ids) \subseteq U!Code
           /\ \A c \in u_codes : [c EXCEPT !.cold = TRUE] \in U!Code /\ c.id \in 1..MaxCodes
<1>1. u_codes \subseteq U!Code
  BY AccountTypes
<1> QED
  BY <1>1 DEF U!Drop, U!Code

\* A request starts, on what it read.
LEMMA StartsKept ==
    ASSUME AccountsAssumption, AccountsInv, NEW q \in AccountRequests,
           \/ U!Registers(q) \/ U!Resends(q) \/ U!Forgets(q) \/ U!Verifies(q) \/ U!Resets(q)
           \/ \E i \in Identities : \/ U!SignsIn(q, i) \/ U!Unlinks(q, i)
                                    \/ \E u \in Users : U!LinksStart(q, u, i)
    PROVE  AccountsInv'
<1>0. U!Idle \in AccountRequest /\ U!Idle.user = Nobody
  BY IdleKnows DEF U!Idle
<1>a. ASSUME NEW r \in AccountRequest, Knows(r), U!Starts(q, r),
             UNCHANGED <<u_user, u_owner, u_codes, u_inbox, u_issued, u_tokens, u_passwords,
                         u_failures>>
      PROVE  AccountsInv'
  BY <1>a, AccountsKeptAside, AccountTypes DEF U!Starts
<1>h. U!Holder \in Users \cup {Nobody} /\ (U!Holder # Nobody => u_user[U!Holder].there)
  BY HolderIsUser
<1>o. \A i \in Identities : /\ u_owner[i] \in Users \cup {Nobody}
                            /\ u_owner[i] # Nobody => u_user[u_owner[i]].there
  BY AccountTypes DEF OwnersVerified, AccountsInv, RowsSettled
<1>1. CASE U!Registers(q)
  <2> DEFINE r == [U!Idle EXCEPT !.does = "flush", !.user = U!Holder]
  <2>1. r \in AccountRequest /\ Knows(r)
    BY <1>0, <1>h DEF AccountRequest, Knows
  <2> QED
    BY <1>1, <1>a, <2>1 DEF U!Registers
<1>2. CASE U!Resends(q)
  <2> DEFINE r == [U!Idle EXCEPT !.does = "issue"]
  <2>1. r \in AccountRequest /\ Knows(r)
    BY <1>0 DEF AccountRequest, Knows
  <2> QED
    BY <1>2, <1>a, <2>1 DEF U!Resends
<1>3. CASE U!Forgets(q)
  <2> DEFINE r == [U!Idle EXCEPT !.does = "issue", !.for = "reset"]
  <2>1. r \in AccountRequest /\ Knows(r)
    BY <1>0 DEF AccountRequest, Knows, U!Purposes
  <2> QED
    BY <1>3, <1>a, <2>1 DEF U!Forgets
<1>4. CASE U!Verifies(q)
  <2> DEFINE r == [U!Idle EXCEPT !.does = "verify", !.user = U!Holder,
                                 !.code = U!Newest("register").id]
  <2>1. /\ U!Newest("register").id \in 0..MaxCodes /\ U!Holder \in Users
        /\ u_user[U!Holder].there
    BY <1>4, HolderIsUser, AccountTypes, AccountNumbers DEF U!Verifies
  <2>2. r \in AccountRequest /\ Knows(r)
    BY <1>0, <2>1 DEF AccountRequest, Knows
  <2> QED
    BY <1>4, <1>a, <2>2 DEF U!Verifies
<1>5. CASE U!Resets(q)
  <2> DEFINE r == [U!Idle EXCEPT !.does = "reset", !.user = U!Holder]
  <2>1. U!Holder \in Users /\ u_user[U!Holder].there
    BY <1>5, HolderIsUser DEF U!Resets
  <2>2. r \in AccountRequest /\ Knows(r)
    BY <1>0, <2>1 DEF AccountRequest, Knows
  <2> QED
    BY <1>5, <1>a, <2>2 DEF U!Resets
<1>6. ASSUME NEW i \in Identities, U!SignsIn(q, i) PROVE AccountsInv'
  <2> DEFINE u == IF u_owner[i] # Nobody THEN u_owner[i]
                  ELSE IF i \in Mailed THEN U!Holder ELSE Nobody
             r == [U!Idle EXCEPT !.does = "signin", !.user = u, !.identity = i,
                                 !.owned = (u_owner[i] # Nobody),
                                 !.proved = (u # Nobody /\ u_user[u].verified)]
  <2>1. /\ u \in Users \cup {Nobody} /\ u_owner[i] \in Users \cup {Nobody}
        /\ u # Nobody => u_user[u].there
    BY <1>h, <1>o
  <2>2. /\ (u # Nobody /\ u_user[u].verified) \in BOOLEAN /\ (u_owner[i] # Nobody) \in BOOLEAN
        /\ u_owner[i] # Nobody => u = u_owner[i] /\ u_user[u].verified
    BY AccountTypes DEF OwnersVerified
  <2> HIDE DEF u
  <2>3. r \in AccountRequest
    BY <1>0, <2>1, <2>2 DEF AccountRequest
  <2>4. Knows(r)
    <3>1. /\ r.does = "signin" /\ r.user = u /\ r.owned = (u_owner[i] # Nobody)
          /\ r.proved = (u # Nobody /\ u_user[u].verified)
      BY <1>0 DEF AccountRequest
    <3> HIDE DEF r
    <3>2. r.owned \/ r.proved => u \in Users /\ u_user[u].verified
      BY <2>1, <2>2, <3>1
    <3> QED
      BY <2>1, <3>1, <3>2 DEF Knows
  <2> QED
    BY <1>6, <1>a, <2>3, <2>4 DEF U!SignsIn, u
<1>7. ASSUME NEW i \in Identities, U!Unlinks(q, i) PROVE AccountsInv'
  <2> DEFINE r == [U!Idle EXCEPT !.does = "unlink", !.user = u_owner[i], !.identity = i]
  <2>1. r \in AccountRequest /\ Knows(r)
    BY <1>0, <1>o DEF AccountRequest, Knows
  <2> QED
    BY <1>7, <1>a, <2>1 DEF U!Unlinks
<1>8. ASSUME NEW i \in Identities, NEW u \in Users, U!LinksStart(q, u, i) PROVE AccountsInv'
  <2> DEFINE r == [U!Idle EXCEPT !.does = "link", !.user = u, !.identity = i]
  <2>1. r \in AccountRequest /\ Knows(r)
    BY <1>0, <1>8 DEF AccountRequest, Knows, U!LinksStart
  <2> QED
    BY <1>8, <1>a, <2>1 DEF U!LinksStart
<1> QED
  BY <1>1, <1>2, <1>3, <1>4, <1>5, <1>6, <1>7, <1>8

\* issue_otp up to its commit, and a sign-in that finds its identity taken.
LEMMA IssueKept ==
    ASSUME AccountsAssumption, AccountsInv, NEW q \in AccountRequests,
           U!Flushes(q) \/ U!Issues(q) \/ U!Sends(q) \/ U!SignInFails(q)
    PROVE  AccountsInv'
<1>0. /\ U!Idle \in AccountRequest /\ Knows(U!Idle) /\ u_req[q] \in AccountRequest
      /\ Knows(u_req[q])
  BY IdleKnows, AccountTypes
<1>e. ASSUME U!Ends(q), UNCHANGED <<u_user, u_owner, u_codes, u_inbox, u_issued, u_tokens,
                                    u_passwords>>, u_failures' \in 0..MaxFailures
      PROVE  AccountsInv'
  BY <1>e, <1>0, AccountsKeptAside, AccountTypes DEF U!Ends
<1>1. CASE U!Flushes(q)
  <2> DEFINE r == [u_req[q] EXCEPT !.does = "issue", !.locks = TRUE]
  <2>1. r \in AccountRequest /\ Knows(r)
    BY <1>0 DEF AccountRequest, Knows
  <2>2. CASE u_req' = [u_req EXCEPT ![q] = r]
    BY <1>1, <2>1, <2>2, AccountsKeptAside, AccountTypes DEF U!Flushes
  <2>3. CASE U!Ends(q)
    BY <1>1, <2>3, <1>e, AccountTypes DEF U!Flushes
  <2> QED
    BY <1>1, <2>2, <2>3 DEF U!Flushes
<1>2. CASE U!Issues(q)
  <2> DEFINE ids == {c.id : c \in U!CodesFor(u_req[q].for)}
             r == [u_req[q] EXCEPT !.does = "send", !.code = u_issued + 1, !.drops = ids]
  <2>1. CASE U!Ends(q) /\ UNCHANGED u_issued
    BY <1>2, <2>1, <1>e, AccountTypes DEF U!Issues
  <2>2. CASE u_issued' = u_issued + 1 /\ u_req' = [u_req EXCEPT ![q] = r]
    <3>1. u_issued + 1 \in 1..MaxCodes /\ u_issued + 1 # 0
      BY <1>2, AccountTypes, AccountNumbers DEF U!Issues
    <3>2. ids \in SUBSET (1..MaxCodes)
      BY CodesAreCodes DEF U!CodesFor
    <3> HIDE DEF ids
    <3>c. u_issued + 1 \in 0..MaxCodes
      BY <3>1, AccountNumbers
    <3>r. /\ r \in AccountRequest /\ r.does = "send" /\ r.code = u_issued + 1
          /\ r.user = u_req[q].user
      BY <1>0, <3>c, <3>2 DEF AccountRequest
    <3> HIDE DEF r
    <3>3. r \in AccountRequest /\ Knows(r)
      BY <1>0, <3>1, <3>r DEF Knows
    <3>4. u_issued' \in 0..MaxCodes
      BY <2>2, <3>1, AccountNumbers
    <3> QED
      BY <1>2, <2>2, <3>3, <3>4, AccountsKeptAside, AccountTypes DEF U!Issues, r
  <2> QED
    BY <1>2, <2>1, <2>2 DEF U!Issues
<1>3. CASE U!Sends(q)
  <2> DEFINE r == [u_req[q] EXCEPT !.does = "commit"]
  <2>1. CASE U!Fail /\ U!Ends(q) /\ UNCHANGED u_inbox
    <3>1. u_failures' \in 0..MaxFailures
      BY <2>1, AccountTypes, AccountNumbers DEF U!Fail
    <3> QED
      BY <1>3, <2>1, <3>1, <1>e DEF U!Sends
  <2>2. CASE u_inbox' = u_inbox \cup {u_req[q].code} /\ u_req' = [u_req EXCEPT ![q] = r]
             /\ UNCHANGED u_failures
    <3>1. r \in AccountRequest /\ Knows(r)
      BY <1>0, <1>3 DEF AccountRequest, Knows, U!Sends
    <3>2. u_req[q].code \in 1..MaxCodes
      BY <1>0, <1>3, AccountNumbers DEF AccountRequest, Knows, U!Sends
    <3>3. u_inbox' \subseteq 1..MaxCodes
      BY <2>2, <3>2, AccountTypes
    <3> QED
      BY <1>3, <2>2, <3>1, <3>3, AccountsKeptAside, AccountTypes DEF U!Sends
  <2> QED
    BY <1>3, <2>1, <2>2 DEF U!Sends
<1>4. CASE U!SignInFails(q)
  BY <1>4, <1>e, AccountTypes DEF U!SignInFails
<1> QED
  BY <1>1, <1>2, <1>3, <1>4

\* Steps that leave every request as it is.
LEMMA CodesKept ==
    ASSUME AccountsAssumption, AccountsInv,
           \/ \E c \in u_codes : U!Cools(c)
           \/ \E q \in AccountRequests : U!Proves(q)
    PROVE  AccountsInv'
<1>1. u_codes' \subseteq U!Code /\ u_tokens' \subseteq 0..MaxPasswords
  <2>1. CASE \E c \in u_codes : U!Cools(c)
    BY <2>1, CodesAreCodes, AccountTypes DEF U!Cools
  <2>2. CASE \E q \in AccountRequests : U!Proves(q)
    <3>1. U!Holder \in Users
      BY <2>2, HolderIsUser DEF U!Proves
    <3>2. u_user[U!Holder].password \in 0..MaxPasswords
      BY <3>1, AccountTypes DEF U!Row
    <3> QED
      BY <2>2, <3>2, AccountTypes DEF U!Proves
  <2> QED
    BY <2>1, <2>2
<1>2. UNCHANGED <<u_user, u_owner, u_inbox, u_issued, u_passwords, u_req, u_failures>>
  BY DEF U!Cools, U!Proves
<1> QED
  BY <1>1, <1>2 DEF AccountsInv, U!TypeOK, RowsSettled, RequestsKnow, Knows

\* One row of users changes, and stays verified if it was.
LEMMA RowChanges ==
    ASSUME AccountsAssumption, AccountsInv, NEW u \in Users, NEW acc \in U!Row,
           u_user' = [u_user EXCEPT ![u] = acc],
           u_user[u].there => acc.there, u_user[u].verified => acc.verified,
           acc.verified => acc.there,
           acc.bonus = IF acc.verified THEN 1 ELSE 0
    PROVE  /\ u_user' \in [Users -> U!Row] /\ RowsSettled' /\ UsersOnlyGain
           /\ u_user'[u] = acc
<1>1. u_user \in [Users -> U!Row]
  BY AccountTypes
<1>2. u_user'[u] = acc /\ \A v \in Users : v # u => u_user'[v] = u_user[v]
  BY <1>1
<1>3. u_user' \in [Users -> U!Row]
  BY <1>1
<1>4. UsersOnlyGain
  BY <1>2 DEF UsersOnlyGain
<1>5. RowsSettled'
  BY <1>2 DEF RowsSettled, AccountsInv
<1> QED
  BY <1>2, <1>3, <1>4, <1>5

\* A request ends with what it changed.
LEMMA EndsKept ==
    ASSUME AccountsAssumption, AccountsInv, NEW q \in AccountRequests, U!Ends(q),
           u_user' \in [Users -> U!Row], RowsSettled', UsersOnlyGain,
           u_owner' \in [Identities -> Users \cup {Nobody}], OwnersVerified',
           u_codes' \subseteq U!Code, UNCHANGED <<u_inbox, u_issued, u_tokens>>,
           u_passwords' \in 0..MaxPasswords, u_failures' \in 0..MaxFailures
    PROVE  AccountsInv'
  BY IdleKnows, AccountsKept, AccountTypes DEF U!Ends

\* Owners stay verified while users only gain it.
LEMMA OwnersStay ==
    ASSUME AccountsAssumption, AccountsInv, UsersOnlyGain, u_owner' = u_owner
    PROVE  OwnersVerified' /\ u_owner' \in [Identities -> Users \cup {Nobody}]
  BY AccountTypes DEF UsersOnlyGain, OwnersVerified

\* Nothing about users changes.
LEMMA UsersStay ==
    ASSUME AccountsAssumption, AccountsInv, u_user' = u_user
    PROVE  u_user' \in [Users -> U!Row] /\ RowsSettled' /\ UsersOnlyGain
  BY AccountTypes DEF UsersOnlyGain, RowsSettled, AccountsInv

\* The row a new user gets is one that nobody has, and that nothing is known of.
LEMMA UnusedIsFresh ==
    ASSUME AccountsAssumption, AccountsInv, U!Unused # {}
    PROVE  (CHOOSE u \in U!Unused : TRUE) \in Users
           /\ ~u_user[CHOOSE u \in U!Unused : TRUE].there
           /\ ~u_user[CHOOSE u \in U!Unused : TRUE].verified
<1>1. (CHOOSE u \in U!Unused : TRUE) \in U!Unused
  OBVIOUS
<1> QED
  BY <1>1 DEF U!Unused, AccountsInv, RowsSettled

LEMMA PasswordChanges ==
    ASSUME AccountsAssumption, AccountsInv, NEW u \in Users, NEW n \in 0..MaxPasswords,
           u_user' = [u_user EXCEPT ![u].password = n]
    PROVE  u_user' \in [Users -> U!Row] /\ RowsSettled' /\ UsersOnlyGain
<1> DEFINE acc == [u_user[u] EXCEPT !.password = n]
<1>1. u_user[u] \in U!Row
  BY AccountTypes
<1>2. /\ acc \in U!Row /\ acc.verified = u_user[u].verified /\ acc.there = u_user[u].there
      /\ acc.bonus = u_user[u].bonus
  BY <1>1 DEF U!Row
<1>3. u_user' = [u_user EXCEPT ![u] = acc]
  OBVIOUS
<1> HIDE DEF acc
<1>4. /\ u_user[u].verified => u_user[u].there
      /\ u_user[u].bonus = IF u_user[u].verified THEN 1 ELSE 0
  BY DEF AccountsInv, RowsSettled
<1>5. acc.bonus = IF acc.verified THEN 1 ELSE 0
  BY <1>2, <1>4
<1> QED
  BY <1>2, <1>3, <1>4, <1>5, RowChanges

\* register and issue_otp commit.
LEMMA CommitsCodeKept ==
    ASSUME AccountsAssumption, AccountsInv, NEW q \in AccountRequests, U!CommitsCode(q)
    PROVE  AccountsInv'
<1>0. u_req[q] \in AccountRequest /\ Knows(u_req[q])
  BY AccountTypes
<1>1. u_codes' \subseteq U!Code
  <2>1. u_req[q].code \in 1..MaxCodes
    BY <1>0, AccountNumbers DEF AccountRequest, Knows, U!CommitsCode
  <2>2. [id |-> u_req[q].code, for |-> u_req[q].for, cold |-> FALSE] \in U!Code
    BY <1>0, <2>1 DEF U!Code, AccountRequest
  <2>3. U!Stored(q) \subseteq U!Code
    BY <2>2, CodesAreCodes DEF U!Stored
  <2> QED
    BY <2>3, AccountTypes DEF U!CommitsCode
<1>2. u_failures' \in 0..MaxFailures
  BY AccountTypes, AccountNumbers DEF U!CommitsCode, U!Fail
<1>3. /\ u_user' \in [Users -> U!Row] /\ RowsSettled' /\ UsersOnlyGain
      /\ u_passwords' \in 0..MaxPasswords
  <2>1. CASE UNCHANGED <<u_user, u_passwords>>
    BY <2>1, UsersStay, AccountTypes
  <2>2. CASE U!Registered(q)
    <3>1. u_passwords + 1 \in 0..MaxPasswords /\ u_passwords' = u_passwords + 1
      BY <2>2, AccountTypes, AccountNumbers DEF U!Registered
    <3>2. CASE u_req[q].user = Nobody
      <4> DEFINE acc == [U!Absent EXCEPT !.there = TRUE, !.mail = TRUE,
                                         !.password = u_passwords + 1]
                 u   == CHOOSE u \in U!Unused : TRUE
      <4>1. U!Unused # {} /\ u_user' = [u_user EXCEPT ![u] = acc]
        BY <2>2, <3>2 DEF U!Registered, U!Insert
      <4>a. U!Absent \in U!Row /\ ~U!Absent.verified /\ U!Absent.bonus = 0
        BY AccountNumbers DEF U!Absent, U!Row
      <4>2. acc \in U!Row /\ ~acc.verified /\ acc.bonus = 0
        BY <3>1, <4>a DEF U!Row
      <4>3. u \in Users /\ ~u_user[u].there /\ ~u_user[u].verified
        BY <4>1, UnusedIsFresh
      <4> HIDE DEF acc, u
      <4> QED
        BY <3>1, <4>1, <4>2, <4>3, RowChanges
    <3>3. CASE u_req[q].user # Nobody
      <4>1. u_req[q].user \in Users
        BY <1>0, <3>3 DEF AccountRequest
      <4>2. u_user' = [u_user EXCEPT ![u_req[q].user].password = u_passwords + 1]
        BY <2>2, <3>3 DEF U!Registered
      <4> QED
        BY <3>1, <4>1, <4>2, PasswordChanges
    <3> QED
      BY <3>2, <3>3
  <2> QED
    BY <2>1, <2>2 DEF U!CommitsCode
<1>4. U!Ends(q) /\ UNCHANGED <<u_owner, u_inbox, u_issued, u_tokens>>
  BY DEF U!CommitsCode
<1> QED
  BY <1>1, <1>2, <1>3, <1>4, OwnersStay, EndsKept

\* verify_registration_otp, and the password a reset commits.
LEMMA CommitsUserKept ==
    ASSUME AccountsAssumption, AccountsInv, NEW q \in AccountRequests,
           U!CommitsVerified(q) \/ U!CommitsPassword(q)
    PROVE  AccountsInv'
<1> DEFINE u == u_req[q].user
<1>0. u \in Users /\ u_user[u] \in U!Row /\ u_user[u].there
  <2>1. u_req[q].does \in {"verify", "reset"} /\ Knows(u_req[q])
    BY AccountTypes DEF U!CommitsVerified, U!CommitsPassword
  <2> QED
    BY <2>1, AccountTypes, AccountNumbers DEF Knows
<1>1. u_codes' \subseteq U!Code
  BY CodesAreCodes, AccountTypes DEF U!CommitsVerified, U!CommitsPassword
<1>2. /\ u_user' \in [Users -> U!Row] /\ RowsSettled' /\ UsersOnlyGain
      /\ u_passwords' \in 0..MaxPasswords
  <2>1. CASE U!CommitsPassword(q)
    <3>1. /\ u_passwords + 1 \in 0..MaxPasswords /\ u_passwords' = u_passwords + 1
          /\ u_user' = [u_user EXCEPT ![u].password = u_passwords + 1]
      BY <2>1, AccountTypes, AccountNumbers DEF U!CommitsPassword
    <3> QED
      BY <1>0, <3>1, PasswordChanges
  <2>2. CASE U!CommitsVerified(q)
    <3> DEFINE acc == [u_user[u] EXCEPT !.verified = TRUE]
    <3>1. acc \in U!Row /\ acc.bonus \in {0, 1} /\ acc.verified /\ acc.there
      BY <1>0 DEF U!Row, AccountsInv, RowsSettled
    <3>2. u_user' = [u_user EXCEPT ![u] = U!Granted(acc)]
      BY <2>2 DEF U!CommitsVerified
    <3> HIDE DEF acc
    <3>3. U!Granted(acc) = [acc EXCEPT !.bonus = 1]
      BY <3>1, GrantedOnce
    <3>4. /\ U!Granted(acc) \in U!Row /\ U!Granted(acc).verified /\ U!Granted(acc).there
          /\ U!Granted(acc).bonus = 1
      BY <3>1, <3>3 DEF U!Row
    <3>5. u_passwords' \in 0..MaxPasswords
      BY <2>2, AccountTypes DEF U!CommitsVerified
    <3> QED
      BY <1>0, <3>2, <3>4, <3>5, RowChanges
  <2> QED
    BY <2>1, <2>2
<1>3. /\ U!Ends(q) /\ UNCHANGED <<u_owner, u_inbox, u_issued, u_tokens>>
      /\ u_failures' \in 0..MaxFailures
  BY AccountTypes DEF U!CommitsVerified, U!CommitsPassword
<1> QED
  BY <1>1, <1>2, <1>3, OwnersStay, EndsKept

\* A row gets its bonus and what comes with it; it has it once if it had it.
LEMMA GrantedRow ==
    ASSUME AccountsAssumption, AccountsInv, NEW u \in Users, NEW acc \in U!Row,
           u_user' = [u_user EXCEPT ![u] = U!Granted(acc)],
           acc.verified, acc.there, acc.bonus \in {0, 1}
    PROVE  /\ u_user' \in [Users -> U!Row] /\ RowsSettled' /\ UsersOnlyGain
           /\ u_user'[u].verified
<1>1. U!Granted(acc) = [acc EXCEPT !.bonus = 1]
  BY GrantedOnce
<1>2. /\ U!Granted(acc) \in U!Row /\ U!Granted(acc).verified /\ U!Granted(acc).there
      /\ U!Granted(acc).bonus = 1
  BY <1>1 DEF U!Row
<1> QED
  BY <1>2, RowChanges

\* sign_in of an identity that has an owner.
LEMMA SignsInOwnerKept ==
    ASSUME AccountsAssumption, AccountsInv, NEW q \in AccountRequests, U!SignsInOwner(q)
    PROVE  AccountsInv'
<1> DEFINE u == u_req[q].user
<1>1. u \in Users /\ u_user[u].verified /\ u_user[u] \in U!Row
  BY AccountTypes DEF U!SignsInOwner, Knows
<1>2. u_user[u].there /\ u_user[u].bonus \in {0, 1}
  BY <1>1 DEF AccountsInv, RowsSettled
<1>3. u_user' = [u_user EXCEPT ![u] = U!Granted(u_user[u])]
  BY DEF U!SignsInOwner
<1>4. u_user' \in [Users -> U!Row] /\ RowsSettled' /\ UsersOnlyGain
  BY <1>1, <1>2, <1>3, GrantedRow
<1>5. /\ U!Ends(q) /\ u_codes' \subseteq U!Code /\ u_passwords' \in 0..MaxPasswords
      /\ UNCHANGED <<u_owner, u_inbox, u_issued, u_tokens>> /\ u_failures' \in 0..MaxFailures
  BY AccountTypes DEF U!SignsInOwner
<1> QED
  BY <1>4, <1>5, OwnersStay, EndsKept

\* Whoever an identity is given to is verified by then.
LEMMA NewOwner ==
    ASSUME AccountsAssumption, AccountsInv, UsersOnlyGain, NEW i \in Identities, NEW u \in Users,
           u_owner' = [u_owner EXCEPT ![i] = u], u_user'[u].verified
    PROVE  OwnersVerified' /\ u_owner' \in [Identities -> Users \cup {Nobody}]
<1>1. u_owner \in [Identities -> Users \cup {Nobody}] /\ OwnersVerified
  BY AccountTypes
<1> QED
  BY <1>1 DEF OwnersVerified, UsersOnlyGain

\* sign_in of an identity without an owner: it joins the account it read.
LEMMA JoinsKept ==
    ASSUME AccountsAssumption, AccountsInv, NEW q \in AccountRequests, U!Joins(q)
    PROVE  AccountsInv'
<1> DEFINE u   == u_req[q].user
           i   == u_req[q].identity
           acc == IF u_req[q].proved THEN u_user[u]
                  ELSE [u_user[u] EXCEPT !.verified = TRUE, !.password = 0]
<1>1. u_req[q] \in AccountRequest /\ Knows(u_req[q]) /\ u # Nobody
  BY AccountTypes DEF U!Joins
<1>2. u \in Users /\ i \in Identities /\ u_user[u] \in U!Row /\ u_user[u].there
  BY <1>1, AccountTypes DEF AccountRequest, Knows
<1>3. u_req[q].proved => u_user[u].verified
  BY <1>1 DEF Knows, U!Joins
<1>4. u_user[u].bonus \in {0, 1}
  BY <1>2 DEF AccountsInv, RowsSettled
<1>5. acc \in U!Row /\ acc.verified /\ acc.there /\ acc.bonus \in {0, 1}
  <2>1. 0 \in 0..MaxPasswords
    BY AccountNumbers
  <2>2. CASE u_req[q].proved
    BY <1>2, <1>3, <1>4, <2>2
  <2>3. CASE ~u_req[q].proved
    BY <1>2, <1>4, <2>1, <2>3 DEF U!Row
  <2> QED
    BY <2>2, <2>3
<1>6. u_user' = [u_user EXCEPT ![u] = U!Granted(acc)] /\ u_owner' = [u_owner EXCEPT ![i] = u]
  BY DEF U!Joins
<1>7. u_codes' \subseteq U!Code
  BY AccountTypes DEF U!Joins
<1>8. /\ U!Ends(q) /\ u_passwords' \in 0..MaxPasswords
      /\ UNCHANGED <<u_inbox, u_issued, u_tokens>> /\ u_failures' \in 0..MaxFailures
  BY AccountTypes DEF U!Joins
<1> HIDE DEF acc, u, i
<1>9. u_user' \in [Users -> U!Row] /\ RowsSettled' /\ UsersOnlyGain /\ u_user'[u].verified
  BY <1>2, <1>5, <1>6, GrantedRow
<1>10. OwnersVerified' /\ u_owner' \in [Identities -> Users \cup {Nobody}]
  BY <1>2, <1>6, <1>9, NewOwner
<1> QED
  BY <1>7, <1>8, <1>9, <1>10, EndsKept

\* ... or is the first of an account of its own.
LEMMA SignsUpKept ==
    ASSUME AccountsAssumption, AccountsInv, NEW q \in AccountRequests, U!SignsUp(q)
    PROVE  AccountsInv'
<1> DEFINE i   == u_req[q].identity
           u   == CHOOSE u \in U!Unused : TRUE
           acc == [U!Absent EXCEPT !.there = TRUE, !.mail = (i \in Mailed), !.verified = TRUE]
<1>1. i \in Identities
  BY AccountTypes DEF AccountRequest
<1>2. /\ U!Unused # {} /\ u_user' = [u_user EXCEPT ![u] = U!Granted(acc)]
      /\ u_owner' = [u_owner EXCEPT ![i] = u]
  BY DEF U!SignsUp, U!Insert
<1>3. u \in Users
  BY <1>2, UnusedIsFresh
<1>4. acc \in U!Row /\ acc.verified /\ acc.there /\ acc.bonus \in {0, 1}
  <2>1. U!Absent \in U!Row /\ U!Absent.bonus = 0 /\ (i \in Mailed) \in BOOLEAN
    BY AccountNumbers DEF U!Absent, U!Row
  <2> QED
    BY <2>1 DEF U!Row
<1>5. /\ U!Ends(q) /\ u_codes' \subseteq U!Code /\ u_passwords' \in 0..MaxPasswords
      /\ UNCHANGED <<u_inbox, u_issued, u_tokens>> /\ u_failures' \in 0..MaxFailures
  BY AccountTypes DEF U!SignsUp
<1> HIDE DEF acc, u, i
<1>6. u_user' \in [Users -> U!Row] /\ RowsSettled' /\ UsersOnlyGain /\ u_user'[u].verified
  BY <1>2, <1>3, <1>4, GrantedRow
<1>7. OwnersVerified' /\ u_owner' \in [Identities -> Users \cup {Nobody}]
  BY <1>1, <1>2, <1>3, <1>6, NewOwner
<1> QED
  BY <1>5, <1>6, <1>7, EndsKept

\* link and unlink.
LEMMA LinksKept ==
    ASSUME AccountsAssumption, AccountsInv, NEW q \in AccountRequests,
           U!CommitsLink(q) \/ U!CommitsUnlink(q)
    PROVE  AccountsInv'
<1> DEFINE i == u_req[q].identity
<1>0. i \in Identities /\ u_owner \in [Identities -> Users \cup {Nobody}] /\ OwnersVerified
  BY AccountTypes DEF AccountRequest
<1>1. /\ U!Ends(q) /\ u_codes' \subseteq U!Code /\ u_passwords' \in 0..MaxPasswords
      /\ UNCHANGED <<u_user, u_inbox, u_issued, u_tokens>> /\ u_failures' \in 0..MaxFailures
  BY AccountTypes DEF U!CommitsLink, U!CommitsUnlink
<1>2. u_user' \in [Users -> U!Row] /\ RowsSettled' /\ UsersOnlyGain
  BY <1>1, UsersStay
<1>3. OwnersVerified' /\ u_owner' \in [Identities -> Users \cup {Nobody}]
  <2>1. CASE U!CommitsUnlink(q)
    <3>1. u_owner' = [u_owner EXCEPT ![i] = Nobody]
      BY <2>1 DEF U!CommitsUnlink
    <3> QED
      BY <1>0, <1>2, <3>1 DEF OwnersVerified, UsersOnlyGain
  <2>2. CASE U!CommitsLink(q) /\ u_owner[i] = Nobody
    <3>1. u_owner' = [u_owner EXCEPT ![i] = u_req[q].user]
      BY <2>2 DEF U!CommitsLink
    <3>2. u_req[q].user \in Users /\ u_user[u_req[q].user].verified
      BY <2>2, AccountTypes DEF U!CommitsLink, Knows
    <3>3. u_user'[u_req[q].user].verified
      BY <1>2, <3>2 DEF UsersOnlyGain
    <3> QED
      BY <1>0, <1>2, <3>1, <3>2, <3>3, NewOwner
  <2>3. CASE U!CommitsLink(q) /\ u_owner[i] # Nobody
    <3>1. u_owner' = [u_owner EXCEPT ![i] = u_owner[i]]
      BY <2>3 DEF U!CommitsLink
    <3>2. u_owner' = u_owner
      BY <1>0, <3>1
    <3> QED
      BY <1>2, <3>2, OwnersStay
  <2> QED
    BY <2>1, <2>2, <2>3
<1> QED
  BY <1>1, <1>2, <1>3, EndsKept

LEMMA AccountsInductive == ASSUME AccountsAssumption PROVE U!Spec => []AccountsInv
<1>1. U!Init => AccountsInv
  BY AccountsInit
<1>2. AccountsInv /\ [U!Next]_(U!vars) => AccountsInv'
  <2> SUFFICES ASSUME AccountsInv, [U!Next]_(U!vars) PROVE AccountsInv'
    OBVIOUS
  <2>1. CASE U!Next
    BY <2>1, StartsKept, IssueKept, CodesKept, CommitsCodeKept, CommitsUserKept, SignsInOwnerKept,
       JoinsKept, SignsUpKept, LinksKept DEF U!Next
  <2>2. CASE UNCHANGED U!vars
    BY <2>2 DEF U!vars, AccountsInv, U!TypeOK, RowsSettled, RequestsKnow, Knows
  <2> QED
    BY <2>1, <2>2
<1> QED
  BY <1>1, <1>2, PTL DEF U!Spec

-----------------------------------------------------------------------------
\* grant_signup_bonus: for any users, identities and requests in flight, a user
\* whose account is verified, whichever way, has its bonus, and has it once.
THEOREM OneBonusHolds == ASSUME AccountsAssumption PROVE U!Spec => []U!OneBonus
<1>1. AccountsInv => U!OneBonus
  BY DEF AccountsInv, RowsSettled, U!OneBonus
<1> QED
  BY <1>1, AccountsInductive, PTL

-----------------------------------------------------------------------------
(* A behaviour of the composition is, for each service, one of that service:  *)
(* its own steps, and stutters while another service has the scene.           *)

LEMMA AudioScene == AnySpec => R!Spec
<1>1. AnyInit => R!Init
  BY DEF AnyInit
<1>2. [AnyNext]_allVars => [R!Next]_(R!vars)
  BY DEF AnyNext, AudioMoves, ThrottleMoves, LinesMove, AccountsMove, PricesMove, SigningMoves,
         allVars, r_vars, R!vars, R!saving, R!deleting
<1> QED
  BY <1>1, <1>2, PTL DEF AnySpec, R!Spec

LEMMA ThrottleScene == AnySpec => H!Spec
<1>1. AnyInit => H!Init
  BY DEF AnyInit
<1>2. [AnyNext]_allVars => [H!Next]_(H!vars)
  BY DEF AnyNext, AudioMoves, ThrottleMoves, LinesMove, AccountsMove, PricesMove, SigningMoves,
         allVars, h_vars, H!vars
<1> QED
  BY <1>1, <1>2, PTL DEF AnySpec, H!Spec

LEMMA LinesScene == AnySpec => Spec
<1>1. AnyInit => Init
  BY DEF AnyInit
<1>2. [AnyNext]_allVars => [Next]_vars
  BY DEF AnyNext, AudioMoves, ThrottleMoves, LinesMove, AccountsMove, PricesMove, SigningMoves,
         allVars
<1> QED
  BY <1>1, <1>2, PTL DEF AnySpec, Spec

LEMMA AccountsScene == AnySpec => U!Spec
<1>1. AnyInit => U!Init
  BY DEF AnyInit
<1>2. [AnyNext]_allVars => [U!Next]_(U!vars)
  BY DEF AnyNext, AudioMoves, ThrottleMoves, LinesMove, AccountsMove, PricesMove, SigningMoves,
         allVars, u_vars, U!vars
<1> QED
  BY <1>1, <1>2, PTL DEF AnySpec, U!Spec

LEMMA PricesScene == AnySpec => P!Spec
<1>1. AnyInit => P!Init
  BY DEF AnyInit
<1>2. [AnyNext]_allVars => [P!Next]_(P!vars)
  BY DEF AnyNext, AudioMoves, ThrottleMoves, LinesMove, AccountsMove, PricesMove, SigningMoves,
         allVars, p_vars, P!vars
<1> QED
  BY <1>1, <1>2, PTL DEF AnySpec, P!Spec

LEMMA SigningScene == AnySpec => Q!Spec
<1>1. AnyInit => Q!Init
  BY DEF AnyInit
<1>2. [AnyNext]_allVars => [Q!Next]_(Q!vars)
  BY DEF AnyNext, AudioMoves, ThrottleMoves, LinesMove, AccountsMove, PricesMove, SigningMoves,
         allVars, q_vars, Q!vars
<1> QED
  BY <1>1, <1>2, PTL DEF AnySpec, Q!Spec

-----------------------------------------------------------------------------
(* What holds of each service holds of the composition.                       *)

\* Every service keeps its type invariant, whichever has the scene.
THEOREM EveryTypeOK == AnySpec => []TypesOK
<1>1. AnySpec => []R!TypeOK
  BY AudioScene, AudioTypes, ServicesAssumption
<1>2. AnySpec => []H!TypeOK
  <2>1. H!Spec => []ThrottleInv
    BY ThrottleInductive, ServicesAssumption
  <2>2. ThrottleInv => H!TypeOK
    BY DEF ThrottleInv
  <2> QED
    BY <2>1, <2>2, ThrottleScene, PTL
<1>3. AnySpec => []TypeOK
  BY LinesScene, LinesTypeCorrect, ServicesAssumption
<1>4. AnySpec => []U!TypeOK
  <2>1. U!Spec => []AccountsInv
    BY AccountsInductive, ServicesAssumption
  <2>2. AccountsInv => U!TypeOK
    BY DEF AccountsInv
  <2> QED
    BY <2>1, <2>2, AccountsScene, PTL
<1>5. AnySpec => []P!TypeOK
  BY PricesScene, PriceTypes, ServicesAssumption DEF PricesAssumption
<1>6. AnySpec => []Q!TypeOK
  BY SigningScene, SigningTypes, ServicesAssumption
<1>7. R!TypeOK /\ H!TypeOK /\ TypeOK /\ U!TypeOK /\ P!TypeOK /\ Q!TypeOK => TypesOK
  BY DEF TypesOK
<1> QED
  BY <1>1, <1>2, <1>3, <1>4, <1>5, <1>6, <1>7, PTL

\* release_key never deletes a file under a row that it could have counted.
THEOREM FilesStayShared == AnySpec => SharedFileKept
<1>1. AnySpec => R!SharedFileKept
  BY AudioScene, SharedFilesAreKept, ServicesAssumption
<1> QED
  BY <1>1 DEF SharedFileKept

\* throttle.enforce lets no subject in more often than its limit in a window.
THEOREM AttemptsAreBudgeted == AnySpec => []WithinBudget
<1>1. AnySpec => []H!WithinBudget
  BY ThrottleScene, BudgetHolds, ServicesAssumption
<1> QED
  BY <1>1, PTL DEF WithinBudget

\* verify_internal_caller honours a signed request once, but for stores that failed.
THEOREM SignedRequestsOnce == AnySpec => []HonouredOnce
<1>1. AnySpec => []Q!HonouredOnce
  BY SigningScene, HonouredOnceHolds, ServicesAssumption
<1> QED
  BY <1>1, PTL DEF HonouredOnce

\* However a user verifies, signs in or links, the signup bonus is granted once.
THEOREM BonusOnce == AnySpec => []OneBonus
<1>1. AnySpec => []U!OneBonus
  BY AccountsScene, OneBonusHolds, ServicesAssumption
<1> QED
  BY <1>1, PTL DEF OneBonus

\* settle_oneshot never clamps the charge of work within its quote.
THEOREM QuotesCoverSales == AnySpec => []QuoteCovers
<1>1. AnySpec => []P!QuoteCovers
  BY PricesScene, QuotesAreKept, ServicesAssumption DEF PricesAssumption
<1> QED
  BY <1>1, PTL DEF QuoteCovers

\* The calls of a user: the cap on lines, the count of lingering ones, the hold
\* under an answered call and the budget of candidates (open_call, lingering_lines,
\* _sweep_orphans, relay_candidates).
THEOREM CallsStayInBounds ==
    AnySpec => []LineCap /\ []LingeringCounts /\ []AnsweredIsPaid /\ []RelayedIsSpent
<1>1. Spec => []LineCap /\ []LingeringCounts /\ []AnsweredIsPaid /\ []RelayedIsSpent
  BY LinesAreCapped, LingeringLinesCount, AnsweredStaysPaid, BudgetIsKept, ServicesAssumption
<1> QED
  BY <1>1, LinesScene
=============================================================================
