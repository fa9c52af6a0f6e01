------------------------- MODULE ReviewQuotaProofs -------------------------
(***************************************************************************)
(* Proofs about ReviewQuota, for any number of requests, any limits and    *)
(* any number of days.                                                     *)
(***************************************************************************)
EXTENDS ReviewQuota, FiniteSetTheorems, TLAPS

\* The groups of variables in the UNCHANGED conjuncts.
USE DEF checked, tables, keys

\* The usage row written by record() keeps the tables well formed.
LEMMA WriteRowType ==
    ASSUME TypeOK, NEW r \in Reviews, WriteRow(r)
    PROVE  /\ usage' \in SUBSET [review : Reviews, day : Days,
                                 status : Statuses]
           /\ IsFiniteSet(usage')
           /\ spent' \in Nat
<1>1. PICK cost \in Costs :
          /\ usage' = usage \cup {[review |-> r, day |-> day,
                                   status |-> status[r]]}
          /\ spent' = IF status[r] \in BILLABLE THEN spent + cost ELSE spent
    BY DEF WriteRow
<1>2. cost \in Nat
    BY CostsAssumption
<1>3. [review |-> r, day |-> day, status |-> status[r]]
          \in [review : Reviews, day : Days, status : Statuses]
    BY DEF TypeOK
<1>4. IsFiniteSet(usage')
    BY <1>1, FS_AddElement DEF TypeOK
<1> QED
    BY <1>1, <1>2, <1>3, <1>4 DEF TypeOK

\* The rows a snapshot counts are finitely many.
LEMMA BilledFinite ==
    ASSUME TypeOK, NEW d
    PROVE  Cardinality(Billed(d)) \in Nat
<1>1. IsFiniteSet(Billed(d))
    BY FS_Subset DEF TypeOK, Billed
<1> QED
    BY <1>1, FS_CardinalityType

\* Every step of a request keeps the types.
LEMMA RequestStepType ==
    ASSUME TypeOK, NEW r \in Reviews,
           Submit(r) \/ ServerStep(r) \/ BudgetExpires(r) \/ Crash(r)
               \/ DeleteConversation(r)
    PROVE  TypeOK'
<1> USE DEF TypeOK, Goto, Steps, HoldingSteps, EndedSteps
<1>1. CASE Submit(r)
    BY <1>1 DEF Submit
<1>2. CASE Lookup(r)
    BY <1>2 DEF Lookup, FirstCheck
<1>3. CASE CountRequests(r)
    BY <1>3, BilledFinite DEF CountRequests, Snapshots
<1>4. CASE SumTokens(r)
    BY <1>4 DEF SumTokens, Snapshots
<1>5. CASE StoreSnapshot(r)
    BY <1>5 DEF StoreSnapshot, FirstCheck
<1>6. CASE Reserve(r)
    <2>1. AtLeastOne(inflight + 1) \in Nat
        BY DEF AtLeastOne
    <2> QED
        BY <1>6, <2>1 DEF Reserve
<1>7. CASE OpenConversation(r)
    BY <1>7 DEF OpenConversation
<1>8. CASE PrepareTools(r)
    BY <1>8 DEF PrepareTools
<1>9. CASE Finish(r)
    BY <1>9 DEF Finish
<1>10. CASE PersistReply(r)
    BY <1>10 DEF PersistReply
<1>11. CASE RecordUsage(r)
    <2>1. CASE WriteRow(r)
        <3>1. /\ usage' \in SUBSET [review : Reviews, day : Days,
                                    status : Statuses]
              /\ IsFiniteSet(usage')
              /\ spent' \in Nat
            BY <2>1, WriteRowType
        <3> QED
            BY <1>11, <3>1 DEF RecordUsage
    <2>2. CASE UNCHANGED <<usage, spent>>
        BY <1>11, <2>2 DEF RecordUsage
    <2> QED
        BY <1>11, <2>1, <2>2 DEF RecordUsage
<1>12. CASE Invalidate(r)
    BY <1>12 DEF Invalidate
<1>13. CASE Release(r)
    BY <1>13 DEF Release
<1>14. CASE BudgetExpires(r)
    BY <1>14 DEF BudgetExpires
<1>15. CASE Crash(r)
    BY <1>15 DEF Crash
<1>16. CASE DeleteConversation(r)
    BY <1>16 DEF DeleteConversation
<1> QED
    BY <1>1, <1>2, <1>3, <1>4, <1>5, <1>6, <1>7, <1>8, <1>9, <1>10, <1>11,
       <1>12, <1>13, <1>14, <1>15, <1>16 DEF ServerStep

\* So does every step of the system.
LEMMA TypeStep ==
    ASSUME TypeOK, [Next]_vars
    PROVE  TypeOK'
<1>1. CASE \E r \in Reviews :
          Submit(r) \/ ServerStep(r) \/ BudgetExpires(r) \/ Crash(r)
              \/ DeleteConversation(r)
    BY <1>1, RequestStepType
<1>2. CASE \E d \in Days : ExpireSnapshot(d)
    BY <1>2 DEF TypeOK, ExpireSnapshot
<1>3. CASE ExpireSlots
    BY <1>3 DEF TypeOK, ExpireSlots
<1>4. CASE Midnight
    BY <1>4, DayAssumption DEF TypeOK, Midnight, Days
<1>5. CASE Quiet \/ UNCHANGED vars
    BY <1>5 DEF TypeOK, Quiet, vars
<1> QED
    BY <1>1, <1>2, <1>3, <1>4, <1>5 DEF Next

LEMMA TypeInit == Init => TypeOK
<1> SUFFICES ASSUME Init PROVE TypeOK
    OBVIOUS
<1>1. IsFiniteSet(usage)
    BY FS_EmptySet DEF Init
<1>2. 1 \in Days
    BY DayAssumption DEF Days
<1> QED
    BY <1>1, <1>2 DEF Init, TypeOK, Steps, Snapshots, Statuses

\* Type correctness: whatever fails and however requests interleave, every
\* variable keeps its type; in particular the snapshots stay well formed and
\* the usage table finite.
THEOREM TypeCorrect == Spec => []TypeOK
<1>1. Init => TypeOK
    BY TypeInit
<1>2. TypeOK /\ [Next]_vars => TypeOK'
    BY TypeStep
<1> QED
    BY <1>1, <1>2, PTL DEF Spec

-----------------------------------------------------------------------------
(* The slots *)

SlotInv == SlotsCovered /\ TicketsSpread /\ AdmittedFits

\* The counter is reliable: Redis keeps the in-flight key and answers the
\* increments of reserve().  Everything else may still go wrong: crashes,
\* expired budgets, lost releases, failing databases and snapshots.
CounterReliable == Disruptions \cap {"uncounted", "expire"} = {}

LEMMA HoldersFinite ==
    /\ IsFiniteSet(Holding) /\ IsFiniteSet(Running)
    /\ Cardinality(Holding) \in Nat
    /\ Running \subseteq Holding
<1>1. Holding \subseteq Reviews /\ Running \subseteq Holding
    BY DEF Holding, Running, RunningSteps
<1>2. IsFiniteSet(Holding) /\ IsFiniteSet(Running)
    BY <1>1, ReviewsAssumption, FS_Subset
<1> QED
    BY <1>1, <1>2, FS_CardinalityType

\* A step that lets nobody in keeps the invariant when the counter still
\* covers those who stay.
LEMMA NobodyEnters ==
    ASSUME TypeOK, SlotInv,
           Holding' \subseteq Holding, slot' = slot,
           \A q \in Running' : q \in Running /\ seen'[q] = seen[q],
           inflight' >= Cardinality(Holding')
    PROVE  SlotInv'
<1>1. TicketsSpread'
    <2> SUFFICES ASSUME NEW n \in 0..DailyLimit
                 PROVE  Cardinality({q \in Holding' : slot'[q] <= n}) <= n
        BY DEF TicketsSpread
    <2> DEFINE Old == {q \in Holding : slot[q] <= n}
               New == {q \in Holding' : slot'[q] <= n}
    <2>1. New \subseteq Old
        OBVIOUS
    <2>2. IsFiniteSet(Old)
        BY HoldersFinite, FS_Subset
    <2>3. Cardinality(New) <= Cardinality(Old)
        BY <2>1, <2>2, FS_Subset
    <2>4. Cardinality(Old) \in Nat /\ Cardinality(New) \in Nat
        BY <2>1, <2>2, FS_Subset, FS_CardinalityType
    <2>5. Cardinality(Old) <= n
        BY DEF SlotInv, TicketsSpread
    <2>6. n \in Nat
        BY LimitAssumption
    <2> HIDE DEF Old, New
    <2>7. Cardinality(New) <= n
        BY <2>3, <2>4, <2>5, <2>6
    <2> QED
        BY <2>7 DEF New
<1>2. AdmittedFits'
    BY DEF SlotInv, AdmittedFits
<1> QED
    BY <1>1, <1>2 DEF SlotInv, SlotsCovered

\* The same for a step that leaves the counter and the snapshots alone.
LEMMA CounterUntouched ==
    ASSUME TypeOK, SlotInv,
           Holding' \subseteq Holding, Running' \subseteq Running,
           slot' = slot, seen' = seen, inflight' = inflight
    PROVE  SlotInv'
<1>1. Cardinality(Holding') <= Cardinality(Holding)
    BY HoldersFinite, FS_Subset
<1>2. Cardinality(Holding') \in Nat
    BY HoldersFinite, FS_Subset, FS_CardinalityType
<1>3. inflight' >= Cardinality(Holding')
    BY <1>1, <1>2, HoldersFinite DEF SlotInv, SlotsCovered, TypeOK
<1> QED
    BY <1>3, NobodyEnters

\* reserve(): the number handed out exceeds the number of holders, so the
\* newcomer joins only the sets that still have room.
LEMMA ReserveKeepsSlots ==
    ASSUME TypeOK, SlotInv, CounterReliable, NEW r \in Reviews, Reserve(r)
    PROVE  SlotInv'
<1> DEFINE taken == inflight + 1
<1>1. /\ AtLeastOne(taken) = taken
      /\ taken \in Nat
      /\ taken >= Cardinality(Holding) + 1
    BY HoldersFinite DEF SlotInv, SlotsCovered, TypeOK, AtLeastOne
<1>2. /\ pc[r] = "reserve"
      /\ inflight' = taken
      /\ slot' = [slot EXCEPT ![r] = taken]
      /\ seen' = seen
      /\ IF SecondCheck(r, taken) THEN Goto(r, "open")
                                  ELSE Goto(r, "giveback")
    BY <1>1 DEF Reserve, CounterReliable
<1> HIDE DEF taken
<1>3. r \notin Holding
    BY <1>2 DEF Holding, HoldingSteps
<1>4. Holding' = Holding \cup {r}
    BY <1>2 DEF Holding, HoldingSteps, Goto, TypeOK
<1>5. Cardinality(Holding') = Cardinality(Holding) + 1
    BY <1>3, <1>4, HoldersFinite, FS_AddElement
<1>6. SlotsCovered'
    BY <1>1, <1>2, <1>5, HoldersFinite DEF SlotsCovered
<1>7. TicketsSpread'
    <2> SUFFICES ASSUME NEW n \in 0..DailyLimit
                 PROVE  Cardinality({q \in Holding' : slot'[q] <= n}) <= n
        BY DEF TicketsSpread
    <2> DEFINE Old == {q \in Holding : slot[q] <= n}
               New == {q \in Holding' : slot'[q] <= n}
    <2>0. n \in Nat
        BY LimitAssumption
    <2>1. CASE n < taken
        <3>1. New = Old
            BY <1>1, <1>2, <1>3, <1>4, <2>0, <2>1 DEF TypeOK, Holding
        <3> QED
            BY <3>1 DEF SlotInv, TicketsSpread
    <2>2. CASE n >= taken
        <3>1. New \subseteq Holding'
            OBVIOUS
        <3>2. IsFiniteSet(Holding')
            BY <1>4, HoldersFinite, FS_AddElement
        <3>3. Cardinality(New) <= Cardinality(Holding')
            BY <3>1, <3>2, FS_Subset
        <3>4. Cardinality(New) \in Nat
            BY <3>1, <3>2, FS_Subset, FS_CardinalityType
        <3> HIDE DEF New
        <3>5. Cardinality(New) <= n
            BY <1>1, <1>5, <2>0, <2>2, <3>3, <3>4, HoldersFinite
        <3> QED
            BY <3>5 DEF New
    <2> QED
        BY <1>1, <2>0, <2>1, <2>2
<1>8. AdmittedFits'
    <2> SUFFICES ASSUME NEW q \in Running'
                 PROVE  seen'[q].requests + slot'[q] <= DailyLimit
        BY DEF AdmittedFits
    <2>1. CASE q = r
        <3>1. SecondCheck(r, taken)
            BY <1>2, <2>1 DEF Running, RunningSteps, HoldingSteps, Goto, TypeOK
        <3>2. seen[r].requests + taken - 1 < DailyLimit
            BY <3>1 DEF SecondCheck, QuotaLeft
        <3>3. seen[r].requests \in Nat
            BY DEF TypeOK, Snapshots
        <3>4. seen'[r].requests + slot'[r] = seen[r].requests + taken
            BY <1>2 DEF TypeOK
        <3> QED
            BY <1>1, <2>1, <3>2, <3>3, <3>4, LimitAssumption
    <2>2. CASE q # r
        <3>1. q \in Running
            BY <1>2, <2>2 DEF Running, Goto, TypeOK
        <3>2. seen'[q] = seen[q] /\ slot'[q] = slot[q]
            BY <1>2, <2>2, <3>1 DEF Running, TypeOK
        <3> QED
            BY <3>1, <3>2 DEF SlotInv, AdmittedFits
    <2> QED
        BY <2>1, <2>2
<1> QED
    BY <1>6, <1>7, <1>8 DEF SlotInv

\* release(): the holder leaves before, or without, the counter going down.
LEMMA ReleaseKeepsSlots ==
    ASSUME TypeOK, SlotInv, NEW r \in Reviews, Release(r)
    PROVE  SlotInv'
<1>1. /\ pc[r] \in {"release", "giveback"}
      /\ pc' = [pc EXCEPT ![r] = IF pc[r] = "release" THEN "done"
                                                      ELSE "refused"]
      /\ inflight' \in {inflight, inflight - 1}
      /\ slot' = slot /\ seen' = seen
    BY DEF Release, Goto
<1>2. r \in Holding
    BY <1>1 DEF Holding, HoldingSteps
<1>3. Holding' = Holding \ {r}
    BY <1>1 DEF Holding, HoldingSteps, TypeOK
<1>4. Running' \subseteq Running
    BY <1>1 DEF Running, RunningSteps, HoldingSteps, TypeOK
<1>5. Cardinality(Holding') = Cardinality(Holding) - 1
    BY <1>2, <1>3, HoldersFinite, FS_RemoveElement
<1>6. inflight' >= Cardinality(Holding')
    BY <1>1, <1>5, HoldersFinite DEF SlotInv, SlotsCovered, TypeOK
<1> QED
    BY <1>1, <1>3, <1>4, <1>6, NobodyEnters

\* The steps of a request that touch neither the counter nor the holders'
\* snapshots.
LEMMA OtherStepsKeepSlots ==
    ASSUME TypeOK, SlotInv, NEW r \in Reviews,
           \/ Submit(r) \/ Lookup(r) \/ CountRequests(r) \/ SumTokens(r)
           \/ StoreSnapshot(r) \/ OpenConversation(r) \/ PrepareTools(r)
           \/ Finish(r) \/ PersistReply(r) \/ RecordUsage(r) \/ Invalidate(r)
           \/ BudgetExpires(r) \/ Crash(r) \/ DeleteConversation(r)
    PROVE  SlotInv'
<1> USE DEF TypeOK, Goto, Holding, Running, RunningSteps, HoldingSteps
<1>1. CASE Lookup(r) \/ CountRequests(r) \/ SumTokens(r)
    <2>1. /\ pc[r] \notin HoldingSteps
          /\ \E s \in {"reserve", "refused", "count", "sum", "store"} :
                pc' = [pc EXCEPT ![r] = s]
          /\ \A q \in Reviews \ {r} : seen'[q] = seen[q]
          /\ slot' = slot /\ inflight' = inflight
        BY <1>1 DEF Lookup, CountRequests, SumTokens, FirstCheck
    <2>2. Holding' = Holding /\ Running' = Running
        BY <2>1
    <2>3. \A q \in Running' : q \in Running /\ seen'[q] = seen[q]
        BY <2>1, <2>2
    <2>4. inflight' >= Cardinality(Holding')
        BY <2>1, <2>2 DEF SlotInv, SlotsCovered
    <2> HIDE DEF TypeOK, Holding, Running
    <2> QED
        BY <2>1, <2>2, <2>3, <2>4, NobodyEnters
<1>2. CASE ~(Lookup(r) \/ CountRequests(r) \/ SumTokens(r))
    <2>1. /\ Holding' \subseteq Holding /\ Running' \subseteq Running
          /\ slot' = slot /\ seen' = seen /\ inflight' = inflight
        <3>1. CASE Submit(r)
            BY <3>1 DEF Submit
        <3>2. CASE StoreSnapshot(r)
            BY <3>2 DEF StoreSnapshot, FirstCheck
        <3>3. CASE OpenConversation(r)
            BY <3>3 DEF OpenConversation
        <3>4. CASE PrepareTools(r)
            BY <3>4 DEF PrepareTools
        <3>5. CASE Finish(r)
            BY <3>5 DEF Finish
        <3>6. CASE PersistReply(r)
            BY <3>6 DEF PersistReply
        <3>7. CASE RecordUsage(r)
            BY <3>7 DEF RecordUsage
        <3>8. CASE Invalidate(r)
            BY <3>8 DEF Invalidate
        <3>9. CASE BudgetExpires(r)
            BY <3>9 DEF BudgetExpires
        <3>10. CASE Crash(r)
            BY <3>10 DEF Crash
        <3>11. CASE DeleteConversation(r)
            BY <3>11 DEF DeleteConversation
        <3> QED
            BY <1>2, <3>1, <3>2, <3>3, <3>4, <3>5, <3>6, <3>7, <3>8, <3>9,
               <3>10, <3>11
    <2> HIDE DEF TypeOK, Holding, Running
    <2> QED
        BY <2>1, CounterUntouched
<1> QED
    BY <1>1, <1>2

LEMMA SlotStep ==
    ASSUME TypeOK, SlotInv, CounterReliable, [Next]_vars
    PROVE  SlotInv'
<1>1. CASE \E r \in Reviews : Reserve(r)
    BY <1>1, ReserveKeepsSlots
<1>2. CASE \E r \in Reviews : Release(r)
    BY <1>2, ReleaseKeepsSlots
<1>3. CASE \E r \in Reviews :
          \/ Submit(r) \/ Lookup(r) \/ CountRequests(r) \/ SumTokens(r)
          \/ StoreSnapshot(r) \/ OpenConversation(r) \/ PrepareTools(r)
          \/ Finish(r) \/ PersistReply(r) \/ RecordUsage(r) \/ Invalidate(r)
          \/ BudgetExpires(r) \/ Crash(r) \/ DeleteConversation(r)
    BY <1>3, OtherStepsKeepSlots
<1>4. CASE \/ \E d \in Days : ExpireSnapshot(d)
           \/ Midnight \/ Quiet \/ UNCHANGED vars
    <2>1. /\ pc' = pc /\ slot' = slot /\ seen' = seen
          /\ inflight' = inflight
        BY <1>4 DEF ExpireSnapshot, Midnight, Quiet, vars
    <2>2. Holding' = Holding /\ Running' = Running
        BY <2>1 DEF Holding, Running
    <2> QED
        BY <2>1, <2>2, CounterUntouched
<1>5. CASE ExpireSlots
    BY <1>5 DEF ExpireSlots, CounterReliable
<1> QED
    BY <1>1, <1>2, <1>3, <1>4, <1>5 DEF Next, ServerStep

LEMMA SlotInit == Init => SlotInv
<1> SUFFICES ASSUME Init PROVE SlotInv
    OBVIOUS
<1>1. Holding = {} /\ Running = {}
    BY DEF Init, Holding, Running, RunningSteps, HoldingSteps
<1>2. Cardinality({}) = 0
    BY FS_EmptySet
<1>3. TicketsSpread
    <2> SUFFICES ASSUME NEW n \in 0..DailyLimit
                 PROVE  Cardinality({q \in Holding : slot[q] <= n}) <= n
        BY DEF TicketsSpread
    <2>1. {q \in Holding : slot[q] <= n} = {}
        BY <1>1
    <2> QED
        BY <1>2, <2>1, LimitAssumption
<1>4. SlotsCovered /\ AdmittedFits
    BY <1>1, <1>2 DEF Init, SlotsCovered, AdmittedFits
<1> QED
    BY <1>3, <1>4 DEF SlotInv

\* The numbers handed out and the snapshots they were added to bound the
\* reviews that run.
LEMMA SlotInvBounds ==
    ASSUME TypeOK, SlotInv
    PROVE  SlotsWithinSeenQuota
<1> SUFFICES ASSUME NEW n \in 0..DailyLimit
             PROVE  Cardinality({r \in Running : seen[r].requests >= n})
                        <= DailyLimit - n
    BY DEF SlotsWithinSeenQuota
<1> DEFINE Late == {r \in Running : seen[r].requests >= n}
           Low == {r \in Holding : slot[r] <= DailyLimit - n}
<1>0. n \in Nat /\ DailyLimit - n \in 0..DailyLimit
    BY LimitAssumption
<1>1. Late \subseteq Low
    <2> SUFFICES ASSUME NEW r \in Late PROVE r \in Low
        OBVIOUS
    <2>1. /\ seen[r].requests \in Nat /\ slot[r] \in Nat
          /\ seen[r].requests + slot[r] <= DailyLimit
        BY DEF SlotInv, AdmittedFits, TypeOK, Snapshots, Running
    <2> QED
        BY <1>0, <2>1, HoldersFinite, LimitAssumption
<1>2. IsFiniteSet(Low)
    BY HoldersFinite, FS_Subset
<1>3. Cardinality(Late) <= Cardinality(Low)
    BY <1>1, <1>2, FS_Subset
<1>4. Cardinality(Low) \in Nat /\ Cardinality(Late) \in Nat
    BY <1>1, <1>2, FS_Subset, FS_CardinalityType
<1>5. Cardinality(Low) <= DailyLimit - n
    BY <1>0 DEF SlotInv, TicketsSpread
<1> HIDE DEF Late, Low
<1>6. Cardinality(Late) <= DailyLimit - n
    BY <1>0, <1>3, <1>4, <1>5, LimitAssumption
<1> QED
    BY <1>6 DEF Late

\* With a reliable counter the in-flight key always covers the requests that
\* hold a slot, whatever crashes, fails or is interrupted.
THEOREM CounterCoversHolders == CounterReliable => (Spec => []SlotsCovered)
<1> SUFFICES ASSUME CounterReliable PROVE Spec => []SlotsCovered
    OBVIOUS
<1>1. Init => TypeOK /\ SlotInv
    BY TypeInit, SlotInit
<1>2. TypeOK /\ SlotInv /\ [Next]_vars => (TypeOK /\ SlotInv)'
    BY TypeStep, SlotStep
<1>3. SlotInv => SlotsCovered
    BY DEF SlotInv
<1> QED
    BY <1>1, <1>2, <1>3, PTL DEF Spec

\* With a reliable counter, the reviews running at any moment that were
\* admitted on n or more used requests number at most the limit minus n, so
\* no more than the daily limit ever run at once.
THEOREM RunningWithinQuota ==
    CounterReliable => (Spec => []SlotsWithinSeenQuota)
<1> SUFFICES ASSUME CounterReliable PROVE Spec => []SlotsWithinSeenQuota
    OBVIOUS
<1>1. Init => TypeOK /\ SlotInv
    BY TypeInit, SlotInit
<1>2. TypeOK /\ SlotInv /\ [Next]_vars => (TypeOK /\ SlotInv)'
    BY TypeStep, SlotStep
<1>3. TypeOK /\ SlotInv => SlotsWithinSeenQuota
    BY SlotInvBounds
<1> QED
    BY <1>1, <1>2, <1>3, PTL DEF Spec

-----------------------------------------------------------------------------
(* The gate *)

Over == EndedSteps \cup {"giveback"}
Ended == {r \in Reviews : pc[r] \in Over}

\* How a step of one request moves it through the gate: it stays outside, in
\* or over, or it goes over.
Moves(from, to) ==
    \/ from \in RunningSteps /\ to \in RunningSteps
    \/ from \notin RunningSteps \cup Over /\ to \notin RunningSteps \cup Over
    \/ to \in Over

LEMMA StepsMove ==
    ASSUME TypeOK, NEW r \in Reviews,
           \/ Submit(r) \/ ServerStep(r) \/ BudgetExpires(r) \/ Crash(r)
           \/ DeleteConversation(r)
    PROVE  \E s \in Steps :
              /\ pc' = [pc EXCEPT ![r] = s]
              /\ \/ Moves(pc[r], s)
                 \/ pc[r] = "reserve" /\ s = "open"
<1> USE DEF Goto, Moves, Over, Steps, RunningSteps, HoldingSteps, EndedSteps
<1>1. CASE Submit(r)
    BY <1>1 DEF Submit
<1>2. CASE Lookup(r)
    BY <1>2 DEF Lookup, FirstCheck
<1>3. CASE CountRequests(r)
    BY <1>3 DEF CountRequests
<1>4. CASE SumTokens(r)
    BY <1>4 DEF SumTokens
<1>5. CASE StoreSnapshot(r)
    BY <1>5 DEF StoreSnapshot, FirstCheck
<1>6. CASE Reserve(r)
    BY <1>6 DEF Reserve
<1>7. CASE OpenConversation(r)
    BY <1>7 DEF OpenConversation
<1>8. CASE PrepareTools(r)
    BY <1>8 DEF PrepareTools
<1>9. CASE Finish(r)
    BY <1>9 DEF Finish
<1>10. CASE PersistReply(r)
    BY <1>10 DEF PersistReply
<1>11. CASE RecordUsage(r)
    BY <1>11 DEF RecordUsage
<1>12. CASE Invalidate(r)
    BY <1>12 DEF Invalidate
<1>13. CASE Release(r)
    BY <1>13 DEF Release
<1>14. CASE BudgetExpires(r)
    BY <1>14 DEF BudgetExpires
<1>15. CASE Crash(r)
    BY <1>15 DEF Crash
<1>16. CASE DeleteConversation(r)
    <2>1. pc' = [pc EXCEPT ![r] = pc[r]] /\ pc[r] \in Steps
        BY <1>16 DEF DeleteConversation, TypeOK
    <2> QED
        BY <2>1
<1> QED
    BY <1>1, <1>2, <1>3, <1>4, <1>5, <1>6, <1>7, <1>8, <1>9, <1>10, <1>11,
       <1>12, <1>13, <1>14, <1>15, <1>16 DEF ServerStep

\* The gate's copy of Cardinality is Cardinality.
LEMMA GateCardinality == \A S : Gate!Cardinality(S) = Cardinality(S)
    BY DEF Gate!Cardinality, Cardinality

LEMMA GateInit == Init => Gate!Init
    BY DEF Init, Gate!Init, Running, RunningSteps, HoldingSteps, EndedSteps

LEMMA GateStep ==
    ASSUME TypeOK, TypeOK', SlotInv', [Next]_vars
    PROVE  [Gate!Next]_(Gate!vars)
<1> USE DEF Gate!vars
<1>0. Ended = {r \in Reviews : pc[r] \in EndedSteps \cup {"giveback"}}
    BY DEF Ended, Over
<1>1. CASE pc' = pc
    BY <1>1 DEF Running
<1>2. CASE \E r \in Reviews :
          \/ Submit(r) \/ ServerStep(r) \/ BudgetExpires(r) \/ Crash(r)
          \/ DeleteConversation(r)
    <2>1. PICK r \in Reviews, s \in Steps :
              /\ pc' = [pc EXCEPT ![r] = s]
              /\ Moves(pc[r], s) \/ (pc[r] = "reserve" /\ s = "open")
        BY <1>2, StepsMove
    <2> USE DEF TypeOK, Over, EndedSteps, RunningSteps, HoldingSteps
    <2>2. CASE pc[r] = "reserve" /\ s = "open"
        <3>1. /\ r \notin Running \cup Ended
              /\ Running' = Running \cup {r} /\ Ended' = Ended
            BY <2>1, <2>2 DEF Running, Ended
        <3>2. Cardinality(Running) + 1 = Cardinality(Running')
            BY <3>1, HoldersFinite, FS_AddElement
        <3>3. Running' = {q \in Running' : seen'[q].requests >= 0}
            BY DEF TypeOK, Snapshots, Running
        <3>4. SlotsWithinSeenQuota'
            BY SlotInvBounds, PTL
        <3>5. Cardinality(Running') <= DailyLimit
            BY <3>3, <3>4, LimitAssumption DEF SlotsWithinSeenQuota
        <3>6. Cardinality(Running) < DailyLimit
            BY <3>2, <3>5, HoldersFinite, FS_CardinalityType, LimitAssumption
        <3> QED
            BY <1>0, <3>1, <3>6, GateCardinality
               DEF Gate!Next, Gate!Admit, Ended, Over
    <2>3. CASE pc[r] \in RunningSteps /\ s \in Over
        <3>1. /\ r \in Running
              /\ Running' = Running \ {r} /\ Ended' = Ended \cup {r}
            BY <2>1, <2>3 DEF Running, Ended
        <3> QED
            BY <1>0, <3>1 DEF Gate!Next, Gate!Finish, Ended, Over
    <2>4. CASE pc[r] \notin RunningSteps \cup Over /\ s \in Over
        <3>1. /\ r \notin Running \cup Ended
              /\ Running' = Running /\ Ended' = Ended \cup {r}
            BY <2>1, <2>4 DEF Running, Ended
        <3> QED
            BY <1>0, <3>1 DEF Gate!Next, Gate!Refuse, Ended, Over
    <2>5. CASE \/ pc[r] \in RunningSteps /\ s \in RunningSteps
               \/ pc[r] \in Over /\ s \in Over
               \/ /\ pc[r] \notin RunningSteps \cup Over
                  /\ s \notin RunningSteps \cup Over
        <3>1. Running' = Running /\ Ended' = Ended
            BY <2>1, <2>5 DEF Running, Ended
        <3> QED
            BY <1>0, <3>1 DEF Ended, Over
    <2> QED
        BY <2>1, <2>2, <2>3, <2>4, <2>5 DEF Moves
<1> QED
    BY <1>1, <1>2 DEF Next, ExpireSnapshot, ExpireSlots, Midnight, Quiet, vars

\* The whole path from chat() to the release at the end of the stream, with
\* its stale snapshots and its two checks, behaves like a gate that lets a
\* review in only while fewer than the daily limit are running.
THEOREM ImplementsGate == CounterReliable => (Spec => GateSpec)
<1> SUFFICES ASSUME CounterReliable PROVE Spec => GateSpec
    OBVIOUS
<1>1. Init => TypeOK /\ SlotInv
    BY TypeInit, SlotInit
<1>2. TypeOK /\ SlotInv /\ [Next]_vars => (TypeOK /\ SlotInv)'
    BY TypeStep, SlotStep
<1>3. TypeOK /\ TypeOK' /\ SlotInv' /\ [Next]_vars
          => [Gate!Next]_(Gate!vars)
    BY GateStep
<1> QED
    BY <1>1, <1>2, <1>3, GateInit, PTL DEF Spec, GateSpec, Gate!Spec

-----------------------------------------------------------------------------
(* The counter is exact when nothing is cut off *)

\* No worker dies, no bookkeeping is cut short, Redis answers.  The database
\* may fail and conversations may be deleted.
NothingCutOff ==
    Disruptions \cap {"uncounted", "expire", "crash", "budget", "cache"} = {}

LEMMA ExactStep ==
    ASSUME TypeOK, SlotsExact, NothingCutOff, [Next]_vars
    PROVE  SlotsExact'
<1>1. CASE \E r \in Reviews : Reserve(r)
    <2>1. PICK r \in Reviews : Reserve(r)
        BY <1>1
    <2>2. inflight \in Nat
        BY HoldersFinite DEF SlotsExact
    <2>3. inflight' = inflight + 1
        BY <2>1, <2>2 DEF Reserve, NothingCutOff, AtLeastOne
    <2>4. pc[r] = "reserve" /\ pc' \in {[pc EXCEPT ![r] = "open"],
                                        [pc EXCEPT ![r] = "giveback"]}
        BY <2>1 DEF Reserve, Goto
    <2>5. Holding' = Holding \cup {r} /\ r \notin Holding
        BY <2>4 DEF Holding, HoldingSteps, TypeOK
    <2>6. Cardinality(Holding') = Cardinality(Holding) + 1
        BY <2>5, HoldersFinite, FS_AddElement
    <2> QED
        BY <2>3, <2>6 DEF SlotsExact
<1>2. CASE \E r \in Reviews : Release(r)
    <2>1. PICK r \in Reviews : Release(r)
        BY <1>2
    <2>2. inflight' = inflight - 1
        BY <2>1 DEF Release, NothingCutOff
    <2>3. pc[r] \in {"release", "giveback"} /\ pc' \in {[pc EXCEPT ![r] = "done"],
                                                        [pc EXCEPT ![r] = "refused"]}
        BY <2>1 DEF Release, Goto
    <2>4. Holding' = Holding \ {r} /\ r \in Holding
        BY <2>3 DEF Holding, HoldingSteps, TypeOK
    <2>5. Cardinality(Holding') = Cardinality(Holding) - 1
        BY <2>4, HoldersFinite, FS_RemoveElement
    <2> QED
        BY <2>2, <2>5 DEF SlotsExact
<1>3. CASE \E r \in Reviews :
          \/ Submit(r) \/ Lookup(r) \/ CountRequests(r) \/ SumTokens(r)
          \/ StoreSnapshot(r) \/ OpenConversation(r) \/ PrepareTools(r)
          \/ Finish(r) \/ PersistReply(r) \/ RecordUsage(r) \/ Invalidate(r)
          \/ BudgetExpires(r) \/ Crash(r) \/ DeleteConversation(r)
    <2>1. PICK r \in Reviews :
          \/ Submit(r) \/ Lookup(r) \/ CountRequests(r) \/ SumTokens(r)
          \/ StoreSnapshot(r) \/ OpenConversation(r) \/ PrepareTools(r)
          \/ Finish(r) \/ PersistReply(r) \/ RecordUsage(r) \/ Invalidate(r)
          \/ DeleteConversation(r)
        BY <1>3 DEF NothingCutOff, BudgetExpires, Crash
    <2>2. \E s \in Steps :
              /\ pc' = [pc EXCEPT ![r] = s]
              /\ (s \in HoldingSteps) <=> (pc[r] \in HoldingSteps)
        <3> USE DEF Goto, Steps, HoldingSteps, EndedSteps
        <3>1. CASE Submit(r) \/ Lookup(r) \/ StoreSnapshot(r)
            BY <3>1 DEF Submit, Lookup, StoreSnapshot, FirstCheck
        <3>2. CASE CountRequests(r) \/ SumTokens(r) \/ PrepareTools(r)
            BY <3>2 DEF CountRequests, SumTokens, PrepareTools
        <3>3. CASE OpenConversation(r) \/ Finish(r) \/ Invalidate(r)
            BY <3>3 DEF OpenConversation, Finish, Invalidate
        <3>4. CASE PersistReply(r) \/ RecordUsage(r)
            BY <3>4 DEF PersistReply, RecordUsage
        <3>5. CASE DeleteConversation(r)
            <4>1. pc' = [pc EXCEPT ![r] = pc[r]] /\ pc[r] \in Steps
                BY <3>5 DEF DeleteConversation, TypeOK
            <4> QED
                BY <4>1
        <3> QED
            BY <2>1, <3>1, <3>2, <3>3, <3>4, <3>5
    <2>3. Holding' = Holding
        BY <2>2 DEF Holding, TypeOK
    <2>4. inflight' = inflight
        BY <2>1 DEF Submit, Lookup, CountRequests, SumTokens, StoreSnapshot,
                    OpenConversation, PrepareTools, Finish, PersistReply,
                    RecordUsage, Invalidate, DeleteConversation
    <2> QED
        BY <2>3, <2>4 DEF SlotsExact
<1>4. CASE \/ \E d \in Days : ExpireSnapshot(d)
           \/ Midnight \/ Quiet \/ UNCHANGED vars
    <2>1. pc' = pc /\ inflight' = inflight
        BY <1>4 DEF ExpireSnapshot, Midnight, Quiet, vars
    <2> QED
        BY <2>1 DEF SlotsExact, Holding
<1>5. CASE ExpireSlots
    BY <1>5 DEF ExpireSlots, NothingCutOff
<1> QED
    BY <1>1, <1>2, <1>3, <1>4, <1>5 DEF Next, ServerStep

\* No path through chat() and the stream, failing queries and deleted
\* conversations included, leaks a slot or gives one back twice.
THEOREM SlotsAreExact == NothingCutOff => (Spec => []SlotsExact)
<1> SUFFICES ASSUME NothingCutOff PROVE Spec => []SlotsExact
    OBVIOUS
<1>1. Init => SlotsExact
    <2> SUFFICES ASSUME Init PROVE SlotsExact
        OBVIOUS
    <2>1. Holding = {}
        BY DEF Init, Holding, HoldingSteps
    <2> QED
        BY <2>1, FS_EmptySet DEF Init, SlotsExact
<1>2. TypeOK /\ SlotsExact /\ [Next]_vars => SlotsExact'
    BY ExactStep
<1> QED
    BY <1>1, <1>2, TypeCorrect, PTL DEF Spec

-----------------------------------------------------------------------------
(* Usage rows *)

EarlySteps == {"idle", "lookup", "count", "sum", "store", "reserve", "open"}

\* A usage row is written once, after the reply row.
AnswersFirst ==
    /\ BilledRunsAnswered
    /\ \A r \in Reviews : pc[r] = "record" => conv[r] \in {"answered", "deleted"}
    /\ \A u \in usage : pc[u.review] \notin EarlySteps

LEMMA AnswersFirstStep ==
    ASSUME TypeOK, AnswersFirst, [Next]_vars
    PROVE  AnswersFirst'
<1>t. \A u \in usage : u.review \in Reviews
    BY DEF TypeOK
<1>1. CASE \E r \in Reviews : OpenConversation(r)
    <2>1. PICK r \in Reviews : OpenConversation(r)
        BY <1>1
    <2>2. \A u \in usage : u.review # r
        BY <2>1 DEF OpenConversation, AnswersFirst, EarlySteps
    <2>3. /\ \A q \in Reviews \ {r} : conv'[q] = conv[q] /\ pc'[q] = pc[q]
          /\ pc'[r] \in {"prepare", "giveback"} /\ usage' = usage
        BY <2>1 DEF OpenConversation, Goto, TypeOK
    <2> QED
        BY <1>t, <2>2, <2>3 DEF AnswersFirst, BilledRunsAnswered
<1>2. CASE \E r \in Reviews : PersistReply(r)
    <2>1. PICK r \in Reviews : PersistReply(r)
        BY <1>2
    <2>2. /\ \/ /\ conv' = conv
                /\ pc'[r] = "release"
             \/ /\ conv' = [conv EXCEPT ![r] = "answered"]
                /\ pc'[r] \in {"record", "release"}
          /\ \A q \in Reviews \ {r} : pc'[q] = pc[q]
          /\ usage' = usage
        BY <2>1 DEF PersistReply, Goto, TypeOK
    <2>3. \A q \in Reviews : conv'[q] \in {conv[q], "answered"}
        BY <2>2 DEF TypeOK
    <2>4. pc'[r] = "record" => conv'[r] = "answered"
        BY <2>2 DEF TypeOK
    <2> QED
        BY <1>t, <2>2, <2>3, <2>4 DEF AnswersFirst, BilledRunsAnswered, EarlySteps
<1>3. CASE \E r \in Reviews : RecordUsage(r)
    <2>1. PICK r \in Reviews : RecordUsage(r)
        BY <1>3
    <2>2. /\ pc[r] = "record" /\ conv' = conv
          /\ \A q \in Reviews \ {r} : pc'[q] = pc[q]
          /\ pc'[r] \in {"invalidate", "release"}
        BY <2>1 DEF RecordUsage, Goto, TypeOK
    <2>3. \A u \in usage' : u \in usage \/ u.review = r
        BY <2>1 DEF RecordUsage, WriteRow
    <2> QED
        BY <1>t, <2>2, <2>3 DEF AnswersFirst, BilledRunsAnswered, EarlySteps
<1>4. CASE \E r \in Reviews : DeleteConversation(r)
    <2>1. PICK r \in Reviews : DeleteConversation(r)
        BY <1>4
    <2>2. /\ \A q \in Reviews : conv'[q] \in {conv[q], "deleted"}
          /\ pc' = pc /\ usage' = usage
        BY <2>1 DEF DeleteConversation, TypeOK
    <2> QED
        BY <1>t, <2>2 DEF AnswersFirst, BilledRunsAnswered
<1>5. CASE \E r \in Reviews :
          \/ Submit(r) \/ Lookup(r) \/ CountRequests(r) \/ SumTokens(r)
          \/ StoreSnapshot(r) \/ Reserve(r)
    <2>1. PICK r \in Reviews :
          \/ Submit(r) \/ Lookup(r) \/ CountRequests(r) \/ SumTokens(r)
          \/ StoreSnapshot(r) \/ Reserve(r)
        BY <1>5
    <2>2. /\ conv' = conv /\ usage' = usage
          /\ pc[r] \in EarlySteps
          /\ \E s \in EarlySteps \cup {"refused", "giveback"} :
                 pc' = [pc EXCEPT ![r] = s]
        BY <2>1 DEF Submit, Lookup, CountRequests, SumTokens, StoreSnapshot,
                    Reserve, FirstCheck, Goto, EarlySteps
    <2>3. \A u \in usage : u.review # r
        BY <2>2 DEF AnswersFirst
    <2>4. pc'[r] # "record" /\ \A q \in Reviews \ {r} : pc'[q] = pc[q]
        BY <2>2 DEF TypeOK, EarlySteps
    <2> QED
        BY <1>t, <2>2, <2>3, <2>4 DEF AnswersFirst, BilledRunsAnswered
<1>6. CASE \E r \in Reviews :
          \/ PrepareTools(r) \/ Finish(r) \/ Invalidate(r) \/ Release(r)
          \/ BudgetExpires(r) \/ Crash(r)
    <2>1. PICK r \in Reviews :
          \/ PrepareTools(r) \/ Finish(r) \/ Invalidate(r) \/ Release(r)
          \/ BudgetExpires(r) \/ Crash(r)
        BY <1>6
    <2>2. /\ conv' = conv /\ usage' = usage
          /\ \E s \in {"streaming", "giveback", "persist", "release", "done",
                       "refused", "crashed"} : pc' = [pc EXCEPT ![r] = s]
        BY <2>1 DEF PrepareTools, Finish, Invalidate, Release, BudgetExpires,
                    Crash, Goto
    <2>3. /\ \A q \in Reviews \ {r} : pc'[q] = pc[q]
          /\ pc'[r] \notin EarlySteps \cup {"record"}
        BY <2>2 DEF TypeOK, EarlySteps
    <2> QED
        BY <1>t, <2>2, <2>3 DEF AnswersFirst, BilledRunsAnswered
<1>7. CASE \/ \E d \in Days : ExpireSnapshot(d)
           \/ ExpireSlots \/ Midnight \/ Quiet \/ UNCHANGED vars
    <2>1. pc' = pc /\ conv' = conv /\ usage' = usage
        BY <1>7 DEF ExpireSnapshot, ExpireSlots, Midnight, Quiet, vars
    <2> QED
        BY <2>1 DEF AnswersFirst, BilledRunsAnswered
<1> QED
    BY <1>1, <1>2, <1>3, <1>4, <1>5, <1>6, <1>7 DEF Next, ServerStep

\* Nobody pays for a question without an answer, whatever fails, dies or is
\* deleted.
THEOREM NothingUnansweredIsBilled == Spec => []BilledRunsAnswered
<1>1. Init => AnswersFirst
    BY DEF Init, AnswersFirst, BilledRunsAnswered
<1>2. TypeOK /\ AnswersFirst /\ [Next]_vars => AnswersFirst'
    BY AnswersFirstStep
<1>3. AnswersFirst => BilledRunsAnswered
    BY DEF AnswersFirst
<1> QED
    BY <1>1, <1>2, <1>3, TypeCorrect, PTL DEF Spec

-----------------------------------------------------------------------------
(* Snapshots *)

\* A snapshot of day d is not ahead of these rows and this sum of tokens.
RowsOf(rows, d) == {u \in rows : u.day >= d /\ u.status \in BILLABLE}
NotAhead(s, d, rows, sum) ==
    s.requests <= Cardinality(RowsOf(rows, d)) /\ s.tokens <= sum

\* Before its first read a request has seen nothing.
NothingSeenYet ==
    \A r \in Reviews : pc[r] \in {"idle", "lookup"} =>
        seen[r] = [requests |-> 0, tokens |-> 0]

LEMMA NeverAheadIs ==
    /\ SnapshotsNeverAhead <=>
        /\ \A d \in Days :
              cache[d] # NoSnapshot => NotAhead(cache[d], d, usage, spent)
        /\ \A r \in Reviews : NotAhead(seen[r], seenDay[r], usage, spent)
    /\ SnapshotsNeverAhead' <=>
        /\ \A d \in Days :
              cache'[d] # NoSnapshot => NotAhead(cache'[d], d, usage', spent')
        /\ \A r \in Reviews : NotAhead(seen'[r], seenDay'[r], usage', spent')
<1>1. \A d : Billed(d) = RowsOf(usage, d)
    BY DEF Billed, RowsOf
<1>2. \A r \in Reviews : Billed(seenDay[r])' = RowsOf(usage', seenDay'[r])
    BY DEF Billed, RowsOf
<1>3. \A d \in Days : Billed(d)' = RowsOf(usage', d)
    BY DEF Billed, RowsOf
<1> QED
    BY <1>1, <1>2, <1>3 DEF SnapshotsNeverAhead, NotAhead

\* The rows a snapshot counts are finitely many.
LEMMA RowsCounted ==
    ASSUME TypeOK, NEW d
    PROVE  Cardinality(RowsOf(usage, d)) \in Nat
<1>1. IsFiniteSet(RowsOf(usage, d))
    BY FS_Subset DEF TypeOK, RowsOf
<1> QED
    BY <1>1, FS_CardinalityType

\* What is recorded stays recorded: a snapshot that was not ahead never is.
LEMMA RecordsGrow ==
    ASSUME TypeOK, TypeOK', [Next]_vars, NEW s \in Snapshots, NEW d,
           NotAhead(s, d, usage, spent)
    PROVE  NotAhead(s, d, usage', spent')
<1>1. usage \subseteq usage' /\ spent <= spent'
    <2>1. CASE \E r \in Reviews : WriteRow(r)
        <3>1. PICK r \in Reviews : WriteRow(r)
            BY <2>1
        <3>2. PICK cost \in Costs :
                  /\ usage \subseteq usage'
                  /\ spent' = IF status[r] \in BILLABLE THEN spent + cost
                                                        ELSE spent
            BY <3>1 DEF WriteRow
        <3>3. cost \in Nat /\ spent \in Nat
            BY CostsAssumption DEF TypeOK
        <3> QED
            BY <3>2, <3>3
    <2>2. CASE ~ \E r \in Reviews : WriteRow(r)
        <3>1. usage' = usage /\ spent' = spent
            <4>1. CASE \E r \in Reviews : RecordUsage(r)
                BY <2>2, <4>1 DEF RecordUsage
            <4>2. CASE \E r \in Reviews :
                      \/ Submit(r) \/ Lookup(r) \/ CountRequests(r)
                      \/ SumTokens(r) \/ StoreSnapshot(r) \/ Reserve(r)
                      \/ OpenConversation(r) \/ PrepareTools(r) \/ Finish(r)
                BY <4>2 DEF Submit, Lookup, CountRequests, SumTokens,
                   StoreSnapshot, Reserve, OpenConversation, PrepareTools, Finish
            <4>3. CASE \E r \in Reviews :
                      \/ PersistReply(r) \/ Invalidate(r) \/ Release(r)
                      \/ BudgetExpires(r) \/ Crash(r) \/ DeleteConversation(r)
                BY <4>3 DEF PersistReply, Invalidate, Release, BudgetExpires,
                   Crash, DeleteConversation
            <4>4. CASE \/ \E d1 \in Days : ExpireSnapshot(d1)
                       \/ ExpireSlots \/ Midnight \/ Quiet \/ UNCHANGED vars
                BY <4>4 DEF ExpireSnapshot, ExpireSlots, Midnight, Quiet, vars
            <4> QED
                BY <4>1, <4>2, <4>3, <4>4 DEF Next, ServerStep
        <3> QED
            BY <3>1 DEF TypeOK
    <2> QED
        BY <2>1, <2>2
<1>2. RowsOf(usage, d) \subseteq RowsOf(usage', d) /\ IsFiniteSet(RowsOf(usage', d))
    BY <1>1, FS_Subset DEF RowsOf, TypeOK
<1>3. /\ Cardinality(RowsOf(usage, d)) <= Cardinality(RowsOf(usage', d))
      /\ Cardinality(RowsOf(usage, d)) \in Nat
      /\ Cardinality(RowsOf(usage', d)) \in Nat
    BY <1>2, FS_Subset, FS_CardinalityType
<1>4. s.requests \in Nat /\ s.tokens \in Nat /\ spent \in Nat /\ spent' \in Nat
    BY DEF Snapshots, TypeOK
<1> QED
    BY <1>1, <1>3, <1>4 DEF NotAhead

\* The snapshots a step takes from elsewhere were not ahead before it.
LEMMA NothingAheadArrives ==
    ASSUME TypeOK, TypeOK', [Next]_vars,
           \A d \in Days :
              cache'[d] # NoSnapshot => NotAhead(cache'[d], d, usage, spent),
           \A r \in Reviews : NotAhead(seen'[r], seenDay'[r], usage, spent)
    PROVE  SnapshotsNeverAhead'
<1>1. \A d \in Days : cache'[d] # NoSnapshot => cache'[d] \in Snapshots
    BY DEF TypeOK
<1>2. \A r \in Reviews : seen'[r] \in Snapshots
    BY DEF TypeOK
<1> QED
    BY <1>1, <1>2, RecordsGrow, NeverAheadIs

LEMMA BehindStep ==
    ASSUME TypeOK, TypeOK', SnapshotsNeverAhead, NothingSeenYet, [Next]_vars
    PROVE  SnapshotsNeverAhead' /\ NothingSeenYet'
<1>a. /\ \A d \in Days :
            cache[d] # NoSnapshot => NotAhead(cache[d], d, usage, spent)
      /\ \A r \in Reviews : NotAhead(seen[r], seenDay[r], usage, spent)
    BY NeverAheadIs
<1>1. CASE \E r \in Reviews : Lookup(r)
    <2>1. PICK r \in Reviews : Lookup(r)
        BY <1>1
    <2>2. /\ pc[r] = "lookup" /\ cache' = cache /\ usage' = usage
          /\ seenDay'[r] = day /\ day \in Days
          /\ seen'[r] = seen[r] \/ (cache[day] # NoSnapshot /\ seen'[r] = cache[day])
          /\ \A q \in Reviews \ {r} : /\ seen'[q] = seen[q] /\ pc'[q] = pc[q]
                                      /\ seenDay'[q] = seenDay[q]
          /\ pc'[r] \in {"reserve", "refused", "count"}
        BY <2>1 DEF Lookup, FirstCheck, Goto, TypeOK
    <2>3. NotAhead([requests |-> 0, tokens |-> 0], day, usage, spent)
        BY RowsCounted DEF NotAhead, TypeOK
    <2>4. seen[r] = [requests |-> 0, tokens |-> 0]
        BY <2>2 DEF NothingSeenYet
    <2>5. \A q \in Reviews : NotAhead(seen'[q], seenDay'[q], usage, spent)
        BY <1>a, <2>2, <2>3, <2>4
    <2>6. SnapshotsNeverAhead'
        BY <1>a, <2>2, <2>5, NothingAheadArrives
    <2>7. NothingSeenYet'
        BY <2>2 DEF NothingSeenYet
    <2> QED
        BY <2>6, <2>7
<1>2. CASE \E r \in Reviews : CountRequests(r) \/ SumTokens(r)
    <2>1. PICK r \in Reviews : CountRequests(r) \/ SumTokens(r)
        BY <1>2
    <2>2. /\ cache' = cache /\ seenDay' = seenDay
          /\ pc'[r] \in {"sum", "store"}
          /\ \A q \in Reviews \ {r} : seen'[q] = seen[q] /\ pc'[q] = pc[q]
        BY <2>1 DEF CountRequests, SumTokens, Goto, TypeOK
    <2>3. NotAhead(seen'[r], seenDay[r], usage, spent)
        <3>1. /\ seen[r] \in Snapshots
              /\ seen[r].requests <= Cardinality(RowsOf(usage, seenDay[r]))
              /\ seen[r].tokens <= spent /\ spent \in Nat
              /\ Cardinality(RowsOf(usage, seenDay[r])) \in Nat
            BY <1>a, RowsCounted DEF NotAhead, TypeOK
        <3>2. CASE CountRequests(r)
            <4>1. Billed(seenDay[r]) = RowsOf(usage, seenDay[r])
                BY DEF Billed, RowsOf
            <4>2. seen'[r] = [seen[r] EXCEPT !.requests =
                                  Cardinality(RowsOf(usage, seenDay[r]))]
                BY <3>2, <4>1 DEF CountRequests, TypeOK
            <4> QED
                BY <3>1, <4>2 DEF NotAhead, Snapshots
        <3>3. CASE SumTokens(r)
            <4>1. seen'[r] = [seen[r] EXCEPT !.tokens = spent]
                BY <3>3 DEF SumTokens, TypeOK
            <4> QED
                BY <3>1, <4>1 DEF NotAhead, Snapshots
        <3> QED
            BY <2>1, <3>2, <3>3
    <2>4. \A q \in Reviews : NotAhead(seen'[q], seenDay'[q], usage, spent)
        BY <1>a, <2>2, <2>3
    <2>5. SnapshotsNeverAhead'
        BY <1>a, <2>2, <2>4, NothingAheadArrives
    <2>6. NothingSeenYet'
        BY <2>2 DEF NothingSeenYet
    <2> QED
        BY <2>5, <2>6
<1>3. CASE ~ \E r \in Reviews : Lookup(r) \/ CountRequests(r) \/ SumTokens(r)
    <2>1. /\ seen' = seen /\ seenDay' = seenDay
          /\ \A q \in Reviews : pc'[q] \in {"idle", "lookup"} =>
                 pc[q] \in {"idle", "lookup"}
          /\ \A d \in Days :
                cache'[d] # NoSnapshot =>
                    \/ cache'[d] = cache[d]
                    \/ \E r \in Reviews : d = seenDay[r] /\ cache'[d] = seen[r]
        <3>1. CASE \E r \in Reviews : Submit(r) \/ StoreSnapshot(r)
            <4>1. PICK r \in Reviews : Submit(r) \/ StoreSnapshot(r)
                BY <3>1
            <4>2. CASE Submit(r)
                BY <4>2 DEF Submit, Goto, TypeOK
            <4>3. CASE StoreSnapshot(r)
                BY <4>3 DEF StoreSnapshot, FirstCheck, Goto, TypeOK
            <4> QED
                BY <4>1, <4>2, <4>3
        <3>2. CASE \E r \in Reviews :
                  \/ Reserve(r) \/ OpenConversation(r) \/ PrepareTools(r)
                  \/ Finish(r) \/ PersistReply(r) \/ RecordUsage(r)
                  \/ Invalidate(r) \/ Release(r) \/ BudgetExpires(r) \/ Crash(r)
            <4>1. PICK r \in Reviews :
                  \/ Reserve(r) \/ OpenConversation(r) \/ PrepareTools(r)
                  \/ Finish(r) \/ PersistReply(r) \/ RecordUsage(r)
                  \/ Invalidate(r) \/ Release(r) \/ BudgetExpires(r) \/ Crash(r)
                BY <3>2
            <4>2. /\ seen' = seen /\ seenDay' = seenDay
                  /\ \E s \in Steps \ {"idle", "lookup"} : pc' = [pc EXCEPT ![r] = s]
                BY <4>1 DEF Reserve, OpenConversation, PrepareTools, Finish,
                   PersistReply, RecordUsage, Release, BudgetExpires, Crash,
                   Invalidate, Goto, Steps, HoldingSteps, EndedSteps
            <4>3. cache' = cache \/ cache' = [cache EXCEPT ![day] = NoSnapshot]
                BY <4>1 DEF Reserve, OpenConversation, PrepareTools, Finish,
                   PersistReply, RecordUsage, Release, BudgetExpires, Crash,
                   Invalidate
            <4>4. \A d \in Days : cache'[d] # NoSnapshot => cache'[d] = cache[d]
                BY <4>3 DEF TypeOK
            <4>5. \A q \in Reviews : pc'[q] \in {"idle", "lookup"} => pc'[q] = pc[q]
                BY <4>2 DEF TypeOK
            <4> QED
                BY <4>2, <4>4, <4>5
        <3>3. CASE \/ \E r \in Reviews : DeleteConversation(r)
                   \/ ExpireSlots \/ Midnight \/ Quiet \/ UNCHANGED vars
            BY <3>3 DEF DeleteConversation, ExpireSlots, Midnight, Quiet, vars
        <3>4. CASE \E d \in Days : ExpireSnapshot(d)
            BY <3>4 DEF ExpireSnapshot, TypeOK
        <3> QED
            BY <1>3, <3>1, <3>2, <3>3, <3>4 DEF Next, ServerStep
    <2>2. \A d \in Days :
              cache'[d] # NoSnapshot => NotAhead(cache'[d], d, usage, spent)
        BY <1>a, <2>1
    <2>3. SnapshotsNeverAhead'
        BY <1>a, <2>1, <2>2, NothingAheadArrives
    <2>4. NothingSeenYet'
        BY <2>1 DEF NothingSeenYet
    <2> QED
        BY <2>3, <2>4
<1> QED
    BY <1>1, <1>2, <1>3

\* No review is ever refused for reviews or tokens that were not recorded,
\* however stale the snapshot it is checked against.
THEOREM NoSnapshotAhead == Spec => []SnapshotsNeverAhead
<1>1. Init /\ TypeOK => SnapshotsNeverAhead /\ NothingSeenYet
    <2> SUFFICES ASSUME Init, TypeOK PROVE SnapshotsNeverAhead /\ NothingSeenYet
        OBVIOUS
    <2>1. \A d \in Days : Cardinality(Billed(d)) \in Nat
        BY BilledFinite
    <2> QED
        BY <2>1 DEF Init, TypeOK, SnapshotsNeverAhead, NothingSeenYet
<1>2. TypeOK /\ TypeOK' /\ SnapshotsNeverAhead /\ NothingSeenYet /\ [Next]_vars
        => SnapshotsNeverAhead' /\ NothingSeenYet'
    BY BehindStep
<1> QED
    BY <1>1, <1>2, TypeCorrect, PTL DEF Spec

-----------------------------------------------------------------------------
(* Nothing runs for free *)

\* The database answers within the budget and no conversation is deleted.
\* Redis may fail, and workers may die.
DatabaseAnswers == Disruptions \cap {"db", "budget", "delete"} = {}

\* The row is there before the slot is given back.
RowBeforeRelease ==
    /\ \A r \in Reviews : conv[r] # "deleted"
    /\ \A r \in Reviews : pc[r] \in {"invalidate", "release", "done"} =>
          \E u \in usage : u.review = r

LEMMA RowFirstStep ==
    ASSUME TypeOK, RowBeforeRelease, DatabaseAnswers, [Next]_vars
    PROVE  RowBeforeRelease'
<1>1. CASE \E r \in Reviews : RecordUsage(r)
    <2>1. PICK r \in Reviews : RecordUsage(r)
        BY <1>1
    <2>2. WriteRow(r) /\ conv' = conv
        BY <2>1 DEF RecordUsage, DatabaseAnswers, RowBeforeRelease
    <2>3. usage \subseteq usage' /\ \E u \in usage' : u.review = r
        <3> DEFINE row == [review |-> r, day |-> day, status |-> status[r]]
        <3>1. usage' = usage \cup {row}
            BY <2>2 DEF WriteRow
        <3>2. row.review = r /\ row \in usage'
            BY <3>1
        <3> HIDE DEF row
        <3> QED
            BY <3>1, <3>2
    <2>4. \A q \in Reviews \ {r} : pc'[q] = pc[q]
        BY <2>1 DEF RecordUsage, Goto, TypeOK
    <2> QED
        BY <2>2, <2>3, <2>4 DEF RowBeforeRelease
<1>2. CASE \E r \in Reviews :
          \/ Submit(r) \/ Lookup(r) \/ CountRequests(r) \/ SumTokens(r)
          \/ StoreSnapshot(r) \/ Reserve(r) \/ OpenConversation(r)
          \/ PrepareTools(r) \/ Finish(r) \/ PersistReply(r)
          \/ Invalidate(r) \/ Release(r) \/ Crash(r)
    <2>1. PICK r \in Reviews :
          \/ Submit(r) \/ Lookup(r) \/ CountRequests(r) \/ SumTokens(r)
          \/ StoreSnapshot(r) \/ Reserve(r) \/ OpenConversation(r)
          \/ PrepareTools(r) \/ Finish(r) \/ PersistReply(r)
          \/ Invalidate(r) \/ Release(r) \/ Crash(r)
        BY <1>2
    <2>2. usage' = usage
        BY <2>1 DEF Submit, Lookup, CountRequests, SumTokens, StoreSnapshot,
           Reserve, OpenConversation, PrepareTools, Finish, PersistReply,
           Invalidate, Release, Crash
    <2>3. conv' \in {conv, [conv EXCEPT ![r] = "question"],
                     [conv EXCEPT ![r] = "answered"]}
        BY <2>1 DEF Submit, Lookup, CountRequests, SumTokens, StoreSnapshot,
           Reserve, OpenConversation, PrepareTools, Finish, PersistReply,
           Invalidate, Release, Crash
    <2>4. \E s \in Steps :
              /\ pc' = [pc EXCEPT ![r] = s]
              /\ s \in {"release", "done", "invalidate"} =>
                     pc[r] \in {"invalidate", "release"}
        <3> USE DEF Goto, Steps, HoldingSteps, EndedSteps
        <3>1. CASE Submit(r) \/ Lookup(r) \/ CountRequests(r) \/ SumTokens(r)
            BY <3>1 DEF Submit, Lookup, CountRequests, SumTokens, FirstCheck
        <3>2. CASE StoreSnapshot(r) \/ Reserve(r)
            BY <3>2 DEF StoreSnapshot, Reserve, FirstCheck
        <3>3. CASE OpenConversation(r) \/ PrepareTools(r) \/ Finish(r)
            BY <3>3 DEF OpenConversation, PrepareTools, Finish
        <3>4. CASE PersistReply(r)
            BY <3>4 DEF PersistReply, DatabaseAnswers, RowBeforeRelease
        <3>5. CASE Invalidate(r) \/ Release(r) \/ Crash(r)
            BY <3>5 DEF Invalidate, Release, Crash
        <3> QED
            BY <2>1, <3>1, <3>2, <3>3, <3>4, <3>5
    <2>5. \A q \in Reviews : conv'[q] # "deleted"
        BY <2>3 DEF RowBeforeRelease, TypeOK
    <2>6. \A q \in Reviews : pc'[q] \in {"invalidate", "release", "done"} =>
              pc[q] \in {"invalidate", "release", "done"}
        BY <2>4 DEF TypeOK
    <2> QED
        BY <2>2, <2>5, <2>6 DEF RowBeforeRelease
<1>3. CASE \E r \in Reviews : BudgetExpires(r) \/ DeleteConversation(r)
    BY <1>3 DEF BudgetExpires, DeleteConversation, DatabaseAnswers
<1>4. CASE \/ \E d \in Days : ExpireSnapshot(d)
           \/ ExpireSlots \/ Midnight \/ Quiet \/ UNCHANGED vars
    <2>1. pc' = pc /\ conv' = conv /\ usage' = usage
        BY <1>4 DEF ExpireSnapshot, ExpireSlots, Midnight, Quiet, vars
    <2> QED
        BY <2>1 DEF RowBeforeRelease
<1> QED
    BY <1>1, <1>2, <1>3, <1>4 DEF Next, ServerStep

\* A review that was let in and came to its end is in the usage table, when
\* the database answers and no conversation is deleted.
THEOREM EveryReviewIsCounted == DatabaseAnswers => (Spec => []NeverUncounted)
<1> SUFFICES ASSUME DatabaseAnswers PROVE Spec => []NeverUncounted
    OBVIOUS
<1>1. Init => RowBeforeRelease
    BY DEF Init, RowBeforeRelease
<1>2. TypeOK /\ RowBeforeRelease /\ [Next]_vars => RowBeforeRelease'
    BY RowFirstStep
<1>3. RowBeforeRelease => NeverUncounted
    BY DEF RowBeforeRelease, NeverUncounted
<1> QED
    BY <1>1, <1>2, <1>3, TypeCorrect, PTL DEF Spec

-----------------------------------------------------------------------------
(* Nobody is refused early *)

WrittenSteps == {"invalidate", "release", "done", "crashed"}

\* A review has one usage row, once it was recorded.
OneRow ==
    /\ \A u \in usage : pc[u.review] \in WrittenSteps
    /\ \A u, v \in usage : u.review = v.review => u = v

\* What stands at the second check has passed the first.
PassedFirstCheck ==
    \A r \in Reviews : pc[r] = "reserve" =>
        QuotaLeft(r, seen[r].requests, seen[r].tokens)

\* A step of a request that writes no row keeps the rows apart.
LEMMA OneRowKept ==
    ASSUME TypeOK, OneRow, NEW r \in Reviews, NEW s, usage' = usage,
           pc' = [pc EXCEPT ![r] = s],
           pc[r] \in WrittenSteps => s \in WrittenSteps
    PROVE  OneRow'
<1>1. \A q \in Reviews : pc'[q] = IF q = r THEN s ELSE pc[q]
    BY DEF TypeOK
<1>2. \A u \in usage : u.review \in Reviews
    BY DEF TypeOK
<1> QED
    BY <1>1, <1>2 DEF OneRow

\* A row is written by a review that has none.
LEMMA OneRowWritten ==
    ASSUME TypeOK, OneRow, NEW r \in Reviews, RecordUsage(r)
    PROVE  OneRow'
<1>1. /\ pc[r] = "record" /\ \A q \in Reviews \ {r} : pc'[q] = pc[q]
      /\ pc'[r] \in WrittenSteps
    BY DEF RecordUsage, Goto, TypeOK, WrittenSteps
<1>2. \A u \in usage : u.review \in Reviews \ {r}
    BY <1>1 DEF TypeOK, OneRow, WrittenSteps
<1>3. usage' = usage \/ \E w : usage' = usage \cup {w} /\ w.review = r
    BY DEF RecordUsage, WriteRow
<1>4. CASE usage' = usage
    BY <1>1, <1>2, <1>4 DEF OneRow
<1>5. CASE \E w : usage' = usage \cup {w} /\ w.review = r
    <2>1. PICK w : usage' = usage \cup {w} /\ w.review = r
        BY <1>5
    <2>2. \A u \in usage' : pc'[u.review] \in WrittenSteps
        BY <1>1, <1>2, <2>1 DEF OneRow
    <2>3. \A u, v \in usage' : u.review = v.review => u = v
        BY <1>2, <2>1 DEF OneRow
    <2> QED
        BY <2>2, <2>3 DEF OneRow
<1> QED
    BY <1>3, <1>4, <1>5

\* Every step keeps the rows apart.
LEMMA OneRowStep ==
    ASSUME TypeOK, OneRow, [Next]_vars
    PROVE  OneRow'
<1>1. CASE \E r \in Reviews : RecordUsage(r)
    BY <1>1, OneRowWritten
<1>2. CASE \E r \in Reviews :
          \/ Submit(r) \/ Lookup(r) \/ CountRequests(r) \/ SumTokens(r)
          \/ StoreSnapshot(r) \/ Reserve(r) \/ OpenConversation(r)
          \/ PrepareTools(r) \/ Finish(r) \/ PersistReply(r)
    <2>1. PICK r \in Reviews :
          \/ Submit(r) \/ Lookup(r) \/ CountRequests(r) \/ SumTokens(r)
          \/ StoreSnapshot(r) \/ Reserve(r) \/ OpenConversation(r)
          \/ PrepareTools(r) \/ Finish(r) \/ PersistReply(r)
        BY <1>2
    <2>2. /\ usage' = usage /\ pc[r] \notin WrittenSteps
          /\ \E s : pc' = [pc EXCEPT ![r] = s]
        BY <2>1 DEF Submit, Lookup, CountRequests, SumTokens, StoreSnapshot,
           Reserve, OpenConversation, PrepareTools, Finish, PersistReply,
           FirstCheck, Goto, WrittenSteps
    <2> QED
        BY <2>2, OneRowKept
<1>3. CASE \E r \in Reviews :
          Invalidate(r) \/ Release(r) \/ BudgetExpires(r) \/ Crash(r)
    <2>1. PICK r \in Reviews :
          Invalidate(r) \/ Release(r) \/ BudgetExpires(r) \/ Crash(r)
        BY <1>3
    <2>2. /\ usage' = usage
          /\ \E s : /\ pc' = [pc EXCEPT ![r] = s]
                    /\ pc[r] \in WrittenSteps => s \in WrittenSteps
        BY <2>1 DEF Invalidate, Release, BudgetExpires, Crash, Goto, WrittenSteps
    <2> QED
        BY <2>2, OneRowKept
<1>4. CASE \/ \E r \in Reviews : DeleteConversation(r)
           \/ \E d \in Days : ExpireSnapshot(d)
           \/ ExpireSlots \/ Midnight \/ Quiet \/ UNCHANGED vars
    <2>1. pc' = pc /\ usage' = usage
        BY <1>4 DEF DeleteConversation, ExpireSnapshot, ExpireSlots, Midnight,
           Quiet, vars
    <2> QED
        BY <2>1 DEF OneRow
<1> QED
    BY <1>1, <1>2, <1>3, <1>4 DEF Next, ServerStep

\* Only a passed first check leads to the second, with the same snapshot.
LEMMA FirstCheckStep ==
    ASSUME TypeOK, PassedFirstCheck, [Next]_vars
    PROVE  PassedFirstCheck'
<1>1. CASE \E r \in Reviews : Lookup(r) \/ StoreSnapshot(r)
    <2>1. PICK r \in Reviews : Lookup(r) \/ StoreSnapshot(r)
        BY <1>1
    <2>2. /\ \A q \in Reviews \ {r} : pc'[q] = pc[q] /\ seen'[q] = seen[q]
          /\ pc'[r] = "reserve" => QuotaLeft(r, seen'[r].requests, seen'[r].tokens)
        BY <2>1 DEF Lookup, StoreSnapshot, FirstCheck, Goto, TypeOK
    <2> QED
        BY <2>2 DEF PassedFirstCheck, QuotaLeft
<1>2. CASE \E r \in Reviews :
          \/ Submit(r) \/ CountRequests(r) \/ SumTokens(r) \/ Reserve(r)
          \/ OpenConversation(r) \/ PrepareTools(r) \/ Finish(r)
          \/ PersistReply(r) \/ RecordUsage(r) \/ Invalidate(r) \/ Release(r)
          \/ BudgetExpires(r) \/ Crash(r)
    <2>1. PICK r \in Reviews :
          \/ Submit(r) \/ CountRequests(r) \/ SumTokens(r) \/ Reserve(r)
          \/ OpenConversation(r) \/ PrepareTools(r) \/ Finish(r)
          \/ PersistReply(r) \/ RecordUsage(r) \/ Invalidate(r) \/ Release(r)
          \/ BudgetExpires(r) \/ Crash(r)
        BY <1>2
    <2>2. /\ \E s \in Steps \ {"reserve"} : pc' = [pc EXCEPT ![r] = s]
          /\ \A q \in Reviews \ {r} : seen'[q] = seen[q]
        BY <2>1 DEF Submit, CountRequests, SumTokens, Reserve, OpenConversation,
           PrepareTools, Finish, PersistReply, RecordUsage, Invalidate, Release,
           BudgetExpires, Crash, Goto, Steps, HoldingSteps, EndedSteps, TypeOK
    <2>3. pc'[r] # "reserve" /\ \A q \in Reviews \ {r} : pc'[q] = pc[q]
        BY <2>2 DEF TypeOK
    <2> QED
        BY <2>2, <2>3 DEF PassedFirstCheck, QuotaLeft
<1>3. CASE \/ \E r \in Reviews : DeleteConversation(r)
           \/ \E d \in Days : ExpireSnapshot(d)
           \/ ExpireSlots \/ Midnight \/ Quiet \/ UNCHANGED vars
    <2>1. pc' = pc /\ seen' = seen
        BY <1>3 DEF DeleteConversation, ExpireSnapshot, ExpireSlots, Midnight,
           Quiet, vars
    <2> QED
        BY <2>1 DEF PassedFirstCheck, QuotaLeft
<1> QED
    BY <1>1, <1>2, <1>3 DEF Next, ServerStep

\* The recorded reviews are as many as their rows, and none of them runs.
LEMMA ReviewsCountedOnce ==
    ASSUME TypeOK, OneRow, NEW d,
           \A q \in Reviews : pc[q] \notin {"invalidate", "release", "giveback"}
    PROVE  Cardinality({u.review : u \in Billed(d)} \cup Running)
              = Cardinality(Billed(d)) + Cardinality(Holding)
<1> DEFINE recorded == {u.review : u \in Billed(d)}
           f == [u \in Billed(d) |-> u.review]
<1>1. IsFiniteSet(Billed(d))
    BY FS_Subset DEF TypeOK, Billed
<1>2. f \in Bijection(Billed(d), recorded)
    <2>1. f \in Injection(Billed(d), recorded)
        <3>1. f \in [Billed(d) -> recorded]
            OBVIOUS
        <3>2. \A u, v \in Billed(d) : u.review = v.review => u = v
            BY DEF Billed, OneRow
        <3> QED
            BY <3>1, <3>2 DEF Injection, IsInjective
    <2>2. f \in Surjection(Billed(d), recorded)
        BY DEF Surjection
    <2> QED
        BY <2>1, <2>2 DEF Bijection
<1>3. IsFiniteSet(recorded) /\ Cardinality(recorded) = Cardinality(Billed(d))
    BY <1>1, <1>2, FS_Bijection DEF ExistsBijection
<1>4. Running = Holding
    BY DEF Running, Holding, RunningSteps
<1>5. IsFiniteSet(Holding)
    BY HoldersFinite
<1>6. recorded \cap Holding = {}
    BY DEF Billed, OneRow, WrittenSteps, Holding, HoldingSteps
<1>7. Cardinality(recorded \cap Holding) = 0
    BY <1>6, FS_EmptySet
<1>8. Cardinality(recorded) \in Nat /\ Cardinality(Holding) \in Nat
    BY <1>3, <1>5, FS_CardinalityType
<1>9. Cardinality(recorded \cup Holding)
          = Cardinality(recorded) + Cardinality(Holding)
                - Cardinality(recorded \cap Holding)
    BY <1>3, <1>5, FS_Union
<1> QED
    BY <1>3, <1>4, <1>7, <1>8, <1>9

\* A refusal at the second check finds the plan filled.
LEMMA RefusalFindsPlanFilled ==
    ASSUME TypeOK, SlotsExact, SnapshotsNeverAhead, OneRow, PassedFirstCheck,
           NothingCutOff, [Next]_vars, NEW r \in Reviews,
           pc[r] = "reserve", pc'[r] = "giveback",
           \A q \in Reviews : pc[q] \notin {"invalidate", "release", "giveback"}
    PROVE  Cardinality({u.review : u \in Billed(seenDay[r])} \cup Running)
              >= DailyLimit
<1>1. Reserve(r)
    <2>1. CASE \E q \in Reviews : Submit(q) \/ ServerStep(q) \/ BudgetExpires(q)
                                  \/ Crash(q) \/ DeleteConversation(q)
        <3>1. PICK q \in Reviews : Submit(q) \/ ServerStep(q) \/ BudgetExpires(q)
                                   \/ Crash(q) \/ DeleteConversation(q)
            BY <2>1
        <3>2. \E s \in Steps : pc' = [pc EXCEPT ![q] = s]
            BY <3>1, StepsMove
        <3>3. q = r
            BY <3>2 DEF TypeOK
        <3>4. pc' # pc
            OBVIOUS
        <3>5. CASE Submit(r) \/ BudgetExpires(r) \/ DeleteConversation(r)
            BY <3>4, <3>5 DEF Submit, BudgetExpires, DeleteConversation,
               BookkeepingSteps
        <3>6. CASE Crash(r)
            BY <3>6 DEF Crash, NothingCutOff
        <3>7. CASE ServerStep(r)
            BY <3>7 DEF ServerStep, Lookup, CountRequests, SumTokens,
               StoreSnapshot, OpenConversation, PrepareTools, Finish,
               PersistReply, RecordUsage, Invalidate, Release
        <3> QED
            BY <3>1, <3>3, <3>5, <3>6, <3>7
    <2>2. CASE \/ \E d \in Days : ExpireSnapshot(d)
               \/ ExpireSlots \/ Midnight \/ Quiet \/ UNCHANGED vars
        BY <2>2 DEF ExpireSnapshot, ExpireSlots, Midnight, Quiet, vars
    <2> QED
        BY <2>1, <2>2 DEF Next
<1>2. inflight \in Nat /\ inflight = Cardinality(Holding)
    BY HoldersFinite DEF SlotsExact
<1>3. ~ SecondCheck(r, inflight + 1)
    <2>1. PICK taken \in {AtLeastOne(inflight + 1), 1} :
              /\ taken = AtLeastOne(inflight + 1)
              /\ IF SecondCheck(r, taken) THEN Goto(r, "open")
                                          ELSE Goto(r, "giveback")
        BY <1>1 DEF Reserve, NothingCutOff
    <2>2. taken = inflight + 1
        BY <1>2, <2>1 DEF AtLeastOne
    <2>3. ~ Goto(r, "open")
        BY DEF Goto, TypeOK
    <2> QED
        BY <2>1, <2>2, <2>3
<1>4. QuotaLeft(r, seen[r].requests, seen[r].tokens)
    BY DEF PassedFirstCheck
<1>5. /\ seen[r].requests \in Nat /\ DailyLimit \in Nat
      /\ seen[r].requests <= Cardinality(Billed(seenDay[r]))
      /\ Cardinality(Billed(seenDay[r])) \in Nat
    BY BilledFinite, LimitAssumption DEF TypeOK, Snapshots, SnapshotsNeverAhead
<1>6. seen[r].requests + (inflight + 1) - 1 >= DailyLimit
    BY <1>2, <1>3, <1>4, <1>5 DEF SecondCheck, QuotaLeft
<1>7. Cardinality(Billed(seenDay[r])) + Cardinality(Holding) >= DailyLimit
    BY <1>2, <1>5, <1>6
<1> QED
    BY <1>7, ReviewsCountedOnce

\* The second check refuses a review only if others really fill the plan,
\* or one is at its books: for any number of reviews and any limit, as long
\* as nothing is cut off.
THEOREM NobodyRefusedEarly == NothingCutOff => (Spec => NoEarlyRefusal)
<1> SUFFICES ASSUME NothingCutOff PROVE Spec => NoEarlyRefusal
    OBVIOUS
<1> DEFINE Good == TypeOK /\ SlotsExact /\ SnapshotsNeverAhead
           Step == \A r \in Reviews :
                      /\ pc[r] = "reserve" /\ pc'[r] = "giveback"
                      /\ \A q \in Reviews :
                            pc[q] \notin {"invalidate", "release", "giveback"}
                      => Cardinality({u.review : u \in Billed(seenDay[r])}
                                        \cup Running) >= DailyLimit
<1>1. Init => OneRow /\ PassedFirstCheck
    BY DEF Init, OneRow, PassedFirstCheck
<1>2. TypeOK /\ OneRow /\ PassedFirstCheck /\ [Next]_vars
          => (OneRow /\ PassedFirstCheck)'
    BY OneRowStep, FirstCheckStep
<1>3. Good /\ OneRow /\ PassedFirstCheck /\ [Next]_vars => [Step]_vars
    BY RefusalFindsPlanFilled
<1>4. Spec => [](TypeOK /\ SlotsExact /\ SnapshotsNeverAhead)
    BY TypeCorrect, SlotsAreExact, NoSnapshotAhead, PTL
<1> QED
    BY <1>1, <1>2, <1>3, <1>4, PTL DEF Spec, NoEarlyRefusal
=============================================================================
