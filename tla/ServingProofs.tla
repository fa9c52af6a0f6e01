---------------------------- MODULE ServingProofs ----------------------------
(***************************************************************************)
(* Proofs about what serves a request before its own work begins: the      *)
(* limiter, the in-flight key, the gateway, the health report and the      *)
(* accounts; those about the browser's session are in RefreshTokensProofs. *)
(* The components share no state; each part below is about one of them,    *)
(* for all values of its constants that its theorems name no condition     *)
(* for, and the last about all of them side by side.                       *)
(***************************************************************************)
EXTENDS MCServing, RefreshTokensProofs, DataLemmas, FiniteSetTheorems, TLAPS

-----------------------------------------------------------------------------
(***************************************************************************)
(* The limiter: every window, limit, number of requests and horizon        *)
(***************************************************************************)

\* When the last second of a window is over on an exact clock.
Close(i) == (i + 1) * Window

\* What the losses of its key allow a window.
Forgiven(i) == Limit * lost[i]

\* While some worker may still count into a window, its key shows all the
\* requests that Redis let through since it last lost the key.
KeyShowsPassed ==
    \A i \in Windows :
        now - Behind < Close(i)
            => passed[i] <= count[i] + Forgiven(i) + Uncounted

\* A key stays until the last worker has left its window.
KeyOutlivesWindow ==
    \A i \in Windows : count[i] > 0 => expires[i] >= Close(i) + Behind

CapInv == TypeOK /\ WindowCapped /\ KeyShowsPassed /\ KeyOutlivesWindow

\* What the property needs of the deployment: the slack covers the clocks.
DeploymentSound == Ahead + Behind <= Slack

-----------------------------------------------------------------------------

\* A reading lies within its window.
LEMMA IndexBounds ==
    ASSUME NEW reading \in Int
    PROVE  /\ Index(reading) \in Int
           /\ Close(Index(reading)) - Window <= reading
           /\ reading < Close(Index(reading))
BY RateAssumption DEF Index, Close

\* Later clocks are in later windows.
LEMMA IndexMonotone ==
    ASSUME NEW a \in Int, NEW b \in Int, a <= b
    PROVE  Index(a) <= Index(b)
BY RateAssumption DEF Index

\* Every window a worker may read is one of the model's.
LEMMA IndexInWindows ==
    ASSUME TypeOK, NEW reading \in Clocks
    PROVE  reading \in Int /\ Index(reading) \in Windows
<1>1. /\ reading \in Int /\ -Behind \in Int /\ Horizon + Ahead \in Int
      /\ -Behind <= reading /\ reading <= Horizon + Ahead
  BY RateAssumption DEF TypeOK, Clocks
<1>2. Index(-Behind) <= Index(reading) /\ Index(reading) <= Index(Horizon + Ahead)
  BY <1>1, IndexMonotone
<1>3. /\ Index(reading) \in Int /\ Index(-Behind) \in Int
      /\ Index(Horizon + Ahead) \in Int
  BY <1>1, IndexBounds
<1> QED BY <1>1, <1>2, <1>3 DEF Windows

\* Where windows end is an integer, so that times compare with it.
LEMMA WindowTypes ==
    /\ Windows \subseteq Int
    /\ \A i \in Windows : Close(i) \in Int
BY RateAssumption DEF Windows, Close, Index

\* Counting keeps a key to the end of its window, for every reading that is
\* at most Ahead of Redis and every worker that is at most Behind.
LEMMA CountOutlives ==
    ASSUME DeploymentSound, TypeOK, NEW reading \in Clocks
    PROVE  now + Window + Slack >= Close(Index(reading)) + Behind
<1>1. reading \in Int /\ reading <= now + Ahead
  BY RateAssumption DEF TypeOK, Clocks
<1>2. Close(Index(reading)) - Window <= reading
  BY <1>1, IndexBounds
<1>3. Close(Index(reading)) \in Int
  BY IndexInWindows, WindowTypes
<1> QED BY <1>1, <1>2, <1>3, RateAssumption DEF DeploymentSound, TypeOK

-----------------------------------------------------------------------------

\* The clocks and counts keep their types.
THEOREM LimiterTypeCorrect == Spec => []TypeOK
<1>1. Init => TypeOK
  BY RateAssumption, WindowTypes DEF Init, TypeOK
<1>2. TypeOK /\ [Next]_vars => TypeOK'
  <2> SUFFICES ASSUME TypeOK, [Next]_vars PROVE TypeOK'
    OBVIOUS
  <2> USE RateAssumption DEF TypeOK
  <2>1. CASE Hit
    <3>1. PICK reading \in Clocks : Index(reading) \in Windows
              /\ Attempt(Index(reading)) /\ Count(Index(reading))
              /\ (Pass(Index(reading)) \/ Refuse(Index(reading)))
              /\ UNCHANGED <<now, outages, lost>>
      BY <2>1, IndexInWindows DEF Hit
    <3>2. now + Window + Slack \in Nat \ {0}
      OBVIOUS
    <3> QED BY <3>1, <3>2 DEF Attempt, Count, Pass, Refuse
  <2>2. CASE Outage
    <3>1. PICK reading \in Clocks : Index(reading) \in Windows
              /\ outages < MaxOutages
              /\ Attempt(Index(reading))
              /\ (Count(Index(reading)) \/ UNCHANGED <<count, expires>>)
              /\ (Pass(Index(reading)) \/ UNCHANGED <<passed, refused>>)
              /\ outages' = outages + 1 /\ UNCHANGED <<now, lost>>
      BY <2>2, IndexInWindows DEF Outage
    <3>2. now + Window + Slack \in Nat \ {0}
      OBVIOUS
    <3> QED BY <3>1, <3>2 DEF Attempt, Count, Pass
  <2>3. CASE Tick
    BY <2>3 DEF Tick
  <2>4. CASE LoseKey
    BY <2>4 DEF LoseKey
  <2>5. CASE Stopped \/ UNCHANGED vars
    BY <2>5 DEF Stopped, vars
  <2> QED BY <2>1, <2>2, <2>3, <2>4, <2>5 DEF Next
<1> QED BY <1>1, <1>2, PTL DEF Spec

\* A step keeps the cap, if the slack covers the clocks.
LEMMA CapStep ==
    ASSUME DeploymentSound, CapInv, TypeOK', [Next]_vars
    PROVE  CapInv'
<1> USE RateAssumption
<1>t. /\ now \in Nat /\ outages \in Nat /\ Uncounted \in Nat
      /\ \A i \in Windows : /\ count[i] \in Nat /\ expires[i] \in Nat
                            /\ passed[i] \in Nat /\ lost[i] \in Nat
  BY DEF CapInv, TypeOK, Uncounted
<1>f. \A i \in Windows : /\ Forgiven(i) \in Nat /\ Forgiven(i)' \in Nat
                         /\ Limit * (1 + lost[i]) = Limit + Forgiven(i)
                         /\ Limit * (1 + lost'[i]) = Limit + Forgiven(i)'
  <2>1. \A i \in Windows : lost[i] \in Nat /\ lost'[i] \in Nat
    BY DEF CapInv, TypeOK
  <2>2. \A n \in Nat : Limit * n \in Nat /\ Limit * (1 + n) = Limit + Limit * n
    OBVIOUS
  <2> QED BY <2>1, <2>2 DEF Forgiven
<1>c. ASSUME \A i \in Windows : passed'[i] <= Limit + Forgiven(i)' + Uncounted'
      PROVE  WindowCapped'
  BY <1>f, <1>c DEF WindowCapped
<1>w. \A i \in Windows : passed[i] <= Limit + Forgiven(i) + Uncounted
  BY <1>f DEF CapInv, WindowCapped
<1>1. CASE Hit
  <2>1. PICK reading \in Clocks :
            /\ Attempt(Index(reading)) /\ Count(Index(reading))
            /\ IF count'[Index(reading)] <= Limit
               THEN Pass(Index(reading)) ELSE Refuse(Index(reading))
            /\ UNCHANGED <<now, outages, lost>>
    BY <1>1 DEF Hit
  <2> DEFINE w == Index(reading)
  <2>2. w \in Windows /\ Close(w) \in Int /\ reading \in Int /\ reading < Close(w)
    BY IndexInWindows, IndexBounds, WindowTypes DEF CapInv
  <2>3. /\ count' = [count EXCEPT ![w] = @ + 1]
        /\ expires' = [expires EXCEPT ![w] = now + Window + Slack]
    BY <2>1 DEF Count
  <2>4. \/ passed' = passed
        \/ passed' = [passed EXCEPT ![w] = @ + 1] /\ count[w] + 1 <= Limit
    BY <2>1, <2>2, <2>3 DEF Pass, Refuse, CapInv, TypeOK
  <2>5. now - Behind < Close(w)
    BY <2>2, <1>t DEF Clocks
  <2>6. passed[w] <= count[w] + Forgiven(w) + Uncounted
    BY <2>2, <2>5 DEF CapInv, KeyShowsPassed
  <2>7. /\ Uncounted' = Uncounted /\ now' = now
        /\ \A i \in Windows : Forgiven(i)' = Forgiven(i)
    BY <2>1 DEF Uncounted, Forgiven
  <2>8. WindowCapped'
    <3> SUFFICES ASSUME NEW i \in Windows
                 PROVE  passed'[i] <= Limit + Forgiven(i) + Uncounted
      BY <1>c, <2>7
    <3>1. CASE i = w
      BY <3>1, <1>t, <1>f, <1>w, <2>2, <2>4, <2>6 DEF CapInv, TypeOK
    <3>2. CASE i # w
      BY <3>2, <1>w, <2>2, <2>4 DEF CapInv, TypeOK
    <3> QED BY <3>1, <3>2
  <2>9. KeyShowsPassed'
    <3> SUFFICES ASSUME NEW i \in Windows, now - Behind < Close(i)
                 PROVE  passed'[i] <= count'[i] + Forgiven(i) + Uncounted
      BY <2>7 DEF KeyShowsPassed
    <3>1. passed[i] <= count[i] + Forgiven(i) + Uncounted
      BY DEF CapInv, KeyShowsPassed
    <3>2. CASE i = w
      BY <3>1, <3>2, <1>t, <1>f, <2>2, <2>3, <2>4 DEF CapInv, TypeOK
    <3>3. CASE i # w
      BY <3>1, <3>3, <2>2, <2>3, <2>4 DEF CapInv, TypeOK
    <3> QED BY <3>2, <3>3
  <2>10. KeyOutlivesWindow'
    <3>1. now + Window + Slack >= Close(w) + Behind
      BY CountOutlives DEF CapInv
    <3> QED BY <3>1, <2>2, <2>3 DEF CapInv, TypeOK, KeyOutlivesWindow
  <2> QED BY <2>8, <2>9, <2>10 DEF CapInv
<1>2. CASE Outage
  <2>1. PICK reading \in Clocks :
            /\ Count(Index(reading)) \/ UNCHANGED <<count, expires>>
            /\ IF FailOpen THEN Pass(Index(reading))
               ELSE UNCHANGED <<passed, refused>>
            /\ outages' = outages + 1 /\ UNCHANGED <<now, lost>>
    BY <1>2 DEF Outage
  <2> DEFINE w == Index(reading)
  <2>2. w \in Windows /\ Close(w) \in Int
    BY IndexInWindows, WindowTypes DEF CapInv
  <2>3. \/ count' = count /\ expires' = expires
        \/ /\ count' = [count EXCEPT ![w] = @ + 1]
           /\ expires' = [expires EXCEPT ![w] = now + Window + Slack]
    BY <2>1 DEF Count
  <2>4. \/ passed' = passed /\ Uncounted' >= Uncounted
        \/ /\ passed' = [passed EXCEPT ![w] = @ + 1]
           /\ Uncounted' = Uncounted + 1
    BY <2>1, <1>t DEF Pass, Uncounted
  <2>5. Uncounted' \in Nat
    BY DEF TypeOK, Uncounted
  <2>f. \A i \in Windows : Forgiven(i)' = Forgiven(i)
    BY <2>1 DEF Forgiven
  <2>g. \A i \in Windows : passed'[i] - passed[i] <= Uncounted' - Uncounted
    BY <1>t, <2>2, <2>4, <2>5 DEF CapInv, TypeOK
  <2>p. \A i \in Windows : passed'[i] \in Nat
    BY DEF TypeOK
  <2>6. WindowCapped'
    <3> SUFFICES ASSUME NEW i \in Windows
                 PROVE  passed'[i] <= Limit + Forgiven(i) + Uncounted'
      BY <1>c, <2>f
    <3> QED BY <1>t, <1>f, <1>w, <2>5, <2>g, <2>p
  <2>7. KeyShowsPassed'
    <3> SUFFICES ASSUME NEW i \in Windows, now - Behind < Close(i)
                 PROVE  passed'[i] <= count'[i] + Forgiven(i) + Uncounted'
      BY <2>1, <2>f DEF KeyShowsPassed
    <3>1. count'[i] >= count[i] /\ count'[i] \in Nat
      BY <1>t, <2>2, <2>3 DEF CapInv, TypeOK
    <3>2. passed[i] <= count[i] + Forgiven(i) + Uncounted
      BY DEF CapInv, KeyShowsPassed
    <3> QED BY <1>t, <1>f, <2>5, <2>g, <2>p, <3>1, <3>2
  <2>8. KeyOutlivesWindow'
    <3>1. now + Window + Slack >= Close(w) + Behind
      BY CountOutlives DEF CapInv
    <3> QED BY <3>1, <2>2, <2>3 DEF CapInv, TypeOK, KeyOutlivesWindow
  <2> QED BY <2>6, <2>7, <2>8 DEF CapInv
<1>3. CASE Tick
  <2>1. /\ now' = now + 1 /\ UNCHANGED <<passed, outages, lost>>
        /\ \A i \in Windows :
              /\ count'[i] = (IF expires[i] <= now' THEN 0 ELSE count[i])
              /\ expires'[i] = (IF expires[i] <= now' THEN 0 ELSE expires[i])
    BY <1>3 DEF Tick
  <2>2. /\ Uncounted' = Uncounted /\ WindowCapped'
        /\ \A i \in Windows : Forgiven(i)' = Forgiven(i)
    BY <2>1 DEF CapInv, WindowCapped, Uncounted, Forgiven
  <2>3. KeyShowsPassed'
    <3> SUFFICES ASSUME NEW i \in Windows, now' - Behind < Close(i)
                 PROVE  passed[i] <= count'[i] + Forgiven(i) + Uncounted
      BY <2>1, <2>2 DEF KeyShowsPassed
    <3>1. Close(i) \in Int
      BY WindowTypes
    <3>2. passed[i] <= count[i] + Forgiven(i) + Uncounted
      BY <1>t, <2>1, <3>1 DEF CapInv, KeyShowsPassed
    <3>3. CASE count[i] = 0
      BY <1>t, <1>f, <2>1, <3>2, <3>3
    <3>4. CASE count[i] > 0
      BY <1>t, <1>f, <2>1, <3>1, <3>2, <3>4 DEF CapInv, KeyOutlivesWindow
    <3> QED BY <1>t, <3>3, <3>4
  <2>4. KeyOutlivesWindow'
    BY <2>1, <1>t DEF CapInv, KeyOutlivesWindow
  <2> QED BY <2>2, <2>3, <2>4 DEF CapInv
<1>4. CASE LoseKey
  <2>1. PICK w \in Windows :
            /\ lost' = [lost EXCEPT ![w] = @ + 1]
            /\ count' = [count EXCEPT ![w] = 0]
            /\ expires' = [expires EXCEPT ![w] = 0]
            /\ UNCHANGED <<now, passed, outages>>
    BY <1>4 DEF LoseKey
  <2>2. Uncounted' = Uncounted
    BY <2>1 DEF Uncounted
  <2>3. /\ \A i \in Windows : i # w => Forgiven(i)' = Forgiven(i)
        /\ Forgiven(w)' = Limit + Forgiven(w)
    <3>1. \A i \in Windows : i # w => lost'[i] = lost[i]
      BY <2>1 DEF CapInv, TypeOK
    <3>2. lost'[w] = 1 + lost[w]
      BY <2>1, <1>t DEF CapInv, TypeOK
    <3>3. Limit * (1 + lost[w]) = Limit + Limit * lost[w]
      BY <1>f DEF Forgiven
    <3> QED BY <3>1, <3>2, <3>3 DEF Forgiven
  <2>4. WindowCapped'
    <3> SUFFICES ASSUME NEW i \in Windows
                 PROVE  passed[i] <= Limit + Forgiven(i)' + Uncounted
      BY <1>c, <2>1, <2>2
    <3> QED BY <1>t, <1>f, <1>w, <2>3
  <2>5. KeyShowsPassed'
    <3> SUFFICES ASSUME NEW i \in Windows, now - Behind < Close(i)
                 PROVE  passed[i] <= count'[i] + Forgiven(i)' + Uncounted
      BY <2>1, <2>2 DEF KeyShowsPassed
    <3>1. CASE i = w
      BY <3>1, <1>t, <1>f, <1>w, <2>1, <2>3 DEF CapInv, TypeOK
    <3>2. CASE i # w
      BY <3>2, <2>1, <2>3 DEF CapInv, TypeOK, KeyShowsPassed
    <3> QED BY <3>1, <3>2
  <2>6. KeyOutlivesWindow'
    BY <2>1 DEF CapInv, TypeOK, KeyOutlivesWindow
  <2> QED BY <2>4, <2>5, <2>6 DEF CapInv
<1>5. CASE Stopped \/ UNCHANGED vars
  BY <1>5 DEF Stopped, vars, CapInv, WindowCapped, KeyShowsPassed,
              KeyOutlivesWindow, Uncounted, Forgiven
<1> QED BY <1>1, <1>2, <1>3, <1>4, <1>5 DEF Next

\* No window lets more than its limit through, whichever workers count and
\* however late they come, if their clocks differ from that of Redis by no
\* more than the key's five spare seconds -- but for the outages, and for one
\* limit more each time Redis loses the key.
THEOREM CappedByDesign == DeploymentSound /\ Spec => []WindowCapped
<1> SUFFICES ASSUME DeploymentSound PROVE Spec => []WindowCapped
  OBVIOUS
<1>1. Init /\ TypeOK => CapInv
  <2> SUFFICES ASSUME Init, TypeOK PROVE CapInv
    OBVIOUS
  <2>1. /\ Uncounted \in Nat
        /\ \A i \in Windows : /\ passed[i] = 0 /\ count[i] = 0
                              /\ lost[i] = 0 /\ Forgiven(i) = 0
    BY RateAssumption DEF Init, Uncounted, Forgiven
  <2>2. \A i \in Windows : Limit * (1 + lost[i]) = Limit
    BY <2>1, RateAssumption
  <2> QED BY <2>1, <2>2, RateAssumption
          DEF CapInv, WindowCapped, KeyShowsPassed, KeyOutlivesWindow
<1>2. CapInv /\ TypeOK' /\ [Next]_vars => CapInv'
  BY CapStep
<1>3. CapInv => WindowCapped
  BY DEF CapInv
<1> QED BY <1>1, <1>2, <1>3, LimiterTypeCorrect, PTL DEF Spec

-----------------------------------------------------------------------------

\* A key never counts a request that was not made, whatever was lost, and
\* what was refused was refused on such a count.
CountsAttempts == \A i \in Windows : count[i] <= attempts[i]
FairInv == TypeOK /\ CountsAttempts /\ NoEarlyRefusal

LEMMA FairStep ==
    ASSUME FairInv, TypeOK', [Next]_vars
    PROVE  FairInv'
<1> USE RateAssumption
<1>t. \A i \in Windows : /\ count[i] \in Nat /\ attempts[i] \in Nat
                         /\ i \in refused => attempts[i] > Limit
  BY DEF FairInv, TypeOK, NoEarlyRefusal
<1>1. CASE Hit \/ Outage
  <2>1. PICK reading \in Clocks :
            /\ Attempt(Index(reading))
            /\ Count(Index(reading)) \/ UNCHANGED count
            /\ \/ refused' = refused
               \/ /\ refused' = refused \cup {Index(reading)}
                  /\ Count(Index(reading)) /\ ~ count'[Index(reading)] <= Limit
    <3>1. CASE Hit
      BY <3>1 DEF Hit, Pass, Refuse
    <3>2. CASE Outage
      BY <3>2 DEF Outage, Pass
    <3> QED BY <1>1, <3>1, <3>2
  <2> DEFINE w == Index(reading)
  <2>2. w \in Windows
    BY IndexInWindows DEF FairInv
  <2>3. /\ attempts'[w] = attempts[w] + 1
        /\ \A i \in Windows : i # w => attempts'[i] = attempts[i]
    BY <2>1, <2>2 DEF Attempt, FairInv, TypeOK
  <2>4. /\ count'[w] \in {count[w], count[w] + 1}
        /\ Count(w) => count'[w] = count[w] + 1
        /\ \A i \in Windows : i # w => count'[i] = count[i]
    BY <2>1, <2>2 DEF Count, FairInv, TypeOK
  <2>5. CountsAttempts'
    BY <1>t, <2>2, <2>3, <2>4 DEF FairInv, CountsAttempts
  <2>6. NoEarlyRefusal'
    <3>1. \A i \in Windows : attempts'[i] >= attempts[i] /\ attempts'[i] \in Nat
      BY <1>t, <2>2, <2>3
    <3>2. refused \subseteq Windows
      BY DEF FairInv, TypeOK
    <3>3. CASE refused' = refused
      BY <1>t, <3>1, <3>2, <3>3 DEF NoEarlyRefusal
    <3>4. CASE refused' = refused \cup {w} /\ Count(w) /\ ~ count'[w] <= Limit
      <4>1. attempts'[w] > Limit
        BY <1>t, <2>2, <2>3, <2>4, <3>4 DEF FairInv, CountsAttempts
      <4> QED BY <1>t, <3>1, <3>2, <3>4, <4>1 DEF NoEarlyRefusal
    <3> QED BY <2>1, <3>3, <3>4
  <2> QED BY <2>5, <2>6 DEF FairInv
<1>2. CASE Tick
  <2>1. \A i \in Windows : count'[i] \in {0, count[i]}
    BY <1>2 DEF Tick
  <2> QED BY <1>2, <1>t, <2>1 DEF Tick, FairInv, CountsAttempts, NoEarlyRefusal
<1>3. CASE LoseKey
  <2>1. \A i \in Windows : count'[i] \in {0, count[i]}
    BY <1>3 DEF LoseKey, FairInv, TypeOK
  <2> QED BY <1>3, <1>t, <2>1 DEF LoseKey, FairInv, CountsAttempts, NoEarlyRefusal
<1>4. CASE Stopped \/ UNCHANGED vars
  BY <1>4 DEF Stopped, vars, FairInv, CountsAttempts, NoEarlyRefusal
<1> QED BY <1>1, <1>2, <1>3, <1>4 DEF Next

\* A 429 means that the limit of that window was really used up: for all
\* clocks, losses and outages, without any assumption on the deployment.
THEOREM RefusedOnlyWhenUsed == Spec => []NoEarlyRefusal
<1>1. Init /\ TypeOK => FairInv
  BY DEF Init, FairInv, CountsAttempts, NoEarlyRefusal
<1>2. FairInv /\ TypeOK' /\ [Next]_vars => FairInv'
  BY FairStep
<1>3. FairInv => NoEarlyRefusal
  BY DEF FairInv
<1> QED BY <1>1, <1>2, <1>3, LimiterTypeCorrect, PTL DEF Spec

-----------------------------------------------------------------------------
(***************************************************************************)
(* The in-flight key: every number of reviews, lifetime and horizon        *)
(***************************************************************************)

SlotTypes ==
    /\ clock \in Nat
    /\ stage \in [Reviews -> {"idle", "holding", "done", "crashed"}]
    /\ since \in [Reviews -> Nat]
    /\ taken \in [Reviews -> Int]
    /\ slots \in Int /\ slotExpires \in Nat
    /\ \A r \in Reviews : since[r] <= clock
    /\ outlived \subseteq Reviews

\* Since a holder came the key was renewed, unless it lapsed under it; so the
\* count is short only by the reviews it lapsed under and that were not killed.
HoldersCounted ==
    /\ \A r \in Holding : r \in outlived \/ slotExpires >= since[r] + TTL
    /\ slots + Cardinality(Forgotten) >= Cardinality(Holding)

\* A key that counts anything is due within a TTL of some review's last step.
KeyRenewed ==
    slots # 0 => /\ clock < slotExpires
                 /\ \E r \in Reviews : slotExpires <= since[r] + TTL

\* The reviews that hold a slot are a finite set.
LEMMA HoldingFinite ==
    /\ IsFiniteSet(Holding) /\ Cardinality(Holding) \in Nat
    /\ IsFiniteSet(Holding') /\ Cardinality(Holding') \in Nat
<1>1. Holding \subseteq Reviews /\ Holding' \subseteq Reviews
  BY DEF Holding
<1> QED BY <1>1, SlotAssumption, FS_Subset, FS_CardinalityType

\* So are those the key lapsed under.
LEMMA ForgottenFinite ==
    ASSUME SlotTypes, SlotTypes'
    PROVE  /\ IsFiniteSet(Forgotten) /\ Cardinality(Forgotten) \in Nat
           /\ IsFiniteSet(Forgotten') /\ Cardinality(Forgotten') \in Nat
<1>1. Forgotten \subseteq Reviews /\ Forgotten' \subseteq Reviews
  BY DEF Forgotten, SlotTypes
<1> QED BY <1>1, SlotAssumption, FS_Subset, FS_CardinalityType

\* One review more or less holds a slot.
LEMMA HolderComes ==
    ASSUME SlotTypes, NEW r \in Reviews, Reserve(r)
    PROVE  /\ Holding' = Holding \cup {r}
           /\ Cardinality(Holding') = Cardinality(Holding) + 1
<1>1. r \notin Holding /\ Holding' = Holding \cup {r}
  BY DEF Reserve, Became, Holding, SlotTypes
<1> QED BY <1>1, HoldingFinite, FS_AddElement

LEMMA HolderLeaves ==
    ASSUME SlotTypes, NEW r \in Reviews, Release(r) \/ Crash(r)
    PROVE  /\ Holding' = Holding \ {r}
           /\ Cardinality(Holding') = Cardinality(Holding) - 1
<1>1. r \in Holding /\ Holding' = Holding \ {r}
  BY DEF Release, Crash, Became, Holding, SlotTypes
<1> QED BY <1>1, HoldingFinite, FS_RemoveElement

-----------------------------------------------------------------------------

\* The types hold throughout.
LEMMA SlotTypesStep ==
    ASSUME SlotTypes, [SlotNext]_slotVars
    PROVE  SlotTypes'
<1> USE SlotAssumption DEF SlotTypes
<1>1. ASSUME NEW r \in Reviews, Reserve(r) \/ Release(r) \/ Crash(r)
      PROVE  SlotTypes'
  BY <1>1 DEF Reserve, Release, Crash, Became, Incr
<1>2. CASE SlotTick
  BY <1>2 DEF SlotTick, Holding
<1>3. CASE SlotStopped \/ UNCHANGED slotVars
  BY <1>3 DEF SlotStopped, slotVars
<1> QED BY <1>1, <1>2, <1>3 DEF SlotNext

\* The slot's state stays what it is meant to be.
LEMMA SlotTypesHold == SlotSpec => []SlotTypes
<1>1. SlotInit => SlotTypes
  BY DEF SlotInit, SlotTypes
<1> QED BY <1>1, SlotTypesStep, PTL DEF SlotSpec

\* The slot's clock and counts stay within their bounds, and no review is told
\* of more slots than there are reviews.
THEOREM SlotTyped == SlotSpec => []SlotTypeOK
<1> DEFINE Begun == {r \in Reviews : stage[r] # "idle"}
           Few == /\ slots <= Cardinality(Begun)
                  /\ \A r \in Reviews : taken[r] \in 0..Cardinality(Reviews)
                  /\ clock <= SlotHorizon /\ slotExpires <= SlotHorizon + TTL
<1>0. /\ IsFiniteSet(Begun) /\ Cardinality(Begun) \in Nat
      /\ Cardinality(Begun) <= Cardinality(Reviews) /\ Cardinality(Reviews) \in Nat
      /\ Cardinality(Begun') \in Nat /\ Cardinality(Begun') <= Cardinality(Reviews)
  <2>1. Begun \subseteq Reviews /\ Begun' \subseteq Reviews
    OBVIOUS
  <2> QED BY <2>1, SlotAssumption, FS_Subset, FS_CardinalityType
<1>1. SlotInit => Few
  BY <1>0, SlotAssumption DEF SlotInit
<1>2. SlotTypes /\ Few /\ [SlotNext]_slotVars => Few'
  <2> SUFFICES ASSUME SlotTypes, Few, [SlotNext]_slotVars PROVE Few'
    OBVIOUS
  <2>0. /\ clock \in Nat /\ SlotHorizon \in Nat /\ TTL \in Nat /\ slots \in Int
        /\ slotExpires \in Nat /\ taken \in [Reviews -> Int]
    BY SlotAssumption DEF SlotTypes
  <2>1. ASSUME NEW r \in Reviews, Reserve(r) PROVE Few'
    <3>1. r \notin Begun /\ Begun' = Begun \cup {r}
      BY <2>1 DEF Reserve, Became, SlotTypes
    <3>2. Cardinality(Begun') = Cardinality(Begun) + 1
      BY <1>0, <3>1, FS_AddElement
    <3> HIDE DEF Begun
    <3>3. /\ slots' = slots + 1 /\ clock' = clock /\ slotExpires' = clock + TTL
          /\ taken' = [taken EXCEPT ![r] = IF slots' < 1 THEN 1 ELSE slots']
      BY <2>1 DEF Reserve, Incr
    <3>4. slots' <= Cardinality(Begun') /\ Cardinality(Begun') >= 1
      BY <1>0, <2>0, <3>2, <3>3
    <3>5. \A q \in Reviews : taken'[q] \in 0..Cardinality(Reviews)
      BY <1>0, <2>0, <3>3, <3>4
    <3> QED BY <2>0, <3>3, <3>4, <3>5
  <2>2. ASSUME NEW r \in Reviews, Release(r) \/ Crash(r) PROVE Few'
    <3>1. Begun' = Begun
      BY <2>2 DEF Release, Crash, Became, SlotTypes
    <3> HIDE DEF Begun
    <3> QED BY <1>0, <2>0, <2>2, <3>1 DEF Release, Crash, Incr
  <2>3. CASE SlotTick
    <3>1. Begun' = Begun
      BY <2>3 DEF SlotTick
    <3> HIDE DEF Begun
    <3> QED BY <1>0, <2>0, <2>3, <3>1 DEF SlotTick
  <2>4. CASE SlotStopped \/ UNCHANGED slotVars
    BY <2>4 DEF SlotStopped, slotVars
  <2> QED BY <2>1, <2>2, <2>3, <2>4 DEF SlotNext
<1>3. SlotTypes /\ Few => SlotTypeOK
  <2> SUFFICES ASSUME SlotTypes, Few PROVE SlotTypeOK
    OBVIOUS
  <2>1. \A r \in Reviews : since[r] \in 0..SlotHorizon
    BY SlotAssumption DEF SlotTypes
  <2> QED BY <2>1, SlotAssumption DEF SlotTypes, SlotTypeOK
<1> QED BY SlotTypesHold, <1>1, <1>2, <1>3, PTL DEF SlotSpec

\* The key goes on covering its holders but those it lapsed under.
LEMMA HoldersCountedStep ==
    ASSUME SlotTypes, SlotTypes', HoldersCounted, [SlotNext]_slotVars
    PROVE  HoldersCounted'
<1> USE SlotAssumption, HoldingFinite, ForgottenFinite DEF SlotTypes, HoldersCounted
<1>1. ASSUME NEW r \in Reviews, Reserve(r) PROVE HoldersCounted'
  <2>1. slots' + Cardinality(Forgotten') >= Cardinality(Holding')
    <3>1. Cardinality(Holding') = Cardinality(Holding) + 1
      BY <1>1, HolderComes
    <3>2. slots' = slots + 1
      BY <1>1 DEF Reserve, Incr
    <3>3. Forgotten' = Forgotten
      BY <1>1 DEF Reserve, Became, Forgotten
    <3> QED BY <3>1, <3>2, <3>3
  <2>2. \A q \in Holding' : slotExpires' >= since'[q] + TTL
    BY <1>1, HolderComes DEF Reserve, Incr, Became, Holding
  <2> QED BY <2>1, <2>2
<1>2. ASSUME NEW r \in Reviews, Release(r) PROVE HoldersCounted'
  <2>1. slots' + Cardinality(Forgotten') >= Cardinality(Holding')
    <3>1. Cardinality(Holding') = Cardinality(Holding) - 1
      BY <1>2, HolderLeaves
    <3>2. slots' = slots - 1
      BY <1>2 DEF Release, Incr
    <3>3. Forgotten' = Forgotten
      BY <1>2 DEF Release, Became, Forgotten
    <3> QED BY <3>1, <3>2, <3>3
  <2>2. \A q \in Holding' : slotExpires' >= since'[q] + TTL
    BY <1>2, HolderLeaves DEF Release, Incr, Became, Holding
  <2> QED BY <2>1, <2>2
<1>3. ASSUME NEW r \in Reviews, Crash(r) PROVE HoldersCounted'
  <2>1. Holding' = Holding \ {r} /\ Cardinality(Holding') = Cardinality(Holding) - 1
    BY <1>3, HolderLeaves
  <2>2. /\ slots' = slots /\ outlived' = outlived /\ slotExpires' = slotExpires
        /\ \A q \in Holding' : since'[q] = since[q]
    BY <1>3, <2>1 DEF Crash, Became, Holding
  <2>3. Forgotten' = Forgotten \ {r}
    BY <1>3 DEF Crash, Became, Forgotten
  <2>4. Cardinality(Forgotten') >= Cardinality(Forgotten) - 1
    <3>1. CASE r \in Forgotten
      BY <2>3, <3>1, FS_RemoveElement
    <3>2. CASE r \notin Forgotten
      <4>1. Forgotten' = Forgotten
        BY <2>3, <3>2
      <4> QED BY <4>1
    <3> QED BY <3>1, <3>2
  <2>5. slots' + Cardinality(Forgotten') >= Cardinality(Holding')
    BY <2>1, <2>2, <2>4
  <2> QED BY <2>1, <2>2, <2>5
<1>4. CASE SlotTick
  <2>1. Holding' = Holding /\ since' = since
    BY <1>4 DEF SlotTick, Holding
  <2>2. CASE slotExpires # 0 /\ slotExpires <= clock'
    <3>1. Forgotten' = Holding
      BY <1>4, <2>2 DEF SlotTick, Forgotten, Holding
    <3>2. slots' = 0 /\ outlived' = Holding
      BY <1>4, <2>2 DEF SlotTick
    <3> QED BY <2>1, <3>1, <3>2
  <2>3. CASE ~(slotExpires # 0 /\ slotExpires <= clock')
    BY <1>4, <2>1, <2>3 DEF SlotTick, Forgotten
  <2> QED BY <2>2, <2>3
<1>5. CASE SlotStopped \/ UNCHANGED slotVars
  BY <1>5 DEF SlotStopped, slotVars, Holding, Forgotten
<1> QED BY <1>1, <1>2, <1>3, <1>4, <1>5 DEF SlotNext

\* What reserve() tells a review is at least the number of holders but those
\* the key lapsed under, and it lapses under none that has not run for a TTL:
\* for all lifetimes, and however long the reviews are.
THEOREM ReservesCounted == SlotSpec => ReserveCountsHolders
<1>1. SlotInit => HoldersCounted
  <2> SUFFICES ASSUME SlotInit PROVE HoldersCounted
    OBVIOUS
  <2>1. Holding = {} /\ Forgotten = {}
    BY DEF SlotInit, Holding, Forgotten
  <2>2. Cardinality(Holding) = 0 /\ Cardinality(Forgotten) = 0
    BY <2>1, FS_EmptySet
  <2> QED BY <2>1, <2>2 DEF SlotInit, HoldersCounted
<1>2. SlotTypes /\ SlotTypes' /\ HoldersCounted /\ [SlotNext]_slotVars => HoldersCounted'
  BY HoldersCountedStep
<1>3. SlotTypes /\ SlotTypes' /\ HoldersCounted /\ HoldersCounted' /\ [SlotNext]_slotVars
      => [/\ \A r \in Reviews :
                stage[r] = "idle" /\ stage'[r] = "holding"
                => taken'[r] + Cardinality(Forgotten') >= Cardinality(Holding')
          /\ \A r \in outlived' \ outlived : clock' >= since[r] + TTL]_slotVars
  <2> SUFFICES ASSUME SlotTypes, SlotTypes', HoldersCounted, HoldersCounted', SlotNext
               PROVE  /\ \A r \in Reviews :
                            stage[r] = "idle" /\ stage'[r] = "holding"
                            => taken'[r] + Cardinality(Forgotten') >= Cardinality(Holding')
                      /\ \A r \in outlived' \ outlived : clock' >= since[r] + TTL
    BY DEF slotVars
  <2>1. ASSUME NEW r \in Reviews, stage[r] = "idle", stage'[r] = "holding"
        PROVE  taken'[r] + Cardinality(Forgotten') >= Cardinality(Holding')
    <3>1. Reserve(r)
      BY <2>1 DEF SlotNext, Reserve, Release, Crash, Became, SlotTick, SlotStopped,
         slotVars, SlotTypes
    <3>2. /\ slots' \in Int /\ Cardinality(Forgotten') \in Nat /\ Cardinality(Holding') \in Nat
          /\ slots' + Cardinality(Forgotten') >= Cardinality(Holding')
      BY HoldingFinite, ForgottenFinite DEF HoldersCounted, SlotTypes
    <3>3. taken'[r] \in Int /\ taken'[r] >= slots'
      BY <2>1, <3>1, <3>2 DEF Reserve, SlotTypes
    <3> QED BY <3>2, <3>3
  <2>2. ASSUME NEW r \in outlived' \ outlived PROVE clock' >= since[r] + TTL
    <3>1. SlotTick
      BY <2>2 DEF SlotNext, Reserve, Release, Crash, SlotTick, SlotStopped, slotVars
    <3>2. r \in Holding /\ slotExpires <= clock'
      BY <2>2, <3>1 DEF SlotTick
    <3> QED BY <2>2, <3>1, <3>2, SlotAssumption DEF HoldersCounted, SlotTypes, SlotTick, Holding
  <2> QED BY <2>1, <2>2
<1> QED BY <1>1, <1>2, <1>3, SlotTypesHold, PTL DEF SlotSpec, ReserveCountsHolders

\* Whatever crashes leaked is gone after a TTL of silence, however long the
\* reviews were.
THEOREM SilenceFrees == SlotSpec => []SilenceFreesLeaks
<1>1. SlotInit => KeyRenewed
  BY DEF SlotInit, KeyRenewed
<1>2. SlotTypes /\ KeyRenewed /\ [SlotNext]_slotVars => KeyRenewed'
  <2> SUFFICES ASSUME SlotTypes, KeyRenewed, [SlotNext]_slotVars
               PROVE  KeyRenewed'
    OBVIOUS
  <2> USE SlotAssumption DEF SlotTypes, KeyRenewed
  <2>1. ASSUME NEW r \in Reviews, Reserve(r) \/ Release(r) PROVE KeyRenewed'
    <3>1. since'[r] = clock /\ slotExpires' = clock + TTL /\ clock' = clock
      BY <2>1 DEF Reserve, Release, Became, Incr
    <3> QED BY <3>1
  <2>2. ASSUME NEW r \in Reviews, Crash(r) PROVE KeyRenewed'
    <3>1. \A q \in Reviews : since[q] <= since'[q] /\ since'[q] \in Nat
      BY <2>2 DEF Crash, Became
    <3> QED BY <2>2, <3>1 DEF Crash
  <2>3. CASE SlotTick
    BY <2>3 DEF SlotTick
  <2>4. CASE SlotStopped \/ UNCHANGED slotVars
    BY <2>4 DEF SlotStopped, slotVars
  <2> QED BY <2>1, <2>2, <2>3, <2>4 DEF SlotNext
<1>3. SlotTypes /\ KeyRenewed => SilenceFreesLeaks
  BY SlotAssumption DEF SlotTypes, KeyRenewed, SilenceFreesLeaks
<1> QED BY <1>1, <1>2, <1>3, SlotTypesHold, PTL DEF SlotSpec

-----------------------------------------------------------------------------
(***************************************************************************)
(* The gateway: every set of addresses, users and accounts, and all limits *)
(***************************************************************************)

(* Which route a request takes *)

Segments == {"api", "health", "auth", "refresh", "logout", "login", "app", "agent",
             "billing", "applesauce", "chat", "documents", "search", "sessions", "1"}

\* A prefix agrees with the path in each of its segments.
LEMMA PrefixAgrees ==
    ASSUME NEW s \in Seq(Segments), NEW t \in Seq(Segments), IsPrefix(s, t), NEW i \in 1..Len(s)
    PROVE  Len(s) <= Len(t) /\ s[i] = t[i]
<1>1. Len(s) <= Len(t) /\ SubSeq(s, 1, Len(s)) = SubSeq(t, 1, Len(s))
  BY DEF IsPrefix
<1>2. SubSeq(s, 1, Len(s))[i] = s[i] /\ SubSeq(t, 1, Len(s))[i] = t[i]
  BY <1>1
<1> QED BY <1>1, <1>2

\* The paths the routes and the calls are made of.
LEMMA PathsAre ==
    /\ \A r \in Routes : r.prefix \in Seq(Segments) /\ Len(r.prefix) >= 2
    /\ \A c \in Endpoints : c[2] \in Seq(Segments)
<1>1. /\ <<"api", "health">> \in Seq(Segments) /\ <<"api", "auth">> \in Seq(Segments)
      /\ <<"api", "app">> \in Seq(Segments) /\ <<"api", "agent">> \in Seq(Segments)
      /\ <<"api", "billing">> \in Seq(Segments) /\ <<"api", "applesauce">> \in Seq(Segments)
  BY DEF Segments
<1>2. /\ <<"api", "auth", "refresh">> \in Seq(Segments)
      /\ <<"api", "auth", "logout">> \in Seq(Segments)
      /\ <<"api", "auth", "login">> \in Seq(Segments) /\ <<"api", "agent", "chat">> \in Seq(Segments)
  BY DEF Segments
<1>3. /\ <<"api", "app", "documents", "search">> \in Seq(Segments)
      /\ <<"api", "app", "sessions", "1">> \in Seq(Segments)
  BY DEF Segments
<1>4. ASSUME NEW r \in Routes
      PROVE  r.prefix \in {<<"api", "health">>, <<"api", "auth">>, <<"api", "auth", "refresh">>,
                          <<"api", "auth", "logout">>, <<"api", "app">>, <<"api", "agent">>,
                          <<"api", "billing">>}
  BY DEF Routes, Route
<1>5. ASSUME NEW r \in Routes PROVE r.prefix \in Seq(Segments) /\ Len(r.prefix) >= 2
  <2>1. r.prefix \in Seq(Segments)
    BY <1>1, <1>2, <1>4
  <2>2. Len(r.prefix) \in {2, 3}
    BY <1>4
  <2> QED BY <2>1, <2>2
<1>6. ASSUME NEW c \in Endpoints
      PROVE  c[2] \in {<<"api", "health">>, <<"api", "auth", "login">>,
                      <<"api", "auth", "refresh">>, <<"api", "app", "documents", "search">>,
                      <<"api", "app", "sessions", "1">>, <<"api", "agent", "chat">>,
                      <<"api", "applesauce">>}
  BY DEF Endpoints
<1>7. \A c \in Endpoints : c[2] \in Seq(Segments)
  BY <1>1, <1>2, <1>3, <1>6
<1> QED BY <1>5, <1>7

\* Which endpoints are public and which budget each one takes.
LEMMA RouteTaken ==
    ASSUME NEW c \in Endpoints, NEW r \in RouteOf[c]
    PROVE  /\ c[2][2] = "health" => r.public /\ r.bucket = "default"
           /\ c[2][2] = "auth" =>
                 /\ r.public
                 /\ r.bucket = IF c[2] = <<"api", "auth", "login">> THEN "auth" ELSE "default"
           /\ c[2][2] = "app" => ~r.public /\ r.bucket = "default"
           /\ c[2][2] = "agent" => ~r.public /\ r.bucket = "agent"
           /\ c[2][2] \in {"health", "auth", "app", "agent"}
<1>1. /\ r \in Routes /\ IsPrefix(r.prefix, c[2])
      /\ \A s \in Routes : IsPrefix(s.prefix, c[2]) => Len(s.prefix) <= Len(r.prefix)
  BY DEF RouteOf, MatchRoute, Matching
<1>2. r.prefix[2] = c[2][2]
  BY <1>1, PathsAre, PrefixAgrees
<1>3. Len(r.prefix) >= 3 => r.prefix[3] = c[2][3]
  BY <1>1, PathsAre, PrefixAgrees
<1>4. CASE c[2][2] # "auth"
  BY <1>1, <1>2, <1>4 DEF Routes, Route, Endpoints
<1>5. CASE c[2] = <<"api", "auth", "login">>
  BY <1>1, <1>2, <1>3, <1>5 DEF Routes, Route
<1>6. CASE c[2] = <<"api", "auth", "refresh">>
  <2>1. IsPrefix(<<"api", "auth", "refresh">>, c[2])
    BY <1>6 DEF IsPrefix
  <2>2. Len(r.prefix) >= 3
    BY <1>1, <2>1 DEF Routes, Route
  <2>3. r.prefix[3] = "refresh"
    BY <1>3, <1>6, <2>2
  <2>4. r.prefix \notin {<<"api", "auth">>, <<"api", "auth", "logout">>}
    BY <2>2, <2>3
  <2>5. r.public /\ r.bucket = "default"
    BY <1>1, <1>2, <1>6, <2>4 DEF Routes, Route
  <2> QED BY <1>6, <2>5
<1> QED BY <1>4, <1>5, <1>6 DEF Endpoints

-----------------------------------------------------------------------------
(* What a request counts on *)

QueryOK(q) ==
    /\ q.call \in Endpoints /\ q.from \in Addresses \ {Proxy}
    /\ q.written = <<>> \/ \E a \in Addresses : q.written = <<a>>
    /\ q.email \in Emails
    /\ Public(q) => q.token.scope = "none"
    /\ q.token.scope \in {"user", "agent"} => q.token.user \in Users

\* Every request a client can send has these parts.
LEMMA QueriesOK == \A q \in Queries : QueryOK(q)
<1> SUFFICES ASSUME NEW q \in Queries PROVE QueryOK(q)
  OBVIOUS
<1>1. /\ q \in [call : Endpoints, token : Bearers, from : Addresses \ {Proxy},
                written : Written, email : Emails]
      /\ Public(q) => q.token.scope = "none"
  BY DEF Queries
<1>2. q.token.scope \in {"user", "agent"} => q.token.user \in Users
  <2>1. CASE \E scope \in {"user", "agent"}, u \in Users : q.token = Bearer(scope, u)
    BY <2>1 DEF Bearer
  <2>2. CASE \E scope \in {"none", "broken"} : q.token = Bearer(scope, "nobody")
    <3>1. PICK scope \in {"none", "broken"} : q.token = Bearer(scope, "nobody")
      BY <2>2
    <3>2. q.token.scope = scope
      BY <3>1 DEF Bearer
    <3> QED BY <3>2
  <2>3. \/ q.token \in {Bearer(scope, u) : scope \in {"user", "agent"}, u \in Users}
        \/ q.token \in {Bearer(scope, "nobody") : scope \in {"none", "broken"}}
    <3>1. q.token \in Bearers
      BY <1>1
    <3> QED BY <3>1 DEF Bearers
  <2> QED BY <2>1, <2>2, <2>3
<1>3. q.written = <<>> \/ \E a \in Addresses : q.written = <<a>>
  BY <1>1 DEF Written
<1> QED BY <1>1, <1>2, <1>3 DEF QueryOK

Deployed == deployment \in {"direct", "overwrites", "appends"}

\* Whatever a client writes into its headers, the gateway knows its address.
LEMMA AddressKnown ==
    ASSUME Deployed, NEW q, QueryOK(q)
    PROVE  ClientIP(q) = q.from
<1>1. CASE deployment = "direct"
  BY <1>1 DEF ClientIP, Peer
<1>2. CASE deployment = "overwrites"
  <2>1. Forwarded(q) = <<q.from>>
    BY <1>2 DEF Forwarded
  <2> QED BY <1>2, <2>1 DEF ClientIP, Last
<1>3. CASE deployment = "appends"
  <2>1. Forwarded(q) = Append(q.written, q.from)
    BY <1>3 DEF Forwarded
  <2>2. q.written \in Seq(Addresses) /\ q.from \in Addresses
    <3>1. <<>> \in Seq(Addresses) /\ \A a \in Addresses : <<a>> \in Seq(Addresses)
      OBVIOUS
    <3> QED BY <3>1 DEF QueryOK
  <2>3. Append(q.written, q.from) # <<>> /\ Last(Append(q.written, q.from)) = q.from
    BY <2>2, LastAppended
  <2> QED BY <1>3, <2>1, <2>3 DEF ClientIP
<1> QED BY <1>1, <1>2, <1>3 DEF Deployed

Budgets ==
         {Budget("auth", a) : a \in Addresses}
    \cup {Budget("default", x) : x \in Addresses \cup Users}
    \cup {Budget(kind, u) : kind \in {"tools", "agent"}, u \in Users}
    \cup {Budget("login_account", e) : e \in Emails}

\* The limiter's key of a budget.
KeyOf(b) ==
    CASE b.kind = "login_account" -> <<"login_account", b.whose>>
      [] b.kind = "auth"  -> <<"auth", <<"ip", b.whose>>>>
      [] b.kind = "tools" -> <<"default", <<"a", b.whose>>>>
      [] b.kind = "agent" -> <<"agent", <<"u", b.whose>>>>
      [] b.kind = "default" /\ b.whose \in Addresses -> <<"default", <<"ip", b.whose>>>>
      [] b.kind = "default" /\ b.whose \notin Addresses -> <<"default", <<"u", b.whose>>>>

\* Budgets are kept apart: no two of them share a key.
LEMMA KeysApart ==
    ASSUME NEW b \in Budgets, NEW c \in Budgets, KeyOf(b) = KeyOf(c)
    PROVE  b = c
<1>1. b = [kind |-> b.kind, whose |-> b.whose] /\ c = [kind |-> c.kind, whose |-> c.whose]
  BY DEF Budgets, Budget
<1>2. b.kind \in {"auth", "default", "tools", "agent", "login_account"}
      /\ c.kind \in {"auth", "default", "tools", "agent", "login_account"}
  BY DEF Budgets, Budget
<1>3. b.kind = c.kind /\ b.whose = c.whose
  BY <1>2 DEF KeyOf
<1> QED BY <1>1, <1>3

\* A request that is counted draws on the budget of the documents.
LEMMA RightBudget ==
    ASSUME Deployed, NEW q, QueryOK(q), NEW r \in CountedRoutes(q)
    PROVE  /\ BudgetOf(q) \in Budgets
           /\ KeyOf(BudgetOf(q)) = <<r.bucket, Subject(q, r)>>
           /\ LimitOf(BudgetOf(q)) = Limits[r.bucket]
           /\ BudgetOf(q).kind # "login_account"
<1>1. /\ q.call \in Endpoints /\ r \in RouteOf[q.call]
      /\ r.public \/ q.token.scope = "user" \/ q.token.scope = "agent"
  BY DEF CountedRoutes, QueryOK
<1>2. /\ q.call[2][2] = "health" => r.public /\ r.bucket = "default"
      /\ q.call[2][2] = "auth" => r.public /\ r.bucket = IF IsLogin(q) THEN "auth" ELSE "default"
      /\ q.call[2][2] = "app" => ~r.public /\ r.bucket = "default"
      /\ q.call[2][2] = "agent" => ~r.public /\ r.bucket = "agent"
      /\ q.call[2][2] \in {"health", "auth", "app", "agent"}
  BY <1>1, RouteTaken DEF IsLogin
<1>3. CASE r.public
  <2>1. Subject(q, r) = <<"ip", q.from>>
    BY <1>3, AddressKnown DEF Subject
  <2>2. BudgetOf(q) = Budget(r.bucket, q.from) /\ r.bucket \in {"auth", "default"}
    <3>1. q.call[2][2] \in {"health", "auth"}
      BY <1>2, <1>3
    <3>2. r.bucket = IF IsLogin(q) THEN "auth" ELSE "default"
      <4>1. q.call[2][2] = "health" => ~IsLogin(q)
        BY DEF IsLogin
      <4> QED BY <1>2, <3>1, <4>1
    <3>3. BudgetOf(q) = Budget(IF IsLogin(q) THEN "auth" ELSE "default", q.from)
      BY <3>1 DEF BudgetOf
    <3> QED BY <3>2, <3>3
  <2> QED BY <2>1, <2>2 DEF Budgets, Budget, KeyOf, LimitOf, QueryOK
<1>4. CASE ~r.public
  <2>1. q.token.scope \in {"user", "agent"} /\ q.token.user \in Users
    BY <1>1, <1>4 DEF QueryOK
  <2>2. q.token.user \notin Addresses
    BY <2>1, GatewayAssumption
  <2>3. CASE q.token.scope = "agent"
    <3>1. Subject(q, r) = <<"a", q.token.user>>
      BY <1>4, <2>3 DEF Subject
    <3>2. BudgetOf(q) = Budget("tools", q.token.user)
      BY <1>2, <1>4, <2>3 DEF BudgetOf
    <3>3. r.bucket = "default"
      BY <1>2, <1>4, <2>3 DEF CountedRoutes, AgentMayCall
    <3> QED BY <2>1, <3>1, <3>2, <3>3 DEF Budgets, Budget, KeyOf, LimitOf
  <2>4. CASE q.token.scope = "user"
    <3>1. Subject(q, r) = <<"u", q.token.user>>
      BY <1>4, <2>4 DEF Subject
    <3>2. BudgetOf(q) = Budget(r.bucket, q.token.user) /\ r.bucket \in {"agent", "default"}
      BY <1>2, <1>4, <2>4 DEF BudgetOf
    <3> QED BY <2>1, <2>2, <3>1, <3>2 DEF Budgets, Budget, KeyOf, LimitOf
  <2> QED BY <2>1, <2>3, <2>4
<1> QED BY <1>3, <1>4

-----------------------------------------------------------------------------
(* Counting *)

Counter(f) == \A x \in DOMAIN f : f[x] \in Nat

\* A count that was never made is zero.
LEMMA AtIsNat ==
    ASSUME NEW f, Counter(f), NEW x
    PROVE  At(f, x) \in Nat
BY DEF Counter, At

\* What Add makes of a map of counts.
LEMMA Added ==
    ASSUME NEW f, Counter(f), NEW x
    PROVE  /\ Counter(Add(f, x)) /\ DOMAIN Add(f, x) = DOMAIN f \cup {x}
           /\ \A y : At(Add(f, x), y) = IF y = x THEN At(f, y) + 1 ELSE At(f, y)
<1>1. DOMAIN Add(f, x) = DOMAIN f \cup {x}
  BY DEF Add
<1>2. ASSUME NEW y \in DOMAIN f \cup {x}
      PROVE  Add(f, x)[y] = IF y = x THEN At(f, y) + 1 ELSE f[y]
  BY <1>2 DEF Add
<1>3. Counter(Add(f, x))
  <2>1. ASSUME NEW y \in DOMAIN f \cup {x} PROVE Add(f, x)[y] \in Nat
    <3>1. At(f, y) + 1 \in Nat
      BY AtIsNat
    <3>2. y # x => f[y] \in Nat
      BY DEF Counter
    <3> QED BY <1>2, <3>1, <3>2
  <2> QED BY <1>1, <2>1 DEF Counter
<1>4. ASSUME NEW y PROVE At(Add(f, x), y) = IF y = x THEN At(f, y) + 1 ELSE At(f, y)
  <2>1. CASE y \in DOMAIN f \cup {x}
    <3>1. At(Add(f, x), y) = Add(f, x)[y]
      BY <1>1, <2>1 DEF At
    <3>2. y # x => At(f, y) = f[y]
      BY <2>1 DEF At
    <3> QED BY <1>2, <2>1, <3>1, <3>2
  <2>2. CASE y \notin DOMAIN f \cup {x}
    <3>1. At(Add(f, x), y) = 0 /\ At(f, y) = 0
      BY <1>1, <2>2 DEF At
    <3> QED BY <2>2, <3>1
  <2> QED BY <2>1, <2>2
<1> QED BY <1>1, <1>3, <1>4

\* What is left of a map of counts when some are dropped.
LEMMA AtKept ==
    ASSUME NEW f, Counter(f), NEW S \in SUBSET DOMAIN f
    PROVE  /\ Counter(Restrict(f, S)) /\ DOMAIN Restrict(f, S) = S
           /\ \A x : At(Restrict(f, S), x) = IF x \in S THEN At(f, x) ELSE 0
BY DEF Counter, Restrict, At

\* The requests of a budget that passed without an answer of Redis.
PassedOver(b) == IF LimiterOpen THEN At(missed, b) ELSE 0

\* What has been drawn on a budget, asked for or let through, and its key.
Kept(b) ==
    /\ At(counts, KeyOf(b)) <= At(asked, b)
    /\ At(missed, b) <= At(asked, b)
    /\ At(let, b) <= LimitOf(b) + PassedOver(b)
    /\ At(let, b) <= At(counts, KeyOf(b)) + PassedOver(b)
    /\ At(let, b) <= At(asked, b)
    /\ b \in turned => At(counts, KeyOf(b)) > LimitOf(b)

Counters ==
    /\ Counter(counts) /\ Counter(asked) /\ Counter(let) /\ Counter(missed)
    /\ DOMAIN asked \subseteq Budgets /\ DOMAIN let \subseteq DOMAIN asked
    /\ DOMAIN missed \subseteq DOMAIN asked /\ turned \subseteq DOMAIN asked
    /\ \A k \in DOMAIN counts : k[1] \in DOMAIN Limits

GatewayInv == Deployed /\ Counters /\ \A b \in Budgets : Kept(b)

\* Every budget has a limit.
LEMMA LimitsAreNat == \A b \in Budgets : LimitOf(b) \in Nat
BY GatewayAssumption DEF Budgets, Budget, LimitOf

\* The key of every budget is one that a limit is named for.
LEMMA KeysAreLimited == \A b \in Budgets : KeyOf(b)[1] \in DOMAIN Limits
BY GatewayAssumption DEF Budgets, Budget, KeyOf

\* The numbers the budgets are compared with.
LEMMA CountsAreNumbers ==
    ASSUME Counters, NEW b \in Budgets
    PROVE  /\ At(counts, KeyOf(b)) \in Nat /\ At(asked, b) \in Nat /\ At(let, b) \in Nat
           /\ At(missed, b) \in Nat /\ LimitOf(b) \in Nat /\ PassedOver(b) \in Nat
BY AtIsNat, LimitsAreNat DEF Counters, PassedOver

\* The budget of the account that a sign-in names.
LEMMA AccountBudget ==
    ASSUME NEW e \in Emails
    PROVE  /\ AccountOf(e) \in Budgets
           /\ KeyOf(AccountOf(e)) = <<"login_account", e>>
           /\ LimitOf(AccountOf(e)) = Limits["login_account"]
BY DEF AccountOf, Budgets, Budget, KeyOf, LimitOf

\* A hit of the key of a budget, answered or not, keeps all budgets.
LEMMA DrawKeeps ==
    ASSUME GatewayInv, NEW b \in Budgets, NEW status, Draw(b, KeyOf(b), LimitOf(b), status)
    PROVE  GatewayInv'
<1> DEFINE key == KeyOf(b)
<1>1. Counters /\ Deployed /\ key[1] \in DOMAIN Limits
  BY KeysAreLimited DEF GatewayInv
<1>2. /\ Counter(asked') /\ DOMAIN asked' = DOMAIN asked \cup {b}
      /\ \A c : At(asked', c) = IF c = b THEN At(asked, c) + 1 ELSE At(asked, c)
  BY <1>1, Added DEF Draw, Counters
<1>3. /\ Counter(let') /\ DOMAIN let' \subseteq DOMAIN let \cup {b}
      /\ \A c : At(let', c) = IF c = b /\ status = 200 THEN At(let, c) + 1 ELSE At(let, c)
  <2>1. CASE status = 200
    <3>1. let' = Add(let, b)
      BY <2>1 DEF Draw
    <3>2. /\ Counter(Add(let, b)) /\ DOMAIN Add(let, b) = DOMAIN let \cup {b}
          /\ \A c : At(Add(let, b), c) = IF c = b THEN At(let, c) + 1 ELSE At(let, c)
      BY <1>1, Added DEF Counters
    <3> QED BY <2>1, <3>1, <3>2
  <2>2. CASE status # 200
    BY <1>1, <2>2 DEF Draw, Counters
  <2> QED BY <2>1, <2>2
<1>4. counts' \in {counts, Add(counts, key)}
  BY DEF Draw
<1>5. /\ Counter(Add(counts, key)) /\ DOMAIN Add(counts, key) = DOMAIN counts \cup {key}
      /\ \A k : At(Add(counts, key), k) = IF k = key THEN At(counts, k) + 1 ELSE At(counts, k)
  BY <1>1, Added DEF Counters
<1>6. Counter(counts') /\ DOMAIN counts' \subseteq DOMAIN counts \cup {key}
  BY <1>1, <1>4, <1>5 DEF Counters
<1>7. missed' \in {missed, Add(missed, b)} /\ turned' \subseteq turned \cup {b}
  BY DEF Draw
<1>8. /\ Counter(Add(missed, b)) /\ DOMAIN Add(missed, b) = DOMAIN missed \cup {b}
      /\ \A c : At(Add(missed, b), c) = IF c = b THEN At(missed, c) + 1 ELSE At(missed, c)
  BY <1>1, Added DEF Counters
<1>9. Counter(missed') /\ DOMAIN missed' \subseteq DOMAIN missed \cup {b}
  BY <1>1, <1>7, <1>8 DEF Counters
<1>10. Counters'
  <2>1. Counter(counts)' /\ Counter(asked)' /\ Counter(let)' /\ Counter(missed)'
    BY <1>2, <1>3, <1>6, <1>9 DEF Counter
  <2> QED BY <1>1, <1>2, <1>3, <1>6, <1>7, <1>9, <2>1 DEF Counters
<1>11. ASSUME NEW c \in Budgets PROVE Kept(c)'
  <2>1. PICK k : k = KeyOf(c)
    OBVIOUS
  <2>2. k = key <=> c = b
    BY <2>1, KeysApart
  <2>3. /\ At(counts, k) \in Nat /\ At(asked, c) \in Nat /\ At(let, c) \in Nat
        /\ At(missed, c) \in Nat /\ LimitOf(c) \in Nat /\ PassedOver(c) \in Nat
    BY <1>1, <2>1, CountsAreNumbers
  <2>4. /\ At(counts, k) <= At(asked, c) /\ At(missed, c) <= At(asked, c)
        /\ At(let, c) <= LimitOf(c) + PassedOver(c)
        /\ At(let, c) <= At(counts, k) + PassedOver(c) /\ At(let, c) <= At(asked, c)
        /\ c \in turned => At(counts, k) > LimitOf(c)
    BY <2>1 DEF GatewayInv, Kept
  <2>5. /\ At(missed, c)' = At(missed', c) /\ At(counts, k)' = At(counts', k)
        /\ KeyOf(c)' = k /\ LimitOf(c)' = LimitOf(c)
        /\ At(asked, c)' = At(asked', c) /\ At(let, c)' = At(let', c)
    BY <2>1 DEF At, KeyOf, LimitOf
  <2> SUFFICES /\ At(counts', k) <= At(asked', c) /\ At(missed', c) <= At(asked', c)
               /\ At(let', c) <= LimitOf(c) + (IF LimiterOpen THEN At(missed', c) ELSE 0)
               /\ At(let', c) <= At(counts', k) + (IF LimiterOpen THEN At(missed', c) ELSE 0)
               /\ At(let', c) <= At(asked', c)
               /\ c \in turned' => At(counts', k) > LimitOf(c)
    BY <2>1, <2>5 DEF Kept, PassedOver, At
  <2>6. CASE c # b
    <3>1. At(counts', k) = At(counts, k)
      BY <1>4, <1>5, <2>2, <2>6
    <3>2. At(missed', c) = At(missed, c)
      BY <1>7, <1>8, <2>6
    <3>3. At(asked', c) = At(asked, c) /\ At(let', c) = At(let, c)
          /\ (c \in turned' => c \in turned)
      BY <1>2, <1>3, <1>7, <2>6
    <3> QED BY <2>4, <3>1, <3>2, <3>3 DEF PassedOver
  <2>7. CASE c = b /\ counts' = Add(counts, key) /\ UNCHANGED missed
             /\ IF counts'[key] > LimitOf(b)
                THEN status = 429 /\ turned' = turned \cup {b}
                ELSE status = 200 /\ UNCHANGED turned
    <3>1. At(counts', k) = At(counts, k) + 1 /\ counts'[key] = At(counts', k)
      BY <1>5, <2>2, <2>7 DEF At
    <3>2. At(asked', c) = At(asked, c) + 1 /\ At(missed', c) = At(missed, c)
      BY <1>2, <2>7
    <3>3. CASE At(counts', k) > LimitOf(c)
      <4>1. At(let', c) = At(let, c)
        BY <1>3, <2>7, <3>1, <3>3
      <4> QED BY <2>3, <2>4, <3>1, <3>2, <3>3, <4>1 DEF PassedOver
    <3>4. CASE ~(At(counts', k) > LimitOf(c))
      <4>1. At(let', c) = At(let, c) + 1 /\ turned' = turned
        BY <1>3, <2>7, <3>1, <3>4
      <4>2. At(let', c) <= At(counts', k) + PassedOver(c)
        BY <2>3, <2>4, <3>1, <4>1
      <4>3. At(let', c) <= LimitOf(c) + PassedOver(c)
        BY <2>3, <2>4, <3>1, <3>4, <4>1
      <4> QED BY <2>3, <2>4, <3>1, <3>2, <4>1, <4>2, <4>3 DEF PassedOver
    <3> QED BY <3>3, <3>4
  <2>8. CASE c = b /\ missed' = Add(missed, b) /\ UNCHANGED turned
             /\ status = IF LimiterOpen THEN 200 ELSE 503
    <3>1. At(counts', k) \in {At(counts, k), At(counts, k) + 1}
      BY <1>4, <1>5, <2>2, <2>8
    <3>2. At(missed', c) = At(missed, c) + 1 /\ At(asked', c) = At(asked, c) + 1
      BY <1>2, <1>8, <2>8
    <3>3. At(let', c) = IF LimiterOpen THEN At(let, c) + 1 ELSE At(let, c)
      BY <1>3, <2>8
    <3> QED BY <2>3, <2>4, <2>8, <3>1, <3>2, <3>3 DEF PassedOver
  <2> QED BY <2>6, <2>7, <2>8 DEF Draw
<1>12. Deployed'
  BY <1>1 DEF Draw, Deployed
<1> QED BY <1>10, <1>11, <1>12 DEF GatewayInv

LEMMA CountKeeps ==
    ASSUME GatewayInv, NEW q, QueryOK(q), CountRequest(q)
    PROVE  GatewayInv'
<1>1. PICK r \in CountedRoutes(q), status \in {200, 429, 503} :
         Draw(BudgetOf(q), <<r.bucket, Subject(q, r)>>, Limits[r.bucket], status)
  BY DEF CountRequest
<1>2. /\ BudgetOf(q) \in Budgets /\ KeyOf(BudgetOf(q)) = <<r.bucket, Subject(q, r)>>
      /\ LimitOf(BudgetOf(q)) = Limits[r.bucket]
  BY RightBudget DEF GatewayInv
<1> QED BY <1>1, <1>2, DrawKeeps

LEMMA ThrottleKeeps ==
    ASSUME GatewayInv, NEW e \in Emails, ThrottleAccount(e)
    PROVE  GatewayInv'
<1>1. PICK status \in {200, 429, 503} :
         Draw(AccountOf(e), <<"login_account", e>>, Limits["login_account"], status)
  BY DEF ThrottleAccount
<1> QED BY <1>1, AccountBudget, DrawKeeps

LEMMA WindowKeeps ==
    ASSUME GatewayInv, NewWindow
    PROVE  GatewayInv'
<1>1. PICK ends \in {{"auth", "agent", "default", "tools"},
                     {"auth", "agent", "default", "tools", "login_account"}} :
        /\ counts' = Restrict(counts, {k \in DOMAIN counts : k[1] \notin ends})
        /\ asked' = Restrict(asked, {b \in DOMAIN asked : b.kind \notin ends})
        /\ let' = Restrict(let, {b \in DOMAIN let : b.kind \notin ends})
        /\ missed' = Restrict(missed, {b \in DOMAIN missed : b.kind \notin ends})
        /\ turned' = {b \in turned : b.kind \notin ends}
        /\ UNCHANGED deployment
  BY DEF NewWindow
<1> DEFINE K == {k \in DOMAIN counts : k[1] \notin ends}
           A == {b \in DOMAIN asked : b.kind \notin ends}
           L == {b \in DOMAIN let : b.kind \notin ends}
           M == {b \in DOMAIN missed : b.kind \notin ends}
<1>2. /\ Counter(counts') /\ \A k : At(counts', k) = IF k \in K THEN At(counts, k) ELSE 0
      /\ Counter(asked') /\ \A b : At(asked', b) = IF b \in A THEN At(asked, b) ELSE 0
      /\ Counter(let') /\ \A b : At(let', b) = IF b \in L THEN At(let, b) ELSE 0
      /\ Counter(missed') /\ \A b : At(missed', b) = IF b \in M THEN At(missed, b) ELSE 0
      /\ DOMAIN let' = L /\ DOMAIN asked' = A /\ DOMAIN counts' = K /\ DOMAIN missed' = M
  <2>1. Counter(Restrict(counts, K)) /\ DOMAIN Restrict(counts, K) = K
        /\ \A k : At(Restrict(counts, K), k) = IF k \in K THEN At(counts, k) ELSE 0
    BY AtKept DEF GatewayInv, Counters
  <2>2. Counter(Restrict(asked, A)) /\ DOMAIN Restrict(asked, A) = A
        /\ \A b : At(Restrict(asked, A), b) = IF b \in A THEN At(asked, b) ELSE 0
    BY AtKept DEF GatewayInv, Counters
  <2>3. Counter(Restrict(let, L)) /\ DOMAIN Restrict(let, L) = L
        /\ \A b : At(Restrict(let, L), b) = IF b \in L THEN At(let, b) ELSE 0
    BY AtKept DEF GatewayInv, Counters
  <2>4. Counter(Restrict(missed, M)) /\ DOMAIN Restrict(missed, M) = M
        /\ \A b : At(Restrict(missed, M), b) = IF b \in M THEN At(missed, b) ELSE 0
    BY AtKept DEF GatewayInv, Counters
  <2> HIDE DEF K, A, L, M
  <2> QED BY <1>1, <2>1, <2>2, <2>3, <2>4 DEF K, A, L, M
<1>3. ASSUME NEW b \in Budgets PROVE Kept(b)'
  <2>1. PICK k : k = KeyOf(b)
    OBVIOUS
  <2>2. k[1] \in ends <=> b.kind \in ends
    BY <2>1 DEF Budgets, Budget, KeyOf
  <2>3. /\ At(counts, k) \in Nat /\ At(asked, b) \in Nat /\ At(let, b) \in Nat
        /\ At(missed, b) \in Nat /\ LimitOf(b) \in Nat
    BY <2>1, CountsAreNumbers DEF GatewayInv
  <2>4. Kept(b)
    BY DEF GatewayInv
  <2>5. KeyOf(b)' = k /\ LimitOf(b)' = LimitOf(b)
    BY <2>1 DEF KeyOf, LimitOf
  <2>6. CASE b.kind \in ends
    <3>1. /\ At(counts', k) = 0 /\ At(asked', b) = 0 /\ At(let', b) = 0
          /\ At(missed', b) = 0 /\ b \notin turned'
      BY <1>1, <1>2, <2>2, <2>6
    <3> QED BY <2>3, <2>5, <3>1 DEF Kept, PassedOver, At
  <2>7. CASE b.kind \notin ends
    <3>1. /\ At(counts', k) = At(counts, k) /\ At(asked', b) = At(asked, b)
          /\ At(let', b) = At(let, b) /\ At(missed', b) = At(missed, b)
          /\ (b \in turned' <=> b \in turned)
      BY <1>1, <1>2, <2>2, <2>7 DEF At
    <3> QED BY <2>1, <2>4, <2>5, <3>1 DEF Kept, PassedOver, At
  <2> QED BY <2>6, <2>7
<1>4. Counters'
  <2>1. Counter(counts)' /\ Counter(asked)' /\ Counter(let)' /\ Counter(missed)'
    BY <1>2 DEF Counter
  <2> QED BY <1>1, <1>2, <2>1 DEF GatewayInv, Counters
<1>5. Deployed'
  BY <1>1 DEF GatewayInv, Deployed
<1> QED BY <1>3, <1>4, <1>5 DEF GatewayInv

LEMMA GatewayStarts == GatewayInit => GatewayInv
<1> SUFFICES ASSUME GatewayInit PROVE GatewayInv
  OBVIOUS
<1>1. DOMAIN <<>> = {}
  OBVIOUS
<1>2. Counters
  BY <1>1 DEF GatewayInit, Counters, Counter
<1>3. \A x : At(counts, x) = 0 /\ At(asked, x) = 0 /\ At(let, x) = 0 /\ At(missed, x) = 0
  BY <1>1 DEF GatewayInit, At
<1>4. \A b \in Budgets : Kept(b)
  BY <1>3, LimitsAreNat DEF Kept, PassedOver, GatewayInit
<1> QED BY <1>2, <1>4 DEF GatewayInit, GatewayInv, Deployed

LEMMA GatewaySteps == GatewayInv /\ [GatewayNext]_gatewayVars => GatewayInv'
<1> SUFFICES ASSUME GatewayInv, [GatewayNext]_gatewayVars PROVE GatewayInv'
  OBVIOUS
<1>1. CASE (\E q \in Queries : AnswerEarly(q)) \/ UNCHANGED gatewayVars
  <2>1. UNCHANGED <<deployment, counts, asked, let, turned, missed>>
    BY <1>1 DEF AnswerEarly, gatewayVars
  <2>2. (\A b \in Budgets : Kept(b))'
    <3>1. ASSUME NEW b \in Budgets PROVE Kept(b)'
      <4>1. Kept(b)
        BY DEF GatewayInv
      <4>2. KeyOf(b)' = KeyOf(b) /\ LimitOf(b)' = LimitOf(b)
        BY DEF KeyOf, LimitOf
      <4> QED BY <2>1, <4>1, <4>2 DEF Kept, PassedOver, At
    <3> QED BY <3>1
  <2> QED BY <2>1, <2>2 DEF GatewayInv, Counters, Deployed, Counter
<1>2. CASE \E q \in Queries : CountRequest(q)
  BY <1>2, QueriesOK, CountKeeps
<1>3. CASE \E e \in Emails : ThrottleAccount(e)
  BY <1>3, ThrottleKeeps
<1>4. CASE NewWindow
  BY <1>4, WindowKeeps
<1> QED BY <1>1, <1>2, <1>3, <1>4 DEF GatewayNext

\* No more is let through than was asked for, and only on budgets that there
\* are; what Redis counts it counts for a bucket that has a limit; and the
\* gateway gives no answer but these, for any number of clients.
THEOREM GatewayTypeCorrect == GatewaySpec => []GatewayTypeOK
<1> DEFINE Replies == waiting \in [Emails -> Nat] /\ answer \in {200, 401, 403, 404, 429, 503}
<1>1. GatewayInit => Replies
  BY DEF GatewayInit
<1>2. Replies /\ [GatewayNext]_gatewayVars => Replies'
  <2> SUFFICES ASSUME Replies, [GatewayNext]_gatewayVars PROVE Replies'
    OBVIOUS
  <2>1. ASSUME NEW q \in Queries, AnswerEarly(q) PROVE Replies'
    BY <2>1 DEF AnswerEarly
  <2>2. ASSUME NEW q \in Queries, CountRequest(q) PROVE Replies'
    <3>1. q.email \in Emails
      BY QueriesOK DEF QueryOK
    <3>2. \/ waiting' = [waiting EXCEPT ![q.email] = @ + 1] /\ UNCHANGED answer
          \/ answer' \in {200, 429, 503} /\ UNCHANGED waiting
      BY <2>2 DEF CountRequest
    <3> QED BY <3>1, <3>2
  <2>3. ASSUME NEW e \in Emails, ThrottleAccount(e) PROVE Replies'
    <3>1. /\ waiting[e] > 0 /\ waiting' = [waiting EXCEPT ![e] = @ - 1]
          /\ answer' \in {200, 429, 503}
      BY <2>3 DEF ThrottleAccount
    <3> QED BY <3>1
  <2>4. CASE NewWindow \/ UNCHANGED gatewayVars
    BY <2>4 DEF NewWindow, gatewayVars
  <2> QED BY <2>1, <2>2, <2>3, <2>4 DEF GatewayNext
<1>3. GatewayInv /\ Replies => GatewayTypeOK
  <2> SUFFICES ASSUME GatewayInv, Replies PROVE GatewayTypeOK
    OBVIOUS
  <2>1. \A b \in DOMAIN asked : At(let, b) <= asked[b] /\ At(missed, b) <= asked[b]
    BY DEF GatewayInv, Counters, Kept, At
  <2> QED BY <2>1 DEF GatewayTypeOK, GatewayInv, Counters, Counter
<1> QED BY GatewayStarts, GatewaySteps, <1>1, <1>2, <1>3, PTL DEF GatewaySpec

\* The budgets of the documents are kept and kept apart, for any number of
\* addresses, users and accounts and whatever the limits are, and whichever
\* hits Redis answers.
THEOREM BudgetsAreKept == GatewaySpec => []BudgetsKept
<1>1. GatewayInv => BudgetsKept
  <2> SUFFICES ASSUME GatewayInv PROVE BudgetsKept
    OBVIOUS
  <2>1. ASSUME NEW b \in DOMAIN let PROVE let[b] <= LimitOf(b) + PassedOver(b)
    BY <2>1 DEF GatewayInv, Counters, Kept, At
  <2>2. ASSUME NEW b \in turned PROVE asked[b] > LimitOf(b)
    <3>1. b \in Budgets /\ At(counts, KeyOf(b)) > LimitOf(b)
          /\ At(counts, KeyOf(b)) <= At(asked, b)
      BY DEF GatewayInv, Counters, Kept
    <3>2. At(asked, b) > LimitOf(b) /\ At(asked, b) # 0
      BY <3>1, CountsAreNumbers DEF GatewayInv
    <3> QED BY <3>2 DEF At
  <2> QED BY <2>1, <2>2 DEF BudgetsKept, PassedOver
<1> QED BY GatewayStarts, GatewaySteps, <1>1, PTL DEF GatewaySpec

-----------------------------------------------------------------------------
(***************************************************************************)
(* The health report: any polls and providers, cache time and timeout      *)
(***************************************************************************)

(* The invariant *)

Stamps == \A q \in Polls : begun[q] \in 0..HealthHorizon /\ begun[q] <= time

\* A result was true at some time that has passed.
Found(f) == \A p \in DOMAIN f : f[p].at \in Nat /\ f[p].at <= time

\* No wait_for outlasts its timeout.
InTime ==
    \A q \in Polls : poll[q] \in {"probing", "waiting"} => time <= begun[q] + Timeout

\* A poll that probes finds what is true after it began.
ProbesAsked ==
    \A q \in Polls : poll[q] = "probing" =>
        /\ DOMAIN found[q] \subseteq Providers /\ Found(found[q])
        /\ \A p \in DOMAIN found[q] : begun[q] <= found[q][p].at

\* The results that are cached were true a timeout before they were stored,
\* and what a poll finds among them had not expired when it began.
CacheYoung ==
    cache = NoCache
    \/ /\ cache.expires \in Nat
       /\ DOMAIN cache.data = Providers /\ Found(cache.data)
       /\ \A p \in Providers : cache.expires <= cache.data[p].at + Timeout + CacheTime
FoundYoung ==
    \A q \in Polls : poll[q] = "waiting" =>
        /\ DOMAIN found[q] = Providers /\ Found(found[q])
        /\ \A p \in Providers : begun[q] < found[q][p].at + Timeout + CacheTime

\* The cache outlives every probe that has ended by the cache time.
CacheOutlives ==
    /\ DOMAIN ended \subseteq {q \in Polls : poll[q] \in {"waiting", "done"}}
    /\ \A q \in DOMAIN ended :
          /\ ended[q] \in Nat /\ ended[q] <= time
          /\ cache # NoCache /\ ended[q] + CacheTime <= cache.expires

HealthInv ==
    /\ HealthTypeOK /\ DOMAIN found = Polls /\ Stamps /\ InTime /\ ProbesAsked
    /\ CacheYoung /\ FoundYoung /\ CacheOutlives
    /\ ProbesShared /\ ReportsFresh

LEMMA PollGoes ==
    ASSUME HealthTypeOK, NEW q \in Polls,
           NEW to \in {"idle", "probing", "waiting", "done"}, Goes(q, to)
    PROVE  /\ poll' \in [Polls -> {"idle", "probing", "waiting", "done"}]
           /\ poll'[q] = to /\ \A r \in Polls : r # q => poll'[r] = poll[r]
BY DEF HealthTypeOK, Goes

LEMMA BeginKeeps ==
    ASSUME HealthInv, NEW q \in Polls, Begin(q)
    PROVE  HealthInv'
<1>0. /\ poll[q] = "idle" /\ begun' = [begun EXCEPT ![q] = time]
      /\ UNCHANGED <<time, ended, reported, overall, cache>>
  BY DEF Begin
<1>1. /\ begun \in [Polls -> 0..HealthHorizon] /\ time \in 0..HealthHorizon /\ time \in Nat
      /\ DOMAIN found = Polls /\ Timeout \in Nat /\ CacheTime \in Nat /\ CacheTime > 0
      /\ \A r \in Polls : begun[r] \in Nat /\ begun[r] <= time
  BY HealthAssumption DEF HealthInv, HealthTypeOK, Stamps
<1>2. /\ begun' \in [Polls -> 0..HealthHorizon] /\ begun'[q] = time
      /\ \A r \in Polls : r # q => begun'[r] = begun[r]
  BY <1>0, <1>1
<1>3. Stamps'
  BY <1>0, <1>1, <1>2 DEF Stamps
<1>4. q \notin DOMAIN ended /\ q \notin DOMAIN reported
  BY <1>0 DEF HealthInv, CacheOutlives, HealthTypeOK
<1>5. CASE cache.expires > time
  <2>1. found' = [found EXCEPT ![q] = cache.data] /\ Goes(q, "waiting")
    BY <1>5 DEF Begin
  <2>2. /\ poll' \in [Polls -> {"idle", "probing", "waiting", "done"}]
        /\ poll'[q] = "waiting" /\ \A r \in Polls : r # q => poll'[r] = poll[r]
    BY <2>1, PollGoes DEF HealthInv
  <2>3. /\ DOMAIN found' = Polls /\ found'[q] = cache.data
        /\ \A r \in Polls : r # q => found'[r] = found[r]
    BY <1>1, <2>1
  <2>4. /\ cache.expires \in Nat /\ DOMAIN cache.data = Providers /\ Found(cache.data)
        /\ \A p \in Providers : cache.expires <= cache.data[p].at + Timeout + CacheTime
    BY <1>1, <1>5 DEF HealthInv, CacheYoung, NoCache
  <2>5. HealthTypeOK'
    BY <1>0, <1>2, <2>2, <2>3, <2>4 DEF HealthInv, HealthTypeOK
  <2>6. InTime' /\ ProbesAsked'
    BY <1>0, <1>1, <1>2, <2>2, <2>3 DEF HealthInv, InTime, ProbesAsked, Found
  <2>7. FoundYoung'
    <3>1. ASSUME NEW p \in Providers PROVE time < cache.data[p].at + Timeout + CacheTime
      BY <1>1, <1>5, <2>4 DEF Found
    <3>2. Found(cache.data)'
      BY <1>0, <2>4 DEF Found
    <3> QED BY <1>0, <1>2, <2>2, <2>3, <2>4, <3>1, <3>2 DEF HealthInv, FoundYoung, Found
  <2>8. CacheYoung' /\ CacheOutlives'
    BY <1>0, <1>4, <2>2 DEF HealthInv, CacheYoung, CacheOutlives, Found
  <2>9. ProbesShared' /\ ReportsFresh'
    BY <1>0, <1>2, <1>4, <2>2 DEF HealthInv, ProbesShared, ReportsFresh, CacheOutlives
  <2> QED BY <1>3, <2>3, <2>5, <2>6, <2>7, <2>8, <2>9 DEF HealthInv
<1>6. CASE ~(cache.expires > time)
  <2>1. /\ found' = [found EXCEPT ![q] = [p \in Unconfigured |-> Result("not_configured")]]
        /\ Goes(q, "probing")
    BY <1>6 DEF Begin
  <2>2. /\ poll' \in [Polls -> {"idle", "probing", "waiting", "done"}]
        /\ poll'[q] = "probing" /\ \A r \in Polls : r # q => poll'[r] = poll[r]
    BY <2>1, PollGoes DEF HealthInv
  <2>3. /\ DOMAIN found' = Polls /\ DOMAIN found'[q] = Unconfigured
        /\ \A p \in Unconfigured : found'[q][p].at = time
        /\ \A r \in Polls : r # q => found'[r] = found[r]
    BY <1>1, <2>1 DEF Result
  <2>4. cache.expires \in Nat /\ cache.expires <= time
    BY <1>1, <1>6 DEF HealthInv, CacheYoung, NoCache
  <2>5. HealthTypeOK'
    BY <1>0, <1>2, <2>2, <2>3 DEF HealthInv, HealthTypeOK
  <2>6. InTime'
    BY <1>0, <1>1, <1>2, <2>2 DEF HealthInv, InTime
  <2>7. ProbesAsked'
    BY <1>0, <1>1, <1>2, <2>2, <2>3, HealthAssumption DEF HealthInv, ProbesAsked, Found
  <2>8. FoundYoung'
    BY <1>0, <1>2, <2>2, <2>3 DEF HealthInv, FoundYoung, Found
  <2>9. CacheYoung' /\ CacheOutlives'
    BY <1>0, <1>4, <2>2 DEF HealthInv, CacheYoung, CacheOutlives, Found
  <2>10. ReportsFresh'
    BY <1>0 DEF HealthInv, ReportsFresh
  <2>11. ASSUME NEW a \in DOMAIN ended', NEW r \in Polls,
                r \in DOMAIN ended' \/ poll'[r] = "probing", a # r, begun'[a] <= begun'[r]
         PROVE  begun'[r] <= ended'[a] \/ begun'[r] >= ended'[a] + CacheTime
    <3>1. /\ a \in Polls /\ a # q /\ begun'[a] = begun[a] /\ ended'[a] = ended[a]
          /\ ended[a] + CacheTime <= cache.expires /\ ended[a] \in Nat
      BY <1>0, <1>2, <1>4 DEF HealthInv, CacheOutlives
    <3>2. CASE r = q
      BY <1>1, <1>2, <2>4, <3>1, <3>2
    <3>3. CASE r # q
      BY <1>0, <1>2, <2>2, <2>11, <3>1, <3>3 DEF HealthInv, ProbesShared
    <3> QED BY <3>2, <3>3
  <2>12. ProbesShared'
    BY <2>11 DEF ProbesShared
  <2> QED BY <1>3, <2>3, <2>5, <2>6, <2>7, <2>8, <2>9, <2>10, <2>12 DEF HealthInv
<1> QED BY <1>5, <1>6

\* A poll hears of a provider.
LEMMA HearKeeps ==
    ASSUME HealthInv, NEW q \in Polls, NEW p \in Providers, poll[q] = "probing",
           NEW v, v.at = time, found' = [found EXCEPT ![q] = Put(@, p, v)],
           UNCHANGED <<time, poll, begun, ended, reported, overall, cache>>
    PROVE  HealthInv'
<1>1. /\ DOMAIN found' = Polls /\ found'[q] = Put(found[q], p, v)
      /\ \A r \in Polls : r # q => found'[r] = found[r]
  BY DEF HealthInv
<1>2. /\ DOMAIN found'[q] = DOMAIN found[q] \cup {p}
      /\ \A o \in DOMAIN found'[q] :
            found'[q][o].at = time \/ (o \in DOMAIN found[q] /\ found'[q][o] = found[q][o])
  BY <1>1 DEF Put
<1>3. HealthTypeOK'
  BY <1>1 DEF HealthInv, HealthTypeOK
<1>4. time \in Nat /\ begun[q] <= time
  BY DEF HealthInv, HealthTypeOK, Stamps
<1>5. ProbesAsked'
  <2>1. DOMAIN found[q] \subseteq Providers /\ Found(found[q])
        /\ \A o \in DOMAIN found[q] : begun[q] <= found[q][o].at
    BY DEF HealthInv, ProbesAsked
  <2>2. ASSUME NEW o \in DOMAIN found'[q]
        PROVE  found'[q][o].at \in Nat /\ found'[q][o].at <= time /\ begun[q] <= found'[q][o].at
    BY <1>2, <1>4, <2>1 DEF Found
  <2> QED BY <1>1, <1>2, <2>1, <2>2 DEF HealthInv, ProbesAsked, Found
<1>6. FoundYoung'
  BY <1>1 DEF HealthInv, FoundYoung, Found
<1>7. Stamps' /\ InTime' /\ CacheYoung' /\ CacheOutlives' /\ ProbesShared' /\ ReportsFresh'
  BY DEF HealthInv, Stamps, InTime, CacheYoung, Found, CacheOutlives, ProbesShared, ReportsFresh
<1> QED BY <1>1, <1>3, <1>5, <1>6, <1>7 DEF HealthInv

LEMMA StoreKeeps ==
    ASSUME HealthInv, NEW q \in Polls, Store(q)
    PROVE  HealthInv'
<1>0. /\ poll[q] = "probing" /\ DOMAIN found[q] = Providers
      /\ cache' = [data |-> found[q], expires |-> time + CacheTime]
      /\ ended' = Put(ended, q, time) /\ Goes(q, "waiting")
      /\ UNCHANGED <<time, begun, found, reported, overall>>
  BY DEF Store
<1>1. /\ time \in Nat /\ Timeout \in Nat /\ CacheTime \in Nat /\ CacheTime > 0
      /\ begun[q] \in Nat /\ begun[q] <= time /\ time <= begun[q] + Timeout
  BY <1>0, HealthAssumption DEF HealthInv, HealthTypeOK, Stamps, InTime
<1>2. /\ poll' \in [Polls -> {"idle", "probing", "waiting", "done"}]
      /\ poll'[q] = "waiting" /\ \A r \in Polls : r # q => poll'[r] = poll[r]
  BY <1>0, PollGoes DEF HealthInv
<1>3. /\ Found(found[q])
      /\ \A p \in Providers : begun[q] <= found[q][p].at /\ found[q][p].at \in Nat
  BY <1>0 DEF HealthInv, ProbesAsked, Found
<1>4. HealthTypeOK'
  BY <1>0, <1>2 DEF HealthInv, HealthTypeOK
<1>5. Stamps' /\ InTime' /\ ProbesAsked' /\ ReportsFresh'
  BY <1>0, <1>2 DEF HealthInv, Stamps, InTime, ProbesAsked, Found, ReportsFresh
<1>6. CacheYoung'
  <2>1. \A p \in Providers : time + CacheTime <= found[q][p].at + Timeout + CacheTime
    BY <1>1, <1>3
  <2>2. /\ cache'.expires = time + CacheTime /\ cache'.data = found[q]
        /\ time + CacheTime \in Nat
    BY <1>0, <1>1
  <2> QED BY <1>0, <1>3, <2>1, <2>2 DEF CacheYoung, Found
<1>7. FoundYoung'
  <2>1. \A p \in Providers : begun[q] < found[q][p].at + Timeout + CacheTime
    BY <1>1, <1>3
  <2> QED BY <1>0, <1>2, <1>3, <2>1 DEF HealthInv, FoundYoung, Found
<1>8. /\ DOMAIN ended' = DOMAIN ended \cup {q} /\ ended'[q] = time
      /\ \A r \in DOMAIN ended : r # q => ended'[r] = ended[r]
  BY <1>0 DEF Put
<1>9. q \notin DOMAIN ended
  BY <1>0 DEF HealthInv, CacheOutlives
<1>10. cache' # NoCache /\ cache'.expires = time + CacheTime
  <2>1. cache'.expires = time + CacheTime /\ NoCache.expires = 0
    BY <1>0 DEF NoCache
  <2> QED BY <1>1, <2>1
<1>11. CacheOutlives'
  <2>1. ASSUME NEW r \in DOMAIN ended'
        PROVE  ended'[r] \in Nat /\ ended'[r] <= time /\ ended'[r] + CacheTime <= cache'.expires
    <3>1. ended'[r] \in Nat /\ ended'[r] <= time
      BY <1>1, <1>8 DEF HealthInv, CacheOutlives
    <3> QED BY <1>1, <1>10, <3>1
  <2> QED BY <1>0, <1>2, <1>8, <1>10, <2>1 DEF HealthInv, CacheOutlives
<1>12. ASSUME NEW a \in DOMAIN ended', NEW r \in Polls,
              r \in DOMAIN ended' \/ poll'[r] = "probing", a # r, begun'[a] <= begun'[r]
       PROVE  begun'[r] <= ended'[a] \/ begun'[r] >= ended'[a] + CacheTime
  <2>1. begun[r] <= time
    BY DEF HealthInv, Stamps
  <2>2. CASE a = q
    BY <1>0, <1>8, <2>1, <2>2
  <2>3. CASE a # q
    <3>1. a \in DOMAIN ended /\ ended'[a] = ended[a]
      BY <1>8, <2>3
    <3>2. r \in DOMAIN ended \/ poll[r] = "probing"
      BY <1>0, <1>2, <1>8, <1>12
    <3> QED BY <1>0, <1>12, <3>1, <3>2 DEF HealthInv, ProbesShared
  <2> QED BY <2>2, <2>3
<1>13. ProbesShared'
  BY <1>12 DEF ProbesShared
<1> QED BY <1>0, <1>4, <1>5, <1>6, <1>7, <1>11, <1>13 DEF HealthInv

LEMMA ReportKeeps ==
    ASSUME HealthInv, NEW q \in Polls, Report(q)
    PROVE  HealthInv'
<1> DEFINE Ages == {time - found[q][p].at : p \in Providers}
<1>0. /\ poll[q] = "waiting"
      /\ \E database, cacheAndVectors \in BOOLEAN :
            overall' = Overall(database, cacheAndVectors, found[q])
      /\ reported' = Put(reported, q, Max(Ages)) /\ Goes(q, "done")
      /\ found' = [found EXCEPT ![q] = <<>>]
      /\ UNCHANGED <<time, begun, ended, cache>>
  BY DEF Report
<1>1. /\ time \in Nat /\ Timeout \in Nat /\ CacheTime \in Nat
      /\ begun[q] \in Nat /\ begun[q] <= time /\ time <= begun[q] + Timeout
  BY <1>0, HealthAssumption DEF HealthInv, HealthTypeOK, Stamps, InTime
<1>2. /\ poll' \in [Polls -> {"idle", "probing", "waiting", "done"}]
      /\ poll'[q] = "done" /\ \A r \in Polls : r # q => poll'[r] = poll[r]
  BY <1>0, PollGoes DEF HealthInv
<1>3. \A p \in Providers : /\ found[q][p].at \in Nat /\ found[q][p].at <= time
                           /\ begun[q] < found[q][p].at + Timeout + CacheTime
  BY <1>0 DEF HealthInv, FoundYoung, Found
<1>4. Max(Ages) \in Nat /\ Max(Ages) < CacheTime + 2 * Timeout
  <2>1. ASSUME NEW p \in Providers
        PROVE  /\ time - found[q][p].at \in Nat /\ time - found[q][p].at <= time
               /\ time - found[q][p].at < CacheTime + 2 * Timeout
    BY <1>1, <1>3
  <2>2. Ages \subseteq Nat /\ \A x \in Ages : x <= time /\ x < CacheTime + 2 * Timeout
    BY <2>1
  <2>3. Ages # {}
    BY HealthAssumption
  <2> HIDE DEF Ages
  <2>4. Max(Ages) \in Ages
    BY <1>1, <2>2, <2>3, Most
  <2> QED BY <2>2, <2>4
<1> HIDE DEF Ages
<1>5. /\ DOMAIN reported' = DOMAIN reported \cup {q} /\ reported'[q] = Max(Ages)
      /\ \A r \in DOMAIN reported : r # q => reported'[r] = reported[r]
  BY <1>0 DEF Put
<1>6. /\ DOMAIN found' = Polls /\ \A r \in Polls : r # q => found'[r] = found[r]
  BY <1>0 DEF HealthInv
<1>7. overall' \in {"ok", "degraded", "down"}
  BY <1>0 DEF Overall
<1>8. HealthTypeOK'
  <2>1. DOMAIN reported' = {r \in Polls : poll'[r] = "done"}
    BY <1>2, <1>5 DEF HealthInv, HealthTypeOK
  <2>2. \A r \in DOMAIN reported' : reported'[r] \in Nat
    BY <1>4, <1>5 DEF HealthInv, HealthTypeOK
  <2> QED BY <1>0, <1>2, <1>6, <1>7, <2>1, <2>2 DEF HealthInv, HealthTypeOK
<1>9. ReportsFresh'
  BY <1>4, <1>5 DEF HealthInv, ReportsFresh
<1>10. Stamps' /\ InTime' /\ ProbesAsked' /\ FoundYoung'
  BY <1>0, <1>2, <1>6 DEF HealthInv, Stamps, InTime, ProbesAsked, FoundYoung, Found
<1>11. CacheYoung' /\ CacheOutlives'
  BY <1>0, <1>2 DEF HealthInv, CacheYoung, CacheOutlives, Found
<1>12. ProbesShared'
  BY <1>0, <1>2 DEF HealthInv, ProbesShared
<1> QED BY <1>6, <1>8, <1>9, <1>10, <1>11, <1>12 DEF HealthInv

LEMMA HealthTickKeeps ==
    ASSUME HealthInv, HealthTick
    PROVE  HealthInv'
<1>0. /\ time < HealthHorizon
      /\ \A q \in Polls : poll[q] \in {"probing", "waiting"} => time < begun[q] + Timeout
      /\ time' = time + 1
      /\ UNCHANGED <<poll, begun, ended, found, reported, overall, cache>>
  BY DEF HealthTick
<1>1. /\ time \in 0..HealthHorizon /\ Timeout \in Nat /\ HealthHorizon \in Nat
      /\ \A q \in Polls : begun[q] \in 0..HealthHorizon
  BY HealthAssumption DEF HealthInv, HealthTypeOK, Stamps
<1>2. HealthTypeOK'
  BY <1>0, <1>1 DEF HealthInv, HealthTypeOK
<1>3. Stamps' /\ InTime'
  BY <1>0, <1>1 DEF HealthInv, Stamps, InTime
<1>4. ASSUME NEW f, Found(f) PROVE Found(f)'
  BY <1>0, <1>1, <1>4 DEF Found
<1>5. ProbesAsked' /\ FoundYoung'
  BY <1>0, <1>1 DEF HealthInv, ProbesAsked, FoundYoung, Found
<1>6. CacheYoung'
  BY <1>0, <1>1 DEF HealthInv, CacheYoung, Found
<1>7. CacheOutlives'
  BY <1>0, <1>1 DEF HealthInv, CacheOutlives
<1>8. ProbesShared' /\ ReportsFresh'
  BY <1>0 DEF HealthInv, ProbesShared, ReportsFresh
<1> QED BY <1>0, <1>2, <1>3, <1>5, <1>6, <1>7, <1>8 DEF HealthInv

LEMMA HealthStarts == HealthInit => HealthInv
<1> SUFFICES ASSUME HealthInit PROVE HealthInv
  OBVIOUS
<1>1. HealthTypeOK /\ DOMAIN found = Polls /\ Stamps
  BY HealthAssumption DEF HealthInit, HealthTypeOK, Stamps
<1>2. InTime /\ ProbesAsked /\ FoundYoung /\ CacheYoung
  BY DEF HealthInit, InTime, ProbesAsked, FoundYoung, CacheYoung
<1>3. CacheOutlives /\ ProbesShared /\ ReportsFresh
  BY DEF HealthInit, CacheOutlives, ProbesShared, ReportsFresh
<1> QED BY <1>1, <1>2, <1>3 DEF HealthInv

LEMMA HealthSteps == HealthInv /\ [HealthNext]_healthVars => HealthInv'
<1> SUFFICES ASSUME HealthInv, [HealthNext]_healthVars PROVE HealthInv'
  OBVIOUS
<1>1. CASE \E q \in Polls : Begin(q)
  BY <1>1, BeginKeeps
<1>2. CASE \E q \in Polls : Store(q)
  BY <1>2, StoreKeeps
<1>3. CASE \E q \in Polls : Report(q)
  BY <1>3, ReportKeeps
<1>4. ASSUME NEW q \in Polls, NEW p \in Providers, Answers(q, p) \/ TimesOut(q, p)
      PROVE  HealthInv'
  <2>1. PICK status \in Statuses \cup {"down"} :
             /\ poll[q] = "probing"
             /\ found' = [found EXCEPT ![q] = Put(@, p, Result(status))]
             /\ UNCHANGED <<time, poll, begun, ended, reported, overall, cache>>
    BY <1>4 DEF Answers, TimesOut
  <2>2. PICK v : v = Result(status)
    OBVIOUS
  <2>3. v.at = time
    BY <2>2 DEF Result
  <2>4. found' = [found EXCEPT ![q] = Put(@, p, v)]
    BY <2>1, <2>2
  <2> QED BY <2>1, <2>3, <2>4, HearKeeps
<1>5. CASE HealthTick
  BY <1>5, HealthTickKeeps
<1>6. CASE UNCHANGED healthVars
  BY <1>6 DEF healthVars, HealthInv, HealthTypeOK, Stamps, InTime, ProbesAsked, FoundYoung,
              CacheYoung, Found, CacheOutlives, ProbesShared, ReportsFresh
<1> QED BY <1>1, <1>2, <1>3, <1>4, <1>5, <1>6 DEF HealthNext, HealthStopped

\* What the cache of the health report promises (README.md, "Provider results
\* are cached for 30 seconds"), for any number of polls and of providers, any
\* cache time and any timeout: polls share their probes, and no report is
\* older than a cache time and two timeouts.
THEOREM CacheAlwaysWorks == HealthSpec => [](HealthTypeOK /\ CacheWorks)
<1>1. HealthInv => HealthTypeOK /\ CacheWorks
  BY DEF HealthInv, CacheWorks
<1> QED BY HealthStarts, HealthSteps, <1>1, PTL DEF HealthSpec

-----------------------------------------------------------------------------
(***************************************************************************)
(* The accounts: every set of sign-ups and emails, any failures            *)
(***************************************************************************)

\* An account that is committed keeps others from committing one, and one
\* that is flushed keeps others from flushing one.
OneAccount ==
    /\ \A r \in SignUps :
          /\ Reached(r, "created") => signup[r].email \in accounts
          /\ Reached(r, "commit") => signup[r].email \notin accounts
    /\ \A r, s \in SignUps :
          /\ r # s
          /\ signup[r].stage \in {"commit", "created"}
          /\ signup[s].stage \in {"commit", "created"}
          => signup[r].email # signup[s].email

\* The second attempt is made on plan rows that exist, so that only its email
\* can fail it.
PlansRepaired ==
    \A r \in SignUps :
        signup[r].attempt = 1 => /\ plans
                                 /\ Reached(r, "recheck") =>
                                       signup[r].email \in accounts

\* Who is told that something is wrong is told the truth.
Blamed ==
    \A r \in SignUps :
        /\ Reached(r, "email_taken") => signup[r].email \in accounts
        /\ Reached(r, "internal_error") => collided

AccountsInv == AccountsTypeOK /\ OneAccount /\ PlansRepaired /\ Blamed

\* What the model keeps of a request.
Requests ==
    [stage : Outcomes \cup {"select", "flush", "recheck", "read_plans",
                            "write_plans", "commit"},
     email : SignUpEmails, attempt : {0, 1}, missing : BOOLEAN]

\* A step of one sign-up leaves the others where they are.
LEMMA GotoOthers ==
    ASSUME AccountsTypeOK, NEW r \in SignUps, NEW to, Goto(r, to)
    PROVE  /\ \A s \in SignUps : s # r => signup'[s].stage = signup[s].stage
           /\ \A s \in SignUps : /\ signup'[s].email = signup[s].email
                                 /\ signup'[s].attempt = signup[s].attempt
                                 /\ signup'[s].missing = signup[s].missing
           /\ signup'[r].stage = to
BY DEF AccountsTypeOK, Goto

\* The types hold throughout.
THEOREM AccountsTypeCorrect == AccountsSpec => []AccountsTypeOK
<1>1. AccountsInit => AccountsTypeOK
  <2> SUFFICES ASSUME AccountsInit PROVE AccountsTypeOK
    OBVIOUS
  <2>1. [stage : {"select"}, email : SignUpEmails, attempt : {0},
         missing : {FALSE}] \subseteq Requests
    BY DEF Requests
  <2>2. signup \in [SignUps -> Requests]
    BY <2>1 DEF AccountsInit
  <2>3. failures \in 0..MaxFailures
    BY AccountsAssumption DEF AccountsInit
  <2>4. /\ plans \in BOOLEAN /\ collided \in BOOLEAN
        /\ accounts \subseteq SignUpEmails /\ boot = "starting"
    BY DEF AccountsInit
  <2> QED BY <2>2, <2>3, <2>4 DEF AccountsTypeOK, Requests
<1>2. AccountsTypeOK /\ [AccountsNext]_accountsVars => AccountsTypeOK'
  <2> SUFFICES ASSUME AccountsTypeOK, [AccountsNext]_accountsVars
               PROVE  AccountsTypeOK'
    OBVIOUS
  <2> USE AccountsAssumption DEF AccountsTypeOK, Outcomes, Goto, Reached
  <2>1. ASSUME NEW r \in SignUps, SelectUser(r) \/ Flush(r) PROVE AccountsTypeOK'
    BY <2>1 DEF SelectUser, Flush
  <2>2. ASSUME NEW r \in SignUps, Recheck(r) PROVE AccountsTypeOK'
    BY <2>2 DEF Recheck
  <2>3. ASSUME NEW r \in SignUps, ReadPlans(r) PROVE AccountsTypeOK'
    <3>1. [signup[r] EXCEPT !.stage = "write_plans", !.missing = ~ plans]
              \in Requests
      BY DEF Requests
    <3>2. signup' \in [SignUps -> Requests]
      BY <2>3, <3>1 DEF ReadPlans, Requests
    <3> QED BY <2>3, <3>2 DEF ReadPlans, Requests
  <2>4. ASSUME NEW r \in SignUps, WritePlans(r) PROVE AccountsTypeOK'
    <3>1. PICK to \in {"internal_error", "flush"} :
              signup' = [signup EXCEPT ![r].stage = to, ![r].attempt = 1]
      BY <2>4 DEF WritePlans
    <3>2. [signup[r] EXCEPT !.stage = to, !.attempt = 1] \in Requests
      BY DEF Requests
    <3>3. signup' \in [SignUps -> Requests]
      BY <3>1, <3>2 DEF Requests
    <3>4. collided' \in BOOLEAN /\ plans' \in BOOLEAN
      BY <2>4 DEF WritePlans
    <3> QED BY <2>4, <3>3, <3>4 DEF WritePlans, Requests
  <2>5. ASSUME NEW r \in SignUps, CommitAccount(r) PROVE AccountsTypeOK'
    BY <2>5 DEF CommitAccount
  <2>6. ASSUME NEW r \in SignUps, Fail(r) PROVE AccountsTypeOK'
    <3>1. signup' \in [SignUps -> Requests] /\ failures' \in 0..MaxFailures
      BY <2>6 DEF Fail, Requests
    <3>2. accounts' \subseteq SignUpEmails /\ plans' \in BOOLEAN
      BY <2>6 DEF Fail
    <3> QED BY <2>6, <3>1, <3>2 DEF Fail, Requests
  <2>7. ASSUME NEW r \in SignUps, TryAgain(r) PROVE AccountsTypeOK'
    BY <2>7 DEF TryAgain
  <2>8. CASE BootReads \/ BootWrites \/ BootFails
    BY <2>8 DEF BootReads, BootWrites, BootFails
  <2>9. CASE AllAnswered \/ UNCHANGED accountsVars
    BY <2>9 DEF AllAnswered, accountsVars
  <2> QED BY <2>1, <2>2, <2>3, <2>4, <2>5, <2>6, <2>7, <2>8, <2>9
          DEF AccountsNext
<1> QED BY <1>1, <1>2, PTL DEF AccountsSpec

\* Nobody is told that an email is taken that is not, no email gets two
\* accounts, and only colliding syncs of the plans end in a 500.
THEOREM SignUpsWork == AccountsSpec => []SignUpWorks
<1>1. AccountsInit => OneAccount /\ PlansRepaired /\ Blamed
  <2> SUFFICES ASSUME AccountsInit PROVE OneAccount /\ PlansRepaired /\ Blamed
    OBVIOUS
  <2>1. \A r \in SignUps : signup[r].stage = "select" /\ signup[r].attempt = 0
    <3>1. ASSUME NEW r \in SignUps
          PROVE  signup[r] \in [stage : {"select"}, email : SignUpEmails,
                                attempt : {0}, missing : {FALSE}]
      BY DEF AccountsInit
    <3> QED BY <3>1
  <2> QED BY <2>1 DEF OneAccount, PlansRepaired, Blamed, Reached
<1>2. AccountsInv /\ AccountsTypeOK' /\ [AccountsNext]_accountsVars
          => (OneAccount /\ PlansRepaired /\ Blamed)'
  <2> SUFFICES ASSUME AccountsInv, AccountsTypeOK',
                      [AccountsNext]_accountsVars
               PROVE  OneAccount' /\ PlansRepaired' /\ Blamed'
    OBVIOUS
  <2> USE DEF AccountsInv, OneAccount, PlansRepaired, Blamed, Reached
  <2>1. ASSUME NEW r \in SignUps, SelectUser(r)
        PROVE  OneAccount' /\ PlansRepaired' /\ Blamed'
    BY <2>1, GotoOthers DEF SelectUser
  <2>2. ASSUME NEW r \in SignUps, Flush(r)
        PROVE  OneAccount' /\ PlansRepaired' /\ Blamed'
    BY <2>2, GotoOthers DEF Flush, Flushed
  <2>3. ASSUME NEW r \in SignUps, Recheck(r)
        PROVE  OneAccount' /\ PlansRepaired' /\ Blamed'
    BY <2>3, GotoOthers DEF Recheck
  <2>4. ASSUME NEW r \in SignUps, ReadPlans(r)
        PROVE  OneAccount' /\ PlansRepaired' /\ Blamed'
    BY <2>4 DEF ReadPlans, AccountsTypeOK
  <2>5. ASSUME NEW r \in SignUps, WritePlans(r)
        PROVE  OneAccount' /\ PlansRepaired' /\ Blamed'
    BY <2>5 DEF WritePlans, AccountsTypeOK
  <2>6. ASSUME NEW r \in SignUps, CommitAccount(r)
        PROVE  OneAccount' /\ PlansRepaired' /\ Blamed'
    BY <2>6, GotoOthers DEF CommitAccount
  <2>7. ASSUME NEW r \in SignUps, Fail(r)
        PROVE  OneAccount' /\ PlansRepaired' /\ Blamed'
    BY <2>7, GotoOthers DEF Fail
  <2>8. ASSUME NEW r \in SignUps, TryAgain(r)
        PROVE  OneAccount' /\ PlansRepaired' /\ Blamed'
    BY <2>8 DEF TryAgain, AccountsTypeOK
  <2>9. CASE BootReads \/ BootWrites \/ BootFails
    <3>1. /\ signup' = signup /\ accounts' = accounts
          /\ plans => plans'
          /\ collided => collided'
      <4>1. CASE BootReads \/ BootFails
        BY <4>1 DEF BootReads, BootFails
      <4>2. CASE BootWrites
        BY <4>2, Zenon DEF BootWrites
      <4> QED BY <2>9, <4>1, <4>2
    <3> QED BY <3>1
  <2>10. CASE AllAnswered \/ UNCHANGED accountsVars
    BY <2>10 DEF AllAnswered, accountsVars
  <2> QED BY <2>1, <2>2, <2>3, <2>4, <2>5, <2>6, <2>7, <2>8, <2>9, <2>10
          DEF AccountsNext
<1>3. AccountsInv => SignUpWorks
  BY DEF AccountsInv, OneAccount, Blamed, SignUpWorks, Reached
<1> QED BY <1>1, <1>2, <1>3, AccountsTypeCorrect, PTL DEF AccountsSpec, AccountsInv

-----------------------------------------------------------------------------
(***************************************************************************)
(* The components side by side, as MCServing composes them                 *)
(***************************************************************************)

\* The components share no state: each of them, seen by itself, only does what
\* its own specification allows, so what is proved of it holds there too.
THEOREM PartsOfServing ==
    ServingSpec => /\ Spec /\ SlotSpec /\ GatewaySpec
                   /\ HealthSpec /\ RefreshSpec /\ AccountsSpec
<1>1. ServingInit => /\ Init /\ SlotInit /\ GatewayInit
                     /\ HealthInit /\ RefreshInit /\ AccountsInit
  BY DEF ServingInit
<1>2. [ServingNext]_servingVars
          => /\ [Next]_vars /\ [SlotNext]_slotVars /\ [GatewayNext]_gatewayVars
             /\ [HealthNext]_healthVars /\ [RefreshNext]_refreshVars
             /\ [AccountsNext]_accountsVars
  BY DEF ServingNext, servingVars
<1> QED BY <1>1, <1>2, PTL
        DEF ServingSpec, Spec, SlotSpec, GatewaySpec, HealthSpec, RefreshSpec,
            AccountsSpec

\* Windows, slots, budgets, polls, tokens and accounts have their types
\* throughout, whichever component is at work.
THEOREM ServingTyped == ServingSpec => []ServingTypeOK
<1>1. /\ TypeOK /\ SlotTypeOK /\ GatewayTypeOK
      /\ HealthTypeOK /\ CacheWorks /\ RefreshTypeOK /\ AccountsTypeOK
      => ServingTypeOK
  BY DEF ServingTypeOK
<1> QED BY <1>1, PartsOfServing, LimiterTypeCorrect, SlotTyped, GatewayTypeCorrect,
           CacheAlwaysWorks, RefreshTyped, AccountsTypeCorrect, PTL

=============================================================================
