---------------------------- MODULE InFlightSlot ----------------------------
(***************************************************************************)
(* The in-flight key of one user in time: INCRBY and EXPIRE in one         *)
(* transaction on every reserve and release, so each of them moves the     *)
(* expiry of the WHOLE count.  The clock ticks in units well below the     *)
(* key's lifetime.  Nothing bounds a review: the key may lapse under one   *)
(* that still runs, whose release then takes the fresh count below zero.   *)
(***************************************************************************)
EXTENDS Integers, FiniteSets

CONSTANTS
    Reviews,    \* the user's reviews, each made once
    TTL,        \* IN_FLIGHT_TTL
    SlotHorizon \* bound: the clock stops here

ASSUME SlotAssumption ==
    /\ IsFiniteSet(Reviews)
    /\ TTL \in Nat \ {0} /\ SlotHorizon \in Nat

VARIABLES
    clock,      \* the clock
    stage,      \* of each review: idle, holding, done or crashed
    since,      \* when the review got there
    taken,      \* what reserve() told it
    slots,      \* the value of inflight:<user>, 0 when the key is absent
    slotExpires,\* when the key disappears, 0 when it is absent
    outlived    \* ghost: the reviews that ran when the key last lapsed

slotVars == <<clock, stage, since, taken, slots, slotExpires, outlived>>

Holding == {r \in Reviews : stage[r] = "holding"}

SlotInit ==
    /\ clock = 0
    /\ stage = [r \in Reviews |-> "idle"]
    /\ since = [r \in Reviews |-> 0]
    /\ taken = [r \in Reviews |-> 0]
    /\ slots = 0
    /\ slotExpires = 0
    /\ outlived = {}

Became(r, s) ==
    /\ stage' = [stage EXCEPT ![r] = s]
    /\ since' = [since EXCEPT ![r] = clock]

\* Mutants of Incr: the expiry is set only when the key is new, or never.
IncrFirstExpires(n) ==
    /\ slots' = slots + n
    /\ slotExpires' = IF slotExpires = 0 THEN clock + TTL ELSE slotExpires
IncrNeverExpires(n) ==
    /\ slots' = slots + n
    /\ slotExpires' = clock + TTL + SlotHorizon

\* RedisCache.incr: a missing key counts from 0, below 0 too.
Incr(n) ==
    /\ slots' = slots + n
    /\ slotExpires' = clock + TTL

Reserve(r) ==
    /\ stage[r] = "idle"
    /\ Incr(1)
    /\ taken' = [taken EXCEPT ![r] = IF slots' < 1 THEN 1 ELSE slots']
    /\ Became(r, "holding")
    /\ UNCHANGED <<clock, outlived>>

Release(r) ==
    /\ stage[r] = "holding"
    /\ Incr(-1)
    /\ Became(r, "done")
    /\ UNCHANGED <<clock, taken, outlived>>

\* The worker dies and releases nothing.
Crash(r) ==
    /\ stage[r] = "holding"
    /\ Became(r, "crashed")
    /\ UNCHANGED <<clock, taken, slots, slotExpires, outlived>>

\* Time passes, Redis drops a key that is due.
SlotTick ==
    /\ clock < SlotHorizon
    /\ clock' = clock + 1
    /\ IF slotExpires # 0 /\ slotExpires <= clock'
       THEN slots' = 0 /\ slotExpires' = 0 /\ outlived' = Holding
       ELSE UNCHANGED <<slots, slotExpires, outlived>>
    /\ UNCHANGED <<stage, since, taken>>

\* The bound is reached.
SlotStopped == clock = SlotHorizon /\ UNCHANGED slotVars

SlotNext ==
    \/ \E r \in Reviews : Reserve(r) \/ Release(r) \/ Crash(r)
    \/ SlotTick \/ SlotStopped

SlotSpec == SlotInit /\ [][SlotNext]_slotVars

-----------------------------------------------------------------------------
(* Properties *)

SlotTypeOK ==
    /\ clock \in 0..SlotHorizon
    /\ stage \in [Reviews -> {"idle", "holding", "done", "crashed"}]
    /\ since \in [Reviews -> 0..SlotHorizon]
    /\ taken \in [Reviews -> 0..Cardinality(Reviews)]
    /\ slots \in Int
    /\ slotExpires \in 0..(SlotHorizon + TTL)
    /\ outlived \subseteq Reviews

\* The reviews the count has lost, or will: the key lapsed under them, and
\* their releases go to a count that never held them.
Forgotten == {r \in outlived : stage[r] # "crashed"}

\* Service.reserve's docstring: "returns how many are taken, this one
\* included".  The number handed to a review is short of the reviews that
\* hold a slot with it by no more than those the key lapsed under, and the key
\* lapses under no review before it has run for a whole TTL: a change by any
\* review renews the count of all of them.
ReserveCountsHolders ==
    [][/\ \A r \in Reviews :
             stage[r] = "idle" /\ stage'[r] = "holding"
             => taken'[r] + Cardinality(Forgotten') >= Cardinality(Holding')
       /\ \A r \in outlived' \ outlived : clock' >= since[r] + TTL]_slotVars

\* Once nobody has run, started or ended a review for a whole TTL, what
\* crashes leaked is gone and the user has all slots again.  (README.md,
\* "Known limits", promises a crashed slot back after 15 minutes; while the
\* user goes on working, each reserve and release puts that off.)
SilenceFreesLeaks ==
    (\A r \in Reviews : stage[r] # "holding" /\ clock >= since[r] + TTL)
        => slots = 0
=============================================================================
