----------------------------- MODULE RateLimit -----------------------------
(***************************************************************************)
(* RedisRateLimiter.hit for one key, and what GatewayMiddleware and        *)
(* _throttle_account make of it.  A worker takes the window from its own   *)
(* clock and then counts in Redis, whose clock drops the key: the worker's *)
(* clock may be ahead, or behind (or its request late) by a bounded time.  *)
(***************************************************************************)
EXTENDS Integers, FiniteSets

CONSTANTS
    Window,     \* rule.window_seconds
    Limit,      \* rule.limit
    Slack,      \* the 5 seconds a key outlives its window
    Ahead,      \* how far a worker's clock may be ahead of Redis
    Behind,     \* how far it, with the way to Redis, may be behind
    FailOpen,   \* rate_limit_fail_open
    MaxOutages, \* bound: calls of Redis that fail
    MaxLosses,  \* bound: how often Redis loses the key of one window
    MaxHits,    \* bound: requests
    Horizon     \* bound: the clock stops here

ASSUME RateAssumption ==
    /\ Window \in Nat \ {0} /\ Limit \in Nat /\ Slack \in Nat
    /\ Ahead \in Nat /\ Behind \in Nat
    /\ FailOpen \in BOOLEAN
    /\ MaxOutages \in Nat /\ MaxLosses \in Nat
    /\ MaxHits \in Nat /\ Horizon \in Nat

VARIABLES
    now,        \* the clock of Redis
    count,      \* of each window: the value of its key, 0 when absent
    expires,    \* when the key goes, 0 when it is absent
    attempts,   \* requests that fell into the window
    passed,     \* those that were let through
    refused,    \* the windows in which somebody got a 429
    outages,    \* requests for which Redis did not answer
    lost        \* how often Redis lost the key of a window

vars == <<now, count, expires, attempts, passed, refused, outages, lost>>

\* _window, for every time a worker may read.
Index(clock) == clock \div Window
Windows == Index(-Behind)..Index(Horizon + Ahead)
Clocks == (now - Behind)..(now + Ahead)

Init ==
    /\ now = 0
    /\ count = [i \in Windows |-> 0]
    /\ expires = [i \in Windows |-> 0]
    /\ attempts = [i \in Windows |-> 0]
    /\ passed = [i \in Windows |-> 0]
    /\ refused = {}
    /\ outages = 0
    /\ lost = [i \in Windows |-> 0]

Attempt(i) == attempts' = [attempts EXCEPT ![i] = @ + 1]
Pass(i) == passed' = [passed EXCEPT ![i] = @ + 1] /\ UNCHANGED refused
Refuse(i) == refused' = refused \cup {i} /\ UNCHANGED passed

\* Mutants of Count: the key lives only as long as its window, or for ever.
CountWithoutSlack(i) ==
    /\ count' = [count EXCEPT ![i] = @ + 1]
    /\ expires' = [expires EXCEPT ![i] = now + Window]
CountForever(i) ==
    /\ count' = [count EXCEPT ![i] = @ + 1]
    /\ UNCHANGED expires

\* INCR and EXPIRE in one transaction.
Count(i) ==
    /\ count' = [count EXCEPT ![i] = @ + 1]
    /\ expires' = [expires EXCEPT ![i] = now + Window + Slack]

\* Mutant of Hit: one request too few.
HitOneUnder ==
    \E clock \in Clocks :
        LET i == Index(clock)
        IN /\ attempts[i] < MaxHits
           /\ Attempt(i)
           /\ Count(i)
           /\ IF count'[i] < Limit THEN Pass(i) ELSE Refuse(i)
           /\ UNCHANGED <<now, outages, lost>>

\* A request that Redis counts; a refused one is counted as well.
Hit ==
    \E clock \in Clocks :
        LET i == Index(clock)
        IN /\ attempts[i] < MaxHits
           /\ Attempt(i)
           /\ Count(i)
           /\ IF count'[i] <= Limit THEN Pass(i) ELSE Refuse(i)
           /\ UNCHANGED <<now, outages, lost>>

\* Redis is down, or it counted and its answer was lost: the request goes
\* through if the server fails open, and gets a 503 otherwise.
Outage ==
    \E clock \in Clocks :
        LET i == Index(clock)
        IN /\ outages < MaxOutages /\ attempts[i] < MaxHits
           /\ Attempt(i)
           /\ Count(i) \/ UNCHANGED <<count, expires>>
           /\ IF FailOpen THEN Pass(i) ELSE UNCHANGED <<passed, refused>>
           /\ outages' = outages + 1
           /\ UNCHANGED <<now, lost>>

\* A key that is due goes.
Tick ==
    /\ now < Horizon
    /\ now' = now + 1
    /\ count' = [i \in Windows |-> IF expires[i] <= now' THEN 0 ELSE count[i]]
    /\ expires' = [i \in Windows |-> IF expires[i] <= now' THEN 0
                                                          ELSE expires[i]]
    /\ UNCHANGED <<attempts, passed, refused, outages, lost>>

\* Redis restarts, or evicts the key.
LoseKey ==
    /\ \E i \in Windows :
          /\ count[i] > 0 /\ lost[i] < MaxLosses
          /\ lost' = [lost EXCEPT ![i] = @ + 1]
          /\ count' = [count EXCEPT ![i] = 0]
          /\ expires' = [expires EXCEPT ![i] = 0]
    /\ UNCHANGED <<now, attempts, passed, refused, outages>>

\* The bound is reached.
Stopped == now = Horizon /\ UNCHANGED vars

Next == Hit \/ Outage \/ Tick \/ LoseKey \/ Stopped

Spec == Init /\ [][Next]_vars

-----------------------------------------------------------------------------
(* Properties *)

\* Counts are natural numbers; a key exists exactly when it has an expiry.
TypeOK ==
    /\ now \in 0..Horizon
    /\ count \in [Windows -> Nat] /\ expires \in [Windows -> Nat]
    /\ attempts \in [Windows -> Nat] /\ passed \in [Windows -> Nat]
    /\ refused \subseteq Windows
    /\ outages \in 0..MaxOutages
    /\ lost \in [Windows -> 0..MaxLosses]
    /\ \A i \in Windows : (count[i] > 0) <=> (expires[i] > 0)

\* Requests that an outage let through, counted or not.
Uncounted == IF FailOpen THEN outages ELSE 0

\* No window lets more than its limit through, beyond the outages and one
\* limit more for each time Redis lost its key: the key of a window never
\* expires before the last worker, late or with a slow clock, has left it.
WindowCapped ==
    \A i \in Windows : passed[i] <= Limit * (1 + lost[i]) + Uncounted

\* Nobody is told 429 before the limit was used up in that window, whatever
\* Redis forgets and however the clocks differ.
NoEarlyRefusal == \A i \in refused : attempts[i] > Limit
=============================================================================
