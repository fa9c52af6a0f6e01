------------------------------- MODULE Health -------------------------------
(***************************************************************************)
(* The health report: polls of /api/health and /api/agent/providers that   *)
(* may overlap, the probes of the providers they make or find in the       *)
(* cache, and the overall status.  One worker, whose clock ticks in units  *)
(* of one second or so.                                                    *)
(***************************************************************************)
EXTENDS Integers, FiniteSets, FiniteSetsExt

CONSTANTS
    MaxPolls,       \* bound: requests for a report
    Providers,
    Unconfigured,   \* those that are disabled or lack an address, model or key
    Statuses,       \* what a provider may answer
    Fallback,       \* settings.fallback_provider
    CacheTime,      \* health.provider_cache_seconds
    Timeout,        \* health.check_timeout_seconds
    HealthHorizon   \* bound: the clock stops here

ASSUME HealthAssumption ==
    /\ Unconfigured \subseteq Providers /\ Fallback \in Providers
    /\ Statuses \subseteq {"ok", "degraded", "down"} /\ MaxPolls \in Nat
    /\ CacheTime \in Nat \ {0} /\ Timeout \in Nat \ {0}
    /\ HealthHorizon \in Nat

VARIABLES
    time,       \* time.monotonic()
    poll,       \* of each poll: idle, probing, waiting or done
    begun,      \* when it began
    ended,      \* when its probing ended, for one that probed
    found,      \* of each poll: provider -> its result and when that was true
    reported,   \* of each poll that is done: the age of its oldest result
    overall,    \* the status last reported
    cache       \* container.health_cache: the results, and when they expire

healthVars == <<time, poll, begun, ended, found, reported, overall, cache>>

Polls == 1..MaxPolls    \* numbered as they begin
NoCache == [data |-> <<>>, expires |-> 0]

HealthInit ==
    /\ time = 0
    /\ poll = [q \in Polls |-> "idle"]
    /\ begun = [q \in Polls |-> 0]
    /\ ended = [q \in {} |-> 0]
    /\ found = [q \in Polls |-> <<>>]
    /\ reported = [q \in {} |-> 0]
    /\ overall = "ok"
    /\ cache = NoCache

Goes(q, to) == poll' = [poll EXCEPT ![q] = to]
Put(f, x, v) == [y \in DOMAIN f \cup {x} |-> IF y = x THEN v ELSE f[y]]
Result(status) == [status |-> status, at |-> time]

-----------------------------------------------------------------------------
(* The overall status *)

\* run_health_checks, once the other components are known.
Overall(database, cacheAndVectors, results) ==
    LET said == {results[p].status : p \in Providers}
    IN  IF ~ database \/ said \cap {"ok", "degraded"} = {} THEN "down"
        ELSE IF \/ ~ cacheAndVectors
                \/ results[Fallback].status # "ok"
                \/ said \cap {"down", "degraded"} # {} THEN "degraded"
        ELSE "ok"

-----------------------------------------------------------------------------
(* The steps *)

\* _check_providers finds results that have not expired, or starts a probe
\* of every configured provider.
Begin(q) ==
    /\ poll[q] = "idle" /\ \A r \in Polls : r < q => poll[r] # "idle"
    /\ begun' = [begun EXCEPT ![q] = time]
    /\ IF cache.expires > time
       THEN /\ found' = [found EXCEPT ![q] = cache.data]
            /\ Goes(q, "waiting")
       ELSE /\ found' = [found EXCEPT ![q] =
                             [p \in Unconfigured |-> Result("not_configured")]]
            /\ Goes(q, "probing")
    /\ UNCHANGED <<time, ended, reported, overall, cache>>

\* A health_check returns: what it says is true now.
Answers(q, p) ==
    /\ poll[q] = "probing" /\ p \notin DOMAIN found[q]
    /\ \E status \in Statuses :
          found' = [found EXCEPT ![q] = Put(@, p, Result(status))]
    /\ UNCHANGED <<time, poll, begun, ended, reported, overall, cache>>

\* wait_for gives up on a health_check.
TimesOut(q, p) ==
    /\ poll[q] = "probing" /\ p \notin DOMAIN found[q]
    /\ time = begun[q] + Timeout
    /\ found' = [found EXCEPT ![q] = Put(@, p, Result("down"))]
    /\ UNCHANGED <<time, poll, begun, ended, reported, overall, cache>>

\* Mutant of Store: what another poll has stored meanwhile lives on.
StoreProlonging(q) ==
    /\ poll[q] = "probing" /\ DOMAIN found[q] = Providers
    /\ cache' = [data |-> IF cache = NoCache THEN found[q] ELSE cache.data,
                 expires |-> time + CacheTime]
    /\ ended' = Put(ended, q, time)
    /\ Goes(q, "waiting")
    /\ UNCHANGED <<time, begun, found, reported, overall>>

\* The gather is complete and replaces what the cache holds.
Store(q) ==
    /\ poll[q] = "probing" /\ DOMAIN found[q] = Providers
    /\ cache' = [data |-> found[q], expires |-> time + CacheTime]
    /\ ended' = Put(ended, q, time)
    /\ Goes(q, "waiting")
    /\ UNCHANGED <<time, begun, found, reported, overall>>

\* The database, Redis and Qdrant have answered as well, or timed out.
Report(q) ==
    /\ poll[q] = "waiting"
    /\ \E database, cacheAndVectors \in BOOLEAN :
          overall' = Overall(database, cacheAndVectors, found[q])
    /\ reported' = Put(reported, q, Max({time - found[q][p].at : p \in Providers}))
    /\ Goes(q, "done")
    /\ found' = [found EXCEPT ![q] = <<>>]
    /\ UNCHANGED <<time, begun, ended, cache>>

\* Time passes; each wait_for ends in time.
HealthTick ==
    /\ time < HealthHorizon
    /\ \A q \in Polls :
          poll[q] \in {"probing", "waiting"} => time < begun[q] + Timeout
    /\ time' = time + 1
    /\ UNCHANGED <<poll, begun, ended, found, reported, overall, cache>>

\* The bound is reached, or every poll was made.
HealthStopped ==
    /\ time = HealthHorizon \/ \A q \in Polls : poll[q] = "done"
    /\ UNCHANGED healthVars

HealthNext ==
    \/ \E q \in Polls : Begin(q) \/ Store(q) \/ Report(q)
    \/ \E q \in Polls, p \in Providers : Answers(q, p) \/ TimesOut(q, p)
    \/ HealthTick \/ HealthStopped

HealthSpec == HealthInit /\ [][HealthNext]_healthVars

-----------------------------------------------------------------------------
(* Properties *)

\* Polls, results and cache.
HealthTypeOK ==
    /\ time \in 0..HealthHorizon
    /\ poll \in [Polls -> {"idle", "probing", "waiting", "done"}]
    /\ begun \in [Polls -> 0..HealthHorizon]
    /\ DOMAIN reported = {q \in Polls : poll[q] = "done"}
    /\ \A q \in DOMAIN reported :
          reported[q] \in Nat
    /\ overall \in {"ok", "degraded", "down"}
    /\ \A q \in Polls : poll[q] = "waiting" => DOMAIN found[q] = Providers

\* "Provider results are cached for 30 seconds, so a load balancer polling
\* every few seconds doesn't hit paid APIs."  Of two polls that both probe,
\* the later one began while the other's probes were still running, or when
\* its results had expired.
ProbesShared ==
    \A q \in DOMAIN ended, r \in {s \in Polls : s \in DOMAIN ended
                                                \/ poll[s] = "probing"} :
        q # r /\ begun[q] <= begun[r]
            => begun[r] <= ended[q] \/ begun[r] >= ended[q] + CacheTime

\* What a report says of a provider was true less than a cache time and two
\* timeouts ago: the slowest provider's of the poll that stored it, and
\* that of the components of the poll that found it.  An older poll that
\* ends last may replace newer results, but it does not prolong them.
ReportsFresh ==
    \A q \in DOMAIN reported : reported[q] < CacheTime + 2 * Timeout

\* What the cache of the provider results is for: few probes, fresh reports.
CacheWorks == ProbesShared /\ ReportsFresh
=============================================================================
