---------------------------- MODULE ReviewQuota ----------------------------
(***************************************************************************)
(* The quota of ONE user's reviews, from POST /api/agent/chat to the       *)
(* bookkeeping at the end of the stream.  Every key and row involved is    *)
(* keyed by the user, so users do not interact.                            *)
(*                                                                         *)
(* One action is one call to Redis or to the database (the points where    *)
(* the coroutine can be overtaken by the user's other requests, in this    *)
(* or in another worker) with the local code that follows it up to the     *)
(* next call.  Tokens of the month are kept as their running sum; the      *)
(* model stays inside one month.  A plan without limits (team) skips both  *)
(* checks and is not modelled.  Each review has a conversation of its own. *)
(***************************************************************************)
EXTENDS Integers, FiniteSets

CONSTANTS
    Reviews,        \* the user's requests, each made once
    Oversized,      \* those longer than plan.max_input_chars
    DailyLimit,     \* plan.daily_request_limit
    TokenLimit,     \* plan.monthly_token_limit
    Costs,          \* the token counts a run may report
    MaxDay,         \* bound: the UTC days of the model are 1..MaxDay
    NoSnapshot,     \* the usage key is absent from Redis
    Disruptions     \* what may go wrong (and deletions) in this instance

ASSUME ReviewsAssumption == IsFiniteSet(Reviews) /\ Oversized \subseteq Reviews
ASSUME LimitAssumption == DailyLimit \in Nat \ {0} /\ TokenLimit \in Nat \ {0}
ASSUME CostsAssumption == Costs \subseteq Nat
ASSUME DayAssumption == MaxDay \in Nat \ {0}
ASSUME NoSnapshotAssumption ==
    NoSnapshot \notin [requests : Nat, tokens : Nat]

VARIABLES
    pc,        \* where each request stands
    seen,      \* the UsageSnapshot it was checked against
    seenDay,   \* the day (`now`) of that snapshot
    slot,      \* what reserve() returned to it
    status,    \* StreamState.status
    conv,      \* its conversation: rows in chat_sessions and chat_messages
    usage,     \* the rows of usage_records
    spent,     \* the tokens of the billable rows of the month
    cache,     \* the usage:<user>:<day> keys
    inflight,  \* the inflight:<user> key (absent = 0)
    day        \* the UTC date

checked == <<seen, seenDay, slot>>
tables == <<conv, usage, spent>>
keys == <<cache, inflight>>
vars == <<pc, checked, status, tables, keys, day>>

Days == 1..MaxDay
Statuses == {"ok", "fallback", "error", "cancelled"}
BILLABLE == {"ok", "fallback", "cancelled"}
Snapshots == [requests : Nat, tokens : Nat]

\* A request that holds a slot (giveback is the except BaseException path).
HoldingSteps == {"open", "prepare", "streaming", "persist", "record",
                 "invalidate", "release", "giveback"}
\* A review the second check let through, until its bookkeeping is over.
RunningSteps == HoldingSteps \ {"giveback"}
BookkeepingSteps == {"persist", "record", "invalidate", "release"}
EndedSteps == {"refused", "done", "crashed"}
Steps == {"idle", "lookup", "count", "sum", "store", "reserve"}
            \cup HoldingSteps \cup EndedSteps

Holding == {r \in Reviews : pc[r] \in HoldingSteps}
Running == {r \in Reviews : pc[r] \in RunningSteps}

\* The rows snapshot() counts for a day.
Billed(d) == {u \in usage : u.day >= d /\ u.status \in BILLABLE}

Goto(r, s) == pc' = [pc EXCEPT ![r] = s]

\* check_quota: raises unless this request may run.
QuotaLeft(r, requests, tokens) ==
    /\ r \notin Oversized
    /\ requests < DailyLimit
    /\ tokens < TokenLimit

Init ==
    /\ pc = [r \in Reviews |-> "idle"]
    /\ seen = [r \in Reviews |-> [requests |-> 0, tokens |-> 0]]
    /\ seenDay = [r \in Reviews |-> 1]
    /\ slot = [r \in Reviews |-> 0]
    /\ status = [r \in Reviews |-> "ok"]
    /\ conv = [r \in Reviews |-> "none"]
    /\ usage = {}
    /\ spent = 0
    /\ cache = [d \in Days |-> NoSnapshot]
    /\ inflight = 0
    /\ day = 1

-----------------------------------------------------------------------------
(* Admission: chat() *)

\* An empty message, an unknown provider or profile, or a provider the plan
\* does not include is refused before anything is read.
Submit(r) ==
    /\ pc[r] = "idle"
    /\ Goto(r, "lookup") \/ Goto(r, "refused")
    /\ UNCHANGED <<checked, status, tables, keys, day>>

\* The first check, on the snapshot s.
FirstCheck(r, s) ==
    IF QuotaLeft(r, s.requests, s.tokens) THEN Goto(r, "reserve")
                                          ELSE Goto(r, "refused")

\* snapshot(): cache.get_json.  A failing Redis reads as a missing key.
Lookup(r) ==
    /\ pc[r] = "lookup"
    /\ seenDay' = [seenDay EXCEPT ![r] = day]
    /\ \/ /\ cache[day] # NoSnapshot
          /\ seen' = [seen EXCEPT ![r] = cache[day]]
          /\ FirstCheck(r, cache[day])
       \/ /\ cache[day] = NoSnapshot \/ "cache" \in Disruptions
          /\ Goto(r, "count")
          /\ UNCHANGED seen
    /\ UNCHANGED <<slot, status, tables, keys, day>>

\* snapshot(): the first query.
CountRequests(r) ==
    /\ pc[r] = "count"
    /\ seen' = [seen EXCEPT ![r].requests = Cardinality(Billed(seenDay[r]))]
    /\ Goto(r, "sum")
    /\ UNCHANGED <<seenDay, slot, status, tables, keys, day>>

\* Mutant of SumTokens: without coalesce, no row sums to NULL.
SumTokensWithoutCoalesce(r) ==
    /\ pc[r] = "sum"
    /\ seen' = [seen EXCEPT ![r].tokens =
                    IF usage = {} THEN NoSnapshot ELSE spent]
    /\ Goto(r, "store")
    /\ UNCHANGED <<seenDay, slot, status, tables, keys, day>>

\* snapshot(): the second query, a statement of its own.
SumTokens(r) ==
    /\ pc[r] = "sum"
    /\ seen' = [seen EXCEPT ![r].tokens = spent]
    /\ Goto(r, "store")
    /\ UNCHANGED <<seenDay, slot, status, tables, keys, day>>

\* Mutant of StoreSnapshot: the key is computed again when it is written.
StoreSnapshotUnderToday(r) ==
    /\ pc[r] = "store"
    /\ cache' = [cache EXCEPT ![day] = seen[r]]
    /\ FirstCheck(r, seen[r])
    /\ UNCHANGED <<checked, status, tables, inflight, day>>

\* snapshot(): cache.set_json, whatever was recorded meanwhile; then the
\* first check.
StoreSnapshot(r) ==
    /\ pc[r] = "store"
    /\ \/ cache' = [cache EXCEPT ![seenDay[r]] = seen[r]]
       \/ "cache" \in Disruptions /\ UNCHANGED cache
    /\ FirstCheck(r, seen[r])
    /\ UNCHANGED <<checked, status, tables, inflight, day>>

AtLeastOne(n) == IF n < 1 THEN 1 ELSE n

\* Mutants of SecondCheck: the running reviews are forgotten, one of them is,
\* or the request counts itself.
SecondCheckOfSnapshotOnly(r, taken) ==
    QuotaLeft(r, seen[r].requests, seen[r].tokens)
SecondCheckForgettingOne(r, taken) ==
    QuotaLeft(r, seen[r].requests + taken - 2, seen[r].tokens)
SecondCheckCountingItself(r, taken) ==
    QuotaLeft(r, seen[r].requests + taken, seen[r].tokens)

\* The second check: the snapshot plus the OTHER reviews in flight.
SecondCheck(r, taken) ==
    QuotaLeft(r, seen[r].requests + taken - 1, seen[r].tokens)

\* Mutant of Reserve: the slot is taken after the check, given back before.
ReserveWhenAdmitted(r) ==
    /\ pc[r] = "reserve"
    /\ LET taken == AtLeastOne(inflight + 1)
       IN /\ slot' = [slot EXCEPT ![r] = taken]
          /\ IF SecondCheck(r, taken)
             THEN Goto(r, "open") /\ inflight' = inflight + 1
             ELSE Goto(r, "giveback") /\ UNCHANGED inflight
    /\ UNCHANGED <<seen, seenDay, status, tables, cache, day>>

\* reserve(), then check_quota again.  When Redis fails the caller gets 1,
\* whether or not the increment was applied.
Reserve(r) ==
    /\ pc[r] = "reserve"
    /\ \E taken \in {AtLeastOne(inflight + 1), 1} :
          /\ \/ /\ taken = AtLeastOne(inflight + 1)
                /\ inflight' = inflight + 1
             \/ /\ "uncounted" \in Disruptions
                /\ taken = 1
                /\ inflight' \in {inflight, inflight + 1}
          /\ slot' = [slot EXCEPT ![r] = taken]
          /\ IF SecondCheck(r, taken) THEN Goto(r, "open")
                                      ELSE Goto(r, "giveback")
    /\ UNCHANGED <<seen, seenDay, status, tables, cache, day>>

\* _start_stream up to its commit: the question is stored, or the
\* conversation is missing, its profile is gone or the database fails (a
\* failing commit may have been applied).
OpenConversation(r) ==
    /\ pc[r] = "open"
    /\ \/ Goto(r, "prepare") /\ conv' = [conv EXCEPT ![r] = "question"]
       \/ Goto(r, "giveback") /\ UNCHANGED conv
       \/ /\ "db" \in Disruptions
          /\ Goto(r, "giveback")
          /\ conv' = [conv EXCEPT ![r] = "question"]
    /\ UNCHANGED <<checked, status, usage, spent, keys, day>>

\* _start_stream after its commit: tools_with_data, then the stream.
PrepareTools(r) ==
    /\ pc[r] = "prepare"
    /\ \/ Goto(r, "streaming")
       \/ "db" \in Disruptions /\ Goto(r, "giveback")
    /\ UNCHANGED <<checked, status, tables, keys, day>>

-----------------------------------------------------------------------------
(* The stream and its bookkeeping: chat_event_stream() and _persist() *)

\* Mutant of Finish: a client that goes away takes the bookkeeping with it.
FinishUnshielded(r) ==
    /\ pc[r] = "streaming"
    /\ \E s \in Statuses :
          /\ status' = [status EXCEPT ![r] = s]
          /\ Goto(r, IF s = "cancelled" THEN "release" ELSE "persist")
    /\ UNCHANGED <<checked, tables, keys, day>>

\* The event loop ends: done, an error event, or the client went away.
Finish(r) ==
    /\ pc[r] = "streaming"
    /\ \E s \in Statuses : status' = [status EXCEPT ![r] = s]
    /\ Goto(r, "persist")
    /\ UNCHANGED <<checked, tables, keys, day>>

\* Mutant of PersistReply: a cancelled run leaves no reply row.
PersistReplyUnlessCancelled(r) ==
    /\ pc[r] = "persist"
    /\ conv' = IF status[r] = "cancelled" \/ conv[r] = "deleted"
               THEN conv ELSE [conv EXCEPT ![r] = "answered"]
    /\ Goto(r, "record")
    /\ UNCHANGED <<checked, status, usage, spent, keys, day>>

\* _persist: the reply row.  Its foreign key fails when the conversation was
\* deleted; the exception skips the usage record and is swallowed.
PersistReply(r) ==
    /\ pc[r] = "persist"
    /\ \/ /\ conv[r] # "deleted"
          /\ conv' = [conv EXCEPT ![r] = "answered"]
          /\ Goto(r, "record")
       \/ /\ conv[r] = "deleted" \/ "db" \in Disruptions
          /\ UNCHANGED conv
          /\ Goto(r, "release")
       \/ /\ conv[r] # "deleted" /\ "db" \in Disruptions
          /\ conv' = [conv EXCEPT ![r] = "answered"]
          /\ Goto(r, "release")
    /\ UNCHANGED <<checked, status, usage, spent, keys, day>>

\* The row INSERTed by record(), with the tokens of _final_usage: a run that
\* ended well wrote something, and something is at least one token.
WriteRow(r) ==
    \E cost \in Costs :
        /\ status[r] \in {"ok", "fallback"} => cost >= 1
        /\ usage' = usage \cup {[review |-> r, day |-> day,
                                 status |-> status[r]]}
        /\ spent' = IF status[r] \in BILLABLE THEN spent + cost ELSE spent

\* record(): the usage row, which references the conversation too.
RecordUsage(r) ==
    /\ pc[r] = "record"
    /\ \/ /\ conv[r] # "deleted"
          /\ WriteRow(r)
          /\ Goto(r, "invalidate")
       \/ /\ conv[r] = "deleted" \/ "db" \in Disruptions
          /\ UNCHANGED <<usage, spent>>
          /\ Goto(r, "release")
       \/ /\ conv[r] # "deleted" /\ "db" \in Disruptions
          /\ WriteRow(r)
          /\ Goto(r, "release")
    /\ UNCHANGED <<checked, status, conv, keys, day>>

\* record(): invalidate() drops TODAY's snapshot.
Invalidate(r) ==
    /\ pc[r] = "invalidate"
    /\ \/ cache' = [cache EXCEPT ![day] = NoSnapshot]
       \/ "cache" \in Disruptions /\ UNCHANGED cache
    /\ Goto(r, "release")
    /\ UNCHANGED <<checked, status, tables, inflight, day>>

\* Mutant of Release: a refused request keeps the slot it took.
ReleaseAtStreamEnd(r) ==
    /\ pc[r] \in {"release", "giveback"}
    /\ inflight' = IF pc[r] = "release" THEN inflight - 1 ELSE inflight
    /\ Goto(r, IF pc[r] = "release" THEN "done" ELSE "refused")
    /\ UNCHANGED <<checked, status, tables, cache, day>>

\* release(), at the end of the stream or on the way out of chat().
Release(r) ==
    /\ pc[r] \in {"release", "giveback"}
    /\ \/ inflight' = inflight - 1
       \/ "cache" \in Disruptions /\ UNCHANGED inflight
    /\ Goto(r, IF pc[r] = "release" THEN "done" ELSE "refused")
    /\ UNCHANGED <<checked, status, tables, cache, day>>

-----------------------------------------------------------------------------
(* What happens around a request *)

\* move_on_after(10): the rest of the bookkeeping is skipped.
BudgetExpires(r) ==
    /\ "budget" \in Disruptions
    /\ pc[r] \in BookkeepingSteps
    /\ Goto(r, "done")
    /\ UNCHANGED <<checked, status, tables, keys, day>>

\* The worker dies: no finally runs.
Crash(r) ==
    /\ "crash" \in Disruptions
    /\ pc[r] \notin {"idle"} \cup EndedSteps
    /\ Goto(r, "crashed")
    /\ UNCHANGED <<checked, status, tables, keys, day>>

\* delete_session: the messages and the conversation; usage rows stay.
DeleteConversation(r) ==
    /\ "delete" \in Disruptions
    /\ conv[r] \in {"question", "answered"}
    /\ conv' = [conv EXCEPT ![r] = "deleted"]
    /\ UNCHANGED <<pc, checked, status, usage, spent, keys, day>>

\* SNAPSHOT_TTL runs out, or Redis evicts the key.
ExpireSnapshot(d) ==
    /\ cache[d] # NoSnapshot
    /\ cache' = [cache EXCEPT ![d] = NoSnapshot]
    /\ UNCHANGED <<pc, checked, status, tables, inflight, day>>

\* Mutant of ExpireSlots: release counts down without the TTL.  The key keeps
\* the lifetime reserve gave it, but a count that a release starts at -1 after
\* the key is gone has none.
ExpireSlotsOfReserve ==
    /\ "expire" \in Disruptions
    /\ inflight > 0
    /\ inflight' = 0
    /\ UNCHANGED <<pc, checked, status, tables, cache, day>>

\* IN_FLIGHT_TTL runs out, perhaps under a running review, or Redis evicts the
\* key.
ExpireSlots ==
    /\ "expire" \in Disruptions
    /\ inflight # 0
    /\ inflight' = 0
    /\ UNCHANGED <<pc, checked, status, tables, cache, day>>

Midnight ==
    /\ day < MaxDay
    /\ day' = day + 1
    /\ UNCHANGED <<pc, checked, status, tables, keys>>

\* Every request is over: the user stays away.
Quiet ==
    /\ \A r \in Reviews : pc[r] \in EndedSteps
    /\ UNCHANGED vars

ServerStep(r) ==
    \/ Lookup(r) \/ CountRequests(r) \/ SumTokens(r) \/ StoreSnapshot(r)
    \/ Reserve(r) \/ OpenConversation(r) \/ PrepareTools(r) \/ Finish(r)
    \/ PersistReply(r) \/ RecordUsage(r) \/ Invalidate(r) \/ Release(r)

Next ==
    \/ \E r \in Reviews :
          \/ Submit(r) \/ ServerStep(r)
          \/ BudgetExpires(r) \/ Crash(r) \/ DeleteConversation(r)
    \/ \E d \in Days : ExpireSnapshot(d)
    \/ ExpireSlots \/ Midnight \/ Quiet

Spec == Init /\ [][Next]_vars

\* The key runs out while the user has no request: nothing renews it.
KeyLapses ==
    /\ \A r \in Reviews : pc[r] \in {"idle"} \cup EndedSteps
    /\ ExpireSlots

\* A worker that lives goes on with what it has begun, and a provider's
\* answer comes to an end (its client has a read timeout, and the rounds of
\* the agent loop are bounded).  A key that nothing renews for its TTL is
\* dropped by Redis, whatever it counts.
FairSpec ==
    /\ Spec
    /\ \A r \in Reviews : WF_vars(ServerStep(r))
    /\ WF_vars(KeyLapses)

-----------------------------------------------------------------------------
(* Properties *)

TypeOK ==
    /\ pc \in [Reviews -> Steps]
    /\ seen \in [Reviews -> Snapshots]
    /\ seenDay \in [Reviews -> Days]
    /\ slot \in [Reviews -> Nat]
    /\ status \in [Reviews -> Statuses]
    /\ conv \in [Reviews -> {"none", "question", "answered", "deleted"}]
    /\ usage \in SUBSET [review : Reviews, day : Days, status : Statuses]
    /\ IsFiniteSet(usage)
    /\ spent \in Nat
    /\ cache \in [Days -> Snapshots \cup {NoSnapshot}]
    /\ inflight \in Int
    /\ day \in Days

\* The in-flight key never falls below the number of requests that hold a
\* slot: a crash or an expired budget can only leak a slot, never lend one
\* out twice (billing/service.py reserve, release and their callers).
SlotsCovered == inflight >= Cardinality(Holding)

\* Without crashes, expired budgets and cache failures nothing leaks either:
\* every path through chat() and the stream gives back exactly its own slot.
SlotsExact == inflight = Cardinality(Holding)

\* However the requests overtake each other: of the reviews running now, no
\* more were admitted on a snapshot of n or more used requests than the plan
\* had left at n.  With n = 0, no more than the daily limit run at once
\* (chat(), the two checks around reserve).
SlotsWithinSeenQuota ==
    \A n \in 0..DailyLimit :
        Cardinality({r \in Running : seen[r].requests >= n}) <= DailyLimit - n

\* The two facts that make it inductive.  Among the requests that hold a slot
\* at most n were handed a number up to n, since a number is at least the
\* holders at that moment; and a running review's number fitted on top of the
\* snapshot it was checked against.
TicketsSpread ==
    \A n \in 0..DailyLimit :
        Cardinality({r \in Holding : slot[r] <= n}) <= n
AdmittedFits ==
    \A r \in Running : seen[r].requests + slot[r] <= DailyLimit

\* A snapshot, cached or held, never shows more than is recorded: staleness
\* can let a request in, and never refuses one for reviews that were not
\* made (snapshot, record and invalidate across midnight and the TTL).
SnapshotsNeverAhead ==
    /\ \A d \in Days : cache[d] # NoSnapshot =>
          /\ cache[d].requests <= Cardinality(Billed(d))
          /\ cache[d].tokens <= spent
    /\ \A r \in Reviews :
          /\ seen[r].requests <= Cardinality(Billed(seenDay[r]))
          /\ seen[r].tokens <= spent

\* A review whose slot was given back at the end of its run is in the usage
\* table: it is counted by its slot until the row is there (stream.py:127).
NeverUncounted ==
    \A r \in Reviews :
        pc[r] = "done" => \E u \in usage : u.review = r

\* The reply row is there before the run is billed: a usage row belongs to a
\* question the user can see answered, unless he deleted it.
BilledRunsAnswered ==
    \A u \in usage : conv[u.review] \in {"answered", "deleted"}

\* A request is turned away by the second check only when other reviews,
\* recorded or running, each counted once, fill the plan, or while another
\* request is between its usage row and its release and counts twice, or
\* gives back a slot (chat() line 75).
NoEarlyRefusal ==
    [][ \A r \in Reviews :
          /\ pc[r] = "reserve" /\ pc'[r] = "giveback"
          /\ \A q \in Reviews :
                pc[q] \notin {"invalidate", "release", "giveback"}
          => Cardinality({u.review : u \in Billed(seenDay[r])} \cup Running)
                >= DailyLimit ]_vars

\* Whatever befalls the reviews that took a slot (its worker dies, the time for
\* its bookkeeping runs out, Redis loses its release or drops the key under
\* it), the user comes to have all slots again, and no more than all: a slot
\* that was leaked is forgotten, and so is the release of one that the count
\* had lost (reserve, release, IN_FLIGHT_TTL).
SlotsComeBack == (Holding # {}) ~> (Holding = {} /\ inflight = 0)

\* The promise of the in-flight counter, on the abstract gate.
Gate == INSTANCE ReviewGate WITH
    Limit <- DailyLimit,
    running <- Running,
    ended <- {r \in Reviews : pc[r] \in EndedSteps \cup {"giveback"}}
GateSpec == Gate!Spec

-----------------------------------------------------------------------------
(* What the comments and the documentation say *)

\* architecture.md, "One review, end to end": several tabs starting at once
\* cannot slip past the cap.  The day's reviews, recorded or running, stay
\* within the plan.
DailyCapHolds ==
    Cardinality({u \in Billed(day) : pc[u.review] \notin RunningSteps})
        + Cardinality(Running) <= DailyLimit
=============================================================================
