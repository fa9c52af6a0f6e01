# DiffSage: verification project

TLA+ models of the DiffSage backend (`src/backend/app`, FastAPI) and of the parts of
the browser client that take part in its protocols (`src/frontend/src`), checked with
TLC and, where a statement is worth having for every value of the constants, proved
with TLAPS. Paths below are relative to `src/backend/app` unless they begin with
`frontend/` or `docs/`.

## 1. The system

DiffSage reviews code with language models. A browser signs in, opens a conversation,
posts a diff and receives the review as a stream of server-sent events. Behind the
gateway middleware the backend checks the user's plan, takes an in-flight slot in
Redis, runs an agent loop over a chain of model providers, and leaves an assistant
message and a usage record in Postgres. Guidelines the user uploads are embedded into
Qdrant and offered to the model as a search tool.

| component | state it keeps | operations | talks to |
|---|---|---|---|
| review quota (`services/agent/router.py`, `services/billing/service.py`, `policy.py`, `cache/store.py`) | Redis `usage:<user>:<day>`, `inflight:<user>`; rows of `usage_records` | snapshot, check_quota, reserve, release, record, invalidate | every review of the user, Redis, Postgres |
| stream and bookkeeping (`services/agent/stream.py`) | `StreamState`; the reply row | relay events, `_persist`, release the slot | agent runner, Postgres, billing |
| agent loop (`agent/runner.py`, `tools.py`) | the messages of the run, calls seen, text held back | one model turn per round, tool execution, answer-now round | provider router, tool endpoints |
| provider router (`agent/providers/router.py`) | attempts, the stream that was chosen | chain, first-event timeout, fallback, interruption | provider adapters |
| provider adapters and wire formats (`agent/providers/*.py`) | per-stream parser state | parse SSE / NDJSON, translate messages | model servers |
| accounts and tokens (`services/business/auth_router.py`, `core/security.py`) | `refresh_tokens` rows, `users`, the browser's cookie | register, login, refresh (rotation, reuse detection), logout | browser tabs (`frontend/src/api/client.js`) |
| plan and preferences (`services/billing/router.py`, `app_router.py` update_me) | `users.plan_id`, `users.preferred_provider` | change_plan, update_me | chat admission |
| guidelines (`app_router.py` documents, `vectorstore/`) | `documents` rows, Qdrant points, `ready` flag | upload, delete, search, ensure_ready | Postgres, Qdrant, embedder |
| conversations (`app_router.py` sessions, `repository.py`) | `chat_sessions`, `chat_messages` | create, rename, delete, history | chat, stream |
| gateway (`gateway/`) | rate-limit windows in Redis | route match, JWT, scope, rate limit | everything |
| health (`services/health/`) | provider check cache | timed checks | Postgres, Redis, Qdrant, providers |
| configuration (`core/config.py`) | settings | load, override, validate | start-up |
| browser client (`frontend/src`) | access token, messages of the open chat | refreshOnce, authFetch, streamChat | gateway |

### What is hard here

* **Interleaving.** Each `await` on Redis or the database lets another request of the
  same user run, in this worker or another one. Admission is seven such steps, the
  bookkeeping four.
* **Two stores, no transaction over both.** Redis and Postgres (slots and records),
  Qdrant and Postgres (vectors and rows).
* **Cancellation.** The client may leave at any event; the bookkeeping then runs
  shielded, but only for ten seconds.
* **Expiry.** The in-flight counter, the snapshots, the rate-limit windows and the
  tokens all live in time.
* **Fallback.** A provider may be silent, fail before its first event, fail in the
  middle, or end without an answer, in every round of the agent loop.
* **Two tabs, one cookie.** Tabs share the refresh cookie but not a lock.

### What makes each component correct

* Review quota: the in-flight counter is never below the slot holders; running reviews
  fit the plan; nothing is refused early; every run that finishes is recorded; every
  slot comes back.
* Agent loop and provider router: a call is run once; every call is answered, in order,
  before the next turn; an answer follows the last lookup; the plan's providers are never
  left; reported tokens are recorded; every run ends.
* Accounts and tokens: neither tab is signed out by the other; the cookie stays usable;
  live tokens do not multiply.
* Guidelines: what search finds is listed, what is listed can be found, what is deleted
  is gone, whatever fails.
* Rate limiter and gateway: no window lets more than its limit through, nobody is refused
  early, and a request draws on the budget the route table and the documents give it.
* Accounts: no email gets two accounts, and a sign-up is refused for the right reason.
* Plan and preference: a saved model never locks its user out of reviews; what the Settings
  page offers is accepted.
* Conversations: the context a run starts on is one its provider accepts, whatever earlier
  chats left behind, and a lookup that is offered finds something.
* Wire formats: each tool call reaches the runner once, in order, with its own arguments, and
  the tokens of a reply are reported once.
* Chat page: the tokens of a reply get into its own message, however the network cuts the
  stream and wherever the user goes meanwhile.
* Guidelines in chunks: a rule is whole in one of the chunks.
* Health: overlapping polls share their probes, and no report is older than the cache allows.
* Start-up: a backend runs with what its environment asks for, and refuses to start for one
  of the documented reasons only.

## 2. Modules

| module | models | proofs |
|---|---|---|
| `ReviewQuota` | the quota of one user's reviews, from `chat()` to the release of the slot | `ReviewQuotaProofs` |
| `ReviewGate` | what it promises; the abstract specification it implements | |
| `InFlightSlot` | the in-flight key of one user in time | `ServingProofs` |
| `AgentRun` | one run: the rounds, the provider chain, the tools and the status they end in | `AgentProofs` |
| `PlanPreference` | one user's plan and preferred model, the Settings pages, releases | `AgentProofs` |
| `StartUp` | from the environment to the settings, the providers and the embedder | `AgentProofs` |
| `RateLimit` | one key of the rate limiter, its workers' clocks and Redis | `ServingProofs` |
| `Gateway` | routes, tokens, scopes, and the budget each request draws on | `ServingProofs` |
| `Health` | overlapping polls and the cache of provider results | `ServingProofs` |
| `Accounts` | sign-ups and the plan rows they refer to | `ServingProofs` |
| `RefreshTokens` | the tabs of one browser: refresh, sign-in, sign-out | `RefreshTokensProofs` |
| `GuidelineStore` | upload and delete over Postgres and Qdrant | `GuidelineProofs` |
| `VectorCollection` | the creation of the Qdrant collection and its index | `GuidelineProofs` |
| `Chunking` | `chunk_text` over every small file | `GuidelineProofs` |
| `Conversations` | the rows overlapping chats leave, and the context later chats build | `ContentProofs` |
| `ProviderStream` | one streamed reply in three dialects, and its parser | `ContentProofs` |
| `ChatPage` | the SSE parser and the thread of the Chat page | `ChatPageProofs` |

`DataLemmas` holds the lemmas about numbers, folds and sequences that the proofs share.

`MCReviewQuota`, `MCAgentRun`, `MCGuidelineStore` and `MCChatPage` give TLC the small sets of
one module. `MCReview` (`AgentRun`, `PlanPreference`, `StartUp`), `MCContents`
(`GuidelineStore`, `VectorCollection`, `Chunking`, `Conversations`, `ProviderStream`,
`ChatPage`) and `MCServing` (`RateLimit`, `InFlightSlot`, `Gateway`, `Health`,
`RefreshTokens`, `Accounts`) put several into one instance. The components in one instance
share no state: the variable `part` chooses the one that moves in a behaviour, so the
instance is the union of their state graphs and not their product, and one run answers for
all of them; `PartsOfReview`, `PartsOfContents` and `PartsOfServing` prove that such an
instance implements the specification of each of its components. Components that do
interact are in one module: the Settings pages and the requests they send, the browser's tabs and the server's token table, the parser and the
page it feeds, Postgres and Qdrant, the snapshot, the slot and the usage rows.

Definitions keep the names of the source: actions that stand for a whole function or for the
stretch between two awaits are named after it, and `PROJECT.json` gives the lines of each.
Definitions whose comment begins "Mutant of" are not part of a specification: each replaces
one definition by what a plausible bug would make of it, and shows that some property
notices.

### ReviewQuota

`POST /api/agent/chat` (`services/agent/router.py`) checks the quota on a usage snapshot,
takes a slot, checks again with the other reviews in flight, stores the question and
starts the stream; the end of the stream stores the reply, writes the usage row, drops the
cached snapshot and releases the slot. Each call to Redis or the database is one action,
so every other request of the user may come between any two of them, in this worker or
another one.

| code | action |
|---|---|
| `chat` up to `snapshot` | `Submit` |
| `BillingService.snapshot` | `Lookup`, `CountRequests`, `SumTokens`, `StoreSnapshot` |
| `BillingService.reserve` and the second `check_quota` | `Reserve` with `SecondCheck` |
| `_start_stream` | `OpenConversation`, `PrepareTools` |
| the event loop of `chat_event_stream` | `Finish`, with any of the four statuses |
| `_persist`, `BillingService.record`, `invalidate`, `release` | `PersistReply`, `RecordUsage`, `Invalidate`, `Release` |
| `move_on_after(10)` | `BudgetExpires` |
| `delete_session` | `DeleteConversation` |
| a dying worker, key expiry, midnight | `Crash`, `ExpireSnapshot`, `ExpireSlots`, `Midnight` |

The constant `Disruptions` says what may go wrong in an instance: `crash`, `budget` (the
ten seconds run out), `db` (a statement or a commit fails, applied or not), `delete`,
`cache` (Redis loses a snapshot, an invalidation or a release), `uncounted` (a reserve
fails and answers 1) and `expire` (the in-flight key goes while reviews run). Users do not
share a key or a row, so one user is enough. A plan without limits (team) skips both
checks and is left out; each review has a conversation of its own.

`ReviewGate` is what remains when cache, snapshot and database are left out: at most
`DailyLimit` reviews are running at any moment, each is admitted once, and ends. Its
`running` is mapped to the reviews between admission and release.

### InFlightSlot

`RedisCache.incr` renews the expiry of the user's one counter on every change. The module
adds the clock `ReviewQuota` leaves out. Nothing bounds a review: four turns with provider
timeouts of 600 s outlast the key's 900 s, so the key may lapse under reviews that still
run, and their releases then go to a count that never held them. `outlived` remembers the
reviews that ran when the key last lapsed, and `ReserveCountsHolders` says what is left of
`reserve`'s promise: the number it returns is short of the holders by those at most, and the
key lapses under no review that has not run for a whole lifetime. Whatever crashes leaked is
gone after a silence of one lifetime. The module also shows what the documentation glosses
over: a user who goes on working keeps a crashed slot counted beyond its 15 minutes
(`README.md`, "Known limits"), because each reserve and release moves the expiry of the
whole count.

### AgentRun

`AgentRunner.run`/`_rounds`, `ProviderRouter.chain_for`/`stream` and
`ToolExecutor.execute`, as one state machine with the model providers and the tools as its
environment: a provider may refuse, stay silent past the first-token timeout, write prose,
write text that is held back because it may be a tool call in JSON, call offered, withheld
or unknown tools, report usage, break off, or end. A call is a name with its arguments; the
text of a turn is nothing, prose, or the call it parses to. `AgentRunner.run` adds up what
the turns are reported to cost (`UsageReport` into `total`) and hands it to the stream on two
ways out: `RunRaises` when no provider of a chain is left or one breaks off, before the error
and only if there is something, and `EndOfRun` after the last turn, with or without an
answer. `reported` keeps the single reports, so that `ReportedUsageRecorded` compares the
record with their sum. `ClientLeaves` is the `GeneratorExit` of a browser that goes away,
which hands over nothing. Bounded per turn: one text and `MaxCalls`
native calls.

### PlanPreference

`update_me` and `change_plan` are read-modify-write requests on one `users` row:
`ReadRow` is `current_user` with every check made on what it read, `CommitModel` and
`CommitPlan` write only the columns that changed, whatever the row holds by then. A Settings
page loads the plan and the tiles (`LoadScreen`), offers what they allow (`SaveModel`,
`ChoosePlan`) and may be stale by the time it is used. `Redeploy` changes the plans of the
code, the registered adapters and the keys, as a release or a new configuration does, and
cuts off the requests under way. `raced` remembers that a commit met a row that had changed
since it was read: two requests that overlap can leave a model its plan lacks, and a review
then answers `provider_not_in_plan` until the user picks another one. `NotLockedOut` says
that nothing else does, while the code still has the row's plan.

### StartUp

`_load_dotenv`, `apply_env_overrides` and `build_settings` (`core/config.py`), then the
registry and the container. The process, `backend/.env` and `.env` may each set any variables
of a set from `Environments`, with what a proper deployment has in its `.env` or without it; a
value is its type and its text. In the runs (`TwoVariables`) the set is any two of eleven
variables, for settings of every type; the proof takes any set of them. `StartsAsConfigured` says
that each of these settings (`Meant`: production, self-serve, default and fallback providers,
the number of tokens, the backend, the database) is what the environment says, in the order of
its sources and of the type the file gives it, that a variable adds no setting but the one it
names, and what makes a backend refuse to start. The finding is `settings_override`: a key the
file does not list, such as `enabled` of a provider, stays text, and the text `"false"` counts
as true.

### Gateway

`match_route`, `GatewayMiddleware.__call__` (route, `decode_access_token`, scope, subject,
limit) with `_client_ip`, and `_throttle_account` of a sign-in that got past it: a request to
one of several paths, with a token or without, from a client that may write its own
`X-Forwarded-For`, directly or behind a proxy that overwrites or appends it
(`frontend/nginx.conf`). The limiter is a counter for each key and window. A sign-in hits two
keys, its address's in the gateway and its account's in the handler, by two calls of Redis
with other requests, or the end of a window, in between (`waiting`): `CountRequest` and
`ThrottleAccount`. Each call (`Draw`) is answered or not on its own, and one that is not may
have been counted; the limiter then lets the request pass or answers 503
(`rate_limit_fail_open`). `asked`, `let`, `missed` and `turned`
count per budget as the documents define it, so that `BudgetsKept` compares the keys the
code builds with the budgets they are meant for, and an unanswered hit excuses its own budget
only. Behind a proxy the code
takes the last entry of the header, the one the proxy wrote, so what a client writes there
makes no difference, whether the proxy overwrites or appends. `trust_proxy_headers` is set
when, and only when, there is a proxy.

### Health

`run_health_checks` and `_check_providers` of one worker with overlapping polls: a poll probes every
provider or takes the cached results, each probe answers or times out, the results are
stored when the last one is there. `ReportsFresh` bounds the age of what a report says,
`ProbesShared` says when two polls may both probe.

### Accounts

`register` as the steps between its awaits: the SELECT, the flush (which waits for another
session that has flushed the same email), the second SELECT after an `IntegrityError`,
`sync_plans` and the second attempt. A backend that starts syncs the plans at the same time.
A 500 is possible where two syncs insert the same plan rows, which `collided` records.

### RefreshTokens

The tabs of one browser share the refresh cookie. Per tab: `StartRefresh`, `Retry`
(`frontend/src/api/client.js` `refresh`, once, 750 ms after a `refresh_raced`), `SignIn`,
`SignOut`, `Land`, `Lose`, `Reload`; per request on the server: `ReadToken` (the SELECT and
everything decided on its row), `Rotate` (one commit) or `RevokeAll`, `Login`, `Logout`.
Between `ReadToken` and `Rotate` another request may rotate the same row: both then commit,
which the history variable `doubled` counts. `network` remembers whether a response ever took
as long as the retry's wait (`slow`) or never landed (`lossy`), `crossed` whether a sign-out
met another call of the browser. A tab signs out or in only while it has no refresh of its
own under way; a user is active and no row reaches its expiry.

What holds is narrower than `docs/architecture.md`, "Auth" ("so neither tab is signed out"):
it is true while every response lands within the 750 ms the second tab waits. With a slow
response the retry presents the same old cookie and the tab is signed out. It is also a
promise to two tabs, and the run has two: with three, a third tab may rotate the new cookie
just before the retry presents it, and there is no second retry (TLC shows it in 15 states
when `Tabs` is given a third element). Each race that
both requests win also leaves a token that no browser holds, live for its 14 days; and a
refresh that overlaps a sign-out brings the session back, which `SignedOutStaysOut` excludes
by `crossed`.

### GuidelineStore

`upload_document` and `delete_document` (`services/business/app_router.py`), one action per
await, with five kinds of fault: Qdrant refuses, Qdrant's answer is lost, Postgres refuses
a commit, the commit's answer is lost, the worker dies. A document stands for all of its
chunks, which Qdrant takes or deletes in one request.

### VectorCollection

`QdrantStore.ensure_ready`: each worker has its own `_ready` flag, all share the collection.
A worker looks for it, creates it, then creates its index; any call may be refused, may time
out after it was carried out, and a worker may die in between. A creation that ends half-way
leaves a collection that every later call takes as ready, without its index: `broken`
remembers it, and `CollectionIndexed` says that nothing else does.

### Chunking

`chunk_text`: lines arrive one by one, so every file up to the bound is tried; a character is
its position. `RulesWhole` is the promise of the docstring, with what it needs made explicit:
a rule no longer than the overlap is whole in a chunk unless it runs from one line into one
that is longer than a chunk, or holds a blank line.

### Conversations

The rows of `chat_sessions` and `chat_messages` under chats that overlap, fail between their
steps, are stopped, or lose their conversation to `delete_session`; `recent_history` builds the
context of a chat from the last rows; `tools_with_data` offers `get_past_reviews`.
`AnthropicMessages` and `OpenAIMessages` translate a context as the adapters do (a fold over
`Push`, then `Trim`), and `ContextUsable` checks the result against what the service accepts,
with every continuation a run may add.

### ProviderStream

A service sends text, opens tool calls, sends their fragments interleaved, stops them, is cut
off by `max_tokens`, garbles a chunk or ends early, in one of three dialects. The parser's
state is that of `OpenAIStreamParser` and `AnthropicStreamParser`; Ollama's has none. Fragments
are numbered, so `CallsWhole` can say that a call's arguments are its own, in order. The
count of Anthropic's `message_start` is part of the cumulative count that follows, so adding
them up would bill too much.

### ChatPage

The network delivers a reply in pieces of up to `MaxPiece` symbols, cut anywhere, with the
line breaks as servers and proxies send them; `frontend/src/api/sse.js` puts the pieces
together, `Chat.jsx` patches the last message of its thread. Meanwhile the user goes to
another conversation and back, sends again, stops, loads, or waits for `authFetch` to refresh
the token. `hurt` marks the replies that two hazards of the code harm: a load that ends after
the question was sent replaces the thread, so that the reply's tokens are written into a
message of the loaded conversation or its message is gone; and of a CR LF that is split
between two pieces the CR stays, so that the empty line is missed and two events merge into
one that is no JSON. `RepliesIntact` is about each message by itself: its tokens are of one
reply, and unless that very reply was hurt they are all there, in order; a hurt reply does no
harm to an earlier or a later one. `chat_return` is about the
refs: a detached reply keeps `streamSessionRef` for a moment, and a user who comes back in
that moment sees the other conversation's messages under this address.

### RateLimit

`RedisRateLimiter.hit` for one key with what `GatewayMiddleware` makes of its result. A
worker chooses the window by its own clock, which may be `Ahead` of or `Behind` the clock of
Redis (a late request counts as behind); Redis drops a key when its own clock says so, five
seconds after the window's length from the last hit. `Outage` covers a failing Redis, with
the hit counted or not, and `rate_limit_fail_open`; `LoseKey` a restart or eviction.

## 3. Runs

| run | instance | shows |
|---|---|---|
| `quota_disturbed` | 3 reviews, limit 2, crashes, expired budgets, cache failures | the counter covers the holders; the running reviews fit the snapshots they were admitted on |
| `quota_two_days` | 2 reviews, limit 1, token limit 1, two days, every disruption, weak fairness | snapshots only ever understate; nothing is billed without a reply row; whatever fails, all slots come back |
| `quota_undisturbed` | 2 competing reviews and an oversized one, limit 1, no failure | slots are given back exactly; every finished run is recorded; no early refusal; `ReviewGate` is implemented |
| `agent_run` | `MCReview`: 3 providers of which the plan has 2, 2 tool rounds, an offered and a withheld call, 2 native calls a turn; 2 Settings pages, 2 models, 1 release, 2 saves; every pair of variables at start-up | the agent loop's properties, and that runs end; saved models never lock out; the backend starts as configured |
| `contents` | `MCContents`: 2 uploads, 2 deletes, every fault; 2 workers create the collection; files of 3 lines with chunks of 4 and an overlap of 2; 3 chats over 2 conversations with a window of 2 messages; replies with two calls in 3 dialects; a page with 2 conversations, 2 sends, 2 tokens, pieces of up to 2 symbols | what is stored is found, what is deleted is gone, rules stay whole, contexts are accepted, calls and replies arrive intact |
| `serving` | `MCServing`: limiter window 3, limit 1, an outage and a lost key; 3 reviews with a key that lives 3; 3 requests behind 3 deployments; 3 polls; 2 tabs with 4 tokens; 3 sign-ups for 2 emails | the limiter, the slot's lifetime, the budgets, the health cache, the browser's session and the sign-ups |

Six more runs state what a document or comment of the repository says and end in a
counterexample:

* `quota_cap` (`DailyCapHolds`): a request reads its snapshot, another review is recorded
  and released, the request takes its slot: the other review is in neither number and the
  daily limit is passed. What does hold is `SlotsWithinSeenQuota`: the reviews running now
  fit the snapshots they were admitted on.
* `quota_deleted` (`NeverUncounted`): the conversation is deleted while its review streams;
  the reply row fails, the usage row is skipped, the slot is freed.
* `agent_splice` (`OneAuthor`): a provider that has written before its tool call fails at the
  next turn and another one continues the reply.
* `guidelines_slow` (`SearchNeverUnlisted`): Qdrant stored the points, its answer timed out,
  the row is rolled back and the points stay. `OrphansOnlyAfterFailures` says exactly which
  uploads can leave points behind.
* `chat_return` (`AddressShown`): the user leaves a conversation while its reply waits for a
  new access token and comes back; the page takes the detached reply for the one that
  streams there, loads nothing, and shows the other conversation.
* `settings_override` (`DisabledStaysOff`): `PROVIDERS__ANTHROPIC__ENABLED=false` is kept as
  the text "false", which is true; the provider stays enabled.

A snapshot that was counted before a usage record and is stored after that record's
invalidation stays for its 60 seconds, so "every new usage record clears it"
(`docs/architecture.md`, "Plans, quotas and usage") holds only without that race;
`SnapshotsNeverAhead` says on which side such a snapshot errs. `README.md`, "Known limits",
gives a crashed slot back after 15 minutes; `SilenceFreesLeaks` holds for 15 minutes of
silence, since each reserve and release renews the key.

### Bounds

Three reviews are enough for a holder, a leaver and an arriver, and two for each race of
two requests; limits of 1 and 2 make each of them contended. `MaxDay = 2` has one midnight.
In `agent_run` two rounds of tools have a first, a middle and a last round (the one where
tools are withdrawn), and two of three providers allowed put a forbidden one between; two
pages and two saves are one race on the row, one release makes each page stale; two
variables, each in any of the three sources, are two settings or one setting overridden, and
no objection of `build_settings` looks at more than two. In
`contents` each race is between two (documents, deletes, workers, sends); three chats leave
two rows to build a third one's context from, and a window of two messages cuts it at every
place; lines of 1 to 5 and 9 characters fall short of, fill and exceed a chunk of 4, up to
twice; two tokens and pieces of up to two symbols split a reply in and between its events.
In the timed modules of `serving` a tick is any time below the shortest delay that matters,
and only the order of the delays is kept (a response takes up to a tick, a retry's wait, and
the grace of two ticks ends before an access token does);
the horizons reach past the longest chain of delays a property speaks of: two lifetimes of
the in-flight key, the end of a window with its slack, a cache time with two timeouts, one
access token's life (so that a fresh tab refreshes again). Three requests on limits of one
reach past a limit with one hit unanswered, which may be either hit of a sign-in; that both
may fail together is left to the proof. `MaxTokens`, `MaxCalls`, `MaxHits`, `MaxOutages`,
`MaxLosses`, `MaxDown`, `MaxPolls`, `MaxSaves`, `MaxRedeploys`, `MaxLeaves`, `MaxEntries`,
`MaxFailures`, `MaxLines`, `MaxText`, `MaxPiece`, `MaxSends` and the horizons are bounds of
the models, not of the code; where one stops a behaviour the module has a stuttering action
(`Stopped`, `Quiet`, `Idling`, `Ended` and the like), so deadlock is checked everywhere.

### Fairness

`ReviewQuota!FairSpec` is weakly fair to each request's server step: a worker that lives
goes on with what it has begun, and a review's stream ends, since the rounds are bounded
and each provider's client has a read timeout; and to `KeyLapses`: Redis drops a key that
nothing has touched for its lifetime, which is assumed only while no review of the user is
under way. With every disruption of `quota_two_days` that is what brings back a slot whose
release was skipped (`move_on_after`), lost or never made. No fault is fair.
`AgentRun!FairSpec` is weakly fair to the run's next step, whatever that is: nothing is
assumed about which event comes;
`MCReview!ReviewSpec` keeps that fairness where the agent is the part at work. The other
modules check safety only: what their actors do next is up to users, networks and clocks.

## 4. Proofs

Proved with TLAPS for every value of the constants, bounds included. A proof module belongs
to the modules it extends; `DataLemmas` holds what several need. Except for the components
named below, each theorem has no assumption but those of its module's `ASSUME`.

**`ReviewQuotaProofs`.** `TypeCorrect`: the type invariant, whatever fails.
`CounterCoversHolders` (`SlotsCovered`), `RunningWithinQuota` (`SlotsWithinSeenQuota`) and
`ImplementsGate` (`GateSpec`), each under `CounterReliable`: neither `uncounted` nor `expire`
is among the disruptions. `SlotsWithinSeenQuota` is not inductive. What carries it is the
number that `reserve` hands out: it is at least the number of holders at that moment, so
among the holders at most n were handed a number up to n (`TicketsSpread`, kept because
others only leave); and an admitted review's number fitted on top of its snapshot
(`AdmittedFits`). So the running reviews that saw n or more used requests all hold numbers up
to `DailyLimit - n`, and there are at most that many. The gate is the case n = 0: an
admission finds fewer than `DailyLimit` running. `SlotsAreExact` (`SlotsExact`) needs
`NothingCutOff`: no crash, no expired budget, no failing Redis; the database may fail and
conversations may be deleted, which is more than the run tries. `NothingUnansweredIsBilled`
(`BilledRunsAnswered`) and `NoSnapshotAhead` (`SnapshotsNeverAhead`) hold under every
disruption: the first because a request writes its usage row after its reply row and only
once (`AnswersFirst`), the second because records only grow (`RecordsGrow`) and a snapshot is
filled from them or copied. `EveryReviewIsCounted` (`NeverUncounted`) needs `DatabaseAnswers`
(no `db`, `budget` or `delete`); the run `quota_deleted` shows that it does.
`NobodyRefusedEarly` (`NoEarlyRefusal`) needs `NothingCutOff` again. A review is
refused on its snapshot and its number. The snapshot is never ahead of the records of its
day, the first check passed on it (`PassedFirstCheck`), and the number is exactly the slots
held at that moment (`SlotsExact`); each recorded review has one row (`OneRow`). A review counts twice only
between its usage row and its release, which the property excepts; so the recorded and the
running reviews, each counted once, fill the limit.

**`AgentProofs`**, of `AgentRun`, for any providers, plan, tools, rounds and calls, of
`PlanPreference`, for any pages, models and releases, and of `StartUp`, for any of its
variables in any sources. `RunTypeCorrect`
(`TypeOK`). `FallbackWithinPlan` (`PlanRespected`): the chain of a round is a fold over the
configured fallback providers, and every element it takes over is allowed by the plan
(`ChainAllowed`, by induction along the fold); the position of a try stays inside that chain
(`PlanKept`). `ChainAsConfigured` says which chain it is: the preferred provider, then the
configured fallbacks that the plan allows, in their order and each once.
`NoCallRunTwice` (`NoCallTwice`): what was executed is in the set of
calls seen, which only grows. `AnswersLast` (`AnswersFollowTools`): what was executed belongs
to an earlier round once a turn begins (`RoundsLeft`). `EveryCallAnswered` (`CallsAnswered`):
the messages, followed by the answers still to come, answer every call in order, at every
step of a turn (`PendingAnswered`). `UsageRecorded` (`ReportedUsageRecorded`), for any costs of
the turns: until the run ends the runner holds the sum of the reports and the stream has been
handed nothing (`UsageHeld`), and each way out but the user's hands over that sum. That one
more report adds its cost to the sum is the fold taken one element further (`AddsOneByOne`).
`ModelNeverLocksOut` (`ReviewsNotLockedOut`): `PlanInv` says that a page of the present configuration shows what it would accept (`PagesHonest`), that a
request about to commit was right about the row it read (`ChecksMade`), and that without
overlapping requests the row's plan has its model (`PreferenceIncluded`).
`RunsShorten` is what termination rests on: `Work`, what is left of the round and a full turn
for each later one, is a number that every step of a run lowers, so no answer of a model
makes a run go on for ever. What is missing from there to `ReviewsEnd` is that the next step
is enabled and taken, which is fairness.
`BackendStartsAsConfigured` (`StartsAsConfigured`): of the sources read so far the first text
there is has been kept for every variable (`EnvironRead`; `LayersTexted` says that it is one
of that variable's), the file's settings are overridden by it and typed as the file types
them (`DataRead`), and the objections of `build_settings`, which a running backend has passed
(`SettingsMade`) and a refused one has not (`RefusedFor`), can be read off what the operator
asked for. `ReviewTyped` (`ReviewTypeOK`) follows by `PartsOfReview` from the
type invariants of the three.

**`ServingProofs`**, of `InFlightSlot`, `RateLimit`, `Gateway`, `Health` and `Accounts`.

* The key. `ReservesCounted` (`ReserveCountsHolders`) without assumption on how long reviews
  are: the count and the reviews it has lost together cover the holders, and the key expires
  no sooner than a lifetime after each holder that it still counts began (`HoldersCounted`).
  When it lapses, all who hold become the lost ones. `SlotTyped`; `SilenceFrees` (`SilenceFreesLeaks`) without assumption: the
  key expires a TTL after the last start or end (`KeyRenewed`).
* The limiter. `LimiterTypeCorrect`; `CappedByDesign` (`WindowCapped`) under
  `DeploymentSound`: the clock differences together do not exceed the key's slack. A key
  outlives the last worker that may still count into its window (`KeyOutlivesWindow`), and
  until then it shows every request let through since it was last lost (`KeyShowsPassed`).
  `RefusedOnlyWhenUsed` (`NoEarlyRefusal`): a key never counts more than was asked
  (`CountsAttempts`).
* The gateway. `BudgetsAreKept` (`BudgetsKept`), for any addresses, users and limits. A
  request's subject is its own in all three deployments, whatever it writes into its headers
  (`AddressKnown`); two budgets of the documents never share a Redis key, for which a user id
  must not be an address (`GatewayAssumption`; ids are UUIDs). Then the counter of a key is at
  most what its budget was asked for, and what was let through exceeds neither the counter
  nor the limit by more than the hits of that budget that passed without an answer of Redis
  (`Kept`; `DrawKeeps`, for the hit of the gateway and of the account alike). The
  routes and endpoints are the program's, so the route each call takes is computed
  (`RouteTaken`), and a change of the table is a change of the proof. `GatewayTypeCorrect`
  (`GatewayTypeOK`): Redis counts for buckets with a limit only, and no budget lets more
  through than it was asked for.
* The health report. `CacheAlwaysWorks` (`HealthTypeOK` and `CacheWorks`), for any polls,
  providers, cache time and timeout. What is stored expires a cache time and at most one
  timeout after it was true (`CacheYoung`); a poll that found it in the cache began before that
  and waits for the other probes no longer than a timeout (`FoundYoung`, `InTime`); and while a
  probe ended less than a cache time ago, the cache has not expired (`CacheOutlives`), so
  whoever begins later does not probe again.
* The accounts. `AccountsTypeCorrect`; `SignUpsWork` (`SignUpWorks`): at most one
  session holds an email and none that has an account (`OneAccount`), a second attempt has its
  plans (`PlansRepaired`), and each refusal has its reason (`Blamed`).
* The instance. `ServingTyped` (`ServingTypeOK`) joins the type invariants of the six
  components, by `PartsOfServing`.

**`GuidelineProofs`**, of `GuidelineStore`, `VectorCollection` and `Chunking`.
`DeletionsLast` (`DeletedIsGone`), `OrphansAreExplained`
(`OrphansOnlyAfterFailures`), `UploadsAreFound` (`StoredIsSearchable`) for any documents,
deletes and faults: the points are there before the row (`PointsFirst`) and a deletion has
removed what its step says (`DeletionOrder`). `ReadyIsIndexed` (`CollectionIndexed`) for any
number of workers: a bare collection has a creator on its way to
the index or was broken (`IndexOwed`). `RulesStayWhole` (`RulesWhole`) for any size, any
smaller overlap and any file: `RulesWhole` speaks of finished lines and is not inductive.
`ChunkInv` follows a rule through the line at hand: if it lies before what is left of the
line, it is whole in a chunk; if it ends in it, it is whole already or the chunk at hand ends
with its beginning (`Covered`); and when no more than an overlap is left of the line, the
chunk at hand ends with the beginning of every rule still to come (`Ready`), which is why the
pieces of a long line must overlap as chunks do. `ChunksTyped` (`ChunkTypeOK`): a chunk holds
characters of its file alone. `ContentsTyped` (`ContentsTypeOK`) joins the type invariants of
this section and the next one's, by `PartsOfContents`.

**`ContentProofs`**, of `Conversations` and `ProviderStream`.
`ContextStaysUsable` (`ContextUsable`), for any conversations, chats and length of the window. `ChatInv`: the history of a chat is made of rows that carry
no calls and, once its question is committed, ends with it (`QuestionAsked`); a lookup that
is offered finds something until a conversation is deleted (`LookupFinds`). The rest is about
the adapter, and holds for every such history: pushing its messages one by one keeps turns
that alternate and hold text (`PlainPushed`, by induction along the fold); a tool round or the
last demand keeps the turns `Wire`, that is, what the service accepts but for a beginning
that may be the assistant's (`RoundPushed`); and `Trim` cuts exactly that beginning off, since
the first turn of the user in it is one of text (`WireAccepted`). `ConversationsTyped`
(`ConversationTypeOK`): no row outlives its conversation, whatever deletes and commits overlap
(`RowsBelong`).
`CallsStayWhole` (`CallsWhole`), for the three dialects and any number of calls, fragments
and texts. `StreamInv`: a slot holds fragments of its own call alone, in order and none that
was not sent (`SlotsFit`); what was yielded is in the model's order and unmixed, an Anthropic
call only once its block was stopped and an OpenAI call only at the end (`YieldedWell`). As
long as nothing was damaged, cut off or ended early, the slots hold all that was sent
(`SlotsWhole`), what was begun is in a slot or was yielded (`NothingMissing`), and the usage
was reported once or is still to come (`UsageReported`). What OpenAI's parser yields at the
end is defined by recursion over the calls, and follows by induction (`FinishedIs`).
`StreamTyped` (`StreamTypeOK`): a parser has slots for opened fragments only, and yields
events of the three kinds. It follows from `StreamInv` and from what never changes or is
counted (`ReplyBounded`).

**`RefreshTokensProofs`.** `TokensDoNotMultiply` (`LiveTokensBounded`), any tabs and delays:
live tokens and the sign-ins under way together are at most one, the doubled rotations and
the sign-ins (`TokensOwed`); a rotation takes one token for the one it gives unless its row
was already revoked, and is then a doubled one. `SignedOutHolds` (`SignedOutStaysOut`), any
tabs and delays: as long as no sign-out met another call (`Calm`), a tab that signs out is the
only one with a call under way (`Alone`), and without doubled rotations the one live token is
the cookie or on its way there (`OneSession`), so the sign-out revokes it; afterwards the
cookie is empty and whatever is sent carries no token (`WhileOff`). `CookieStaysUsable`
(`CookieUsable`) under `2 * Latency <= Grace`, any tabs: a token that is presented after its
revocation was sent before the revocation's response can have landed, so less than two calls
after it (`InGrace`), and the server does not take that for a theft; so the cookie lives, or
a response on its way replaces it (`Backed`). The program's grace is 20 s, so the theorem
speaks of calls of up to 10 s. `NeitherTabSignedOut` (`NoTabSignedOut`) under at most two tabs,
the same bound and `3 * Wait <= AccessLife` (750 ms and 15 min): a tab whose first call lost
the race has another tab's new token on its way to the cookie (`FirstCall`), which lands
before its pause ends (`Waits`); its second call carries that token, and the other tab is in
no hurry to rotate it (`SecondCall`). That a response lands within the pause is part of the
property (`network = "prompt"`), and with three tabs it is false. `RefreshTyped`
(`RefreshTypeOK`): no moment of a tab, a call or a row lies in the future (`Stamped`).

**`ChatPageProofs`.** `RepliesStayIntact` (`RepliesIntact`), for any conversations, tokens,
piece sizes and replies. The encoded answer is known symbol by symbol (`IsText`): event j + 1
starts after j times three symbols, or five with CR LF. A place in it is a number of events
and of symbols of the next one; `At` says what the page and the parser's buffer are there:
the attached reply is the last message and shows the tokens of the events so far
(`PageAfter`), and the buffer is one of the texts that the symbols since can have become
(`Held`; of a CR LF that came in two pieces both symbols are left). One more symbol of a piece
leads to the next place (`StepAt`), because the loops of `push` take a piece symbol by symbol
(`PieceMore`: a line feed that is joined to its carriage return replaces it), so a piece leads
to a later place and the wire holds what follows (`ReadAt`, `Left`). Between pieces the place
after the CR of an event's second line break is excluded: the parser would take the LF that
follows for another line, and `SplitBreak` has marked the reply as hurt (`SplitNoticed`).
The rest of `PageInv` is what the page does meanwhile: only the attached reply is posted or
read (`PageFlow`), a hurt one writes into the last message only, which is its own
(`Writes`), and a thread is replaced while a reply is attached only at that reply's cost
(`ThreadFit`).
`PageTyped` (`PageTypeOK`): the page's address and what it shows, loads and streams into are
conversations or nothing (`PageLinks`). What could break it is the event that names the
conversation of a reply: the parser must never join it with a part of another event. It is
the first one, so if it is still to be read, it is at the front of the wire (`MetaFirst`), and
the block the parser takes it from begins and ends with it.

**`DataLemmas`.** The library states induction of a predicate, which the installed provers
cannot instantiate. Stated of a set of numbers instead (`Induct`, from the library's
`NatLessThanWellFounded`: were a number missing, take the least), they can cite it. From it
follow that folds and functions defined by recursion on a number exist and satisfy their equations
(`FoldExists`, `RecursionExists`), which is how `FoldLeft` in `AgentRun`, `Conversations` and
`ChatPage` and `Filter` are reasoned about, and what the proofs need of the least and greatest of a set
and of joined and extended sequences.

Only model-checked:

* Liveness (`SlotsComeBack`, `ReviewsEnd`), which the prover's backends cannot derive from
  fairness; `RunsShorten` proves the part of the second that is not about fairness.
* That the runs' counterexamples exist: `quota_cap` and the five others are behaviours of
  small instances, not statements for every value of the constants.

## 5. Not modelled

* A `StreamingResponse` that the server never starts to iterate: whether the generator's
  `finally` then runs is up to the ASGI server.
* Hashing, JWT encoding, embedding, HTTP to the model servers: computation or I/O without
  state of their own. What a search over vectors of two embedders returns is a question of
  distances.
* `InMemoryRateLimiter`, which only the tests use; the evaluation scripts; the deployment
  files and the schema, whose foreign keys and defaults are in the actions that rely on them.
* The estimate of tokens a provider did not report, keep-alive comments of the stream, titles
  and lists of conversations, review profiles: they decide nothing a property speaks of.
* Sessions of several browsers of one user, expired refresh rows, disabled accounts; a
  settings file that is missing or broken; the shutdown.
* Rendering in the browser, and pages whose state does not outlive one request.

## 6. What could follow

1. The bookkeeping of `chat_event_stream` refined to the events of `AgentRun`, with the
   estimate of tokens, so that the cost of `ReviewQuota`'s usage row is the run's.
2. `RefreshTokens` with a second browser: a reuse in one revokes the other's session.
3. `StartsAsConfigured` for any settings file: the theorem is about any set of the listed
   variables, but the table of settings and of their texts is the module's own.
