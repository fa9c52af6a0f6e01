------------------------------ MODULE Gateway ------------------------------
(***************************************************************************)
(* The gateway: what it decides on a request before a service sees it, and *)
(* on which budgets requests draw within the windows of the rate limiter.  *)
(* The limiter itself is RateLimit; here it is a counter for each key,     *)
(* cleared when its window ends.  A path is the sequence of its segments.  *)
(***************************************************************************)
EXTENDS Integers, Sequences, FiniteSets, SequencesExt

CONSTANTS
    Addresses,      \* the addresses of clients and of the proxy
    Proxy,          \* the proxy's
    Users, Emails,
    Limits,         \* a record: the limits of auth, login_account, agent, default
    LimiterOpen,    \* rate_limit_fail_open
    MaxRequests,    \* bound: requests in a minute, and sign-ins in 15
    MaxDown         \* bound: hits in these windows that Redis does not answer

ASSUME GatewayAssumption ==
    /\ Proxy \in Addresses /\ Addresses \cap Users = {}
    /\ Limits \in [{"auth", "login_account", "agent", "default"} -> Nat]
    /\ LimiterOpen \in BOOLEAN /\ MaxRequests \in Nat /\ MaxDown \in Nat

VARIABLES
    deployment, \* direct, or behind a proxy that overwrites or appends
    counts,     \* the limiter's keys -> how often each was hit
    asked,      \* budget -> requests that drew on it
    let,        \* budget -> those that got past the limiter
    turned,     \* the budgets on which somebody got a 429
    missed,     \* budget -> those for which the limiter got no answer of Redis
    waiting,    \* email -> sign-ins between the gateway and _throttle_account
    answer      \* the status of the last response; 200 for any of a service

gatewayVars == <<deployment, counts, asked, let, turned, missed, waiting, answer>>

GatewayInit ==
    /\ deployment \in {"direct", "overwrites", "appends"}
    /\ counts = <<>>
    /\ asked = <<>> /\ let = <<>> /\ missed = <<>> /\ turned = {}
    /\ waiting = [e \in Emails |-> 0]
    /\ answer = 200

-----------------------------------------------------------------------------
(* The route table *)

Route(prefix, public, bucket) ==
    [prefix |-> prefix, public |-> public, bucket |-> bucket]

Routes == {
    Route(<<"api", "health">>, TRUE, "default"),
    Route(<<"api", "auth">>, TRUE, "auth"),
    Route(<<"api", "auth", "refresh">>, TRUE, "default"),
    Route(<<"api", "auth", "logout">>, TRUE, "default"),
    Route(<<"api", "app">>, FALSE, "default"),
    Route(<<"api", "agent">>, FALSE, "agent"),
    Route(<<"api", "billing">>, FALSE, "default") }

Matching(path) == {r \in Routes : IsPrefix(r.prefix, path)}

\* Mutant of MatchRoute: the shortest prefix wins.
MatchRouteShortest(path) ==
    {r \in Matching(path) : \A s \in Matching(path) :
                               Len(s.prefix) >= Len(r.prefix)}

\* match_route: the longest prefix wins; none is a 404.
MatchRoute(path) ==
    {r \in Matching(path) : \A s \in Matching(path) :
                               Len(s.prefix) <= Len(r.prefix)}

AgentMayCall(method, path) ==
    <<method, path>> \in {<<"GET", <<"api", "app", "documents", "search">>>>,
                          <<"GET", <<"api", "app", "reviews", "recent">>>>}

-----------------------------------------------------------------------------
(* The requests *)

\* Some of what browsers, the agent and strangers ask for.
Endpoints == {
    <<"GET", <<"api", "health">>>>,
    <<"POST", <<"api", "auth", "login">>>>,
    <<"POST", <<"api", "auth", "refresh">>>>,
    <<"GET", <<"api", "app", "documents", "search">>>>,
    <<"DELETE", <<"api", "app", "sessions", "1">>>>,
    <<"POST", <<"api", "agent", "chat">>>>,
    <<"OPTIONS", <<"api", "agent", "chat">>>>,
    <<"GET", <<"api", "applesauce">>>> }
RouteOf == [call \in Endpoints |-> MatchRoute(call[2])]

Bearer(scope, u) == [scope |-> scope, user |-> u]
Bearers == {Bearer(scope, u) : scope \in {"user", "agent"}, u \in Users}
    \cup {Bearer(scope, "nobody") : scope \in {"none", "broken"}}

\* X-Forwarded-For as the client writes it and as the server gets it.
Written == {<<>>} \cup {<<a>> : a \in Addresses \ {Proxy}}
Forwarded(q) ==
    CASE deployment = "direct"     -> q.written
      [] deployment = "overwrites" -> <<q.from>>
      [] deployment = "appends"    -> Append(q.written, q.from)
Peer(q) == IF deployment = "direct" THEN q.from ELSE Proxy

\* trust_proxy_headers is set when, and only when, there is a proxy.
ClientIP(q) ==
    IF deployment # "direct" /\ Forwarded(q) # <<>>
    THEN Last(Forwarded(q)) ELSE Peer(q)

\* Mutant of Subject: tool calls and browser share a key.
SubjectOfUser(q, route) ==
    IF route.public THEN <<"ip", ClientIP(q)>> ELSE <<"u", q.token.user>>

Subject(q, route) ==
    CASE route.public            -> <<"ip", ClientIP(q)>>
      [] ~ route.public /\ q.token.scope = "agent" -> <<"a", q.token.user>>
      [] OTHER                   -> <<"u", q.token.user>>

-----------------------------------------------------------------------------
(* Budgets: who may make how many requests, in the words of the documents *)

Budget(kind, whose) == [kind |-> kind, whose |-> whose]
IsLogin(q) == q.call[2] = <<"api", "auth", "login">>

BudgetOf(q) ==
    IF q.call[2][2] \in {"auth", "health"}
    THEN Budget(IF IsLogin(q) THEN "auth" ELSE "default", q.from)
    ELSE Budget(CASE q.token.scope = "agent" -> "tools"
                  [] q.token.scope # "agent" /\ q.call[2][2] = "agent" -> "agent"
                  [] OTHER -> "default", q.token.user)
AccountOf(email) == Budget("login_account", email)

LimitOf(b) == IF b.kind = "tools" THEN Limits["default"] ELSE Limits[b.kind]

At(f, x) == IF x \in DOMAIN f THEN f[x] ELSE 0
Add(f, x) ==
    [y \in DOMAIN f \cup {x} |-> IF y = x THEN At(f, y) + 1 ELSE f[y]]

-----------------------------------------------------------------------------
(* The steps.  Requests that the gateway answers by itself count nowhere.  *)

AnswerEarly(q) ==
    /\ LET routes == RouteOf[q.call]
       IN  \/ routes = {} /\ answer' = 404
           \/ routes # {} /\ q.call[1] = "OPTIONS" /\ answer' = 200
           \/ /\ q.call[1] # "OPTIONS"
              /\ \E r \in routes :
                    /\ ~ r.public
                    /\ \/ /\ q.token.scope \in {"none", "broken"}
                          /\ answer' = 401
                       \/ /\ q.token.scope = "agent"
                          /\ ~ AgentMayCall(q.call[1], q.call[2])
                          /\ answer' = 403
    /\ UNCHANGED <<deployment, counts, asked, let, turned, missed, waiting>>

\* The route of a request that gets as far as the limiter.
CountedRoutes(q) ==
    {r \in RouteOf[q.call] :
        /\ q.call[1] # "OPTIONS"
        /\ \/ r.public
           \/ q.token.scope = "user"
           \/ q.token.scope = "agent" /\ AgentMayCall(q.call[1], q.call[2])}

Total(f, B) == FoldSet(LAMBDA b, n : n + f[b], 0, B)
WithinBounds(q) ==
    /\ Total(asked, {b \in DOMAIN asked : b.kind # "login_account"}) < MaxRequests
    /\ IsLogin(q) =>
          At(asked, AccountOf(q.email)) + waiting[q.email] < MaxRequests

\* A request draws on a budget by a hit of the limiter's key.  Redis answers
\* with the count; or the limiter gets no answer, whether or not Redis
\* counted the hit.  The request passes (200), or its response is an error.
Draw(b, key, limit, status) ==
    /\ asked' = Add(asked, b)
    /\ let' = IF status = 200 THEN Add(let, b) ELSE let
    /\ \/ /\ counts' = Add(counts, key)
          /\ IF counts'[key] > limit
             THEN status = 429 /\ turned' = turned \cup {b}
             ELSE status = 200 /\ UNCHANGED turned
          /\ UNCHANGED missed
       \/ /\ Total(missed, DOMAIN missed) < MaxDown
          /\ missed' = Add(missed, b)
          /\ counts' \in {counts, Add(counts, key)}
          /\ status = IF LimiterOpen THEN 200 ELSE 503
          /\ UNCHANGED turned
    /\ UNCHANGED deployment

\* The gateway's hit.  A sign-in that passes has its account's still to make;
\* any other request that passes is answered by its service.
CountRequest(q) ==
    \E r \in CountedRoutes(q), status \in {200, 429, 503} :
        /\ WithinBounds(q)
        /\ Draw(BudgetOf(q), <<r.bucket, Subject(q, r)>>, Limits[r.bucket], status)
        /\ IF status = 200 /\ IsLogin(q)
           THEN /\ waiting' = [waiting EXCEPT ![q.email] = @ + 1]
                /\ UNCHANGED answer
           ELSE answer' = status /\ UNCHANGED waiting

\* _throttle_account: a sign-in is counted for the account it names as well,
\* by a call of Redis of its own.
ThrottleAccount(email) ==
    \E status \in {200, 429, 503} :
        /\ waiting[email] > 0
        /\ waiting' = [waiting EXCEPT ![email] = @ - 1]
        /\ Draw(AccountOf(email), <<"login_account", email>>,
                Limits["login_account"], status)
        /\ answer' = status

\* A minute ends, or a quarter of an hour and its last minute.
NewWindow ==
    \E ends \in {{"auth", "agent", "default", "tools"},
                 {"auth", "agent", "default", "tools", "login_account"}} :
        LET Kept(f) == Restrict(f, {b \in DOMAIN f : b.kind \notin ends})
        IN  /\ counts' = Restrict(counts, {k \in DOMAIN counts :
                                              k[1] \notin ends})
            /\ asked' = Kept(asked)
            /\ let' = Kept(let)
            /\ missed' = Kept(missed)
            /\ turned' = {b \in turned : b.kind \notin ends}
            /\ UNCHANGED <<deployment, waiting, answer>>

\* Who needs no token sends none, only who signs in forges an address, and
\* where a token comes from makes no difference.
Public(q) == \A r \in RouteOf[q.call] : r.public
Queries ==
    {q \in [call : Endpoints, token : Bearers, from : Addresses \ {Proxy},
            written : Written, email : Emails] :
        /\ Public(q) => q.token.scope = "none"
        /\ q.written # <<>> => q.call[1] = "POST" /\ Public(q)
        /\ ~ Public(q) => q.from = CHOOSE a \in Addresses \ {Proxy} : TRUE}

GatewayNext ==
    \/ \E q \in Queries : AnswerEarly(q) \/ CountRequest(q)
    \/ \E email \in Emails : ThrottleAccount(email)
    \/ NewWindow

GatewaySpec == GatewayInit /\ [][GatewayNext]_gatewayVars

-----------------------------------------------------------------------------
(* Properties *)

\* The budgets and keys are counted in natural numbers.
GatewayTypeOK ==
    /\ \A k \in DOMAIN counts : k[1] \in DOMAIN Limits /\ counts[k] \in Nat
    /\ DOMAIN let \subseteq DOMAIN asked /\ turned \subseteq DOMAIN asked
    /\ DOMAIN missed \subseteq DOMAIN asked
    /\ \A b \in DOMAIN asked :
          At(let, b) <= asked[b] /\ At(missed, b) <= asked[b]
    /\ waiting \in [Emails -> Nat]
    /\ answer \in {200, 401, 403, 404, 429, 503}

\* The budgets of the documents are kept and kept apart, whatever clients
\* write into their headers and whoever shares an address, a user or an
\* account: nobody gets more than a budget allows, but for those of its own
\* requests that the limiter had to pass without an answer of Redis - an
\* unanswered hit of an address lets no sign-in past its account's limit; and
\* nobody is refused before that very budget was used up - a refresh not for
\* sign-ins, a browser not for tool calls.
BudgetsKept ==
    /\ \A b \in DOMAIN let :
          let[b] <= LimitOf(b) + (IF LimiterOpen THEN At(missed, b) ELSE 0)
    /\ \A b \in turned : asked[b] > LimitOf(b)
=============================================================================
