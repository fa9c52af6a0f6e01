--------------------------- MODULE RefreshTokens ---------------------------
(***************************************************************************)
(* The rotation of one browser's refresh token: the tabs that share its    *)
(* cookie (frontend api/client.js) and POST /api/auth/refresh.  Each tab   *)
(* has at most one refresh in flight; a request carries the cookie of the  *)
(* moment it is sent; the server reads the token's row, then commits; the  *)
(* cookie changes when the response lands.  Time is in ticks that keep the *)
(* order of the program's delays: a retry's wait (750 ms) is shorter than  *)
(* REUSE_GRACE (20 s), which is shorter than an access token (15 min).     *)
(* The user is active and no row gets as old as its 14 days.  A tab signs  *)
(* out or in only while it has no refresh of its own under way.            *)
(***************************************************************************)
EXTENDS Integers, FiniteSets

CONSTANTS
    Tabs,
    Wait,           \* the pause before the one retry
    Grace,          \* REUSE_GRACE
    AccessLife,     \* how long an access token keeps a tab from refreshing
    Latency,        \* bound: the longest a request with its response takes
    MaxTokens,      \* bound: the tokens issued
    MaxLeaves,      \* bound: sign-outs
    MaxEntries,     \* bound: sign-ins
    RefreshHorizon  \* bound: the clock stops here

ASSUME TabsAssumption == IsFiniteSet(Tabs)
ASSUME TimesAssumption ==
    /\ Wait \in Nat \ {0} /\ Grace \in Nat /\ AccessLife \in Nat
    /\ Latency \in Nat \ {0} /\ MaxTokens \in Nat \ {0}
    /\ MaxLeaves \in Nat /\ MaxEntries \in Nat /\ RefreshHorizon \in Nat

VARIABLES
    instant,
    revoked,    \* refresh_tokens.revoked_at of each issued token
    issued,     \* the tokens handed out so far are 1..issued
    cookie,     \* the browser's ds_refresh cookie, or None
    tab,        \* of each tab: its refresh() promise
    request,    \* of each tab: its call of /api/auth
    network,    \* the worst so far: a response that took as long as a
                \* retry's wait is late, one that never landed is lost
    doubled,    \* history: rotations of a row that was revoked meanwhile
    session,    \* "off" after a sign-out was answered, until the next sign-in
    leaves, entries,    \* sign-outs and sign-ins so far
    crossed     \* history: a sign-out met another call of the browser

signVars == <<session, leaves, entries, crossed>>
refreshVars ==
    <<instant, revoked, issued, cookie, tab, request, network, doubled, signVars>>

Never == -1     \* revoked_at IS NULL
None == 0       \* no cookie
Tokens == 1..MaxTokens
Live(t) == t \in 1..issued /\ revoked[t] = Never

NoRequest == [stage |-> "none", token |-> None, at |-> 0]
Landing == {"ok", "refresh_raced", "refresh_reused", "no_refresh_token", "left"}

\* The tabs, other than b, that have a call under way / are signing out.
Calling(b) == {c \in Tabs \ {b} : tab[c].state \in {"sent", "leaving", "entering"}}
Leaving(b) == {c \in Tabs \ {b} : tab[c].state = "leaving"}

\* The tabs of a browser that is signed in wake up together.
RefreshInit ==
    /\ instant = 0
    /\ revoked = [t \in Tokens |-> Never]
    /\ issued = 1
    /\ cookie = 1
    /\ tab = [b \in Tabs |-> [state |-> "idle", since |-> 0, retried |-> FALSE]]
    /\ request = [b \in Tabs |-> NoRequest]
    /\ network = "prompt"
    /\ doubled = 0
    /\ session = "on" /\ leaves = 0 /\ entries = 0 /\ crossed = FALSE

-----------------------------------------------------------------------------
(* The tab: refresh(), refreshOnce(), login() and logout() *)

\* fetch() of an /api/auth endpoint, with the cookie of this moment.
Call(b, state, stage, retried) ==
    /\ tab' = [tab EXCEPT ![b] =
                  [state |-> state, since |-> instant, retried |-> retried]]
    /\ request' = [request EXCEPT
                      ![b] = [stage |-> stage, token |-> cookie, at |-> instant]]
    /\ crossed' = (crossed \/ (IF state = "leaving" THEN Calling(b)
                                                    ELSE Leaving(b)) # {})
    /\ UNCHANGED <<instant, revoked, issued, cookie, network, doubled, session>>

Send(b, retried) ==
    /\ Call(b, "sent", "read", retried)
    /\ UNCHANGED <<leaves, entries>>

\* There is no access token yet, or it has run out.
StartRefresh(b) ==
    /\ \/ tab[b].state = "idle"
       \/ tab[b].state = "fresh" /\ instant >= tab[b].since + AccessLife
    /\ Send(b, FALSE)

Retry(b) ==
    /\ tab[b].state = "waiting" /\ instant >= tab[b].since + Wait
    /\ Send(b, TRUE)

SignOut(b) ==
    /\ tab[b].state = "fresh" /\ leaves < MaxLeaves
    /\ Call(b, "leaving", "leave", FALSE)
    /\ leaves' = leaves + 1
    /\ UNCHANGED entries

SignIn(b) ==
    /\ tab[b].state = "signed-out" /\ entries < MaxEntries
    /\ Call(b, "entering", "enter", FALSE)
    /\ entries' = entries + 1
    /\ UNCHANGED leaves

\* What the answer does to the promise: the first refresh_raced is waited
\* out, any other failure loses the session, as does any end of a sign-out.
Settle(b, stage) ==
    tab' = [tab EXCEPT ![b] =
        [@ EXCEPT !.since = IF stage \in {"ok", "refresh_raced"} THEN instant ELSE 0,
                  !.state =
            CASE stage = "ok" -> "fresh"
              [] stage = "refresh_raced" /\ ~tab[b].retried -> "waiting"
              [] OTHER -> "signed-out"]]

\* The browser's cookie after the Set-Cookie of b's response.
Jar(b) ==
    CASE request[b].stage = "ok" -> request[b].token
      [] request[b].stage = "left" -> None
      [] OTHER -> cookie

\* Mutant of Land: the new token does not reach the cookie jar.
LandWithoutCookie(b) ==
    /\ request[b].stage \in Landing
    /\ Settle(b, request[b].stage)
    /\ session' = IF request[b].stage = "left" THEN "off" ELSE "on"
    /\ request' = [request EXCEPT ![b] = NoRequest]
    /\ UNCHANGED <<instant, revoked, issued, cookie, network, doubled,
                   leaves, entries, crossed>>

\* The response lands.
Land(b) ==
    /\ request[b].stage \in Landing
    /\ cookie' = Jar(b)
    /\ Settle(b, request[b].stage)
    /\ session' = CASE request[b].stage = "left" -> "off"
                    [] tab[b].state = "entering" -> "on"
                    [] OTHER -> session
    /\ request' = [request EXCEPT ![b] = NoRequest]
    /\ UNCHANGED <<instant, revoked, issued, network, doubled,
                   leaves, entries, crossed>>

\* The connection breaks before the request reaches the server, or before
\* the response lands: fetch() throws an error that has no code.  (Bound: one
\* call is lost.)
Lose(b) ==
    /\ network # "lossy"
    /\ request[b].stage \in {"read", "leave", "enter"} \union Landing
    /\ Settle(b, "network_error")
    /\ request' = [request EXCEPT ![b] = NoRequest]
    /\ network' = "lossy"
    /\ UNCHANGED <<instant, revoked, issued, cookie, doubled, signVars>>

\* The page is loaded again, and asks for an access token first of all.
Reload(b) ==
    /\ tab[b].state = "signed-out"
    /\ tab' = [tab EXCEPT ![b] = [@ EXCEPT !.state = "idle"]]
    /\ UNCHANGED <<instant, revoked, issued, cookie, request, network, doubled,
                   signVars>>

-----------------------------------------------------------------------------
(* The server: refresh(), login(), logout() and _issue_tokens() *)

\* Mutant of Answered: no grace.
AnsweredWithoutGrace(token) ==
    CASE token = None -> "no_refresh_token"
      [] Live(token) -> "rotate"
      [] OTHER -> "revoke"

\* What the presented token and its row lead to.
Answered(token) ==
    CASE token = None -> "no_refresh_token"
      [] Live(token) -> "rotate"
      [] token # None /\ ~Live(token) /\ instant - revoked[token] <= Grace ->
             "refresh_raced"
      [] OTHER -> "revoke"

\* The SELECT, and everything decided on the row it returned.
ReadToken(b) ==
    /\ request[b].stage = "read"
    /\ request' = [request EXCEPT ![b] =
           [@ EXCEPT !.at = instant, !.stage = Answered(request[b].token)]]
    /\ UNCHANGED <<instant, revoked, issued, cookie, tab, network, doubled, signVars>>

\* _issue_tokens(): a new row, and its token in the response.
Issue(b) ==
    /\ issued < MaxTokens
    /\ issued' = issued + 1
    /\ request' = [request EXCEPT ![b] =
                      [@ EXCEPT !.stage = "ok", !.token = issued + 1]]
    /\ UNCHANGED <<instant, cookie, tab, network, signVars>>

\* Mutant of Rotate: the presented token stays as it is.
RotateKeepingOld(b) ==
    /\ request[b].stage = "rotate"
    /\ Issue(b)
    /\ UNCHANGED <<revoked, doubled>>

\* One commit: the presented token is revoked, as of the moment it was read
\* and whatever happened to it since, and the new token is stored.
Rotate(b) ==
    /\ request[b].stage = "rotate"
    /\ revoked' = [revoked EXCEPT ![request[b].token] = request[b].at]
    /\ doubled' = IF Live(request[b].token) THEN doubled ELSE doubled + 1
    /\ Issue(b)

\* A token presented after the grace revokes every session of the user.
RevokeAll(b) ==
    /\ request[b].stage = "revoke"
    /\ revoked' = [t \in Tokens |-> IF Live(t) THEN request[b].at
                                    ELSE revoked[t]]
    /\ request' = [request EXCEPT ![b].stage = "refresh_reused"]
    /\ UNCHANGED <<instant, issued, cookie, tab, network, doubled, signVars>>

\* The password is right: nothing but the new row changes.
Login(b) ==
    /\ request[b].stage = "enter"
    /\ Issue(b)
    /\ UNCHANGED <<revoked, doubled>>

\* Mutant of Logout: only the cookie goes.
LogoutKeepingRow(b) ==
    /\ request[b].stage = "leave"
    /\ request' = [request EXCEPT ![b].stage = "left"]
    /\ UNCHANGED <<instant, revoked, issued, cookie, tab, network, doubled, signVars>>

\* The presented token is revoked unless it already was; the response
\* deletes the cookie whichever it carries by then.
Logout(b) ==
    /\ request[b].stage = "leave"
    /\ revoked' = [t \in Tokens |-> IF t = request[b].token /\ Live(t)
                                    THEN instant ELSE revoked[t]]
    /\ request' = [request EXCEPT ![b].stage = "left"]
    /\ UNCHANGED <<instant, issued, cookie, tab, network, doubled, signVars>>

\* No request takes longer than Latency; a tab retries as soon as it may.
RefreshTick ==
    /\ instant < RefreshHorizon
    /\ \A b \in Tabs :
          /\ tab[b].state \in {"sent", "leaving", "entering"} =>
                 instant < tab[b].since + Latency
          /\ tab[b].state = "waiting" => instant < tab[b].since + Wait
    /\ instant' = instant + 1
    /\ network' = IF /\ network = "prompt"
                     /\ \E b \in Tabs : /\ tab[b].state = "sent"
                                       /\ instant' >= tab[b].since + Wait
                  THEN "slow" ELSE network
    /\ UNCHANGED <<revoked, issued, cookie, tab, request, doubled, signVars>>

\* A bound is reached.
RefreshStopped ==
    /\ instant = RefreshHorizon \/ issued = MaxTokens
    /\ UNCHANGED refreshVars

ServerStep(b) ==
    ReadToken(b) \/ Rotate(b) \/ RevokeAll(b) \/ Login(b) \/ Logout(b)

RefreshNext ==
    \/ \E b \in Tabs :
          \/ StartRefresh(b) \/ Retry(b) \/ SignOut(b) \/ SignIn(b)
          \/ Land(b) \/ Lose(b) \/ Reload(b) \/ ServerStep(b)
    \/ RefreshTick \/ RefreshStopped

RefreshSpec == RefreshInit /\ [][RefreshNext]_refreshVars

-----------------------------------------------------------------------------
(* Properties *)

\* The values the database columns, the cookie and the promises take.
RefreshTypeOK ==
    /\ instant \in 0..RefreshHorizon
    /\ revoked \in [Tokens -> Never..RefreshHorizon]
    /\ issued \in Tokens /\ cookie \in 0..issued
    /\ tab \in [Tabs -> [state : {"idle", "sent", "waiting", "fresh", "leaving",
                                  "entering", "signed-out"},
                         since : 0..instant, retried : BOOLEAN]]
    /\ network \in {"prompt", "slow", "lossy"} /\ doubled \in Nat
    /\ session \in {"on", "off"} /\ crossed \in BOOLEAN
    /\ leaves \in 0..MaxLeaves /\ entries \in 0..MaxEntries
    /\ \A b \in Tabs :
          /\ request[b].stage \in {"none", "read", "rotate", "revoke", "leave",
                                   "enter"} \union Landing
          /\ request[b].token \in 0..issued /\ request[b].at \in 0..instant
          /\ (request[b].stage = "none") <=>
                 (tab[b].state \notin {"sent", "leaving", "entering"})

\* architecture.md, "Auth": the tab that comes second waits a moment and
\* retries with the cookie the other one just received, so neither tab is
\* signed out -- as long as nobody signs out and every response lands within
\* that moment.  It is a promise to two tabs: a third one may rotate the new
\* cookie just before the retry presents it, and there is no second retry.
NoTabSignedOut ==
    network = "prompt" /\ leaves = 0 =>
        \A b \in Tabs : tab[b].state # "signed-out"

\* When no call is under way the browser of a user who is signed in holds a
\* token it can go on with, whichever of its tabs rotated the row last and in
\* whatever order the responses (and their Set-Cookie) landed, if all of them
\* did and no sign-out overlapped another call.
CookieUsable ==
    /\ network # "lossy" /\ session = "on" /\ ~crossed
    /\ \A b \in Tabs : tab[b].state \in {"idle", "fresh", "signed-out"}
    => Live(cookie)

\* The tokens that open a session multiply only where two refreshes read the
\* same row before either of them commits, and with a sign-in: neither lost
\* responses nor reloads nor reuse, within the grace or after it, add one.
LiveTokensBounded ==
    Cardinality({t \in Tokens : Live(t)}) <= 1 + doubled + entries

\* After a sign-out that was answered and that overlapped no other call of
\* the browser, and until someone signs in, no tab gets a session back: there
\* is no cookie to refresh with and, unless rotations had doubled the tokens,
\* no token that would still work.  (A refresh that overlaps the sign-out
\* does bring the session back.)
SignedOutStaysOut ==
    session = "off" /\ ~crossed /\ network # "lossy" =>
        /\ cookie = None \/ \E b \in Tabs : tab[b].state = "entering"
        /\ doubled = 0 /\ entries = 0 => \A t \in Tokens : ~Live(t)
=============================================================================
