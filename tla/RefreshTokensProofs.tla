------------------------ MODULE RefreshTokensProofs ------------------------
(***************************************************************************)
(* Proofs about RefreshTokens, for every finite set of tabs and all delays *)
(* and bounds.                                                             *)
(***************************************************************************)
EXTENDS RefreshTokens, FiniteSetTheorems, TLAPS

Stages == {"none", "read", "rotate", "revoke", "leave", "enter"} \union Landing

RefreshTypes ==
    /\ instant \in Nat /\ issued \in Nat /\ cookie \in Nat
    /\ revoked \in [Tokens -> Int]
    /\ request \in [Tabs -> [stage : Stages, token : Nat, at : Nat]]
    /\ doubled \in Nat /\ entries \in Nat

LiveSet == {t \in Tokens : Live(t)}
Entering == {b \in Tabs : request[b].stage = "enter"}

\* A token that lives was there from the start, came from a double rotation or
\* from a sign-in; a sign-in under way has not yet had its token.
TokensOwed == Cardinality(LiveSet) + Cardinality(Entering) <= 1 + doubled + entries

RefreshInv == RefreshTypes /\ TokensOwed

-----------------------------------------------------------------------------
(* Counting *)

\* The sets that are counted are finite.
LEMMA Counts ==
    /\ IsFiniteSet(LiveSet) /\ Cardinality(LiveSet) \in Nat
    /\ IsFiniteSet(Entering) /\ Cardinality(Entering) \in Nat
<1>1. IsFiniteSet(Tokens)
  BY FS_Interval, TimesAssumption DEF Tokens
<1>2. IsFiniteSet(LiveSet)
  BY <1>1, FS_Subset DEF LiveSet
<1>3. IsFiniteSet(Entering)
  BY TabsAssumption, FS_Subset DEF Entering
<1> QED BY <1>2, <1>3, FS_CardinalityType

\* A subset has no more elements.
LEMMA Fewer ==
    ASSUME NEW S, NEW T, IsFiniteSet(S), T \subseteq S
    PROVE  IsFiniteSet(T) /\ Cardinality(T) \in Nat /\ Cardinality(T) <= Cardinality(S)
BY FS_Subset, FS_CardinalityType

\* One element is added at most.
LEMMA OneMore ==
    ASSUME NEW S, NEW T, NEW x, IsFiniteSet(S), T \subseteq S \cup {x}
    PROVE  Cardinality(T) \in Nat /\ Cardinality(T) <= Cardinality(S) + 1
<1>1. IsFiniteSet(S \cup {x}) /\ Cardinality(S) \in Nat
      /\ Cardinality(S \cup {x}) \in Nat /\ Cardinality(S \cup {x}) <= Cardinality(S) + 1
  BY FS_AddElement, FS_CardinalityType
<1> QED BY <1>1, Fewer

\* One element is taken away at least.
LEMMA OneLess ==
    ASSUME NEW S, NEW T, NEW x \in S, IsFiniteSet(S), T \subseteq S \ {x}
    PROVE  Cardinality(T) \in Nat /\ Cardinality(T) + 1 <= Cardinality(S)
<1>1. IsFiniteSet(S \ {x}) /\ Cardinality(S) \in Nat
      /\ Cardinality(S \ {x}) \in Nat /\ Cardinality(S \ {x}) = Cardinality(S) - 1
  BY FS_RemoveElement, FS_CardinalityType
<1> QED BY <1>1, Fewer

\* Nothing is added by a step that issues nothing and lets nobody in.
LEMMA NoneAdded ==
    ASSUME RefreshInv, RefreshTypes', LiveSet' \subseteq LiveSet,
           Entering' \subseteq Entering, doubled' = doubled, entries' >= entries
    PROVE  RefreshInv'
<1>1. /\ Cardinality(LiveSet') \in Nat /\ Cardinality(LiveSet') <= Cardinality(LiveSet)
      /\ Cardinality(Entering') \in Nat /\ Cardinality(Entering') <= Cardinality(Entering)
  BY Counts, Fewer
<1> QED BY <1>1, Counts DEF RefreshInv, TokensOwed, RefreshTypes

-----------------------------------------------------------------------------
(* The steps *)

\* A step that keeps the rows.
LEMMA RowsStay ==
    ASSUME UNCHANGED <<revoked, issued>>
    PROVE  LiveSet' = LiveSet
BY DEF LiveSet, Live

\* One request that changes.
LEMMA RequestStep ==
    ASSUME RefreshTypes, NEW b \in Tabs,
           NEW r \in [stage : Stages, token : Nat, at : Nat],
           request' = [request EXCEPT ![b] = r]
    PROVE  /\ request' \in [Tabs -> [stage : Stages, token : Nat, at : Nat]]
           /\ r.stage # "enter" => Entering' = Entering \ {b}
           /\ Entering' \subseteq Entering \cup {b}
BY DEF RefreshTypes, Entering

LEMMA SendKeeps ==
    ASSUME RefreshInv, NEW b \in Tabs, StartRefresh(b) \/ Retry(b) \/ SignOut(b)
    PROVE  RefreshInv'
<1>1. PICK stage \in {"read", "leave"} :
          request' = [request EXCEPT ![b] =
                         [stage |-> stage, token |-> cookie, at |-> instant]]
  BY DEF StartRefresh, Retry, SignOut, Send, Call
<1>2. UNCHANGED <<instant, revoked, issued, cookie, doubled, entries>>
  BY DEF StartRefresh, Retry, SignOut, Send, Call
<1> DEFINE r == [stage |-> stage, token |-> cookie, at |-> instant]
<1>3. r \in [stage : Stages, token : Nat, at : Nat] /\ r.stage # "enter"
  BY DEF RefreshInv, RefreshTypes, Stages
<1> HIDE DEF r
<1>4. RefreshTypes' /\ Entering' \subseteq Entering
  <2>1. request' = [request EXCEPT ![b] = r]
    BY <1>1 DEF r
  <2> QED BY <1>2, <1>3, <2>1, RequestStep DEF RefreshInv, RefreshTypes
<1> QED BY <1>2, <1>4, RowsStay, NoneAdded DEF RefreshInv, RefreshTypes

LEMMA SignInKeeps ==
    ASSUME RefreshInv, NEW b \in Tabs, SignIn(b)
    PROVE  RefreshInv'
<1> DEFINE r == [stage |-> "enter", token |-> cookie, at |-> instant]
<1>1. request' = [request EXCEPT ![b] = r] /\ entries' = entries + 1
      /\ UNCHANGED <<instant, revoked, issued, cookie, doubled>>
  BY DEF SignIn, Call
<1>2. r \in [stage : Stages, token : Nat, at : Nat]
  BY DEF RefreshInv, RefreshTypes, Stages
<1> HIDE DEF r
<1>3. RefreshTypes' /\ Entering' \subseteq Entering \cup {b}
  <2>1. /\ request' \in [Tabs -> [stage : Stages, token : Nat, at : Nat]]
        /\ Entering' \subseteq Entering \cup {b}
    BY <1>1, <1>2, RequestStep DEF RefreshInv
  <2> QED BY <1>1, <2>1 DEF RefreshInv, RefreshTypes
<1>4. Cardinality(Entering') \in Nat /\ Cardinality(Entering') <= Cardinality(Entering) + 1
  BY <1>3, Counts, OneMore
<1>5. LiveSet' = LiveSet
  BY <1>1, RowsStay
<1> QED BY <1>1, <1>3, <1>4, <1>5, Counts DEF RefreshInv, TokensOwed, RefreshTypes

LEMMA AnswerKeeps ==
    ASSUME RefreshInv, NEW b \in Tabs, Land(b) \/ Lose(b)
    PROVE  RefreshInv'
<1>1. /\ request' = [request EXCEPT ![b] = NoRequest]
      /\ UNCHANGED <<instant, revoked, issued, doubled, entries>>
      /\ cookie' \in {cookie, None, request[b].token}
  BY DEF Land, Lose, Jar, signVars
<1>2. NoRequest \in [stage : Stages, token : Nat, at : Nat] /\ NoRequest.stage # "enter"
  BY DEF NoRequest, Stages, None
<1>3. request[b].token \in Nat /\ None \in Nat
  BY DEF RefreshInv, RefreshTypes, None
<1> HIDE DEF NoRequest
<1>4. RefreshTypes' /\ Entering' \subseteq Entering
  BY <1>1, <1>2, <1>3, RequestStep DEF RefreshInv, RefreshTypes
<1> QED BY <1>1, <1>4, RowsStay, NoneAdded DEF RefreshInv, RefreshTypes

LEMMA ReadKeeps ==
    ASSUME RefreshInv, NEW b \in Tabs, ReadToken(b)
    PROVE  RefreshInv'
<1> DEFINE stage == Answered(request[b].token)
           r == [request[b] EXCEPT !.at = instant, !.stage = stage]
<1>1. request' = [request EXCEPT ![b] = r]
      /\ UNCHANGED <<instant, revoked, issued, cookie, doubled, entries>>
  BY DEF ReadToken, signVars
<1>2. stage \in {"no_refresh_token", "rotate", "refresh_raced", "revoke"}
  BY DEF Answered
<1> HIDE DEF stage
<1>3. r \in [stage : Stages, token : Nat, at : Nat] /\ r.stage # "enter"
  BY <1>2 DEF RefreshInv, RefreshTypes, Stages, Landing
<1> HIDE DEF r
<1>4. RefreshTypes' /\ Entering' \subseteq Entering
  BY <1>1, <1>3, RequestStep DEF RefreshInv, RefreshTypes
<1> QED BY <1>1, <1>4, RowsStay, NoneAdded DEF RefreshInv, RefreshTypes

\* A commit that revokes one row, or every live one, or none, and issues none.
LEMMA RevokeKeeps ==
    ASSUME RefreshInv, NEW b \in Tabs, RevokeAll(b) \/ Logout(b)
    PROVE  RefreshInv'
<1>1. PICK stage \in Landing, at \in {instant, request[b].at}, Gone \in SUBSET Tokens :
          /\ request' = [request EXCEPT ![b].stage = stage]
          /\ revoked' = [t \in Tokens |-> IF t \in Gone THEN at ELSE revoked[t]]
  <2>1. CASE RevokeAll(b)
    <3>1. revoked' = [t \in Tokens |-> IF t \in LiveSet THEN request[b].at ELSE revoked[t]]
      BY <2>1 DEF RevokeAll, LiveSet
    <3> QED BY <2>1, <3>1 DEF RevokeAll, LiveSet, Landing
  <2>2. CASE Logout(b)
    <3> DEFINE Gone == {t \in LiveSet : t = request[b].token}
    <3>1. revoked' = [t \in Tokens |-> IF t \in Gone THEN instant ELSE revoked[t]]
      BY <2>2 DEF Logout, LiveSet
    <3> QED BY <2>2, <3>1 DEF Logout, LiveSet, Landing
  <2> QED BY <2>1, <2>2
<1>2. UNCHANGED <<instant, issued, cookie, doubled, entries>>
  BY DEF RevokeAll, Logout, signVars
<1> DEFINE r == [request[b] EXCEPT !.stage = stage]
<1>3. r \in [stage : Stages, token : Nat, at : Nat] /\ r.stage # "enter"
  BY <1>1 DEF RefreshInv, RefreshTypes, Stages, Landing
<1>4. request' = [request EXCEPT ![b] = r]
  BY <1>1 DEF RefreshInv, RefreshTypes
<1> HIDE DEF r
<1>5. at \in Nat
  BY <1>1 DEF RefreshInv, RefreshTypes
<1>6. revoked' \in [Tokens -> Int] /\ LiveSet' \subseteq LiveSet
  BY <1>1, <1>2, <1>5 DEF RefreshInv, RefreshTypes, LiveSet, Live, Never
<1>7. RefreshTypes' /\ Entering' \subseteq Entering
  BY <1>2, <1>3, <1>4, <1>6, RequestStep DEF RefreshInv, RefreshTypes
<1> QED BY <1>2, <1>6, <1>7, NoneAdded DEF RefreshInv, RefreshTypes

\* A new row, and the request that carries its token.
LEMMA IssueStep ==
    ASSUME RefreshInv, NEW b \in Tabs, Issue(b)
    PROVE  /\ request' \in [Tabs -> [stage : Stages, token : Nat, at : Nat]]
           /\ Entering' = Entering \ {b}
           /\ issued' = issued + 1 /\ UNCHANGED <<instant, cookie, entries>>
<1> DEFINE r == [request[b] EXCEPT !.stage = "ok", !.token = issued + 1]
<1>1. r \in [stage : Stages, token : Nat, at : Nat] /\ r.stage # "enter"
  <2>1. /\ request[b] \in [stage : Stages, token : Nat, at : Nat]
        /\ issued + 1 \in Nat
    BY DEF RefreshInv, RefreshTypes
  <2>2. "ok" \in Stages
    BY DEF Stages, Landing
  <2> QED BY <2>1, <2>2
<1>2. request' = [request EXCEPT ![b] = r]
  BY DEF Issue
<1> HIDE DEF r
<1>3. issued' = issued + 1 /\ UNCHANGED <<instant, cookie, entries>>
  BY DEF Issue, signVars
<1> QED BY <1>1, <1>2, <1>3, RequestStep DEF RefreshInv

LEMMA RotateKeeps ==
    ASSUME RefreshInv, NEW b \in Tabs, Rotate(b)
    PROVE  RefreshInv'
<1> DEFINE old == request[b].token
<1>1. /\ request' \in [Tabs -> [stage : Stages, token : Nat, at : Nat]]
      /\ Entering' = Entering \ {b}
      /\ issued' = issued + 1 /\ UNCHANGED <<instant, cookie, entries>>
  BY IssueStep DEF Rotate
<1>2. /\ revoked' = [revoked EXCEPT ![old] = request[b].at]
      /\ doubled' = IF Live(old) THEN doubled ELSE doubled + 1
  BY DEF Rotate
<1>3. request[b].at \in Nat /\ old \in Nat
  BY DEF RefreshInv, RefreshTypes
<1> HIDE DEF old
<1>4. RefreshTypes'
  <2>1. revoked' \in [Tokens -> Int]
    <3>1. revoked \in [Tokens -> Int] /\ request[b].at \in Int
      BY <1>3 DEF RefreshInv, RefreshTypes
    <3>2. revoked' = [revoked EXCEPT ![old] = request[b].at]
      BY <1>2
    <3> QED BY <3>1, <3>2
  <2>2. doubled' = doubled \/ doubled' = doubled + 1
    BY <1>2
  <2> QED BY <1>1, <2>1, <2>2 DEF RefreshInv, RefreshTypes
<1>5. LiveSet' \subseteq (LiveSet \ {old}) \cup {issued + 1}
  <2>1. \A t \in Tokens : revoked'[t] = IF t = old THEN request[b].at ELSE revoked[t]
    BY <1>2 DEF RefreshInv, RefreshTypes
  <2>2. \A t \in 1..issued' : t \in 1..issued \/ t = issued + 1
    BY <1>1 DEF RefreshInv, RefreshTypes
  <2> QED BY <1>3, <2>1, <2>2 DEF LiveSet, Live, Never
<1>6. Cardinality(Entering') \in Nat /\ Cardinality(Entering') <= Cardinality(Entering)
  BY <1>1, Counts, Fewer
<1>7. CASE old \in LiveSet
  <2>1. doubled' = doubled
    BY <1>2, <1>7 DEF LiveSet
  <2>2. /\ Cardinality(LiveSet \ {old}) \in Nat
        /\ Cardinality(LiveSet \ {old}) + 1 <= Cardinality(LiveSet)
    BY <1>7, Counts, OneLess
  <2>3. IsFiniteSet(LiveSet \ {old})
    BY Counts, Fewer
  <2>4. /\ Cardinality(LiveSet') \in Nat
        /\ Cardinality(LiveSet') <= Cardinality(LiveSet \ {old}) + 1
    BY <1>5, <2>3, OneMore
  <2> QED BY <1>1, <1>4, <1>6, <2>1, <2>2, <2>4, Counts
          DEF RefreshInv, TokensOwed, RefreshTypes
<1>8. CASE old \notin LiveSet
  <2>1. 1..issued \subseteq Tokens
    BY TimesAssumption DEF Rotate, Issue, Tokens, RefreshInv, RefreshTypes
  <2>2. doubled' = doubled + 1
    BY <1>2, <1>8, <2>1 DEF LiveSet, Live
  <2>3. LiveSet' \subseteq LiveSet \cup {issued + 1}
    BY <1>5
  <2>4. Cardinality(LiveSet') \in Nat /\ Cardinality(LiveSet') <= Cardinality(LiveSet) + 1
    BY <2>3, Counts, OneMore
  <2> QED BY <1>1, <1>4, <1>6, <2>2, <2>4, Counts
          DEF RefreshInv, TokensOwed, RefreshTypes
<1> QED BY <1>7, <1>8

LEMMA LoginKeeps ==
    ASSUME RefreshInv, NEW b \in Tabs, Login(b)
    PROVE  RefreshInv'
<1>1. /\ request' \in [Tabs -> [stage : Stages, token : Nat, at : Nat]]
      /\ Entering' = Entering \ {b}
      /\ issued' = issued + 1 /\ UNCHANGED <<instant, cookie, entries>>
  BY IssueStep DEF Login
<1>2. UNCHANGED <<revoked, doubled>> /\ b \in Entering
  BY DEF Login, Entering
<1>3. RefreshTypes'
  BY <1>1, <1>2 DEF RefreshInv, RefreshTypes
<1>4. LiveSet' \subseteq LiveSet \cup {issued + 1}
  BY <1>1, <1>2 DEF RefreshInv, RefreshTypes, LiveSet, Live
<1>5. Cardinality(LiveSet') \in Nat /\ Cardinality(LiveSet') <= Cardinality(LiveSet) + 1
  BY <1>4, Counts, OneMore
<1>6. Cardinality(Entering') \in Nat /\ Cardinality(Entering') + 1 <= Cardinality(Entering)
  BY <1>1, <1>2, Counts, OneLess
<1> QED BY <1>1, <1>2, <1>3, <1>5, <1>6, Counts DEF RefreshInv, TokensOwed, RefreshTypes

LEMMA QuietKeeps ==
    ASSUME RefreshInv,
           RefreshTick \/ RefreshStopped \/ (\E b \in Tabs : Reload(b))
               \/ UNCHANGED refreshVars
    PROVE  RefreshInv'
<1>1. UNCHANGED <<revoked, issued, cookie, request, doubled, entries>>
      /\ instant' \in {instant, instant + 1}
  BY DEF RefreshTick, RefreshStopped, Reload, refreshVars, signVars
<1>2. RefreshTypes' /\ Entering' = Entering
  BY <1>1 DEF RefreshInv, RefreshTypes, Entering
<1> QED BY <1>1, <1>2, RowsStay, NoneAdded DEF RefreshInv, RefreshTypes

-----------------------------------------------------------------------------
(* The theorem *)

LEMMA RefreshStarts == RefreshInit => RefreshInv
<1> SUFFICES ASSUME RefreshInit PROVE RefreshInv
  OBVIOUS
<1>1. NoRequest \in [stage : Stages, token : Nat, at : Nat] /\ NoRequest.stage # "enter"
  BY DEF NoRequest, Stages, None
<1>2. RefreshTypes
  BY <1>1 DEF RefreshInit, RefreshTypes, Never
<1>3. Entering = {} /\ LiveSet \subseteq {1}
  <2>1. \A b \in Tabs : request[b].stage # "enter"
    BY <1>1 DEF RefreshInit
  <2>2. LiveSet \subseteq 1..1
    BY DEF LiveSet, Live, RefreshInit
  <2> QED BY <2>1, <2>2 DEF Entering
<1>4. Cardinality(Entering) = 0 /\ Cardinality(LiveSet) <= 1
  <2>1. IsFiniteSet({}) /\ Cardinality({}) = 0
    BY FS_EmptySet
  <2>2. LiveSet \subseteq {} \cup {1}
    BY <1>3
  <2>3. Cardinality(LiveSet) <= Cardinality({}) + 1
    BY <2>1, <2>2, OneMore
  <2> QED BY <1>3, <2>1, <2>3
<1> QED BY <1>2, <1>4, Counts DEF RefreshInit, RefreshInv, TokensOwed

LEMMA RefreshSteps == RefreshInv /\ [RefreshNext]_refreshVars => RefreshInv'
<1> SUFFICES ASSUME RefreshInv, [RefreshNext]_refreshVars PROVE RefreshInv'
  OBVIOUS
<1>1. CASE \E b \in Tabs : StartRefresh(b) \/ Retry(b) \/ SignOut(b)
  BY <1>1, SendKeeps
<1>2. CASE \E b \in Tabs : SignIn(b)
  BY <1>2, SignInKeeps
<1>3. CASE \E b \in Tabs : Land(b) \/ Lose(b)
  BY <1>3, AnswerKeeps
<1>4. CASE \E b \in Tabs : ReadToken(b)
  BY <1>4, ReadKeeps
<1>5. CASE \E b \in Tabs : RevokeAll(b) \/ Logout(b)
  BY <1>5, RevokeKeeps
<1>6. CASE \E b \in Tabs : Rotate(b)
  BY <1>6, RotateKeeps
<1>7. CASE \E b \in Tabs : Login(b)
  BY <1>7, LoginKeeps
<1>8. CASE \/ RefreshTick \/ RefreshStopped \/ (\E b \in Tabs : Reload(b))
           \/ UNCHANGED refreshVars
  BY <1>8, QuietKeeps
<1> QED BY <1>1, <1>2, <1>3, <1>4, <1>5, <1>6, <1>7, <1>8
        DEF RefreshNext, ServerStep

\* The tokens that open a session multiply only by sign-ins and by rotations
\* of one row that overlapped, with any number of tabs and whatever is lost.
THEOREM TokensDoNotMultiply == RefreshSpec => []LiveTokensBounded
<1>1. RefreshInv => LiveTokensBounded
  BY Counts DEF RefreshInv, TokensOwed, RefreshTypes, LiveTokensBounded, LiveSet
<1> QED BY RefreshStarts, RefreshSteps, <1>1, PTL DEF RefreshSpec

-----------------------------------------------------------------------------
(* The session of the browser, whatever the delays *)

TabStates == {"idle", "sent", "waiting", "fresh", "leaving", "entering", "signed-out"}
Busy == {"sent", "leaving", "entering"}

TabTypes ==
    /\ tab \in [Tabs -> [state : TabStates, since : Nat, retried : BOOLEAN]]
    /\ network \in {"prompt", "slow", "lossy"} /\ session \in {"on", "off"}
    /\ crossed \in BOOLEAN /\ leaves \in Nat

\* Where a tab's call may be while the tab waits for its answer.
Phases ==
    \A b \in Tabs :
        /\ tab[b].state = "sent" =>
              request[b].stage \in {"read", "rotate", "revoke", "ok", "refresh_raced",
                                    "refresh_reused", "no_refresh_token"}
        /\ tab[b].state = "leaving" => request[b].stage \in {"leave", "left"}
        /\ tab[b].state = "entering" => request[b].stage \in {"enter", "ok"}
        /\ tab[b].state \notin Busy => request[b].stage = "none"

\* The tokens in use are ones that were issued.
TokensIssued ==
    /\ 0 < issued /\ issued <= MaxTokens /\ cookie <= issued
    /\ \A b \in Tabs : request[b].token <= issued
    /\ \A t \in Tokens : t > issued => revoked[t] = Never
    /\ \A b \in Tabs : request[b].stage \in {"rotate", "ok"} => request[b].token # None

\* No sign-out has met another call, and every response has landed.
Calm == ~crossed /\ network # "lossy"

Alone ==
    \A b, c \in Tabs : tab[b].state = "leaving" /\ c # b => tab[c].state \notin Busy

\* A new token on its way to the browser is nobody's yet.
OwnTokens ==
    \A b \in Tabs : request[b].stage = "ok" =>
        /\ request[b].token # cookie
        /\ \A c \in Tabs : c # b => request[c].token # request[b].token

HoldsCookie ==
    /\ \A b \in Tabs : request[b].stage = "leave" => request[b].token = cookie
    /\ session = "on" => cookie # None

WhileOff ==
    session = "off" =>
        /\ cookie = None
        /\ \A b \in Tabs : tab[b].state = "sent" =>
              request[b].token = None /\ request[b].stage \in {"read", "no_refresh_token"}

\* While no rotation was doubled and nobody signed in, a token that lives is in
\* the cookie or the only one on its way there.
OneSession ==
    doubled = 0 /\ entries = 0 =>
        /\ \A b \in Tabs : tab[b].state # "entering"
        /\ \A t \in Tokens : Live(t) =>
              /\ session = "on"
              /\ t = cookie \/ \E b \in Tabs : request[b].stage = "ok"
              /\ \A b \in Tabs :
                    /\ request[b].stage # "left"
                    /\ request[b].stage = "ok" => request[b].token = t

CalmInv == Calm => Alone /\ OwnTokens /\ HoldsCookie /\ WhileOff /\ OneSession

SessionInv == RefreshInv /\ TabTypes /\ Phases /\ TokensIssued /\ CalmInv

\* With no double rotation there is one live token.
LEMMA OnlyOne ==
    ASSUME RefreshInv, doubled = 0, entries = 0,
           NEW s \in Tokens, NEW t \in Tokens, Live(s), Live(t)
    PROVE  s = t
<1>1. SUFFICES ASSUME s # t PROVE FALSE
  OBVIOUS
<1>2. s \in LiveSet /\ t \in LiveSet \ {s}
  BY <1>1 DEF LiveSet
<1>3. /\ Cardinality(LiveSet \ {s}) \in Nat /\ IsFiniteSet(LiveSet \ {s})
      /\ Cardinality(LiveSet \ {s}) + 1 <= Cardinality(LiveSet)
  BY <1>2, Counts, OneLess, Fewer
<1>4. /\ Cardinality((LiveSet \ {s}) \ {t}) \in Nat
      /\ Cardinality((LiveSet \ {s}) \ {t}) + 1 <= Cardinality(LiveSet \ {s})
  BY <1>2, <1>3, OneLess
<1> QED BY <1>3, <1>4, Counts DEF RefreshInv, TokensOwed

\* What a call changes, of its tab and its request.
LEMMA CallStep ==
    ASSUME SessionInv, NEW b \in Tabs, NEW state \in Busy, NEW stage \in {"read", "leave", "enter"},
           \E retried \in BOOLEAN : Call(b, state, stage, retried)
    PROVE  /\ tab' \in [Tabs -> [state : TabStates, since : Nat, retried : BOOLEAN]]
           /\ tab'[b].state = state /\ tab'[b].since = instant
           /\ request'[b].stage = stage /\ request'[b].token = cookie
           /\ request'[b].at = instant
           /\ \A c \in Tabs \ {b} : tab'[c] = tab[c] /\ request'[c] = request[c]
           /\ UNCHANGED <<instant, revoked, issued, cookie, network, doubled, session>>
           /\ crossed' \in BOOLEAN
           /\ Calm' => /\ Calm
                       /\ state = "leaving" => \A c \in Tabs \ {b} : tab[c].state \notin Busy
                       /\ state # "leaving" => \A c \in Tabs \ {b} : tab[c].state # "leaving"
<1>0. PICK retried \in BOOLEAN : Call(b, state, stage, retried)
  OBVIOUS
<1>1. /\ tab \in [Tabs -> [state : TabStates, since : Nat, retried : BOOLEAN]]
      /\ request \in [Tabs -> [stage : Stages, token : Nat, at : Nat]]
      /\ instant \in Nat
  BY DEF SessionInv, RefreshInv, RefreshTypes, TabTypes
<1>2. /\ tab' = [tab EXCEPT ![b] = [state |-> state, since |-> instant, retried |-> retried]]
      /\ request' = [request EXCEPT ![b] = [stage |-> stage, token |-> cookie, at |-> instant]]
      /\ UNCHANGED <<instant, revoked, issued, cookie, network, doubled, session>>
  BY <1>0 DEF Call
<1>3. [state |-> state, since |-> instant, retried |-> retried]
         \in [state : TabStates, since : Nat, retried : BOOLEAN]
  BY <1>1 DEF TabStates, Busy
<1>4. ASSUME Calm'
      PROVE  /\ Calm
             /\ state = "leaving" => \A c \in Tabs \ {b} : tab[c].state \notin Busy
             /\ state # "leaving" => \A c \in Tabs \ {b} : tab[c].state # "leaving"
  BY <1>0, <1>4 DEF Calm, Call, Calling, Leaving, Busy
<1>5. crossed' \in BOOLEAN
  BY <1>0 DEF Call, SessionInv, TabTypes
<1> QED BY <1>1, <1>2, <1>3, <1>4, <1>5

LEMMA SendSession ==
    ASSUME SessionInv, NEW b \in Tabs, StartRefresh(b) \/ Retry(b)
    PROVE  TabTypes' /\ Phases' /\ TokensIssued' /\ CalmInv'
<1>1. PICK retried \in BOOLEAN : Call(b, "sent", "read", retried)
  BY DEF StartRefresh, Retry, Send
<1>2. UNCHANGED <<leaves, entries>> /\ tab[b].state \notin Busy
  BY DEF StartRefresh, Retry, Send, Busy
<1>3. /\ tab' \in [Tabs -> [state : TabStates, since : Nat, retried : BOOLEAN]]
      /\ tab'[b].state = "sent"
      /\ request'[b].stage = "read" /\ request'[b].token = cookie
      /\ \A c \in Tabs \ {b} : tab'[c] = tab[c] /\ request'[c] = request[c]
      /\ UNCHANGED <<instant, revoked, issued, cookie, network, doubled, session>>
      /\ Calm' => Calm /\ \A c \in Tabs \ {b} : tab[c].state # "leaving"
  <2>1. /\ "sent" \in Busy /\ "read" \in {"read", "leave", "enter"} /\ retried \in BOOLEAN
        /\ Call(b, "sent", "read", retried)
    BY <1>1 DEF Busy
  <2> QED BY <2>1, CallStep
<1>4. TabTypes'
  BY <1>1, <1>2, <1>3 DEF SessionInv, TabTypes, Call
<1>5. Phases'
  BY <1>3 DEF SessionInv, Phases, Busy
<1>6. TokensIssued'
  BY <1>3 DEF SessionInv, TokensIssued
<1>7. ASSUME Calm' PROVE Alone' /\ OwnTokens' /\ HoldsCookie' /\ WhileOff' /\ OneSession'
  <2>1. Alone /\ OwnTokens /\ HoldsCookie /\ WhileOff /\ OneSession
    BY <1>3, <1>7 DEF SessionInv, CalmInv
  <2>2. Alone'
    BY <1>3, <1>7, <2>1 DEF Alone, Busy
  <2>3. OwnTokens'
    BY <1>3, <2>1 DEF OwnTokens
  <2>4. HoldsCookie' /\ WhileOff'
    BY <1>3, <2>1 DEF HoldsCookie, WhileOff
  <2>5. OneSession'
    <3>1. request[b].stage = "none" /\ \A t \in Tokens : Live(t)' <=> Live(t)
      BY <1>2, <1>3 DEF SessionInv, Phases, Live
    <3> QED BY <1>2, <1>3, <2>1, <3>1 DEF OneSession
  <2> QED BY <2>2, <2>3, <2>4, <2>5
<1> QED BY <1>4, <1>5, <1>6, <1>7 DEF CalmInv

LEMMA SignOutSession ==
    ASSUME SessionInv, NEW b \in Tabs, SignOut(b)
    PROVE  TabTypes' /\ Phases' /\ TokensIssued' /\ CalmInv'
<1>2. Call(b, "leaving", "leave", FALSE) /\ leaves' = leaves + 1 /\ entries' = entries
      /\ tab[b].state \notin Busy
  BY DEF SignOut, Busy
<1>3. /\ tab' \in [Tabs -> [state : TabStates, since : Nat, retried : BOOLEAN]]
      /\ tab'[b].state = "leaving"
      /\ request'[b].stage = "leave" /\ request'[b].token = cookie
      /\ \A c \in Tabs \ {b} : tab'[c] = tab[c] /\ request'[c] = request[c]
      /\ UNCHANGED <<instant, revoked, issued, cookie, network, doubled, session>>
      /\ Calm' => Calm /\ \A c \in Tabs \ {b} : tab[c].state \notin Busy
  <2>1. /\ "leaving" \in Busy /\ "leave" \in {"read", "leave", "enter"} /\ FALSE \in BOOLEAN
        /\ Call(b, "leaving", "leave", FALSE)
    BY <1>2 DEF Busy
  <2> QED BY <2>1, CallStep
<1>4. TabTypes'
  BY <1>2, <1>3 DEF SessionInv, TabTypes, Call
<1>5. Phases'
  BY <1>3 DEF SessionInv, Phases, Busy
<1>6. TokensIssued'
  BY <1>3 DEF SessionInv, TokensIssued
<1>7. ASSUME Calm' PROVE Alone' /\ OwnTokens' /\ HoldsCookie' /\ WhileOff' /\ OneSession'
  <2>1. Alone /\ OwnTokens /\ HoldsCookie /\ WhileOff /\ OneSession
    BY <1>3, <1>7 DEF SessionInv, CalmInv
  <2>0. \A c \in Tabs : request'[c].stage \in {"none", "leave"} /\ request[c].stage = "none"
    BY <1>2, <1>3, <1>7 DEF SessionInv, Phases, Busy
  <2>2. Alone'
    BY <1>3, <1>7, <2>1 DEF Alone, Busy
  <2>3. OwnTokens'
    BY <2>0 DEF OwnTokens
  <2>4. HoldsCookie' /\ WhileOff'
    BY <1>3, <2>1 DEF HoldsCookie, WhileOff
  <2>5. OneSession'
    <3>1. \A t \in Tokens : Live(t)' <=> Live(t)
      BY <1>3 DEF Live
    <3> QED BY <1>2, <1>3, <2>0, <2>1, <3>1 DEF OneSession
  <2> QED BY <2>2, <2>3, <2>4, <2>5
<1> QED BY <1>4, <1>5, <1>6, <1>7 DEF CalmInv

LEMMA SignInSession ==
    ASSUME SessionInv, NEW b \in Tabs, SignIn(b)
    PROVE  TabTypes' /\ Phases' /\ TokensIssued' /\ CalmInv'
<1>2. Call(b, "entering", "enter", FALSE) /\ leaves' = leaves /\ entries' = entries + 1
      /\ tab[b].state \notin Busy
  BY DEF SignIn, Busy
<1>3. /\ tab' \in [Tabs -> [state : TabStates, since : Nat, retried : BOOLEAN]]
      /\ tab'[b].state = "entering"
      /\ request'[b].stage = "enter" /\ request'[b].token = cookie
      /\ \A c \in Tabs \ {b} : tab'[c] = tab[c] /\ request'[c] = request[c]
      /\ UNCHANGED <<instant, revoked, issued, cookie, network, doubled, session>>
      /\ Calm' => Calm /\ \A c \in Tabs \ {b} : tab[c].state # "leaving"
  <2>1. /\ "entering" \in Busy /\ "enter" \in {"read", "leave", "enter"} /\ FALSE \in BOOLEAN
        /\ Call(b, "entering", "enter", FALSE)
    BY <1>2 DEF Busy
  <2> QED BY <2>1, CallStep
<1>4. TabTypes'
  BY <1>2, <1>3 DEF SessionInv, TabTypes, Call
<1>5. Phases'
  BY <1>3 DEF SessionInv, Phases, Busy
<1>6. TokensIssued'
  BY <1>3 DEF SessionInv, TokensIssued
<1>7. ASSUME Calm' PROVE Alone' /\ OwnTokens' /\ HoldsCookie' /\ WhileOff' /\ OneSession'
  <2>1. Alone /\ OwnTokens /\ HoldsCookie /\ WhileOff /\ OneSession
    BY <1>3, <1>7 DEF SessionInv, CalmInv
  <2>2. Alone'
    BY <1>3, <1>7, <2>1 DEF Alone, Busy
  <2>3. OwnTokens'
    BY <1>3, <2>1 DEF OwnTokens
  <2>4. HoldsCookie' /\ WhileOff'
    BY <1>3, <2>1 DEF HoldsCookie, WhileOff
  <2>5. OneSession'
    BY <1>2 DEF OneSession, SessionInv, RefreshInv, RefreshTypes
  <2> QED BY <2>2, <2>3, <2>4, <2>5
<1> QED BY <1>4, <1>5, <1>6, <1>7 DEF CalmInv

\* What the end of a call changes: the tab has its answer, or an error.
LEMMA EndStep ==
    ASSUME SessionInv, NEW b \in Tabs, NEW stage, Settle(b, stage),
           request' = [request EXCEPT ![b] = NoRequest]
    PROVE  /\ tab' \in [Tabs -> [state : TabStates, since : Nat, retried : BOOLEAN]]
           /\ tab'[b].state =
                CASE stage = "ok" -> "fresh"
                  [] stage = "refresh_raced" /\ ~tab[b].retried -> "waiting"
                  [] OTHER -> "signed-out"
           /\ tab'[b].since = IF stage \in {"ok", "refresh_raced"} THEN instant ELSE 0
           /\ request'[b].stage = "none" /\ request'[b].token = None
           /\ \A c \in Tabs \ {b} : tab'[c] = tab[c] /\ request'[c] = request[c]
<1>1. /\ tab \in [Tabs -> [state : TabStates, since : Nat, retried : BOOLEAN]]
      /\ request \in [Tabs -> [stage : Stages, token : Nat, at : Nat]]
      /\ instant \in Nat
  BY DEF SessionInv, RefreshInv, RefreshTypes, TabTypes
<1> DEFINE state == CASE stage = "ok" -> "fresh"
                      [] stage = "refresh_raced" /\ ~tab[b].retried -> "waiting"
                      [] OTHER -> "signed-out"
           since == IF stage \in {"ok", "refresh_raced"} THEN instant ELSE 0
<1>2. state \in TabStates /\ since \in Nat
  BY <1>1 DEF TabStates
<1>3. tab' = [tab EXCEPT ![b] = [@ EXCEPT !.since = since, !.state = state]]
  BY DEF Settle
<1> HIDE DEF state, since
<1>4. /\ tab' \in [Tabs -> [state : TabStates, since : Nat, retried : BOOLEAN]]
      /\ tab'[b].state = state /\ tab'[b].since = since
      /\ \A c \in Tabs \ {b} : tab'[c] = tab[c]
  BY <1>1, <1>2, <1>3
<1>5. /\ request'[b].stage = "none" /\ request'[b].token = None
      /\ \A c \in Tabs \ {b} : request'[c] = request[c]
  BY <1>1 DEF NoRequest
<1> QED BY <1>4, <1>5 DEF state, since

\* What a step of the server changes, of the request it serves.
LEMMA ServeStep ==
    ASSUME SessionInv, NEW b \in Tabs, NEW r \in [stage : Stages, token : Nat, at : Nat],
           request' = [request EXCEPT ![b] = r]
    PROVE  request'[b] = r /\ \A c \in Tabs \ {b} : request'[c] = request[c]
BY DEF SessionInv, RefreshInv, RefreshTypes

LEMMA LandSession ==
    ASSUME SessionInv, NEW b \in Tabs, Land(b)
    PROVE  TabTypes' /\ Phases' /\ TokensIssued' /\ CalmInv'
<1> DEFINE stage == request[b].stage
<1>1. /\ tab' \in [Tabs -> [state : TabStates, since : Nat, retried : BOOLEAN]]
      /\ tab'[b].state \in {"fresh", "waiting", "signed-out"}
      /\ request'[b].stage = "none" /\ request'[b].token = None
      /\ \A c \in Tabs \ {b} : tab'[c] = tab[c] /\ request'[c] = request[c]
  <2>1. Settle(b, stage) /\ request' = [request EXCEPT ![b] = NoRequest]
    BY DEF Land
  <2> QED BY <2>1, EndStep
<1>2. /\ stage \in Landing /\ cookie' = Jar(b)
      /\ session' = CASE stage = "left" -> "off"
                      [] tab[b].state = "entering" -> "on"
                      [] OTHER -> session
      /\ UNCHANGED <<instant, revoked, issued, network, doubled, leaves, entries, crossed>>
  BY DEF Land
<1>3. /\ stage = "left" => tab[b].state = "leaving"
      /\ stage = "ok" => tab[b].state \in {"sent", "entering"}
      /\ stage \notin {"left", "ok"} => tab[b].state = "sent"
      /\ tab[b].state = "leaving" => stage = "left"
  BY <1>2 DEF SessionInv, Phases, TabTypes, TabStates, Busy, Landing
<1>4. TabTypes'
  BY <1>1, <1>2 DEF SessionInv, TabTypes
<1>5. Phases'
  BY <1>1 DEF SessionInv, Phases, Busy
<1>6. TokensIssued'
  <2>1. cookie' \in {cookie, None, request[b].token}
    BY <1>2 DEF Jar
  <2>2. cookie' <= issued
    BY <2>1 DEF SessionInv, TokensIssued, RefreshInv, RefreshTypes, None
  <2>3. request'[b].token <= issued
    BY <1>1 DEF SessionInv, TokensIssued, RefreshInv, RefreshTypes, None
  <2> QED BY <1>1, <1>2, <2>2, <2>3 DEF SessionInv, TokensIssued
<1>7. ASSUME Calm' PROVE Alone' /\ OwnTokens' /\ HoldsCookie' /\ WhileOff' /\ OneSession'
  <2>1. Alone /\ OwnTokens /\ HoldsCookie /\ WhileOff /\ OneSession
    BY <1>2, <1>7 DEF SessionInv, CalmInv, Calm
  <2>2. Alone'
    BY <1>1, <2>1 DEF Alone, Busy
  <2>3. /\ \A c \in Tabs \ {b} : tab[c].state = "leaving" => FALSE
        /\ stage = "left" => \A c \in Tabs \ {b} : request[c].stage = "none"
    BY <1>2, <1>3, <2>1 DEF Alone, Busy, SessionInv, Phases, TabTypes, TabStates, Landing
  <2>4. \A c \in Tabs \ {b} : request[c].stage \notin {"leave", "left"}
    BY <2>3 DEF SessionInv, Phases, TabTypes, TabStates, Busy
  <2>5. \A t \in Tokens : Live(t)' <=> Live(t)
    BY <1>2 DEF Live
  <2>6. CASE stage = "left"
    <3>1. cookie' = None /\ session' = "off"
      <4>1. cookie' = None
        BY <1>2, <2>6 DEF Jar
      <4> QED BY <1>2, <1>3, <2>6, <4>1
    <3>2. \A c \in Tabs : request'[c].stage = "none" /\ tab'[c].state \notin Busy
      <4>1. tab'[b].state \notin Busy
        BY <1>1 DEF Busy
      <4>2. \A c \in Tabs \ {b} : tab[c].state \notin Busy
        BY <1>3, <2>1, <2>6 DEF Alone
      <4> QED BY <1>1, <2>3, <2>6, <4>1, <4>2
    <3>3. doubled = 0 /\ entries = 0 => \A t \in Tokens : ~Live(t)
      BY <2>1, <2>6 DEF OneSession
    <3>4. OneSession'
      BY <1>2, <2>5, <3>2, <3>3 DEF OneSession, Busy
    <3>5. OwnTokens' /\ HoldsCookie' /\ WhileOff'
      BY <3>1, <3>2 DEF OwnTokens, HoldsCookie, WhileOff, Busy
    <3> QED BY <2>2, <3>4, <3>5
  <2>7. CASE stage = "ok"
    <3>1. cookie' = request[b].token /\ cookie' # None
      BY <1>2, <2>7 DEF Jar, SessionInv, TokensIssued
    <3>2. session' = "on"
      BY <1>2, <1>3, <2>1, <2>7 DEF WhileOff, SessionInv, TabTypes
    <3>3. OwnTokens'
      <4>1. \A c \in Tabs : request[c].stage = "ok" => request[c].token # None
        BY DEF SessionInv, TokensIssued
      <4> QED BY <1>1, <2>1, <2>7, <3>1, <4>1 DEF OwnTokens
    <3>4. HoldsCookie' /\ WhileOff'
      BY <1>1, <2>4, <3>1, <3>2 DEF HoldsCookie, WhileOff
    <3>5. OneSession'
      <4> SUFFICES ASSUME doubled' = 0 /\ entries' = 0 PROVE OneSession!2'
        BY DEF OneSession
      <4>1. \A c \in Tabs : tab'[c].state # "entering"
        BY <1>1, <1>2, <2>1 DEF OneSession
      <4>2. ASSUME NEW t \in Tokens, Live(t)'
            PROVE  /\ t = cookie'
                   /\ \A c \in Tabs : request'[c].stage \notin {"left", "ok"}
        <5>1. Live(t) /\ request[b].token = t
          BY <1>2, <2>1, <2>5, <2>7, <4>2 DEF OneSession
        <5>2. \A c \in Tabs \ {b} : request[c].stage # "ok"
          BY <1>2, <2>1, <2>7, <5>1 DEF OneSession, OwnTokens
        <5> QED BY <1>1, <2>4, <3>1, <5>1, <5>2
      <4> QED BY <3>2, <4>1, <4>2 DEF OneSession
    <3> QED BY <2>2, <3>3, <3>4, <3>5
  <2>8. CASE stage \notin {"left", "ok"}
    <3>1. cookie' = cookie /\ session' = session
      BY <1>2, <1>3, <2>8 DEF Jar
    <3>2. OwnTokens'
      <4>1. \A c \in Tabs : request[c].stage = "ok" => request[c].token # None
        BY DEF SessionInv, TokensIssued
      <4> QED BY <1>1, <2>1, <3>1, <4>1 DEF OwnTokens
    <3>3. HoldsCookie' /\ WhileOff'
      BY <1>1, <2>1, <3>1 DEF HoldsCookie, WhileOff
    <3>4. OneSession'
      BY <1>1, <1>2, <2>1, <2>5, <2>8, <3>1 DEF OneSession
    <3> QED BY <2>2, <3>2, <3>3, <3>4
  <2> QED BY <2>6, <2>7, <2>8
<1> QED BY <1>4, <1>5, <1>6, <1>7 DEF CalmInv

LEMMA LoseSession ==
    ASSUME SessionInv, NEW b \in Tabs, Lose(b)
    PROVE  TabTypes' /\ Phases' /\ TokensIssued' /\ CalmInv'
<1>1. /\ tab' \in [Tabs -> [state : TabStates, since : Nat, retried : BOOLEAN]]
      /\ tab'[b].state = "signed-out"
      /\ request'[b].stage = "none" /\ request'[b].token = None
      /\ \A c \in Tabs \ {b} : tab'[c] = tab[c] /\ request'[c] = request[c]
  <2>1. Settle(b, "network_error") /\ request' = [request EXCEPT ![b] = NoRequest]
    BY DEF Lose
  <2>2. "network_error" \notin {"ok", "refresh_raced"}
    OBVIOUS
  <2> HIDE DEF Lose
  <2> QED BY <2>1, <2>2, EndStep
<1>2. network' = "lossy" /\ UNCHANGED <<instant, revoked, issued, cookie, doubled, signVars>>
  BY DEF Lose
<1>3. TabTypes'
  BY <1>1, <1>2 DEF SessionInv, TabTypes, signVars
<1>4. Phases'
  BY <1>1 DEF SessionInv, Phases, Busy
<1>5. TokensIssued'
  <2>1. request'[b].token <= issued
    BY <1>1 DEF SessionInv, TokensIssued, RefreshInv, RefreshTypes, None
  <2> QED BY <1>1, <1>2, <2>1 DEF SessionInv, TokensIssued
<1> QED BY <1>2, <1>3, <1>4, <1>5 DEF CalmInv, Calm

LEMMA ReloadSession ==
    ASSUME SessionInv, NEW b \in Tabs, Reload(b)
    PROVE  TabTypes' /\ Phases' /\ TokensIssued' /\ CalmInv'
<1>1. /\ tab' \in [Tabs -> [state : TabStates, since : Nat, retried : BOOLEAN]]
      /\ tab[b].state = "signed-out" /\ tab'[b].state = "idle"
      /\ \A c \in Tabs \ {b} : tab'[c] = tab[c]
      /\ UNCHANGED <<instant, revoked, issued, cookie, request, network, doubled, signVars>>
  <2>1. /\ tab[b].state = "signed-out"
        /\ tab' = [tab EXCEPT ![b] = [@ EXCEPT !.state = "idle"]]
        /\ UNCHANGED <<instant, revoked, issued, cookie, request, network, doubled, signVars>>
    BY DEF Reload
  <2> QED BY <2>1 DEF SessionInv, TabTypes, TabStates
<1>2. TabTypes' /\ Phases' /\ TokensIssued'
  BY <1>1 DEF SessionInv, TabTypes, Phases, TokensIssued, Busy, signVars
<1>3. ASSUME Calm' PROVE Alone' /\ OwnTokens' /\ HoldsCookie' /\ WhileOff' /\ OneSession'
  <2>1. Alone /\ OwnTokens /\ HoldsCookie /\ WhileOff /\ OneSession
    BY <1>1, <1>3 DEF SessionInv, CalmInv, Calm, signVars
  <2>2. Alone' /\ OwnTokens' /\ HoldsCookie' /\ WhileOff'
    BY <1>1, <2>1 DEF Alone, OwnTokens, HoldsCookie, WhileOff, Busy, signVars
  <2>3. OneSession'
    BY <1>1, <2>1 DEF OneSession, Live, signVars
  <2> QED BY <2>2, <2>3
<1> QED BY <1>2, <1>3 DEF CalmInv

LEMMA TickSession ==
    ASSUME SessionInv, RefreshTick \/ UNCHANGED refreshVars
    PROVE  TabTypes' /\ Phases' /\ TokensIssued' /\ CalmInv'
<1>1. /\ network' = network \/ (network = "prompt" /\ network' = "slow")
      /\ UNCHANGED <<revoked, issued, cookie, tab, request, doubled, signVars>>
  <2>1. CASE RefreshTick
    <3> DEFINE Slow == /\ network = "prompt"
                       /\ \E b \in Tabs : /\ tab[b].state = "sent"
                                         /\ instant' >= tab[b].since + Wait
    <3>1. network' = IF Slow THEN "slow" ELSE network
      BY <2>1 DEF RefreshTick
    <3>2. Slow => network = "prompt"
      OBVIOUS
    <3>3. UNCHANGED <<revoked, issued, cookie, tab, request, doubled, signVars>>
      BY <2>1 DEF RefreshTick
    <3> HIDE DEF Slow
    <3> QED BY <3>1, <3>2, <3>3
  <2> QED BY <2>1 DEF refreshVars
<1>2. TabTypes' /\ Phases' /\ TokensIssued'
  <2>1. TabTypes'
    BY <1>1 DEF SessionInv, TabTypes, signVars
  <2>2. Phases'
    BY <1>1 DEF SessionInv, Phases
  <2>3. TokensIssued'
    BY <1>1 DEF SessionInv, TokensIssued
  <2> QED BY <2>1, <2>2, <2>3
<1>3. ASSUME Calm' PROVE Alone' /\ OwnTokens' /\ HoldsCookie' /\ WhileOff' /\ OneSession'
  <2>1. Alone /\ OwnTokens /\ HoldsCookie /\ WhileOff /\ OneSession
    BY <1>1, <1>3 DEF SessionInv, CalmInv, Calm, signVars
  <2>2. Alone' /\ OwnTokens' /\ HoldsCookie' /\ WhileOff'
    BY <1>1, <2>1 DEF Alone, OwnTokens, HoldsCookie, WhileOff, Busy, signVars
  <2>3. OneSession'
    BY <1>1, <2>1 DEF OneSession, Live, signVars
  <2> QED BY <2>2, <2>3
<1> QED BY <1>2, <1>3 DEF CalmInv

LEMMA ReadSession ==
    ASSUME SessionInv, NEW b \in Tabs, ReadToken(b)
    PROVE  TabTypes' /\ Phases' /\ TokensIssued' /\ CalmInv'
<1> DEFINE token == request[b].token
<1>1. /\ request[b].stage = "read" /\ tab[b].state = "sent"
      /\ UNCHANGED <<instant, revoked, issued, cookie, tab, network, doubled, signVars>>
  BY DEF ReadToken, SessionInv, Phases, TabTypes, TabStates, Busy
<1>2. /\ request'[b].stage = Answered(token) /\ request'[b].token = token
      /\ request'[b].at = instant
      /\ \A c \in Tabs \ {b} : request'[c] = request[c]
  BY DEF ReadToken, SessionInv, RefreshInv, RefreshTypes
<1>3. /\ Answered(token) \in {"no_refresh_token", "rotate", "refresh_raced", "revoke"}
      /\ token = None => Answered(token) = "no_refresh_token"
  <2>1. Answered(token) \in {"no_refresh_token", "rotate", "refresh_raced", "revoke"}
    BY DEF Answered
  <2>2. ~Live(None)
    BY DEF Live, None, SessionInv, RefreshInv, RefreshTypes
  <2>3. ASSUME token = None PROVE Answered(token) = "no_refresh_token"
    <3>1. ~Live(token)
      BY <2>2, <2>3
    <3> QED BY <2>3, <3>1 DEF Answered
  <2> QED BY <2>1, <2>3
<1>4. TabTypes'
  BY <1>1 DEF SessionInv, TabTypes, signVars
<1>5. Phases'
  BY <1>1, <1>2, <1>3 DEF SessionInv, Phases, Busy
<1>6. TokensIssued'
  BY <1>1, <1>2, <1>3 DEF SessionInv, TokensIssued
<1>7. ASSUME Calm' PROVE Alone' /\ OwnTokens' /\ HoldsCookie' /\ WhileOff' /\ OneSession'
  <2>1. Alone /\ OwnTokens /\ HoldsCookie /\ WhileOff /\ OneSession
    BY <1>1, <1>7 DEF SessionInv, CalmInv, Calm, signVars
  <2>2. Alone' /\ OwnTokens'
    BY <1>1, <1>2, <1>3, <2>1 DEF Alone, OwnTokens
  <2>3. HoldsCookie' /\ WhileOff'
    BY <1>1, <1>2, <1>3, <2>1 DEF HoldsCookie, WhileOff, signVars
  <2>4. OneSession'
    <3>1. \A t \in Tokens : Live(t)' <=> Live(t)
      BY <1>1 DEF Live
    <3> QED BY <1>1, <1>2, <1>3, <2>1, <3>1 DEF OneSession, signVars
  <2> QED BY <2>2, <2>3, <2>4
<1> QED BY <1>4, <1>5, <1>6, <1>7 DEF CalmInv

\* A new row, of a token that no request and no cookie carries yet.
LEMMA NewToken ==
    ASSUME SessionInv, NEW b \in Tabs, Issue(b)
    PROVE  /\ issued' = issued + 1 /\ issued + 1 \in Tokens
           /\ request'[b].stage = "ok" /\ request'[b].token = issued + 1
           /\ request'[b].at = request[b].at
           /\ \A c \in Tabs \ {b} :
                 request'[c] = request[c] /\ request'[c].token # issued + 1
           /\ cookie # issued + 1
           /\ UNCHANGED <<instant, cookie, tab, network, signVars>>
<1>1. issued' = issued + 1 /\ issued < MaxTokens
      /\ UNCHANGED <<instant, cookie, tab, network, signVars>>
      /\ request' = [request EXCEPT ![b] = [@ EXCEPT !.stage = "ok", !.token = issued + 1]]
  BY DEF Issue
<1>2. /\ issued \in Nat /\ cookie \in Nat
      /\ request \in [Tabs -> [stage : Stages, token : Nat, at : Nat]]
      /\ cookie <= issued /\ \A c \in Tabs : request[c].token <= issued
  BY DEF SessionInv, RefreshInv, RefreshTypes, TokensIssued
<1>3. issued + 1 \in Tokens
  BY <1>1, <1>2, TimesAssumption DEF Tokens
<1>4. /\ request'[b].stage = "ok" /\ request'[b].token = issued + 1
      /\ request'[b].at = request[b].at
      /\ \A c \in Tabs \ {b} : request'[c] = request[c]
  BY <1>1, <1>2
<1>5. cookie # issued + 1 /\ \A c \in Tabs : request[c].token # issued + 1
  <2>1. \A n \in Nat : n <= issued => n # issued + 1
    BY <1>2
  <2> QED BY <1>2, <2>1
<1> QED BY <1>1, <1>3, <1>4, <1>5

\* What a rotation does to the rows.
LEMMA RotateStep ==
    ASSUME SessionInv, NEW b \in Tabs, Rotate(b),
           NEW old, old = request[b].token, NEW new, new = issued + 1
    PROVE  /\ tab[b].state = "sent" /\ old \in Tokens
           /\ revoked'[old] = request[b].at
           /\ ~Live(old)' /\ Live(new)'
           /\ \A t \in Tokens \ {old, new} :
                 revoked'[t] = revoked[t] /\ (Live(t)' <=> Live(t))
           /\ \A t \in Tokens : t > issued' => revoked'[t] = Never
           /\ doubled' = IF Live(old) THEN doubled ELSE doubled + 1
<1>1. /\ issued \in Nat /\ issued <= MaxTokens /\ MaxTokens \in Nat
      /\ old \in Nat /\ old <= issued /\ request[b].at \in Nat
      /\ revoked \in [Tokens -> Int]
      /\ \A t \in Tokens : t > issued => revoked[t] = Never
  BY TimesAssumption DEF SessionInv, RefreshInv, RefreshTypes, TokensIssued
<1>2. old # None /\ request[b].stage = "rotate"
      /\ revoked' = [revoked EXCEPT ![old] = request[b].at]
      /\ doubled' = IF Live(old) THEN doubled ELSE doubled + 1
  BY DEF Rotate, SessionInv, TokensIssued
<1>3. tab[b].state = "sent"
  BY <1>2 DEF SessionInv, Phases, TabTypes, TabStates, Busy
<1>4. issued' = new /\ new \in Tokens
  BY NewToken DEF Rotate
<1>5. old \in Tokens /\ old # new
  BY <1>1, <1>2 DEF Tokens, None
<1>6. /\ revoked'[old] = request[b].at
      /\ \A t \in Tokens \ {old} : revoked'[t] = revoked[t]
  BY <1>1, <1>2, <1>5
<1>7. ~Live(old)' /\ Live(new)'
  <2>1. revoked'[old] # Never
    BY <1>1, <1>6 DEF Never
  <2>2. revoked'[new] = Never
    BY <1>1, <1>4, <1>5, <1>6
  <2>3. new \in 1..issued'
    BY <1>1, <1>4
  <2> QED BY <2>1, <2>2, <2>3 DEF Live
<1>8. \A t \in Tokens \ {old, new} : Live(t)' <=> Live(t)
  BY <1>1, <1>4, <1>6 DEF Live, Tokens
<1>9. \A t \in Tokens : t > issued' => revoked'[t] = Never
  BY <1>1, <1>4, <1>5, <1>6 DEF Tokens
<1> QED BY <1>2, <1>3, <1>5, <1>6, <1>7, <1>8, <1>9

LEMMA RotateSession ==
    ASSUME SessionInv, NEW b \in Tabs, Rotate(b)
    PROVE  TabTypes' /\ Phases' /\ TokensIssued' /\ CalmInv'
<1>0. PICK old, new : old = request[b].token /\ new = issued + 1
  OBVIOUS
<1>1. /\ issued' = new /\ new \in Tokens
      /\ request'[b].stage = "ok" /\ request'[b].token = new
      /\ \A c \in Tabs \ {b} : request'[c] = request[c] /\ request'[c].token # new
      /\ cookie # new
      /\ UNCHANGED <<instant, cookie, tab, network, signVars>>
  BY <1>0, NewToken DEF Rotate
<1>2. /\ tab[b].state = "sent" /\ old \in Tokens /\ request[b].stage = "rotate"
      /\ ~Live(old)' /\ Live(new)'
      /\ \A t \in Tokens \ {old, new} : Live(t)' <=> Live(t)
      /\ \A t \in Tokens : t > issued' => revoked'[t] = Never
      /\ doubled' = IF Live(old) THEN doubled ELSE doubled + 1
  <2>1. request[b].stage = "rotate"
    BY DEF Rotate
  <2> QED BY <1>0, <2>1, RotateStep
<1>3. TabTypes'
  BY <1>1 DEF SessionInv, TabTypes, signVars
<1>4. Phases'
  BY <1>1, <1>2 DEF SessionInv, Phases, Busy
<1>5. TokensIssued'
  <2>1. /\ issued \in Nat /\ cookie \in Nat /\ cookie <= issued
        /\ \A c \in Tabs : request[c].token \in Nat /\ request[c].token <= issued
    BY DEF SessionInv, RefreshInv, RefreshTypes, TokensIssued
  <2>2. new \in Nat /\ 0 < new /\ new <= MaxTokens /\ \A n \in Nat : n <= issued => n <= new
    BY <1>0, <1>1, <2>1, TimesAssumption DEF Tokens
  <2>3. new # None
    BY <1>0, <2>1 DEF None
  <2>4. \A c \in Tabs : request'[c].token <= new
    <3>1. new <= new /\ \A c \in Tabs \ {b} : request[c].token <= new
      BY <2>1, <2>2
    <3> QED BY <1>1, <3>1
  <2>5. \A c \in Tabs : request'[c].stage \in {"rotate", "ok"} => request'[c].token # None
    BY <1>1, <2>3 DEF SessionInv, TokensIssued
  <2> QED BY <1>1, <1>2, <2>1, <2>2, <2>4, <2>5 DEF TokensIssued
<1>6. ASSUME Calm' PROVE Alone' /\ OwnTokens' /\ HoldsCookie' /\ WhileOff' /\ OneSession'
  <2>1. Alone /\ OwnTokens /\ HoldsCookie /\ WhileOff /\ OneSession
    BY <1>1, <1>6 DEF SessionInv, CalmInv, Calm, signVars
  <2>2. session = "on"
    BY <1>2, <2>1 DEF WhileOff, SessionInv, TabTypes
  <2>3. Alone'
    BY <1>1, <2>1 DEF Alone
  <2>4. OwnTokens'
    BY <1>1, <2>1 DEF OwnTokens
  <2>5. HoldsCookie' /\ WhileOff'
    BY <1>1, <2>1, <2>2 DEF HoldsCookie, WhileOff, signVars
  <2>6. OneSession'
    <3> SUFFICES ASSUME doubled' = 0, entries' = 0 PROVE OneSession!2'
      BY DEF OneSession
    <3>1. doubled = 0 /\ entries = 0 /\ Live(old)
      BY <1>1, <1>2 DEF SessionInv, RefreshInv, RefreshTypes, signVars
    <3>2. \A c \in Tabs : tab'[c].state # "entering"
      BY <1>1, <2>1, <3>1 DEF OneSession
    <3>3. \A t \in Tokens : Live(t)' => t = new
      <4>1. \A t \in Tokens : Live(t) => t = old
        BY <1>2, <3>1, OnlyOne DEF SessionInv
      <4>2. ASSUME NEW t \in Tokens, Live(t)', t # new PROVE FALSE
        <5>1. t # old
          BY <1>2, <4>2
        <5>2. Live(t)
          BY <1>2, <4>2, <5>1
        <5> QED BY <4>1, <5>1, <5>2
      <4> QED BY <4>2
    <3>4. \A c \in Tabs \ {b} : request[c].stage \notin {"left", "ok"}
      BY <1>0, <1>2, <2>1, <3>1 DEF OneSession, OwnTokens
    <3>5. \A c \in Tabs :
             /\ request'[c].stage # "left"
             /\ request'[c].stage = "ok" => request'[c].token = new
      BY <1>1, <3>4
    <3> QED BY <1>1, <2>2, <3>2, <3>3, <3>5 DEF OneSession, signVars
  <2> QED BY <2>3, <2>4, <2>5, <2>6
<1> QED BY <1>3, <1>4, <1>5, <1>6 DEF CalmInv

LEMMA LoginSession ==
    ASSUME SessionInv, NEW b \in Tabs, Login(b)
    PROVE  TabTypes' /\ Phases' /\ TokensIssued' /\ CalmInv'
<1>0. PICK new : new = issued + 1
  OBVIOUS
<1>1. /\ issued' = new /\ new \in Tokens
      /\ request'[b].stage = "ok" /\ request'[b].token = new
      /\ \A c \in Tabs \ {b} : request'[c] = request[c] /\ request'[c].token # new
      /\ cookie # new
      /\ UNCHANGED <<instant, cookie, tab, network, signVars>>
  BY <1>0, NewToken DEF Login
<1>2. request[b].stage = "enter" /\ UNCHANGED <<revoked, doubled>>
  BY DEF Login
<1>3. tab[b].state = "entering"
  BY <1>2 DEF SessionInv, Phases, TabTypes, TabStates, Busy
<1>4. TabTypes'
  BY <1>1 DEF SessionInv, TabTypes, signVars
<1>5. Phases'
  BY <1>1, <1>3 DEF SessionInv, Phases, Busy
<1>6. TokensIssued'
  <2>1. /\ issued \in Nat /\ cookie \in Nat /\ cookie <= issued
        /\ \A c \in Tabs : request[c].token \in Nat /\ request[c].token <= issued
    BY DEF SessionInv, RefreshInv, RefreshTypes, TokensIssued
  <2>2. new \in Nat /\ 0 < new /\ new <= MaxTokens /\ \A n \in Nat : n <= issued => n <= new
    BY <1>0, <1>1, <2>1, TimesAssumption DEF Tokens
  <2>3. new # None
    BY <1>0, <2>1 DEF None
  <2>4. \A c \in Tabs : request'[c].token <= new
    <3>1. new <= new /\ \A c \in Tabs \ {b} : request[c].token <= new
      BY <2>1, <2>2
    <3> QED BY <1>1, <3>1
  <2>5. \A c \in Tabs : request'[c].stage \in {"rotate", "ok"} => request'[c].token # None
    BY <1>1, <2>3 DEF SessionInv, TokensIssued
  <2>6. \A t \in Tokens : t > new => revoked[t] = Never
    BY <1>0, <2>1 DEF SessionInv, TokensIssued, Tokens
  <2> QED BY <1>1, <1>2, <2>1, <2>2, <2>4, <2>5, <2>6 DEF TokensIssued
<1>7. ASSUME Calm' PROVE Alone' /\ OwnTokens' /\ HoldsCookie' /\ WhileOff' /\ OneSession'
  <2>1. Alone /\ OwnTokens /\ HoldsCookie /\ WhileOff /\ OneSession
    BY <1>1, <1>7 DEF SessionInv, CalmInv, Calm, signVars
  <2>2. Alone' /\ OwnTokens'
    BY <1>1, <2>1 DEF Alone, OwnTokens
  <2>3. HoldsCookie' /\ WhileOff'
    BY <1>1, <1>3, <2>1 DEF HoldsCookie, WhileOff, signVars
  <2>4. OneSession'
    BY <1>1, <1>2, <1>3, <2>1 DEF OneSession, signVars
  <2> QED BY <2>2, <2>3, <2>4
<1> QED BY <1>4, <1>5, <1>6, <1>7 DEF CalmInv

\* What revoking every row that lives does to the rows and the request.
LEMMA RevokeStep ==
    ASSUME SessionInv, NEW b \in Tabs, RevokeAll(b)
    PROVE  /\ tab[b].state = "sent" /\ request[b].stage = "revoke"
           /\ request'[b].stage = "refresh_reused" /\ request'[b].token = request[b].token
           /\ \A c \in Tabs \ {b} : request'[c] = request[c]
           /\ \A t \in Tokens : ~Live(t)' /\ (t > issued => revoked'[t] = revoked[t])
           /\ UNCHANGED <<instant, issued, cookie, tab, network, doubled, signVars>>
<1>1. /\ issued \in Nat /\ request[b].at \in Nat
      /\ request \in [Tabs -> [stage : Stages, token : Nat, at : Nat]]
  BY DEF SessionInv, RefreshInv, RefreshTypes
<1>2. /\ request[b].stage = "revoke"
      /\ revoked' = [t \in Tokens |-> IF Live(t) THEN request[b].at ELSE revoked[t]]
      /\ request' = [request EXCEPT ![b].stage = "refresh_reused"]
      /\ UNCHANGED <<instant, issued, cookie, tab, network, doubled, signVars>>
  BY DEF RevokeAll
<1>3. tab[b].state = "sent"
  BY <1>2 DEF SessionInv, Phases, TabTypes, TabStates, Busy
<1>4. ASSUME NEW t \in Tokens PROVE ~Live(t)' /\ (t > issued => revoked'[t] = revoked[t])
  <2>1. revoked'[t] = IF Live(t) THEN request[b].at ELSE revoked[t]
    BY <1>2
  <2>2. ~Live(t)'
    BY <1>1, <1>2, <2>1 DEF Live, Never
  <2>3. t > issued => ~Live(t)
    BY <1>1 DEF Live, Tokens
  <2> QED BY <2>1, <2>2, <2>3
<1>5. /\ request'[b].stage = "refresh_reused" /\ request'[b].token = request[b].token
      /\ \A c \in Tabs \ {b} : request'[c] = request[c]
  BY <1>1, <1>2
<1> QED BY <1>2, <1>3, <1>4, <1>5

LEMMA RevokeSession ==
    ASSUME SessionInv, NEW b \in Tabs, RevokeAll(b)
    PROVE  TabTypes' /\ Phases' /\ TokensIssued' /\ CalmInv'
<1>1. /\ tab[b].state = "sent" /\ request[b].stage = "revoke"
      /\ request'[b].stage = "refresh_reused" /\ request'[b].token = request[b].token
      /\ \A c \in Tabs \ {b} : request'[c] = request[c]
      /\ \A t \in Tokens : ~Live(t)' /\ (t > issued => revoked'[t] = revoked[t])
      /\ UNCHANGED <<instant, issued, cookie, tab, network, doubled, signVars>>
  BY RevokeStep
<1>2. TabTypes' /\ Phases'
  BY <1>1 DEF SessionInv, TabTypes, Phases, Busy, signVars
<1>3. TokensIssued'
  BY <1>1 DEF SessionInv, TokensIssued
<1>4. ASSUME Calm' PROVE Alone' /\ OwnTokens' /\ HoldsCookie' /\ WhileOff' /\ OneSession'
  <2>1. Alone /\ OwnTokens /\ HoldsCookie /\ WhileOff /\ OneSession
    BY <1>1, <1>4 DEF SessionInv, CalmInv, Calm, signVars
  <2>2. Alone' /\ OwnTokens'
    BY <1>1, <2>1 DEF Alone, OwnTokens
  <2>3. HoldsCookie' /\ WhileOff'
    BY <1>1, <2>1 DEF HoldsCookie, WhileOff, signVars
  <2>4. OneSession'
    BY <1>1, <2>1 DEF OneSession, signVars
  <2> QED BY <2>2, <2>3, <2>4
<1> QED BY <1>2, <1>3, <1>4 DEF CalmInv

\* What a sign-out does to the rows and the request.
LEMMA LogoutStep ==
    ASSUME SessionInv, NEW b \in Tabs, Logout(b)
    PROVE  /\ tab[b].state = "leaving" /\ request[b].stage = "leave"
           /\ request'[b].stage = "left" /\ request'[b].token = request[b].token
           /\ \A c \in Tabs \ {b} : request'[c] = request[c]
           /\ \A t \in Tokens :
                 /\ Live(t)' <=> Live(t) /\ t # request[b].token
                 /\ t > issued => revoked'[t] = revoked[t]
           /\ UNCHANGED <<instant, issued, cookie, tab, network, doubled, signVars>>
<1>1. /\ issued \in Nat /\ instant \in Nat
      /\ request \in [Tabs -> [stage : Stages, token : Nat, at : Nat]]
  BY DEF SessionInv, RefreshInv, RefreshTypes
<1>2. /\ request[b].stage = "leave"
      /\ revoked' = [t \in Tokens |-> IF t = request[b].token /\ Live(t)
                                      THEN instant ELSE revoked[t]]
      /\ request' = [request EXCEPT ![b].stage = "left"]
      /\ UNCHANGED <<instant, issued, cookie, tab, network, doubled, signVars>>
  BY DEF Logout
<1>3. tab[b].state = "leaving"
  BY <1>2 DEF SessionInv, Phases, TabTypes, TabStates, Busy
<1>4. ASSUME NEW t \in Tokens
      PROVE  /\ Live(t)' <=> Live(t) /\ t # request[b].token
             /\ t > issued => revoked'[t] = revoked[t]
  <2>1. revoked'[t] = IF t = request[b].token /\ Live(t) THEN instant ELSE revoked[t]
    BY <1>2
  <2>2. Live(t)' <=> Live(t) /\ t # request[b].token
    BY <1>1, <1>2, <2>1 DEF Live, Never
  <2>3. t > issued => ~Live(t)
    BY <1>1 DEF Live, Tokens
  <2> QED BY <2>1, <2>2, <2>3
<1>5. /\ request'[b].stage = "left" /\ request'[b].token = request[b].token
      /\ \A c \in Tabs \ {b} : request'[c] = request[c]
  BY <1>1, <1>2
<1> QED BY <1>2, <1>3, <1>4, <1>5

LEMMA LogoutSession ==
    ASSUME SessionInv, NEW b \in Tabs, Logout(b)
    PROVE  TabTypes' /\ Phases' /\ TokensIssued' /\ CalmInv'
<1>1. /\ tab[b].state = "leaving" /\ request[b].stage = "leave"
      /\ request'[b].stage = "left" /\ request'[b].token = request[b].token
      /\ \A c \in Tabs \ {b} : request'[c] = request[c]
      /\ \A t \in Tokens :
            /\ Live(t)' <=> Live(t) /\ t # request[b].token
            /\ t > issued => revoked'[t] = revoked[t]
      /\ UNCHANGED <<instant, issued, cookie, tab, network, doubled, signVars>>
  BY LogoutStep
<1>2. TabTypes' /\ Phases'
  BY <1>1 DEF SessionInv, TabTypes, Phases, Busy, signVars
<1>3. TokensIssued'
  BY <1>1 DEF SessionInv, TokensIssued
<1>4. ASSUME Calm' PROVE Alone' /\ OwnTokens' /\ HoldsCookie' /\ WhileOff' /\ OneSession'
  <2>1. Alone /\ OwnTokens /\ HoldsCookie /\ WhileOff /\ OneSession
    BY <1>1, <1>4 DEF SessionInv, CalmInv, Calm, signVars
  <2>2. Alone' /\ OwnTokens'
    BY <1>1, <2>1 DEF Alone, OwnTokens
  <2>3. HoldsCookie' /\ WhileOff'
    BY <1>1, <2>1 DEF HoldsCookie, WhileOff, signVars
  <2>4. OneSession'
    <3>1. \A c \in Tabs \ {b} : request[c].stage = "none"
      BY <1>1, <2>1 DEF Alone, SessionInv, Phases, TabTypes, TabStates, Busy
    <3>2. request[b].token = cookie
      BY <1>1, <2>1 DEF HoldsCookie
    <3> QED BY <1>1, <2>1, <3>1, <3>2 DEF OneSession, signVars
  <2> QED BY <2>2, <2>3, <2>4
<1> QED BY <1>2, <1>3, <1>4 DEF CalmInv

LEMMA SessionStarts == RefreshInit => SessionInv
<1> SUFFICES ASSUME RefreshInit PROVE SessionInv
  OBVIOUS
<1>1. RefreshInv
  BY RefreshStarts
<1>2. \A b \in Tabs : /\ tab[b].state = "idle"
                      /\ request[b].stage = "none" /\ request[b].token = None
  BY DEF RefreshInit, NoRequest
<1>3. TabTypes
  BY DEF RefreshInit, TabTypes, TabStates
<1>4. Phases
  BY <1>2 DEF Phases, Busy
<1>5. TokensIssued
  BY <1>2, TimesAssumption DEF RefreshInit, TokensIssued, None
<1>6. CalmInv
  <2>1. Alone /\ OwnTokens /\ HoldsCookie /\ WhileOff
    BY <1>2 DEF RefreshInit, Alone, OwnTokens, HoldsCookie, WhileOff, None
  <2>2. \A t \in Tokens : Live(t) => t = cookie
    BY DEF RefreshInit, Live
  <2>3. OneSession
    BY <1>2, <2>2 DEF RefreshInit, OneSession
  <2> QED BY <2>1, <2>3 DEF CalmInv
<1> QED BY <1>1, <1>3, <1>4, <1>5, <1>6 DEF SessionInv

LEMMA SessionSteps == SessionInv /\ [RefreshNext]_refreshVars => SessionInv'
<1> SUFFICES ASSUME SessionInv, [RefreshNext]_refreshVars PROVE SessionInv'
  OBVIOUS
<1>1. RefreshInv'
  BY RefreshSteps DEF SessionInv
<1>2. TabTypes' /\ Phases' /\ TokensIssued' /\ CalmInv'
  <2>1. CASE \E b \in Tabs : StartRefresh(b) \/ Retry(b)
    BY <2>1, SendSession
  <2>2. CASE \E b \in Tabs : SignOut(b)
    BY <2>2, SignOutSession
  <2>3. CASE \E b \in Tabs : SignIn(b)
    BY <2>3, SignInSession
  <2>4. CASE \E b \in Tabs : Land(b)
    BY <2>4, LandSession
  <2>5. CASE \E b \in Tabs : Lose(b)
    BY <2>5, LoseSession
  <2>6. CASE \E b \in Tabs : Reload(b)
    BY <2>6, ReloadSession
  <2>7. CASE \E b \in Tabs : ReadToken(b)
    BY <2>7, ReadSession
  <2>8. CASE \E b \in Tabs : Rotate(b)
    BY <2>8, RotateSession
  <2>9. CASE \E b \in Tabs : RevokeAll(b)
    BY <2>9, RevokeSession
  <2>10. CASE \E b \in Tabs : Login(b)
    BY <2>10, LoginSession
  <2>11. CASE \E b \in Tabs : Logout(b)
    BY <2>11, LogoutSession
  <2>12. CASE RefreshTick \/ RefreshStopped \/ UNCHANGED refreshVars
    <3>1. RefreshTick \/ UNCHANGED refreshVars
      BY <2>12 DEF RefreshStopped
    <3> QED BY <3>1, TickSession
  <2> QED BY <2>1, <2>2, <2>3, <2>4, <2>5, <2>6, <2>7, <2>8, <2>9, <2>10, <2>11, <2>12
          DEF RefreshNext, ServerStep
<1> QED BY <1>1, <1>2 DEF SessionInv

\* After a sign-out that met no other call of the browser, no tab gets a
\* session back until somebody signs in, however many tabs share the cookie
\* and however long a response takes.
THEOREM SignedOutHolds == RefreshSpec => []SignedOutStaysOut
<1>1. SessionInv => SignedOutStaysOut
  BY DEF SessionInv, CalmInv, Calm, WhileOff, OneSession, SignedOutStaysOut
<1> QED BY SessionStarts, SessionSteps, <1>1, PTL DEF RefreshSpec

-----------------------------------------------------------------------------
(* The types *)

\* Nothing is stamped with a moment that has not come; the bounds hold.
Stamped ==
    /\ instant <= RefreshHorizon
    /\ \A t \in Tokens : revoked[t] \in Never..instant
    /\ \A b \in Tabs : tab[b].since <= instant /\ request[b].at <= instant
    /\ leaves <= MaxLeaves /\ entries <= MaxEntries

\* The stamps are numbers.
LEMMA StampsAreNumbers ==
    ASSUME SessionInv
    PROVE  /\ instant \in Nat /\ RefreshHorizon \in Nat
           /\ leaves \in Nat /\ MaxLeaves \in Nat /\ entries \in Nat /\ MaxEntries \in Nat
           /\ revoked \in [Tokens -> Int]
           /\ tab \in [Tabs -> [state : TabStates, since : Nat, retried : BOOLEAN]]
           /\ request \in [Tabs -> [stage : Stages, token : Nat, at : Nat]]
BY TimesAssumption DEF SessionInv, RefreshInv, RefreshTypes, TabTypes

\* Each step keeps the stamps in the past and the counts within their bounds.
LEMMA StampsKeep ==
    ASSUME SessionInv, Stamped, [RefreshNext]_refreshVars
    PROVE  Stamped'
<1>0. SessionInv /\ SessionInv'
  BY SessionSteps
<1>n. /\ instant \in Nat /\ RefreshHorizon \in Nat
      /\ leaves \in Nat /\ MaxLeaves \in Nat /\ entries \in Nat /\ MaxEntries \in Nat
      /\ revoked \in [Tokens -> Int]
      /\ tab \in [Tabs -> [state : TabStates, since : Nat, retried : BOOLEAN]]
      /\ request \in [Tabs -> [stage : Stages, token : Nat, at : Nat]]
  BY StampsAreNumbers
<1> USE DEF Stamped
<1>1. CASE \E b \in Tabs : StartRefresh(b) \/ Retry(b) \/ SignOut(b) \/ SignIn(b)
  <2>1. PICK b \in Tabs, state \in Busy, stage \in Stages, retried \in BOOLEAN :
            Call(b, state, stage, retried)
    BY <1>1 DEF StartRefresh, Retry, SignOut, SignIn, Send, Busy, Stages
  <2>2. \A c \in Tabs : /\ tab'[c].since = (IF c = b THEN instant ELSE tab[c].since)
                        /\ request'[c].at = (IF c = b THEN instant ELSE request[c].at)
    BY <1>n, <2>1 DEF Call
  <2>3. UNCHANGED <<instant, revoked>>
    BY <2>1 DEF Call
  <2>4. /\ leaves' = leaves \/ (leaves < MaxLeaves /\ leaves' = leaves + 1)
        /\ entries' = entries \/ (entries < MaxEntries /\ entries' = entries + 1)
    BY <1>1 DEF StartRefresh, Retry, SignOut, SignIn, Send
  <2> QED BY <1>n, <2>2, <2>3, <2>4
<1>2. CASE \E b \in Tabs : Land(b) \/ Lose(b)
  <2>1. PICK b \in Tabs : Land(b) \/ Lose(b)
    BY <1>2
  <2>2. PICK stage : Settle(b, stage)
    BY <2>1 DEF Land, Lose
  <2>3. request' = [request EXCEPT ![b] = NoRequest] /\ NoRequest.at = 0
    BY <2>1 DEF Land, Lose, NoRequest
  <2>4. \A c \in Tabs : tab'[c].since \in {tab[c].since, instant, 0}
    BY <1>n, <2>2 DEF Settle
  <2>5. \A c \in Tabs : request'[c].at \in {request[c].at, 0}
    BY <1>n, <2>3
  <2>6. UNCHANGED <<instant, revoked, leaves, entries>>
    BY <2>1 DEF Land, Lose, signVars
  <2> QED BY <1>n, <2>4, <2>5, <2>6
<1>3. CASE \E b \in Tabs : Reload(b)
  <2>1. PICK b \in Tabs : tab' = [tab EXCEPT ![b] = [@ EXCEPT !.state = "idle"]]
    BY <1>3 DEF Reload
  <2>2. \A c \in Tabs : tab'[c].since = tab[c].since
    BY <1>n, <2>1
  <2>3. UNCHANGED <<instant, revoked, request, leaves, entries>>
    BY <1>3 DEF Reload, signVars
  <2> QED BY <1>n, <2>2, <2>3
<1>4. CASE \E b \in Tabs : ServerStep(b)
  <2>1. PICK b \in Tabs : ServerStep(b)
    BY <1>4
  <2>2. UNCHANGED <<instant, tab, leaves, entries>>
    BY <2>1 DEF ServerStep, ReadToken, Rotate, RevokeAll, Login, Logout, Issue, signVars
  <2>3. \A c \in Tabs : request'[c].at \in {request[c].at, instant}
    <3>1. PICK to \in [stage : Stages, token : Nat, at : {request[b].at, instant}] :
              request' = [request EXCEPT ![b] = to]
      <4>1. CASE ReadToken(b)
        <5>1. Answered(request[b].token) \in Stages
          BY DEF Answered, Stages, Landing
        <5> QED BY <1>n, <4>1, <5>1 DEF ReadToken
      <4>2. CASE Issue(b)
        <5>1. issued + 1 \in Nat
          BY DEF SessionInv, RefreshInv, RefreshTypes
        <5>2. "ok" \in Stages
          BY DEF Stages, Landing
        <5> QED BY <1>n, <4>2, <5>1, <5>2 DEF Issue
      <4>3. CASE RevokeAll(b) \/ Logout(b)
        <5>1. PICK stage \in Stages : request' = [request EXCEPT ![b].stage = stage]
          BY <4>3 DEF RevokeAll, Logout, Stages, Landing
        <5> QED BY <1>n, <5>1
      <4> QED BY <2>1, <4>1, <4>2, <4>3 DEF ServerStep, Rotate, Login
    <3> QED BY <1>n, <3>1
  <2>4. \A t \in Tokens : revoked'[t] \in {revoked[t], instant, request[b].at}
    BY <1>n, <2>1 DEF ServerStep, ReadToken, Rotate, RevokeAll, Login, Logout
  <2>5. instant \in Never..instant /\ request[b].at \in Never..instant
    BY <1>n DEF Never
  <2> QED BY <1>n, <2>2, <2>3, <2>4, <2>5
<1>5. CASE RefreshTick
  <2>1. /\ instant < RefreshHorizon /\ instant' = instant + 1
        /\ UNCHANGED <<revoked, tab, request, leaves, entries>>
    BY <1>5 DEF RefreshTick, signVars
  <2> QED BY <1>n, <2>1 DEF Never
<1>6. CASE RefreshStopped \/ UNCHANGED refreshVars
  BY <1>6 DEF RefreshStopped, refreshVars, signVars
<1> QED BY <1>1, <1>2, <1>3, <1>4, <1>5, <1>6 DEF RefreshNext

\* No row, cookie, call or promise ever leaves the values it may take: tokens
\* were issued, moments have come, and a tab waits for a call exactly while
\* one of its calls is under way.
THEOREM RefreshTyped == RefreshSpec => []RefreshTypeOK
<1>1. RefreshInit => SessionInv /\ Stamped
  <2>1. ASSUME RefreshInit PROVE Stamped
    BY <2>1, TimesAssumption DEF RefreshInit, Stamped, NoRequest, Never, signVars
  <2> QED BY <2>1, SessionStarts
<1>2. SessionInv /\ Stamped /\ [RefreshNext]_refreshVars => (SessionInv /\ Stamped)'
  BY StampsKeep, SessionSteps
<1>3. SessionInv /\ Stamped => RefreshTypeOK
  <2> SUFFICES ASSUME SessionInv, Stamped PROVE RefreshTypeOK
    OBVIOUS
  <2>1. /\ instant \in Nat /\ RefreshHorizon \in Nat /\ MaxTokens \in Nat
        /\ leaves \in Nat /\ MaxLeaves \in Nat /\ entries \in Nat /\ MaxEntries \in Nat
        /\ issued \in Nat /\ cookie \in Nat
    BY TimesAssumption, StampsAreNumbers DEF SessionInv, RefreshInv, RefreshTypes
  <2>2. /\ instant \in 0..RefreshHorizon /\ issued \in Tokens /\ cookie \in 0..issued
        /\ leaves \in 0..MaxLeaves /\ entries \in 0..MaxEntries
    BY <2>1 DEF SessionInv, TokensIssued, Stamped, Tokens
  <2>3. revoked \in [Tokens -> Never..RefreshHorizon]
    <3>1. \A t \in Tokens : revoked[t] \in Never..RefreshHorizon
      BY <2>1 DEF Stamped, Never
    <3> QED BY <3>1, StampsAreNumbers
  <2>4. tab \in [Tabs -> [state : TabStates, since : 0..instant, retried : BOOLEAN]]
    <3>1. tab \in [Tabs -> [state : TabStates, since : Nat, retried : BOOLEAN]]
      BY StampsAreNumbers
    <3>2. \A b \in Tabs : tab[b].since \in 0..instant
      BY <2>1, <3>1 DEF Stamped
    <3> QED BY <3>1, <3>2
  <2>5. \A b \in Tabs :
            /\ request[b].stage \in Stages
            /\ request[b].token \in 0..issued /\ request[b].at \in 0..instant
    <3>1. request \in [Tabs -> [stage : Stages, token : Nat, at : Nat]]
      BY StampsAreNumbers
    <3> QED BY <2>1, <3>1 DEF Stamped, SessionInv, TokensIssued
  <2>6. \A b \in Tabs : (request[b].stage = "none") <=> tab[b].state \notin Busy
    BY DEF SessionInv, Phases, Busy
  <2> QED BY <2>2, <2>3, <2>4, <2>5, <2>6
          DEF RefreshTypeOK, SessionInv, RefreshInv, RefreshTypes, TabTypes, TabStates,
              Stages, Busy
<1> QED BY <1>1, <1>2, <1>3, PTL DEF RefreshSpec

-----------------------------------------------------------------------------
(* The cookie, while every response lands within half the grace *)

\* A row is revoked, and a call sent and read, in the past; no call takes
\* longer than Latency.
Times ==
    /\ \A t \in Tokens : revoked[t] <= instant
    /\ \A b \in Tabs : tab[b].since <= instant
    /\ \A b \in Tabs : tab[b].state \in Busy =>
          /\ tab[b].since <= request[b].at /\ request[b].at <= instant
          /\ instant <= tab[b].since + Latency

\* A new token opens a session until it has reached the browser.
Alive == \A b \in Tabs : request[b].stage = "ok" => Live(request[b].token)

\* A token that is presented after its revocation was sent within a call's
\* time of it, and so within the grace.
InGrace(b) ==
    /\ request[b].stage \notin {"revoke", "refresh_reused"}
    /\ request[b].stage = "read" /\ request[b].token # None
       /\ ~Live(request[b].token)
       => tab[b].since <= revoked[request[b].token] + Latency

NotReused == \A b \in Tabs : InGrace(b)

\* A cookie that opens no session is about to be replaced or removed.
Backed ==
    session = "on" =>
        \/ Live(cookie)
        \/ \E b \in Tabs : /\ tab[b].state = "sent" /\ request[b].stage = "ok"
                           /\ tab[b].since <= revoked[cookie]
        \/ \E b \in Tabs : request[b].stage = "left"

CookieInv == Calm => Alive /\ NotReused /\ Backed

DelayInv == SessionInv /\ Times /\ CookieInv

\* The times that are compared are integers.
LEMMA TimesAreNumbers ==
    ASSUME SessionInv
    PROVE  /\ instant \in Nat /\ Latency \in Nat
           /\ \A t \in Tokens : revoked[t] \in Int
           /\ \A b \in Tabs : tab[b].since \in Nat /\ request[b].at \in Nat
BY TimesAssumption DEF SessionInv, RefreshInv, RefreshTypes, TabTypes

\* What a request presents is a token.
LEMMA Presented ==
    ASSUME SessionInv, NEW b \in Tabs, request[b].token # None
    PROVE  request[b].token \in Tokens
BY TimesAssumption DEF SessionInv, RefreshInv, RefreshTypes, TokensIssued, None, Tokens

\* What the cookie holds is a token.
LEMMA CookieNumber ==
    ASSUME SessionInv, cookie # None
    PROVE  cookie \in Tokens
BY TimesAssumption DEF SessionInv, RefreshInv, RefreshTypes, TokensIssued, None, Tokens

LEMMA SendCookie ==
    ASSUME DelayInv, NEW b \in Tabs, StartRefresh(b) \/ Retry(b)
    PROVE  Times' /\ CookieInv'
<1>1. (\E retried \in BOOLEAN : Call(b, "sent", "read", retried)) /\ tab[b].state \notin Busy
  BY DEF StartRefresh, Retry, Send, Busy
<1>2. SessionInv
  BY DEF DelayInv
<1>3. /\ tab'[b].state = "sent" /\ tab'[b].since = instant
      /\ request'[b].stage = "read" /\ request'[b].token = cookie
      /\ request'[b].at = instant
      /\ \A c \in Tabs \ {b} : tab'[c] = tab[c] /\ request'[c] = request[c]
      /\ UNCHANGED <<instant, revoked, issued, cookie, network, doubled, session>>
      /\ Calm' => Calm /\ \A c \in Tabs \ {b} : tab[c].state # "leaving"
  <2>1. "sent" \in Busy /\ "read" \in {"read", "leave", "enter"}
    BY DEF Busy
  <2> QED BY <1>1, <1>2, <2>1, CallStep
<1>4. Times'
  BY <1>2, <1>3, TimesAreNumbers DEF DelayInv, Times
<1>5. ASSUME Calm' PROVE Alive' /\ NotReused' /\ Backed'
  <2>1. /\ Alive /\ NotReused /\ Backed
        /\ Alone /\ OwnTokens /\ HoldsCookie /\ WhileOff
    BY <1>3, <1>5 DEF DelayInv, CookieInv, SessionInv, CalmInv
  <2>2. request[b].stage = "none" /\ \A c \in Tabs : request[c].stage # "left"
    BY <1>1, <1>2, <1>3, <1>5 DEF SessionInv, Phases, TabTypes, TabStates, Busy
  <2>3. Alive'
    BY <1>3, <2>1 DEF Alive, Live
  <2>4. cookie # None /\ ~Live(cookie) => instant <= revoked[cookie] + Latency
    <3> SUFFICES ASSUME cookie # None, ~Live(cookie)
                 PROVE  instant <= revoked[cookie] + Latency
      OBVIOUS
    <3>1. PICK c \in Tabs : tab[c].state = "sent" /\ tab[c].since <= revoked[cookie]
      BY <1>2, <2>1, <2>2 DEF WhileOff, Backed, SessionInv, TabTypes
    <3>2. instant <= tab[c].since + Latency
      BY <3>1 DEF DelayInv, Times, Busy
    <3>3. cookie \in Tokens
      BY <1>2, CookieNumber
    <3> QED BY <1>2, <3>1, <3>2, <3>3, TimesAreNumbers
  <2>5. NotReused'
    <3>1. ASSUME NEW c \in Tabs \ {b} PROVE InGrace(c)'
      BY <1>3, <2>1 DEF NotReused, InGrace, Live
    <3>2. InGrace(b)'
      BY <1>3, <2>4 DEF InGrace, Live
    <3> QED BY <3>1, <3>2 DEF NotReused
  <2>6. Backed'
    BY <1>3, <2>1, <2>2 DEF Backed, Live
  <2> QED BY <2>3, <2>5, <2>6
<1> QED BY <1>4, <1>5 DEF CookieInv

LEMMA LeaveCookie ==
    ASSUME DelayInv, NEW b \in Tabs, SignOut(b) \/ SignIn(b)
    PROVE  Times' /\ CookieInv'
<1>1. PICK state \in {"leaving", "entering"}, stage \in {"leave", "enter"} :
          (\E retried \in BOOLEAN : Call(b, state, stage, retried)) /\ tab[b].state \notin Busy
  BY DEF SignOut, SignIn, Busy
<1>2. SessionInv
  BY DEF DelayInv
<1>3. /\ tab'[b].state = state /\ tab'[b].since = instant
      /\ request'[b].stage = stage /\ request'[b].at = instant
      /\ \A c \in Tabs \ {b} : tab'[c] = tab[c] /\ request'[c] = request[c]
      /\ UNCHANGED <<instant, revoked, issued, cookie, network, doubled, session>>
      /\ Calm' => Calm
  <2>1. state \in Busy /\ stage \in {"read", "leave", "enter"}
    BY DEF Busy
  <2> QED BY <1>1, <1>2, <2>1, CallStep
<1>4. Times'
  BY <1>2, <1>3, TimesAreNumbers DEF DelayInv, Times
<1>5. ASSUME Calm' PROVE Alive' /\ NotReused' /\ Backed'
  <2>1. Alive /\ NotReused /\ Backed
    BY <1>3, <1>5 DEF DelayInv, CookieInv
  <2>2. request[b].stage = "none"
    BY <1>1, <1>2 DEF SessionInv, Phases
  <2>3. Alive' /\ Backed'
    BY <1>1, <1>3, <2>1, <2>2 DEF Alive, Backed, Live
  <2>4. NotReused'
    BY <1>1, <1>3, <2>1 DEF NotReused, InGrace, Live
  <2> QED BY <2>3, <2>4
<1> QED BY <1>4, <1>5 DEF CookieInv

LEMMA LandCookie ==
    ASSUME DelayInv, NEW b \in Tabs, Land(b)
    PROVE  Times' /\ CookieInv'
<1> DEFINE stage == request[b].stage
<1>0. SessionInv
  BY DEF DelayInv
<1>1. /\ tab'[b].state \in {"fresh", "waiting", "signed-out"}
      /\ tab'[b].since \in {0, instant}
      /\ request'[b].stage = "none"
      /\ \A c \in Tabs \ {b} : tab'[c] = tab[c] /\ request'[c] = request[c]
  <2>1. Settle(b, stage) /\ request' = [request EXCEPT ![b] = NoRequest]
    BY DEF Land
  <2> QED BY <1>0, <2>1, EndStep
<1>2. /\ stage \in Landing /\ cookie' = Jar(b)
      /\ session' = CASE stage = "left" -> "off"
                      [] tab[b].state = "entering" -> "on"
                      [] OTHER -> session
      /\ UNCHANGED <<instant, revoked, issued, network, doubled, leaves, entries, crossed>>
  BY DEF Land
<1>3. Times'
  BY <1>0, <1>1, <1>2, TimesAreNumbers DEF DelayInv, Times, Busy
<1>4. ASSUME Calm' PROVE Alive' /\ NotReused' /\ Backed'
  <2>1. Alive /\ NotReused /\ Backed
    BY <1>2, <1>4 DEF DelayInv, CookieInv, Calm
  <2>2. Alive' /\ NotReused'
    BY <1>1, <1>2, <2>1 DEF Alive, NotReused, InGrace, Live
  <2>3. Backed'
    <3>1. CASE stage = "ok"
      BY <1>2, <2>1, <3>1 DEF Jar, Alive, Backed, Live
    <3>2. CASE stage = "left"
      <4>1. tab[b].state # "entering"
        BY <1>0, <3>2 DEF SessionInv, Phases
      <4> QED BY <1>2, <3>2, <4>1 DEF Backed
    <3>3. CASE stage \notin {"ok", "left"}
      <4>1. tab[b].state # "entering"
        BY <1>0, <1>2, <3>3 DEF SessionInv, Phases, Landing
      <4>2. cookie' = cookie /\ session' = session
        BY <1>2, <3>3, <4>1 DEF Jar
      <4> QED BY <1>1, <1>2, <2>1, <3>3, <4>2 DEF Backed, Live
    <3> QED BY <3>1, <3>2, <3>3
  <2> QED BY <2>2, <2>3
<1> QED BY <1>3, <1>4 DEF CookieInv

LEMMA LoseCookie ==
    ASSUME DelayInv, NEW b \in Tabs, Lose(b)
    PROVE  Times' /\ CookieInv'
<1>0. SessionInv
  BY DEF DelayInv
<1>1. /\ tab'[b].state = "signed-out" /\ tab'[b].since = 0
      /\ \A c \in Tabs \ {b} : tab'[c] = tab[c] /\ request'[c] = request[c]
  <2>1. Settle(b, "network_error") /\ request' = [request EXCEPT ![b] = NoRequest]
    BY DEF Lose
  <2>2. "network_error" \notin {"ok", "refresh_raced"}
    OBVIOUS
  <2> QED BY <1>0, <2>1, <2>2, EndStep
<1>2. network' = "lossy" /\ UNCHANGED <<instant, revoked>>
  BY DEF Lose
<1>3. Times'
  BY <1>0, <1>1, <1>2, TimesAreNumbers DEF DelayInv, Times, Busy
<1> QED BY <1>2, <1>3 DEF CookieInv, Calm

LEMMA ReloadCookie ==
    ASSUME DelayInv, NEW b \in Tabs, Reload(b)
    PROVE  Times' /\ CookieInv'
<1>1. /\ tab[b].state = "signed-out"
      /\ tab'[b].state = "idle" /\ tab'[b].since = tab[b].since
      /\ \A c \in Tabs \ {b} : tab'[c] = tab[c]
      /\ UNCHANGED <<instant, revoked, issued, cookie, request, network, doubled, signVars>>
  <2>1. /\ tab[b].state = "signed-out"
        /\ tab' = [tab EXCEPT ![b] = [@ EXCEPT !.state = "idle"]]
        /\ UNCHANGED <<instant, revoked, issued, cookie, request, network, doubled, signVars>>
    BY DEF Reload
  <2> QED BY <2>1 DEF DelayInv, SessionInv, TabTypes, TabStates
<1>2. Times'
  BY <1>1 DEF DelayInv, Times, Busy
<1>3. ASSUME Calm' PROVE Alive' /\ NotReused' /\ Backed'
  <2>1. Alive /\ NotReused /\ Backed
    BY <1>1, <1>3 DEF DelayInv, CookieInv, Calm, signVars
  <2> QED BY <1>1, <2>1 DEF Alive, NotReused, InGrace, Backed, Live, signVars
<1> QED BY <1>2, <1>3 DEF CookieInv

LEMMA TickCookie ==
    ASSUME DelayInv, RefreshTick \/ UNCHANGED refreshVars
    PROVE  Times' /\ CookieInv'
<1>0. SessionInv
  BY DEF DelayInv
<1>1. /\ UNCHANGED <<revoked, issued, cookie, tab, request, doubled, signVars>>
      /\ network' = "lossy" <=> network = "lossy"
  BY <1>0, TickSession DEF RefreshTick, refreshVars
<1>2. Times'
  <2>1. CASE RefreshTick
    <3>1. /\ instant' = instant + 1
          /\ \A b \in Tabs : tab[b].state \in Busy => instant < tab[b].since + Latency
      BY <2>1 DEF RefreshTick, Busy
    <3> QED BY <1>0, <1>1, <3>1, TimesAreNumbers DEF DelayInv, Times
  <2>2. CASE UNCHANGED refreshVars
    BY <2>2 DEF DelayInv, Times, refreshVars
  <2> QED BY <2>1, <2>2
<1>3. ASSUME Calm' PROVE Alive' /\ NotReused' /\ Backed'
  <2>1. Alive /\ NotReused /\ Backed
    BY <1>1, <1>3 DEF DelayInv, CookieInv, Calm, signVars
  <2> QED BY <1>1, <2>1 DEF Alive, NotReused, InGrace, Backed, Live, signVars
<1> QED BY <1>2, <1>3 DEF CookieInv

LEMMA ReadCookie ==
    ASSUME 2 * Latency <= Grace, DelayInv, NEW b \in Tabs, ReadToken(b)
    PROVE  Times' /\ CookieInv'
<1> DEFINE token == request[b].token
<1>0. SessionInv
  BY DEF DelayInv
<1>1. /\ request[b].stage = "read" /\ tab[b].state = "sent"
      /\ UNCHANGED <<instant, revoked, issued, cookie, tab, network, doubled, signVars>>
  BY <1>0 DEF ReadToken, SessionInv, Phases, TabTypes, TabStates, Busy
<1>2. /\ request'[b].stage = Answered(token) /\ request'[b].token = token
      /\ request'[b].at = instant
      /\ \A c \in Tabs \ {b} : request'[c] = request[c]
  BY <1>0 DEF ReadToken, SessionInv, RefreshInv, RefreshTypes
<1>3. Answered(token) \in {"no_refresh_token", "rotate", "refresh_raced", "revoke"}
  BY DEF Answered
<1>4. Times'
  <2>1. tab[b].since <= instant /\ instant <= instant
    BY <1>0, TimesAreNumbers DEF DelayInv, Times
  <2> QED BY <1>1, <1>2, <2>1 DEF DelayInv, Times
<1>5. ASSUME Calm' PROVE Alive' /\ NotReused' /\ Backed'
  <2>1. Alive /\ NotReused /\ Backed
    BY <1>1, <1>5 DEF DelayInv, CookieInv, Calm, signVars
  <2>2. Answered(token) # "revoke"
    <3>1. CASE token = None
      BY <3>1 DEF Answered, Live, None
    <3>2. CASE token # None /\ ~Live(token)
      <4>1. tab[b].since <= revoked[token] + Latency
        BY <1>1, <2>1, <3>2 DEF NotReused, InGrace
      <4>2. instant <= tab[b].since + Latency
        BY <1>1 DEF DelayInv, Times, Busy
      <4>3. instant - revoked[token] <= Grace
        BY <1>0, <3>2, <4>1, <4>2, TimesAreNumbers, Presented, TimesAssumption
      <4>4. Answered(token) = "refresh_raced"
        BY <3>2, <4>3 DEF Answered
      <4> QED BY <4>4
    <3>3. CASE token # None /\ Live(token)
      <4>1. Answered(token) = "rotate"
        BY <3>3 DEF Answered
      <4> QED BY <4>1
    <3> QED BY <3>1, <3>2, <3>3
  <2>3. Alive' /\ Backed'
    BY <1>1, <1>2, <1>3, <2>1 DEF Alive, Backed, Live, signVars
  <2>4. NotReused'
    BY <1>1, <1>2, <1>3, <2>1, <2>2 DEF NotReused, InGrace, Live
  <2> QED BY <2>3, <2>4
<1> QED BY <1>4, <1>5 DEF CookieInv

LEMMA RotateCookie ==
    ASSUME DelayInv, NEW b \in Tabs, Rotate(b)
    PROVE  Times' /\ CookieInv'
<1>0. PICK old, new : old = request[b].token /\ new = issued + 1 /\ SessionInv
  BY DEF DelayInv
<1>1. /\ issued' = new /\ new \in Tokens
      /\ request'[b].stage = "ok" /\ request'[b].token = new
      /\ request'[b].at = request[b].at
      /\ \A c \in Tabs \ {b} : request'[c] = request[c] /\ request'[c].token # new
      /\ cookie # new
      /\ UNCHANGED <<instant, cookie, tab, network, signVars>>
  BY <1>0, NewToken DEF Rotate
<1>2. /\ tab[b].state = "sent" /\ old \in Tokens /\ request[b].stage = "rotate"
      /\ revoked'[old] = request[b].at
      /\ ~Live(old)' /\ Live(new)'
      /\ \A t \in Tokens \ {old, new} : revoked'[t] = revoked[t] /\ (Live(t)' <=> Live(t))
      /\ \A t \in Tokens : t > issued' => revoked'[t] = Never
  <2>1. request[b].stage = "rotate"
    BY DEF Rotate
  <2> QED BY <1>0, <2>1, RotateStep
<1>3. /\ tab[b].since <= request[b].at /\ request[b].at <= instant
      /\ \A c \in Tabs : tab[c].since <= request[b].at + Latency
  <2>1. /\ tab[b].since <= request[b].at /\ request[b].at <= instant
        /\ instant <= tab[b].since + Latency
        /\ \A c \in Tabs : tab[c].since <= instant
    BY <1>2 DEF DelayInv, Times, Busy
  <2> QED BY <1>0, <2>1, TimesAreNumbers
<1>4. Times'
  <2>1. revoked'[new] <= instant
    <3>1. revoked'[new] = Never
      BY <1>2 DEF Live
    <3> QED BY <1>0, <3>1, TimesAreNumbers DEF Never
  <2>2. \A t \in Tokens : revoked'[t] <= instant
    BY <1>2, <1>3, <2>1 DEF DelayInv, Times
  <2> QED BY <1>1, <2>2 DEF DelayInv, Times
<1>5. ASSUME Calm' PROVE Alive' /\ NotReused' /\ Backed'
  <2>1. Alive /\ NotReused /\ Backed /\ Alone /\ OwnTokens /\ HoldsCookie
    BY <1>0, <1>1, <1>5 DEF DelayInv, CookieInv, SessionInv, CalmInv, Calm, signVars
  <2>2. \A c \in Tabs : request[c].stage = "ok" => request[c].token \in Tokens
    BY <1>0, Presented DEF SessionInv, TokensIssued
  <2>3. Alive'
    <3>1. ASSUME NEW c \in Tabs \ {b}, request[c].stage = "ok" PROVE Live(request[c].token)'
      <4> DEFINE t == request'[c].token
      <4>1. t = request[c].token /\ t \in Tokens \ {old, new} /\ Live(request[c].token)
        BY <1>0, <1>1, <2>1, <2>2, <3>1 DEF Alive, OwnTokens
      <4>2. PICK u : u = t
        OBVIOUS
      <4>3. Live(u)'
        BY <1>2, <4>1, <4>2
      <4> QED BY <4>2, <4>3 DEF Live
    <3>2. Live(request[b].token)'
      BY <1>1, <1>2 DEF Live
    <3> QED BY <1>1, <3>1, <3>2 DEF Alive
  <2>4. NotReused'
    <3>1. ASSUME NEW c \in Tabs \ {b} PROVE InGrace(c)'
      <4>1. request'[c] = request[c] /\ tab'[c] = tab[c]
        BY <1>1
      <4>2. PICK u : u = request[c].token
        OBVIOUS
      <4>3. CASE u = None
        BY <2>1, <4>1, <4>2, <4>3 DEF NotReused, InGrace
      <4>4. CASE u = old
        BY <1>2, <1>3, <2>1, <4>1, <4>2, <4>4 DEF NotReused, InGrace
      <4>5. CASE u \notin {None, old}
        <5>1. u \in Tokens \ {old, new}
          BY <1>0, <1>1, <4>1, <4>2, <4>5, Presented
        <5>2. revoked'[u] = revoked[u] /\ (Live(u)' <=> Live(u))
          BY <1>2, <5>1
        <5> QED BY <2>1, <4>1, <4>2, <5>2 DEF NotReused, InGrace, Live
      <4> QED BY <4>3, <4>4, <4>5
    <3>2. InGrace(b)'
      BY <1>1 DEF InGrace
    <3> QED BY <3>1, <3>2 DEF NotReused
  <2>5. Backed'
    <3> SUFFICES ASSUME session = "on" PROVE Backed!2'
      BY <1>1 DEF Backed, signVars
    <3>1. cookie \in Tokens \ {new}
      BY <1>0, <1>1, <2>1, CookieNumber DEF HoldsCookie
    <3>2. CASE cookie = old
      BY <1>1, <1>2, <1>3, <3>2
    <3>3. CASE cookie # old
      <4>1. PICK u : u = cookie
        OBVIOUS
      <4>2. revoked'[u] = revoked[u] /\ (Live(u)' <=> Live(u))
        BY <1>2, <3>1, <3>3, <4>1
      <4>3. \A c \in Tabs : request[c].stage \in {"ok", "left"} =>
                request'[c] = request[c] /\ tab'[c] = tab[c]
        BY <1>1, <1>2
      <4> QED BY <1>1, <2>1, <4>1, <4>2, <4>3 DEF Backed, Live
    <3> QED BY <3>2, <3>3
  <2> QED BY <2>3, <2>4, <2>5
<1> QED BY <1>4, <1>5 DEF CookieInv

LEMMA LoginCookie ==
    ASSUME DelayInv, NEW b \in Tabs, Login(b)
    PROVE  Times' /\ CookieInv'
<1>0. PICK new : new = issued + 1 /\ SessionInv
  BY DEF DelayInv
<1>1. /\ issued' = new /\ new \in Tokens
      /\ request'[b].stage = "ok" /\ request'[b].token = new
      /\ request'[b].at = request[b].at
      /\ \A c \in Tabs \ {b} : request'[c] = request[c] /\ request'[c].token # new
      /\ cookie # new
      /\ UNCHANGED <<instant, cookie, tab, network, signVars>>
  BY <1>0, NewToken DEF Login
<1>2. request[b].stage = "enter" /\ UNCHANGED <<revoked, doubled>>
  BY DEF Login
<1>3. Live(new)' /\ \A t \in Tokens \ {new} : Live(t)' <=> Live(t)
  <2>1. /\ issued \in Nat /\ \A t \in Tokens : t > issued => revoked[t] = Never
    BY <1>0 DEF SessionInv, RefreshInv, RefreshTypes, TokensIssued
  <2>2. new > issued /\ new \in 1..issued'
    BY <1>0, <1>1, <2>1
  <2> QED BY <1>0, <1>1, <1>2, <2>1, <2>2 DEF Live, Tokens
<1>4. Times'
  BY <1>1, <1>2 DEF DelayInv, Times
<1>5. ASSUME Calm' PROVE Alive' /\ NotReused' /\ Backed'
  <2>1. Alive /\ NotReused /\ Backed /\ HoldsCookie
    BY <1>0, <1>1, <1>5 DEF DelayInv, CookieInv, SessionInv, CalmInv, Calm, signVars
  <2>2. ASSUME NEW t \in Nat, t # new PROVE Live(t)' <=> Live(t)
    <3>1. issued \in Nat
      BY <1>0 DEF SessionInv, RefreshInv, RefreshTypes
    <3> QED BY <1>0, <1>1, <1>2, <2>2, <3>1 DEF Live
  <2>3. /\ \A c \in Tabs : request[c].token \in Nat
        /\ cookie \in Nat
    BY <1>0 DEF SessionInv, RefreshInv, RefreshTypes
  <2>4. ASSUME NEW c \in Tabs \ {b} PROVE Live(request[c].token)' <=> Live(request[c].token)
    <3>1. PICK u : u = request[c].token
      OBVIOUS
    <3>2. Live(u)' <=> Live(u)
      BY <1>1, <2>2, <2>3, <3>1
    <3> QED BY <1>1, <3>1, <3>2 DEF Live
  <2>5. Alive'
    <3>1. Live(request[b].token)'
      BY <1>1, <1>3 DEF Live
    <3> QED BY <1>1, <2>1, <2>4, <3>1 DEF Alive
  <2>6. NotReused'
    BY <1>1, <1>2, <2>1, <2>4 DEF NotReused, InGrace
  <2>7. Backed'
    <3>1. Live(cookie)' <=> Live(cookie)
      <4>1. PICK u : u = cookie
        OBVIOUS
      <4>2. Live(u)' <=> Live(u)
        BY <1>1, <2>2, <2>3, <4>1
      <4> QED BY <1>1, <4>1, <4>2 DEF Live
    <3> QED BY <1>1, <1>2, <2>1, <3>1 DEF Backed, signVars
  <2> QED BY <2>5, <2>6, <2>7
<1> QED BY <1>4, <1>5 DEF CookieInv

LEMMA RevokeCookie ==
    ASSUME DelayInv, NEW b \in Tabs, RevokeAll(b)
    PROVE  Times' /\ CookieInv'
<1>0. SessionInv
  BY DEF DelayInv
<1>1. /\ tab[b].state = "sent" /\ request[b].stage = "revoke"
      /\ \A c \in Tabs \ {b} : request'[c] = request[c]
      /\ UNCHANGED <<instant, issued, cookie, tab, network, doubled, signVars>>
  BY <1>0, RevokeStep
<1>2. request'[b].at = request[b].at
  BY <1>0 DEF RevokeAll, SessionInv, RefreshInv, RefreshTypes
<1>3. Times'
  <2>1. request[b].at <= instant
    BY <1>1 DEF DelayInv, Times, Busy
  <2>2. \A t \in Tokens : revoked'[t] = IF Live(t) THEN request[b].at ELSE revoked[t]
    BY DEF RevokeAll
  <2>3. \A t \in Tokens : revoked'[t] <= instant
    BY <2>1, <2>2 DEF DelayInv, Times
  <2> QED BY <1>1, <1>2, <2>3 DEF DelayInv, Times
<1>4. ~Calm'
  BY <1>1 DEF DelayInv, CookieInv, NotReused, InGrace, Calm, signVars
<1> QED BY <1>3, <1>4 DEF CookieInv

LEMMA LogoutCookie ==
    ASSUME DelayInv, NEW b \in Tabs, Logout(b)
    PROVE  Times' /\ CookieInv'
<1>0. SessionInv
  BY DEF DelayInv
<1>1. /\ tab[b].state = "leaving" /\ request[b].stage = "leave"
      /\ request'[b].stage = "left" /\ request'[b].token = request[b].token
      /\ \A c \in Tabs \ {b} : request'[c] = request[c]
      /\ UNCHANGED <<instant, issued, cookie, tab, network, doubled, signVars>>
  BY <1>0, LogoutStep
<1>2. request'[b].at = request[b].at
  BY <1>0 DEF Logout, SessionInv, RefreshInv, RefreshTypes
<1>3. Times'
  <2>1. \A t \in Tokens : revoked'[t] \in {instant, revoked[t]}
    BY DEF Logout
  <2>2. \A t \in Tokens : revoked'[t] <= instant
    BY <1>0, <2>1, TimesAreNumbers DEF DelayInv, Times
  <2> QED BY <1>1, <1>2, <2>2 DEF DelayInv, Times
<1>4. ASSUME Calm' PROVE Alive' /\ NotReused' /\ Backed'
  <2>1. Alone
    BY <1>0, <1>1, <1>4 DEF SessionInv, CalmInv, Calm, signVars
  <2>2. \A c \in Tabs \ {b} : request[c].stage = "none"
    BY <1>0, <1>1, <2>1 DEF Alone, SessionInv, Phases, TabTypes, TabStates, Busy
  <2> QED BY <1>1, <2>2 DEF Alive, NotReused, InGrace, Backed
<1> QED BY <1>3, <1>4 DEF CookieInv

LEMMA DelayStarts == RefreshInit => DelayInv
<1> SUFFICES ASSUME RefreshInit PROVE DelayInv
  OBVIOUS
<1>1. SessionInv
  BY SessionStarts
<1>2. \A b \in Tabs : /\ tab[b].state = "idle" /\ tab[b].since = 0
                      /\ request[b].stage = "none"
  BY DEF RefreshInit, NoRequest
<1>3. Times
  BY <1>2 DEF RefreshInit, Times, Busy, Never
<1>4. Live(cookie)
  BY TimesAssumption DEF RefreshInit, Live, Tokens
<1>5. CookieInv
  BY <1>2, <1>4 DEF CookieInv, Alive, NotReused, InGrace, Backed
<1> QED BY <1>1, <1>3, <1>5 DEF DelayInv

LEMMA DelaySteps ==
    ASSUME 2 * Latency <= Grace
    PROVE  DelayInv /\ [RefreshNext]_refreshVars => DelayInv'
<1> SUFFICES ASSUME DelayInv, [RefreshNext]_refreshVars PROVE DelayInv'
  OBVIOUS
<1>1. SessionInv'
  BY SessionSteps DEF DelayInv
<1>2. Times' /\ CookieInv'
  <2>1. CASE \E b \in Tabs : StartRefresh(b) \/ Retry(b)
    BY <2>1, SendCookie
  <2>2. CASE \E b \in Tabs : SignOut(b) \/ SignIn(b)
    BY <2>2, LeaveCookie
  <2>3. CASE \E b \in Tabs : Land(b)
    BY <2>3, LandCookie
  <2>4. CASE \E b \in Tabs : Lose(b)
    BY <2>4, LoseCookie
  <2>5. CASE \E b \in Tabs : Reload(b)
    BY <2>5, ReloadCookie
  <2>6. CASE \E b \in Tabs : ReadToken(b)
    BY <2>6, ReadCookie
  <2>7. CASE \E b \in Tabs : Rotate(b)
    BY <2>7, RotateCookie
  <2>8. CASE \E b \in Tabs : RevokeAll(b)
    BY <2>8, RevokeCookie
  <2>9. CASE \E b \in Tabs : Login(b)
    BY <2>9, LoginCookie
  <2>10. CASE \E b \in Tabs : Logout(b)
    BY <2>10, LogoutCookie
  <2>11. CASE RefreshTick \/ RefreshStopped \/ UNCHANGED refreshVars
    <3>1. RefreshTick \/ UNCHANGED refreshVars
      BY <2>11 DEF RefreshStopped
    <3> QED BY <3>1, TickCookie
  <2> QED BY <2>1, <2>2, <2>3, <2>4, <2>5, <2>6, <2>7, <2>8, <2>9, <2>10, <2>11
          DEF RefreshNext, ServerStep
<1> QED BY <1>1, <1>2 DEF DelayInv

\* Whatever the order in which the tabs' rotations and their responses
\* interleave, a signed-in browser with no call under way holds a token it can
\* go on with, if two calls take no longer than the grace: a row that a tab
\* still presents was then revoked less than the grace ago.
THEOREM CookieStaysUsable ==
    ASSUME 2 * Latency <= Grace
    PROVE  RefreshSpec => []CookieUsable
<1>1. DelayInv => CookieUsable
  <2> SUFFICES ASSUME DelayInv, network # "lossy", session = "on", ~crossed,
                      \A b \in Tabs : tab[b].state \in {"idle", "fresh", "signed-out"}
               PROVE  Live(cookie)
    BY DEF CookieUsable
  <2>1. Backed
    BY DEF DelayInv, CookieInv, Calm
  <2>2. \A b \in Tabs : request[b].stage = "none"
    BY DEF DelayInv, SessionInv, Phases, Busy
  <2> QED BY <2>1, <2>2 DEF Backed
<1>2. DelayInv /\ [RefreshNext]_refreshVars => DelayInv'
  BY DelaySteps
<1> QED BY DelayStarts, <1>1, <1>2, PTL DEF RefreshSpec

-----------------------------------------------------------------------------
(* Two tabs, while nobody signs out and every response lands promptly *)

Undisturbed == network = "prompt" /\ leaves = 0

Nobody ==
    leaves = 0 => /\ ~crossed /\ session = "on"
                  /\ \A b \in Tabs : tab[b].state # "leaving"

\* A tab that waits presents the cookie again as soon as it may.
Patience == \A b \in Tabs : tab[b].state = "waiting" => instant <= tab[b].since + Wait

\* Another tab has rotated the row since b's call was sent.
Rotated(b) ==
    \E c \in Tabs \ {b} :
        \/ tab[c].state = "sent" /\ request[c].stage = "ok"
        \/ tab[c].state = "fresh" /\ tab[b].since <= tab[c].since

\* b's first call: its token lives, or another tab's new one is there or on
\* its way to the cookie.
FirstCall(b) ==
    \/ request[b].stage = "read" /\ Live(request[b].token)
    \/ request[b].stage \in {"rotate", "ok"}
    \/ Rotated(b)

\* b's retry: it carries the token that another tab has just received, and
\* which that tab is in no hurry to rotate.
SecondCall(b) ==
    /\ request[b].stage # "refresh_raced"
    /\ request[b].stage = "read" =>
          /\ Live(request[b].token)
          /\ \E c \in Tabs \ {b} : tab[c].state = "fresh" /\ tab[b].since < tab[c].since + 2 * Wait

\* b's wait lasts longer than the other tab's response takes.
Waits(b) ==
    \E c \in Tabs \ {b} :
        \/ /\ tab[c].state = "sent" /\ request[c].stage = "ok"
           /\ tab[c].since <= tab[b].since
        \/ tab[c].state = "fresh" /\ tab[b].since < tab[c].since + Wait

TabServed(b) ==
    /\ tab[b].state \in {"idle", "fresh", "sent", "waiting"}
    /\ tab[b].state = "waiting" => Waits(b)
    /\ tab[b].state = "sent" =>
          /\ instant < tab[b].since + Wait /\ request[b].token # None
          /\ request[b].stage \in {"read", "rotate", "ok", "refresh_raced"}
          /\ tab[b].retried => SecondCall(b)
          /\ ~tab[b].retried => FirstCall(b)

PromptInv == Nobody /\ Patience /\ (Undisturbed => \A b \in Tabs : TabServed(b))

TwoTabsInv == DelayInv /\ PromptInv

\* The two tabs, and delays that keep the order of the program's.
TabsAsDesigned ==
    /\ \A b \in Tabs : \A c, d \in Tabs \ {b} : c = d
    /\ 3 * Wait <= AccessLife

\* Of two tabs there is one other.
LEMMA TwoOthers ==
    ASSUME Cardinality(Tabs) <= 2
    PROVE  \A b \in Tabs : \A c, d \in Tabs \ {b} : c = d
<1> SUFFICES ASSUME NEW b \in Tabs, NEW c \in Tabs \ {b}, NEW d \in Tabs \ {b}, c # d
             PROVE  FALSE
  OBVIOUS
<1>1. IsFiniteSet(Tabs \ {b}) /\ Cardinality(Tabs \ {b}) \in Nat
      /\ Cardinality(Tabs \ {b}) + 1 <= Cardinality(Tabs)
  BY TabsAssumption, OneLess, Fewer
<1>2. IsFiniteSet((Tabs \ {b}) \ {c}) /\ Cardinality((Tabs \ {b}) \ {c}) \in Nat
      /\ Cardinality((Tabs \ {b}) \ {c}) + 1 <= Cardinality(Tabs \ {b})
  BY <1>1, OneLess, Fewer
<1>3. Cardinality(((Tabs \ {b}) \ {c}) \ {d}) \in Nat
      /\ Cardinality(((Tabs \ {b}) \ {c}) \ {d}) + 1 <= Cardinality((Tabs \ {b}) \ {c})
  BY <1>2, OneLess
<1>4. Cardinality(Tabs) \in Nat
  BY TabsAssumption, FS_CardinalityType
<1> QED BY <1>1, <1>2, <1>3, <1>4

\* What is assumed of the delays.
LEMMA Delays == Wait \in Nat /\ Wait > 0 /\ AccessLife \in Nat
BY TimesAssumption

\* What the invariant says of a session nobody disturbed.
LEMMA CalmWhileUndisturbed ==
    ASSUME TwoTabsInv, Undisturbed
    PROVE  /\ Calm /\ session = "on" /\ \A b \in Tabs : request[b].stage # "left"
           /\ Alive /\ NotReused /\ Backed /\ OwnTokens /\ HoldsCookie
           /\ \A b \in Tabs : TabServed(b)
<1>1. Calm /\ session = "on" /\ \A b \in Tabs : tab[b].state # "leaving"
  BY DEF TwoTabsInv, PromptInv, Nobody, Undisturbed, Calm
<1>2. \A b \in Tabs : request[b].stage # "left"
  BY <1>1 DEF TwoTabsInv, DelayInv, SessionInv, Phases, TabTypes, TabStates, Busy
<1> QED BY <1>1, <1>2
        DEF TwoTabsInv, DelayInv, CookieInv, SessionInv, CalmInv, PromptInv

LEMMA StartServed ==
    ASSUME TabsAsDesigned, TwoTabsInv, NEW b \in Tabs, StartRefresh(b)
    PROVE  PromptInv'
<1>0. SessionInv
  BY DEF TwoTabsInv, DelayInv
<1>1. /\ Call(b, "sent", "read", FALSE) /\ UNCHANGED <<leaves, entries>>
      /\ tab[b].state = "idle" \/ (tab[b].state = "fresh" /\ instant >= tab[b].since + AccessLife)
  BY DEF StartRefresh, Send
<1>2. /\ tab'[b].state = "sent" /\ tab'[b].since = instant
      /\ request'[b].stage = "read" /\ request'[b].token = cookie
      /\ request'[b].at = instant
      /\ \A c \in Tabs \ {b} : tab'[c] = tab[c] /\ request'[c] = request[c]
      /\ UNCHANGED <<instant, revoked, issued, cookie, network, doubled, session>>
  <2>1. "sent" \in Busy /\ "read" \in {"read", "leave", "enter"}
        /\ \E retried \in BOOLEAN : Call(b, "sent", "read", retried)
    BY <1>1 DEF Busy
  <2> QED BY <1>0, <2>1, CallStep
<1>3. tab'[b].retried = FALSE
  BY <1>0, <1>1 DEF Call, SessionInv, TabTypes
<1>4. Nobody'
  BY <1>1, <1>2 DEF TwoTabsInv, PromptInv, Nobody, Call, Leaving
<1>5. Patience'
  BY <1>2 DEF TwoTabsInv, PromptInv, Patience
<1>6. ASSUME Undisturbed' PROVE \A c \in Tabs : TabServed(c)'
  <2>1. Undisturbed
    BY <1>1, <1>2, <1>6 DEF Undisturbed
  <2>2. /\ session = "on" /\ \A c \in Tabs : request[c].stage # "left"
        /\ Backed /\ HoldsCookie /\ \A c \in Tabs : TabServed(c)
    BY <2>1, CalmWhileUndisturbed
  <2>3. TabServed(b)'
    <3>1. Live(cookie) \/ \E c \in Tabs \ {b} : tab[c].state = "sent" /\ request[c].stage = "ok"
      BY <1>1, <2>2 DEF Backed
    <3>2. FirstCall(b)'
      BY <1>2, <3>1 DEF FirstCall, Rotated, Live
    <3>3. instant < instant + Wait
      BY <1>0, TimesAreNumbers, Delays
    <3> QED BY <1>2, <1>3, <2>2, <3>2, <3>3 DEF TabServed, HoldsCookie
  <2>4. ASSUME NEW c \in Tabs \ {b} PROVE TabServed(c)'
    <3>1. TabServed(c) /\ tab'[c] = tab[c] /\ request'[c] = request[c] /\ instant' = instant
          /\ UNCHANGED <<revoked, issued>>
      BY <1>2, <2>2
    <3>2. \A d \in Tabs \ {c} : d = b
      BY DEF TabsAsDesigned
    <3>3. /\ tab[b].state # "sent"
          /\ tab[b].state = "fresh" => tab[b].since + 3 * Wait <= instant
      BY <1>0, <1>1, TimesAreNumbers, Delays DEF TabsAsDesigned
    <3>4. tab[c].state # "waiting"
      <4> SUFFICES ASSUME tab[c].state = "waiting" PROVE FALSE
        OBVIOUS
      <4>1. tab[b].state = "fresh" /\ tab[c].since < tab[b].since + Wait
        BY <3>1, <3>2, <3>3 DEF TabServed, Waits
      <4>2. instant <= tab[c].since + Wait
        BY DEF TwoTabsInv, PromptInv, Patience
      <4> QED BY <1>0, <3>3, <4>1, <4>2, TimesAreNumbers, Delays
    <3>5. ASSUME tab[c].state = "sent"
          PROVE  ~Rotated(c) /\ (tab[c].retried => request[c].stage # "read")
      <4>1. instant < tab[c].since + Wait
        BY <3>1, <3>5 DEF TabServed
      <4>2. ~Rotated(c)
        BY <1>0, <3>2, <3>3, <4>1, TimesAreNumbers, Delays DEF Rotated
      <4>3. tab[c].retried => request[c].stage # "read"
        <5> SUFFICES ASSUME tab[c].retried, request[c].stage = "read" PROVE FALSE
          OBVIOUS
        <5>1. tab[b].state = "fresh" /\ tab[c].since < tab[b].since + 2 * Wait
          BY <3>1, <3>2, <3>5 DEF TabServed, SecondCall
        <5> QED BY <1>0, <3>3, <4>1, <5>1, TimesAreNumbers, Delays
      <4> QED BY <4>2, <4>3
    <3>6. tab[c].state = "sent" =>
              /\ tab[c].retried => SecondCall(c)'
              /\ ~tab[c].retried => FirstCall(c)'
      BY <3>1, <3>5 DEF TabServed, SecondCall, FirstCall, Live
    <3> QED BY <3>1, <3>4, <3>6 DEF TabServed
  <2> QED BY <2>3, <2>4
<1> QED BY <1>4, <1>5, <1>6 DEF PromptInv

LEMMA RetryServed ==
    ASSUME TabsAsDesigned, TwoTabsInv, NEW b \in Tabs, Retry(b)
    PROVE  PromptInv'
<1>0. SessionInv
  BY DEF TwoTabsInv, DelayInv
<1>1. /\ Call(b, "sent", "read", TRUE) /\ UNCHANGED <<leaves, entries>>
      /\ tab[b].state = "waiting" /\ instant >= tab[b].since + Wait
  BY DEF Retry, Send
<1>2. /\ tab'[b].state = "sent" /\ tab'[b].since = instant
      /\ request'[b].stage = "read" /\ request'[b].token = cookie
      /\ request'[b].at = instant
      /\ \A c \in Tabs \ {b} : tab'[c] = tab[c] /\ request'[c] = request[c]
      /\ UNCHANGED <<instant, revoked, issued, cookie, network, doubled, session>>
  <2>1. "sent" \in Busy /\ "read" \in {"read", "leave", "enter"}
        /\ \E retried \in BOOLEAN : Call(b, "sent", "read", retried)
    BY <1>1 DEF Busy
  <2> QED BY <1>0, <2>1, CallStep
<1>3. tab'[b].retried = TRUE
  BY <1>0, <1>1 DEF Call, SessionInv, TabTypes
<1>4. Nobody'
  BY <1>1, <1>2 DEF TwoTabsInv, PromptInv, Nobody, Call, Leaving
<1>5. Patience'
  BY <1>2 DEF TwoTabsInv, PromptInv, Patience
<1>6. ASSUME Undisturbed' PROVE \A c \in Tabs : TabServed(c)'
  <2>1. Undisturbed
    BY <1>1, <1>2, <1>6 DEF Undisturbed
  <2>2. /\ session = "on" /\ \A c \in Tabs : request[c].stage # "left"
        /\ Backed /\ HoldsCookie /\ \A c \in Tabs : TabServed(c)
    BY <2>1, CalmWhileUndisturbed
  <2>3. PICK c \in Tabs \ {b} : tab[c].state = "fresh" /\ tab[b].since < tab[c].since + Wait
    <3>1. PICK c \in Tabs \ {b} :
             \/ tab[c].state = "sent" /\ tab[c].since <= tab[b].since
             \/ tab[c].state = "fresh" /\ tab[b].since < tab[c].since + Wait
      BY <1>1, <2>2 DEF TabServed, Waits
    <3>2. ASSUME tab[c].state = "sent", tab[c].since <= tab[b].since PROVE FALSE
      <4>1. instant < tab[c].since + Wait
        BY <2>2, <3>2 DEF TabServed
      <4> QED BY <1>0, <1>1, <3>2, <4>1, TimesAreNumbers, Delays
    <3> QED BY <3>1, <3>2
  <2>4. \A d \in Tabs \ {b} : d = c
    BY DEF TabsAsDesigned
  <2>5. TabServed(b)'
    <3>1. Live(cookie)
      BY <1>1, <2>2, <2>3, <2>4 DEF Backed
    <3>2. instant < tab[c].since + 2 * Wait
      <4>1. instant <= tab[b].since + Wait
        BY <1>1 DEF TwoTabsInv, PromptInv, Patience
      <4> QED BY <1>0, <2>3, <4>1, TimesAreNumbers, Delays
    <3>3. SecondCall(b)'
      BY <1>2, <2>3, <3>1, <3>2 DEF SecondCall, Live
    <3>4. instant < instant + Wait
      BY <1>0, TimesAreNumbers, Delays
    <3> QED BY <1>2, <1>3, <2>2, <3>3, <3>4 DEF TabServed, HoldsCookie
  <2>6. TabServed(c)'
    BY <1>2, <2>3 DEF TabServed
  <2> QED BY <2>4, <2>5, <2>6
<1> QED BY <1>4, <1>5, <1>6 DEF PromptInv

LEMMA LandServed ==
    ASSUME TabsAsDesigned, TwoTabsInv, NEW b \in Tabs, Land(b)
    PROVE  PromptInv'
<1> DEFINE stage == request[b].stage
<1>0. SessionInv
  BY DEF TwoTabsInv, DelayInv
<1>1. /\ tab'[b].state =
           CASE stage = "ok" -> "fresh"
             [] stage = "refresh_raced" /\ ~tab[b].retried -> "waiting"
             [] OTHER -> "signed-out"
      /\ tab'[b].since = IF stage \in {"ok", "refresh_raced"} THEN instant ELSE 0
      /\ request'[b].stage = "none"
      /\ \A c \in Tabs \ {b} : tab'[c] = tab[c] /\ request'[c] = request[c]
  <2>1. Settle(b, stage) /\ request' = [request EXCEPT ![b] = NoRequest]
    BY DEF Land
  <2> QED BY <1>0, <2>1, EndStep
<1>2. /\ stage \in Landing
      /\ session' = CASE stage = "left" -> "off"
                      [] tab[b].state = "entering" -> "on"
                      [] OTHER -> session
      /\ UNCHANGED <<instant, revoked, issued, network, doubled, leaves, entries, crossed>>
  BY DEF Land
<1>3. Nobody'
  <2> SUFFICES ASSUME leaves = 0 PROVE Nobody!2'
    BY <1>2 DEF Nobody
  <2>1. ~crossed /\ session = "on" /\ \A c \in Tabs : tab[c].state # "leaving"
    BY DEF TwoTabsInv, PromptInv, Nobody
  <2>2. stage # "left"
    BY <1>0, <2>1 DEF SessionInv, Phases, TabTypes, TabStates, Busy
  <2>3. session' = "on"
    BY <1>2, <2>1, <2>2
  <2>4. tab'[b].state # "leaving"
    BY <1>1
  <2> QED BY <1>1, <1>2, <2>1, <2>3, <2>4 DEF Nobody
<1>4. Patience'
  <2>1. tab'[b].state = "waiting" => tab'[b].since = instant
    BY <1>1
  <2>2. instant <= instant + Wait
    BY <1>0, TimesAreNumbers, Delays
  <2> QED BY <1>1, <1>2, <2>1, <2>2 DEF TwoTabsInv, PromptInv, Patience
<1>5. ASSUME Undisturbed' PROVE \A c \in Tabs : TabServed(c)'
  <2>1. Undisturbed
    BY <1>2, <1>5 DEF Undisturbed
  <2>2. \A c \in Tabs : TabServed(c)
    BY <2>1, CalmWhileUndisturbed
  <2>3. /\ tab[b].state = "sent" /\ instant < tab[b].since + Wait
        /\ stage \in {"ok", "refresh_raced"}
    BY <1>0, <1>2, <2>2 DEF TabServed, SessionInv, Phases, TabTypes, TabStates, Busy, Landing
  <2>4. CASE stage = "ok"
    <3>1. tab'[b].state = "fresh" /\ tab'[b].since = instant
      BY <1>1, <2>4
    <3>2. ASSUME NEW c \in Tabs \ {b} PROVE TabServed(c)'
      <4>1. TabServed(c) /\ tab'[c] = tab[c] /\ request'[c] = request[c] /\ instant' = instant
            /\ UNCHANGED <<revoked, issued>>
        BY <1>1, <1>2, <2>2
      <4>2. \A d \in Tabs \ {c} : d = b
        BY DEF TabsAsDesigned
      <4>3. tab[c].since <= instant /\ tab[c].since < instant + Wait
        <5>1. tab[c].since <= instant
          BY DEF TwoTabsInv, DelayInv, Times
        <5> QED BY <1>0, <5>1, TimesAreNumbers, Delays
      <4>4. tab[c].state = "waiting" => Waits(c)'
        BY <3>1, <4>1, <4>3 DEF Waits
      <4>5. tab[c].state = "sent" /\ tab[c].retried => SecondCall(c)'
        BY <2>3, <4>1, <4>2 DEF TabServed, SecondCall
      <4>6. tab[c].state = "sent" /\ ~tab[c].retried => FirstCall(c)'
        BY <3>1, <4>1, <4>3 DEF FirstCall, Rotated
      <4> QED BY <4>1, <4>4, <4>5, <4>6 DEF TabServed
    <3>3. TabServed(b)'
      BY <3>1 DEF TabServed
    <3> QED BY <3>2, <3>3
  <2>5. CASE stage = "refresh_raced"
    <3>1. ~tab[b].retried /\ Rotated(b)
      BY <2>2, <2>3, <2>5 DEF TabServed, SecondCall, FirstCall
    <3>2. tab'[b].state = "waiting" /\ tab'[b].since = instant
      BY <1>1, <2>5, <3>1
    <3>3. PICK c \in Tabs \ {b} :
             \/ tab[c].state = "sent" /\ request[c].stage = "ok"
             \/ tab[c].state = "fresh" /\ tab[b].since <= tab[c].since
      BY <3>1 DEF Rotated
    <3>4. tab'[c] = tab[c] /\ request'[c] = request[c] /\ TabServed(c) /\ instant' = instant
      BY <1>1, <1>2, <2>2
    <3>5. TabServed(b)'
      <4>1. tab[c].since <= instant
        BY DEF TwoTabsInv, DelayInv, Times
      <4>2. tab[c].state = "fresh" /\ tab[b].since <= tab[c].since =>
                instant < tab[c].since + Wait
        BY <1>0, <2>3, TimesAreNumbers, Delays
      <4>3. Waits(b)'
        BY <3>2, <3>3, <3>4, <4>1, <4>2 DEF Waits
      <4> QED BY <3>2, <4>3 DEF TabServed
    <3>6. TabServed(c)'
      <4>1. CASE tab[c].state = "fresh"
        BY <3>4, <4>1 DEF TabServed
      <4>2. CASE tab[c].state = "sent" /\ request[c].stage = "ok"
        BY <3>4, <4>2 DEF TabServed, SecondCall, FirstCall
      <4> QED BY <3>3, <4>1, <4>2
    <3>7. \A d \in Tabs \ {b} : d = c
      BY DEF TabsAsDesigned
    <3> QED BY <3>5, <3>6, <3>7
  <2> QED BY <2>3, <2>4, <2>5
<1> QED BY <1>3, <1>4, <1>5 DEF PromptInv

\* The steps that a browser whose tabs are served does not take, and those
\* that end the promise.
LEMMA LeaveServed ==
    ASSUME TwoTabsInv, NEW b \in Tabs, SignOut(b) \/ SignIn(b)
    PROVE  PromptInv'
<1>0. SessionInv
  BY DEF TwoTabsInv, DelayInv
<1>1. PICK state \in {"leaving", "entering"}, stage \in {"leave", "enter"} :
          \E retried \in BOOLEAN : Call(b, state, stage, retried)
  BY DEF SignOut, SignIn
<1>2. /\ tab'[b].state = state
      /\ \A c \in Tabs \ {b} : tab'[c] = tab[c]
      /\ UNCHANGED <<instant, network, session>>
  <2>1. state \in Busy /\ stage \in {"read", "leave", "enter"}
    BY DEF Busy
  <2> QED BY <1>0, <1>1, <2>1, CallStep
<1>3. Patience'
  BY <1>2 DEF TwoTabsInv, PromptInv, Patience
<1>4. CASE SignOut(b)
  <2>1. leaves' # 0
    BY <1>0, <1>4 DEF SignOut, SessionInv, TabTypes
  <2> QED BY <1>3, <2>1 DEF PromptInv, Nobody, Undisturbed
<1>5. CASE SignIn(b)
  <2>1. /\ Call(b, "entering", "enter", FALSE) /\ leaves' = leaves
        /\ tab[b].state = "signed-out"
    BY <1>5 DEF SignIn
  <2>2. Nobody'
    <3>1. tab'[b].state = "entering"
      BY <1>0, <2>1 DEF Call, SessionInv, TabTypes
    <3> QED BY <1>2, <2>1, <3>1 DEF TwoTabsInv, PromptInv, Nobody, Call, Leaving
  <2>3. ~Undisturbed'
    BY <1>2, <2>1 DEF TwoTabsInv, PromptInv, TabServed, Undisturbed
  <2> QED BY <1>3, <2>2, <2>3 DEF PromptInv
<1> QED BY <1>4, <1>5

LEMMA LoseServed ==
    ASSUME TwoTabsInv, NEW b \in Tabs, Lose(b)
    PROVE  PromptInv'
<1>0. SessionInv
  BY DEF TwoTabsInv, DelayInv
<1>1. /\ tab'[b].state = "signed-out"
      /\ \A c \in Tabs \ {b} : tab'[c] = tab[c]
  <2>1. Settle(b, "network_error") /\ request' = [request EXCEPT ![b] = NoRequest]
    BY DEF Lose
  <2>2. "network_error" \notin {"ok", "refresh_raced"}
    OBVIOUS
  <2> QED BY <1>0, <2>1, <2>2, EndStep
<1>2. network' = "lossy" /\ UNCHANGED <<instant, signVars>>
  BY DEF Lose
<1>3. Nobody' /\ Patience'
  BY <1>1, <1>2 DEF TwoTabsInv, PromptInv, Nobody, Patience, signVars
<1> QED BY <1>2, <1>3 DEF PromptInv, Undisturbed

LEMMA ReloadServed ==
    ASSUME TwoTabsInv, NEW b \in Tabs, Reload(b)
    PROVE  PromptInv'
<1>1. /\ tab[b].state = "signed-out" /\ tab'[b].state = "idle"
      /\ \A c \in Tabs \ {b} : tab'[c] = tab[c]
      /\ UNCHANGED <<instant, network, signVars>>
  <2>1. /\ tab[b].state = "signed-out"
        /\ tab' = [tab EXCEPT ![b] = [@ EXCEPT !.state = "idle"]]
        /\ UNCHANGED <<instant, network, signVars>>
    BY DEF Reload
  <2> QED BY <2>1 DEF TwoTabsInv, DelayInv, SessionInv, TabTypes, TabStates
<1>2. Nobody' /\ Patience'
  BY <1>1 DEF TwoTabsInv, PromptInv, Nobody, Patience, signVars
<1>3. ~Undisturbed'
  BY <1>1 DEF TwoTabsInv, PromptInv, TabServed, Undisturbed, signVars
<1> QED BY <1>2, <1>3 DEF PromptInv

LEMMA ReadServed ==
    ASSUME TabsAsDesigned, TwoTabsInv, DelayInv', NEW b \in Tabs, ReadToken(b)
    PROVE  PromptInv'
<1> DEFINE token == request[b].token
<1>0. SessionInv
  BY DEF TwoTabsInv, DelayInv
<1>1. /\ request[b].stage = "read" /\ tab[b].state = "sent"
      /\ UNCHANGED <<instant, revoked, issued, cookie, tab, network, doubled, signVars>>
  BY <1>0 DEF ReadToken, SessionInv, Phases, TabTypes, TabStates, Busy
<1>2. /\ request'[b].stage = Answered(token) /\ request'[b].token = token
      /\ \A c \in Tabs \ {b} : request'[c] = request[c]
  BY <1>0 DEF ReadToken, SessionInv, RefreshInv, RefreshTypes
<1>3. Nobody' /\ Patience'
  BY <1>1 DEF TwoTabsInv, PromptInv, Nobody, Patience, signVars
<1>4. ASSUME Undisturbed' PROVE \A c \in Tabs : TabServed(c)'
  <2>1. Undisturbed
    BY <1>1, <1>4 DEF Undisturbed, signVars
  <2>2. Calm /\ \A c \in Tabs : TabServed(c)
    BY <2>1, CalmWhileUndisturbed
  <2>3. Answered(token) # "revoke"
    BY <1>1, <1>2, <2>2 DEF DelayInv, CookieInv, NotReused, InGrace, Calm, signVars
  <2>4. token # None
    BY <1>1, <2>2 DEF TabServed
  <2>5. TabServed(b)'
    <3>1. CASE Live(token)
      <4>1. Answered(token) = "rotate"
        BY <2>4, <3>1 DEF Answered
      <4> QED BY <1>1, <1>2, <2>2, <4>1 DEF TabServed, SecondCall, FirstCall
    <3>2. CASE ~Live(token)
      <4>1. ~tab[b].retried /\ Rotated(b)
        BY <1>1, <2>2, <3>2 DEF TabServed, SecondCall, FirstCall
      <4>2. Answered(token) = "refresh_raced"
        BY <2>3, <2>4, <3>2 DEF Answered
      <4>3. Rotated(b)'
        BY <1>1, <1>2, <4>1 DEF Rotated
      <4> QED BY <1>1, <1>2, <2>2, <4>1, <4>2, <4>3 DEF TabServed, FirstCall
    <3> QED BY <3>1, <3>2
  <2>6. ASSUME NEW c \in Tabs \ {b} PROVE TabServed(c)'
    <3>1. TabServed(c) /\ tab' = tab /\ request'[c] = request[c] /\ instant' = instant
          /\ UNCHANGED <<revoked, issued>>
      BY <1>1, <1>2, <2>2
    <3>2. \A d \in Tabs \ {c} : d = b
      BY DEF TabsAsDesigned
    <3>3. Rotated(c) => Rotated(c)'
      BY <1>1, <3>1, <3>2 DEF Rotated
    <3>4. Waits(c) => Waits(c)'
      BY <1>1, <3>1, <3>2 DEF Waits
    <3>5. SecondCall(c) => SecondCall(c)'
      BY <3>1 DEF SecondCall, Live
    <3>6. FirstCall(c) => FirstCall(c)'
      BY <3>1, <3>3 DEF FirstCall, Live
    <3> QED BY <3>1, <3>4, <3>5, <3>6 DEF TabServed
  <2> QED BY <2>5, <2>6
<1> QED BY <1>3, <1>4 DEF PromptInv

LEMMA RotateServed ==
    ASSUME TabsAsDesigned, TwoTabsInv, NEW b \in Tabs, Rotate(b)
    PROVE  PromptInv'
<1>0. PICK old, new : old = request[b].token /\ new = issued + 1 /\ SessionInv
  BY DEF TwoTabsInv, DelayInv
<1>1. /\ issued' = new /\ new \in Tokens
      /\ request'[b].stage = "ok" /\ request'[b].token = new
      /\ \A c \in Tabs \ {b} : request'[c] = request[c] /\ request'[c].token # new
      /\ UNCHANGED <<instant, cookie, tab, network, signVars>>
  BY <1>0, NewToken DEF Rotate
<1>2. /\ tab[b].state = "sent" /\ old \in Tokens /\ request[b].stage = "rotate"
      /\ \A t \in Tokens \ {old, new} : revoked'[t] = revoked[t] /\ (Live(t)' <=> Live(t))
  <2>1. request[b].stage = "rotate"
    BY DEF Rotate
  <2> QED BY <1>0, <2>1, RotateStep
<1>3. Nobody' /\ Patience'
  BY <1>1 DEF TwoTabsInv, PromptInv, Nobody, Patience, signVars
<1>4. ASSUME Undisturbed' PROVE \A c \in Tabs : TabServed(c)'
  <2>1. Undisturbed
    BY <1>1, <1>4 DEF Undisturbed, signVars
  <2>2. \A c \in Tabs : TabServed(c)
    BY <2>1, CalmWhileUndisturbed
  <2>3. TabServed(b)'
    <3>1. new # None
      BY <1>0 DEF None, SessionInv, RefreshInv, RefreshTypes
    <3> QED BY <1>1, <1>2, <2>2, <3>1 DEF TabServed, SecondCall, FirstCall
  <2>4. ASSUME NEW c \in Tabs \ {b} PROVE TabServed(c)'
    <3>1. TabServed(c) /\ tab' = tab /\ request'[c] = request[c] /\ instant' = instant
      BY <1>1, <2>2
    <3>2. \A d \in Tabs \ {c} : d = b
      BY DEF TabsAsDesigned
    <3>3. tab[c].state # "waiting"
      BY <1>2, <3>1, <3>2 DEF TabServed, Waits
    <3>4. tab[c].state = "sent" => FirstCall(c)'
      BY <1>1, <1>2, <3>1, <3>2 DEF FirstCall, Rotated
    <3>5. tab[c].state = "sent" /\ tab[c].retried => SecondCall(c)'
      BY <1>2, <3>1, <3>2 DEF TabServed, SecondCall
    <3> QED BY <3>1, <3>3, <3>4, <3>5 DEF TabServed
  <2> QED BY <2>3, <2>4
<1> QED BY <1>3, <1>4 DEF PromptInv

LEMMA OthersServed ==
    ASSUME TwoTabsInv, NEW b \in Tabs, RevokeAll(b) \/ Login(b) \/ Logout(b)
    PROVE  PromptInv'
<1>0. SessionInv
  BY DEF TwoTabsInv, DelayInv
<1>1. UNCHANGED <<instant, tab, network, signVars>>
      /\ request[b].stage \in {"revoke", "enter", "leave"}
  BY DEF RevokeAll, Login, Logout, Issue
<1>2. Nobody' /\ Patience'
  BY <1>1 DEF TwoTabsInv, PromptInv, Nobody, Patience, signVars
<1>3. ~Undisturbed'
  <2>1. ~TabServed(b)
    BY <1>0, <1>1 DEF TabServed, SessionInv, Phases, Busy
  <2> QED BY <1>1, <2>1 DEF TwoTabsInv, PromptInv, Undisturbed, signVars
<1> QED BY <1>2, <1>3 DEF PromptInv

LEMMA TickServed ==
    ASSUME TwoTabsInv, RefreshTick \/ UNCHANGED refreshVars
    PROVE  PromptInv'
<1>0. SessionInv
  BY DEF TwoTabsInv, DelayInv
<1>1. CASE RefreshTick
  <2>1. /\ instant' = instant + 1
        /\ UNCHANGED <<revoked, issued, cookie, tab, request, doubled, signVars>>
        /\ \A b \in Tabs : tab[b].state = "waiting" => instant < tab[b].since + Wait
        /\ network' = "prompt" =>
              /\ network = "prompt"
              /\ \A b \in Tabs : tab[b].state = "sent" => ~(instant' >= tab[b].since + Wait)
    BY <1>1 DEF RefreshTick
  <2>2. Nobody'
    BY <2>1 DEF TwoTabsInv, PromptInv, Nobody, signVars
  <2>3. Patience'
    BY <1>0, <2>1, TimesAreNumbers, Delays DEF Patience
  <2>4. ASSUME Undisturbed' PROVE \A b \in Tabs : TabServed(b)'
    <3>1. /\ Undisturbed
          /\ \A b \in Tabs : tab[b].state = "sent" => ~(instant' >= tab[b].since + Wait)
      BY <2>1, <2>4 DEF Undisturbed, signVars
    <3>2. \A b \in Tabs : tab[b].state = "sent" => instant' < tab[b].since + Wait
      BY <1>0, <2>1, <3>1, TimesAreNumbers, Delays
    <3>3. \A b \in Tabs : TabServed(b)
      BY <3>1, CalmWhileUndisturbed
    <3> QED BY <2>1, <3>2, <3>3
            DEF TabServed, FirstCall, SecondCall, Rotated, Waits, Live
  <2> QED BY <2>2, <2>3, <2>4 DEF PromptInv
<1>2. CASE UNCHANGED refreshVars
  <2>1. UNCHANGED <<instant, revoked, issued, tab, request, network, leaves, session, crossed>>
    BY <1>2 DEF refreshVars, signVars
  <2> QED BY <2>1 DEF TwoTabsInv, PromptInv, Nobody, Patience, Undisturbed,
                      TabServed, FirstCall, SecondCall, Rotated, Waits, Live
<1> QED BY <1>1, <1>2

LEMMA TwoTabsStarts == RefreshInit => TwoTabsInv
<1> SUFFICES ASSUME RefreshInit PROVE TwoTabsInv
  OBVIOUS
<1>1. \A b \in Tabs : tab[b].state = "idle"
  BY DEF RefreshInit
<1>2. PromptInv
  BY <1>1 DEF RefreshInit, PromptInv, Nobody, Patience, TabServed
<1> QED BY <1>2, DelayStarts DEF TwoTabsInv

LEMMA TwoTabsSteps ==
    ASSUME TabsAsDesigned, 2 * Latency <= Grace
    PROVE  TwoTabsInv /\ [RefreshNext]_refreshVars => TwoTabsInv'
<1> SUFFICES ASSUME TwoTabsInv, [RefreshNext]_refreshVars PROVE TwoTabsInv'
  OBVIOUS
<1>1. DelayInv'
  BY DelaySteps DEF TwoTabsInv
<1>2. PromptInv'
  <2>1. CASE \E b \in Tabs : StartRefresh(b)
    BY <2>1, StartServed
  <2>2. CASE \E b \in Tabs : Retry(b)
    BY <2>2, RetryServed
  <2>3. CASE \E b \in Tabs : Land(b)
    BY <2>3, LandServed
  <2>4. CASE \E b \in Tabs : SignOut(b) \/ SignIn(b)
    BY <2>4, LeaveServed
  <2>5. CASE \E b \in Tabs : Lose(b)
    BY <2>5, LoseServed
  <2>6. CASE \E b \in Tabs : Reload(b)
    BY <2>6, ReloadServed
  <2>7. CASE \E b \in Tabs : ReadToken(b)
    BY <1>1, <2>7, ReadServed
  <2>8. CASE \E b \in Tabs : Rotate(b)
    BY <2>8, RotateServed
  <2>9. CASE \E b \in Tabs : RevokeAll(b) \/ Login(b) \/ Logout(b)
    BY <2>9, OthersServed
  <2>10. CASE RefreshTick \/ RefreshStopped \/ UNCHANGED refreshVars
    <3>1. RefreshTick \/ UNCHANGED refreshVars
      BY <2>10 DEF RefreshStopped
    <3> QED BY <3>1, TickServed
  <2> QED BY <2>1, <2>2, <2>3, <2>4, <2>5, <2>6, <2>7, <2>8, <2>9, <2>10
          DEF RefreshNext, ServerStep
<1> QED BY <1>1, <1>2 DEF TwoTabsInv

\* architecture.md, "Auth": of two tabs that refresh at the same time neither
\* is signed out, while every response lands within the pause before the retry
\* and nobody signs out.  The delays are only ordered: two calls fit into the
\* grace, and three pauses into the life of an access token.
THEOREM NeitherTabSignedOut ==
    ASSUME Cardinality(Tabs) <= 2, 2 * Latency <= Grace, 3 * Wait <= AccessLife
    PROVE  RefreshSpec => []NoTabSignedOut
<1>1. TwoTabsInv => NoTabSignedOut
  BY DEF TwoTabsInv, PromptInv, TabServed, Undisturbed, NoTabSignedOut
<1>2. TwoTabsInv /\ [RefreshNext]_refreshVars => TwoTabsInv'
  <2>1. TabsAsDesigned
    BY TwoOthers DEF TabsAsDesigned
  <2> QED BY <2>1, TwoTabsSteps
<1> QED BY TwoTabsStarts, <1>1, <1>2, PTL DEF RefreshSpec
=============================================================================
