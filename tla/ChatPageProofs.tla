--------------------------- MODULE ChatPageProofs ---------------------------
(***************************************************************************)
(* Proofs about ChatPage, for every set of conversations, every number of  *)
(* tokens in a reply, of symbols in a piece and of replies asked for.      *)
(***************************************************************************)
EXTENDS ChatPage, DataLemmas, SequenceTheorems, TLAPS

-----------------------------------------------------------------------------
(* What the page is made of *)

Values == Pages \cup {Nowhere} \cup Nat
Symbols ==
    {CR, LF} \cup {Event(name, v) : name \in {"meta", "token", "done", "error"}, v \in Values}

Statuses == {"stored", "question", "streaming", "done", "error", "cancelled", "early"}
PageMessages ==
    [of : Values, reply : Nat, text : Seq(Nat \X Values), status : Statuses]
PageStates == [thread : Seq(PageMessages), address : Values, streamOf : Values]
Loops == [page : PageStates, rest : Seq(Symbols)]

\* An event is no part of a line break.
LEMMA EventIs ==
    ASSUME NEW name, NEW v
    PROVE  /\ Event(name, v)[1] = name /\ Event(name, v)[2] = v
           /\ Event(name, v) # CR /\ Event(name, v) # LF
<1>1. Len(Event(name, v)) = 2 /\ Len(CR) = 1 /\ Len(LF) = 1
  BY DEF Event, CR, LF
<1>2. Event(name, v)[1] = name /\ Event(name, v)[2] = v
  BY DEF Event
<1> QED BY <1>1, <1>2

\* A carriage return is no line feed.
LEMMA BreaksDiffer == CR # LF /\ CR \in Symbols /\ LF \in Symbols
<1>1. CR[1] = "CR" /\ LF[1] = "LF"
  BY DEF CR, LF
<1> QED BY <1>1 DEF Symbols

\* What is no line break is an event.
LEMMA SymbolIs ==
    ASSUME NEW c \in Symbols, c \notin {CR, LF}
    PROVE  /\ c[1] \in {"meta", "token", "done", "error"} /\ c[2] \in Values
           /\ Event(c[1], 0) \in Symbols
<1>1. PICK name \in {"meta", "token", "done", "error"}, v \in Values : c = Event(name, v)
  BY DEF Symbols
<1>2. c[1] = name /\ c[2] = v
  BY <1>1, EventIs
<1>3. 0 \in Values
  BY DEF Values
<1> QED BY <1>2, <1>3 DEF Symbols

\* Some first elements of a sequence, and those after them.
LEMMA PartIs ==
    ASSUME NEW S, NEW s \in Seq(S), NEW n \in 0..Len(s)
    PROVE  /\ SubSeq(s, 1, n) \in Seq(S) /\ Len(SubSeq(s, 1, n)) = n
           /\ \A k \in 1..n : SubSeq(s, 1, n)[k] = s[k]
           /\ SubSeq(s, n + 1, Len(s)) \in Seq(S)
           /\ Len(SubSeq(s, n + 1, Len(s))) = Len(s) - n
           /\ \A k \in 1..(Len(s) - n) : SubSeq(s, n + 1, Len(s))[k] = s[n + k]
<1>1. n \in Int /\ Len(s) \in Int /\ 1 \in Int /\ n + 1 \in Int /\ n <= Len(s) /\ 0 <= n
  OBVIOUS
<1>2. (\A k \in 1..n : s[k] \in S) /\ (\A k \in (n + 1)..Len(s) : s[k] \in S)
  BY <1>1
<1>3. /\ SubSeq(s, 1, n) \in Seq(S)
      /\ Len(SubSeq(s, 1, n)) = IF 1 <= n THEN n - 1 + 1 ELSE 0
      /\ \A k \in 1..(n - 1 + 1) : SubSeq(s, 1, n)[k] = s[1 + k - 1]
  BY <1>1, <1>2, SubSeqProperties
<1>4. /\ SubSeq(s, n + 1, Len(s)) \in Seq(S)
      /\ Len(SubSeq(s, n + 1, Len(s))) =
            IF n + 1 <= Len(s) THEN Len(s) - (n + 1) + 1 ELSE 0
      /\ \A k \in 1..(Len(s) - (n + 1) + 1) :
            SubSeq(s, n + 1, Len(s))[k] = s[n + 1 + k - 1]
  BY <1>1, <1>2, SubSeqProperties
<1> DEFINE first == SubSeq(s, 1, n)
           rest == SubSeq(s, n + 1, Len(s))
<1> HIDE DEF first, rest
<1>5. Len(first) = n /\ \A k \in 1..n : first[k] = s[k]
  BY <1>1, <1>3 DEF first
<1>6. Len(rest) = Len(s) - n /\ \A k \in 1..(Len(s) - n) : rest[k] = s[n + k]
  BY <1>1, <1>4 DEF rest
<1> QED BY <1>3, <1>4, <1>5, <1>6 DEF first, rest

\* The last element of a sequence, and those before it.
LEMMA FrontIs ==
    ASSUME NEW S, NEW s \in Seq(S), s # <<>>
    PROVE  /\ Front(s) \in Seq(S) /\ Len(Front(s)) = Len(s) - 1 /\ Len(s) \in Nat \ {0}
           /\ Last(s) = s[Len(s)] /\ Last(s) \in S
           /\ \A k \in 1..(Len(s) - 1) : Front(s)[k] = s[k]
           /\ s = Append(Front(s), Last(s))
<1>1. Len(s) \in Nat \ {0} /\ Last(s) = s[Len(s)] /\ Last(s) \in S
  BY DEF Last
<1>2. Front(s) = SubSeq(s, 1, Len(s) - 1)
  BY DEF Front
<1>3. /\ Front(s) \in Seq(S) /\ Len(Front(s)) = Len(s) - 1
      /\ \A k \in 1..(Len(s) - 1) : Front(s)[k] = s[k]
  <2>1. Len(s) - 1 \in 0..Len(s)
    BY <1>1
  <2>2. /\ SubSeq(s, 1, Len(s) - 1) \in Seq(S) /\ Len(SubSeq(s, 1, Len(s) - 1)) = Len(s) - 1
        /\ \A k \in 1..(Len(s) - 1) : SubSeq(s, 1, Len(s) - 1)[k] = s[k]
    BY <2>1, PartIs
  <2> QED BY <1>2, <2>2
<1> DEFINE front == Front(s)
           whole == Append(front, s[Len(s)])
<1>4. whole = s
  <2>1. front \in Seq(S) /\ Len(front) = Len(s) - 1 /\ s[Len(s)] \in S
    BY <1>1, <1>3
  <2> HIDE DEF front
  <2>2. /\ whole \in Seq(S) /\ Len(whole) = Len(s) /\ whole[Len(s)] = s[Len(s)]
        /\ \A k \in 1..(Len(s) - 1) : whole[k] = front[k]
    BY <1>1, <2>1
  <2> HIDE DEF whole
  <2>3. \A k \in 1..Len(s) : whole[k] = s[k]
    BY <1>1, <1>3, <2>2 DEF front
  <2> QED BY <1>1, <2>2, <2>3
<1> QED BY <1>1, <1>3, <1>4 DEF front, whole

\* A thread whose last message is patched.
LEMMA PatchIs ==
    ASSUME NEW messages \in Seq(PageMessages), NEW message \in PageMessages
    PROVE  /\ PatchLast(messages, message) \in Seq(PageMessages)
           /\ ~ attached \/ messages = <<>> => PatchLast(messages, message) = messages
           /\ attached /\ messages # <<>> =>
                 /\ Len(PatchLast(messages, message)) = Len(messages)
                 /\ PatchLast(messages, message)[Len(messages)] = message
                 /\ \A k \in 1..(Len(messages) - 1) :
                       PatchLast(messages, message)[k] = messages[k]
<1>1. CASE ~ attached \/ messages = <<>>
  BY <1>1 DEF PatchLast
<1>2. CASE attached /\ messages # <<>>
  <2>1. PatchLast(messages, message) = Append(Front(messages), message)
    BY <1>2 DEF PatchLast
  <2> DEFINE front == Front(messages)
  <2>2. /\ front \in Seq(PageMessages) /\ Len(front) = Len(messages) - 1
        /\ Len(messages) \in Nat \ {0}
        /\ \A k \in 1..(Len(messages) - 1) : front[k] = messages[k]
    BY <1>2, FrontIs
  <2> HIDE DEF front
  <2>3. /\ Append(front, message) \in Seq(PageMessages)
        /\ Len(Append(front, message)) = Len(messages)
        /\ Append(front, message)[Len(messages)] = message
        /\ \A k \in 1..(Len(messages) - 1) : Append(front, message)[k] = messages[k]
    BY <2>2, AppendIs
  <2> QED BY <1>2, <2>1, <2>3 DEF front
<1> QED BY <1>1, <1>2

\* What an event makes of a page.
LEMMA OnEventIs ==
    ASSUME sends \in Nat, NEW page \in PageStates, NEW e,
           e[1] \in {"meta", "token", "done", "error"}, e[2] \in Values
    PROVE  OnEvent(page, e) \in PageStates
<1>1. /\ page.thread \in Seq(PageMessages) /\ page.address \in Values
      /\ page.streamOf \in Values
  BY DEF PageStates
<1>2. CASE e[1] = "meta" /\ target = Nowhere
  BY <1>1, <1>2 DEF OnEvent, PageStates
<1>3. CASE e[1] = "token"
  <2>1. WithToken(page.thread, <<sends, e[2]>>) \in Seq(PageMessages)
    <3>1. CASE page.thread = <<>>
      BY <1>1, <3>1 DEF WithToken, PatchLast
    <3>2. CASE page.thread # <<>>
      <4>1. Last(page.thread) \in PageMessages /\ <<sends, e[2]>> \in Nat \X Values
        BY <1>1, <3>2, FrontIs
      <4> DEFINE m == Last(page.thread)
                 text == Append(m.text, <<sends, e[2]>>)
      <4>2. /\ m \in PageMessages /\ m.text \in Seq(Nat \X Values)
            /\ text \in Seq(Nat \X Values)
        BY <4>1 DEF PageMessages
      <4> HIDE DEF m, text
      <4>3. [m EXCEPT !.text = text] \in PageMessages
        BY <4>2 DEF PageMessages
      <4>4. [Last(page.thread) EXCEPT !.text = Append(@, <<sends, e[2]>>)] \in PageMessages
        BY <4>3 DEF m, text
      <4> QED BY <1>1, <4>4, PatchIs DEF WithToken
    <3> QED BY <3>1, <3>2
  <2>2. OnEvent(page, e) = [page EXCEPT !.thread = WithToken(page.thread, <<sends, e[2]>>)]
    BY <1>3 DEF OnEvent
  <2> QED BY <1>1, <2>1, <2>2 DEF PageStates
<1>4. CASE e[1] \in {"done", "error"}
  <2>1. WithStatus(page.thread, e[1]) \in Seq(PageMessages)
    <3>1. CASE page.thread = <<>>
      BY <1>1, <3>1 DEF WithStatus, PatchLast
    <3>2. CASE page.thread # <<>>
      <4>1. Last(page.thread) \in PageMessages /\ e[1] \in Statuses
        BY <1>1, <1>4, <3>2, FrontIs DEF Statuses
      <4>2. [Last(page.thread) EXCEPT !.status = e[1]] \in PageMessages
        BY <4>1 DEF PageMessages
      <4> QED BY <1>1, <4>2, PatchIs DEF WithStatus
    <3> QED BY <3>1, <3>2
  <2>2. OnEvent(page, e) = [page EXCEPT !.thread = WithStatus(page.thread, e[1])]
    BY <1>4 DEF OnEvent
  <2> QED BY <1>1, <2>1, <2>2 DEF PageStates
<1>5. CASE e[1] = "meta" /\ target # Nowhere
  BY <1>1, <1>5 DEF OnEvent, PageStates
<1> QED BY <1>2, <1>3, <1>4, <1>5

\* What a block makes of it.
LEMMA FlushBlockIs ==
    ASSUME sends \in Nat, NEW page \in PageStates, NEW block \in Seq(Symbols)
    PROVE  FlushBlock(page, block) \in PageStates
<1> DEFINE events == {i \in DOMAIN block : block[i] \notin {CR, LF}}
           last == block[Max(events)]
<1>1. CASE events = {}
  BY <1>1 DEF FlushBlock
<1>2. CASE events # {}
  <2>1. events \in SUBSET (1..Len(block)) /\ Len(block) \in Nat
    OBVIOUS
  <2>2. Max(events) \in events
    <3> HIDE DEF events
    <3> QED BY <1>2, <2>1, MaxOfPositions
  <2>3. last \in Symbols /\ last \notin {CR, LF}
    BY <2>2
  <2> HIDE DEF last
  <2>4. /\ last[1] \in {"meta", "token", "done", "error"} /\ last[2] \in Values
        /\ 0 \in Values
    BY <2>3, SymbolIs DEF Values
  <2>5. Event(last[1], 0)[1] = last[1] /\ Event(last[1], 0)[2] = 0
    BY EventIs
  <2>6. /\ OnEvent(page, last) \in PageStates
        /\ OnEvent(page, Event(last[1], 0)) \in PageStates
    BY <2>4, <2>5, OnEventIs
  <2>7. FlushBlock(page, block)
            \in {OnEvent(page, last), OnEvent(page, Event(last[1], 0))}
    BY <1>2 DEF FlushBlock, last
  <2> QED BY <2>6, <2>7
<1> QED BY <1>1, <1>2

\* A step of the first loop of push.
LEMMA UnifyIs ==
    ASSUME NEW v \in Seq(Symbols), NEW c \in Symbols
    PROVE  Unify(v, c) \in Seq(Symbols)
<1>1. CASE c = LF /\ EndsIn(v, CR)
  <2>1. Front(v) \in Seq(Symbols)
    BY <1>1, FrontIs DEF EndsIn
  <2> QED BY <1>1, <2>1 DEF Unify
<1>2. CASE ~ (c = LF /\ EndsIn(v, CR))
  BY <1>2 DEF Unify
<1> QED BY <1>1, <1>2

\* A step of the second.
LEMMA TakeIs ==
    ASSUME sends \in Nat, NEW v \in Loops, NEW c \in Symbols
    PROVE  Take(v, c) \in Loops
<1>1. v.page \in PageStates /\ v.rest \in Seq(Symbols)
  BY DEF Loops
<1>2. CASE c = LF /\ EndsIn(v.rest, LF)
  <2>1. FlushBlock(v.page, v.rest) \in PageStates
    BY <1>1, FlushBlockIs
  <2> QED BY <1>2, <2>1 DEF Take, Loops
<1>3. CASE ~ (c = LF /\ EndsIn(v.rest, LF))
  BY <1>1, <1>3 DEF Take, Loops
<1> QED BY <1>2, <1>3

\* One event in the text of a reply.
Extended(text, e, break) == text \o (<<e>> \o break \o break)

\* A text stays one.
LEMMA ExtendedIs ==
    ASSUME NEW text \in Seq(Symbols), NEW e \in Symbols, NEW break \in Seq(Symbols)
    PROVE  Extended(text, e, break) \in Seq(Symbols)
BY DEF Extended

-----------------------------------------------------------------------------
(* The folds, one symbol at a time *)

\* The text after each of its symbols, with its line breaks unified.
LEMMA UnifyGrows ==
    ASSUME NEW t \in Seq(Symbols)
    PROVE  \E F : /\ Unified(t) = F[Len(t)] /\ F[0] = <<>>
                  /\ \A k \in 0..(Len(t) - 1) : F[k + 1] = Unify(F[k], t[k + 1])
<1> DEFINE n == Len(t)
           V == Seq(Symbols)
           F == CHOOSE G : G = [s \in SUBSET DOMAIN t |->
                    IF s = {} THEN <<>>
                    ELSE LET x == Max(s) IN Unify(G[s \ {x}], t[x])]
           step == [i \in 1..n |-> [v \in V |-> Unify(v, t[i])]]
           folds(G) == G = [s \in SUBSET (1..n) |->
                    IF s = {} THEN <<>> ELSE Unify(G[s \ {Max(s)}], t[Max(s)])]
<1>1. Unified(t) = F[DOMAIN t]
  BY DEF Unified, FoldLeft, MapThenFoldSet
<1>2. n \in Nat /\ DOMAIN t = 1..n
  OBVIOUS
<1>3. F = CHOOSE G : folds(G)
  BY <1>2
<1>4. ASSUME NEW v \in V, NEW i \in 1..n PROVE Unify(v, t[i]) \in V
  <2>1. t[i] \in Symbols
    OBVIOUS
  <2> QED BY <2>1, UnifyIs
<1>5. <<>> \in V
  OBVIOUS
<1> HIDE DEF F, n, V
<1>6. \E G : IsFold(G, V, <<>>, step, n)
  <2>1. step \in [1..n -> [V -> V]]
    BY <1>4
  <2> HIDE DEF step
  <2> QED BY <1>2, <1>5, <2>1, FoldExists
<1>7. \E G : folds(G)
  <2>1. PICK G : IsFold(G, V, <<>>, step, n)
    BY <1>6
  <2>2. ASSUME NEW s \in SUBSET (1..n), s # {}
        PROVE  G[s] = Unify(G[s \ {Max(s)}], t[Max(s)])
    <3>1. Max(s) \in 1..n
      BY <1>2, <2>2, MaxOfPositions
    <3>2. G[s \ {Max(s)}] \in V
      BY <2>1 DEF IsFold
    <3>3. G[s] = step[Max(s)][G[s \ {Max(s)}]]
      BY <2>1, <2>2 DEF IsFold
    <3> QED BY <3>1, <3>2, <3>3
  <2>3. G = [s \in SUBSET (1..n) |-> G[s]] /\ G[{}] = <<>>
    BY <2>1 DEF IsFold
  <2>4. folds(G)
    BY <2>2, <2>3
  <2> QED BY <2>4
<1>8. folds(F)
  BY <1>3, <1>7
<1>9. F[1..0] = <<>>
  <2>1. 1..0 = {} /\ {} \in SUBSET (1..n)
    OBVIOUS
  <2> QED BY <1>8, <2>1
<1>10. ASSUME NEW k \in 0..(n - 1)
       PROVE  F[1..(k + 1)] = Unify(F[1..k], t[k + 1])
  <2>1. 1..(k + 1) \in SUBSET (1..n) /\ 1..(k + 1) # {}
        /\ Max(1..(k + 1)) = k + 1 /\ (1..(k + 1)) \ {k + 1} = 1..k
    <3>1. k \in Nat /\ k + 1 <= n
      BY <1>2
    <3> QED BY <1>2, <3>1, LastPosition
  <2>2. \A s \in SUBSET (1..n) :
            s # {} => F[s] = Unify(F[s \ {Max(s)}], t[Max(s)])
    BY <1>8
  <2> HIDE DEF folds
  <2> QED BY <2>1, <2>2
<1> HIDE DEF folds
<1> DEFINE f == [k \in 0..n |-> F[1..k]]
<1>11. f[0] = <<>> /\ f[n] = F[DOMAIN t]
  BY <1>2, <1>9
<1>12. \A k \in 0..(n - 1) : f[k + 1] = Unify(f[k], t[k + 1])
  <2> SUFFICES ASSUME NEW k \in 0..(n - 1) PROVE f[k + 1] = Unify(f[k], t[k + 1])
    OBVIOUS
  <2>1. k \in 0..n /\ k + 1 \in 0..n
    BY <1>2
  <2> QED BY <1>10, <2>1
<1> HIDE DEF f
<1> QED BY <1>1, <1>11, <1>12 DEF n

\* A symbol more.
LEMMA UnifyMore ==
    ASSUME NEW t \in Seq(Symbols), NEW c \in Symbols
    PROVE  /\ Unified(<<>>) = <<>>
           /\ Unified(Append(t, c)) = Unify(Unified(t), c)
<1> DEFINE u == Append(t, c)
           n == Len(t)
<1>1. Unified(<<>>) = <<>>
  <2> DEFINE nil == <<>>
  <2>1. nil \in Seq(Symbols) /\ Len(nil) = 0
    OBVIOUS
  <2> HIDE DEF nil
  <2>2. \E F : /\ Unified(nil) = F[Len(nil)] /\ F[0] = <<>>
               /\ \A k \in 0..(Len(nil) - 1) : F[k + 1] = Unify(F[k], nil[k + 1])
    BY <2>1, UnifyGrows
  <2>3. Unified(nil) = <<>>
    BY <2>1, <2>2
  <2> QED BY <2>3 DEF nil
<1>2. u \in Seq(Symbols) /\ Len(u) = n + 1 /\ n \in Nat /\ u[n + 1] = c
      /\ \A k \in 1..n : u[k] = t[k]
  OBVIOUS
<1> HIDE DEF u
<1>3. PICK f : /\ Unified(t) = f[n] /\ f[0] = <<>>
               /\ \A k \in 0..(n - 1) : f[k + 1] = Unify(f[k], t[k + 1])
  BY UnifyGrows
<1>4. PICK g : /\ Unified(u) = g[Len(u)] /\ g[0] = <<>>
               /\ \A k \in 0..(Len(u) - 1) : g[k + 1] = Unify(g[k], u[k + 1])
  BY <1>2, UnifyGrows
<1> HIDE DEF n
<1> DEFINE N == {k \in Nat : k <= n => g[k] = f[k]}
<1>5. 0 \in N
  BY <1>3, <1>4
<1>6. ASSUME NEW k \in Nat, k \in N PROVE k + 1 \in N
  <2> SUFFICES ASSUME k + 1 <= n PROVE g[k + 1] = f[k + 1]
    OBVIOUS
  <2>1. g[k] = f[k] /\ k \in 0..(n - 1) /\ k \in 0..(Len(u) - 1) /\ k + 1 \in 1..n
    BY <1>2, <1>6
  <2>2. f[k + 1] = Unify(f[k], t[k + 1]) /\ g[k + 1] = Unify(g[k], u[k + 1])
        /\ u[k + 1] = t[k + 1]
    BY <1>2, <1>3, <1>4, <2>1
  <2> QED BY <2>1, <2>2
<1>7. n \in N
  <2> HIDE DEF N
  <2> QED BY <1>2, <1>5, <1>6, Induct
<1>8. g[n + 1] = Unify(g[n], c)
  <2>1. n \in 0..(Len(u) - 1)
    BY <1>2
  <2> QED BY <1>2, <1>4, <2>1
<1> QED BY <1>1, <1>2, <1>3, <1>4, <1>7, <1>8 DEF u


\* The page and the buffer after each symbol.
LEMMA TakeGrows ==
    ASSUME sends \in Nat, NEW page \in PageStates, NEW t \in Seq(Symbols)
    PROVE  \E F : /\ PushText(page, t) = F[Len(t)] /\ F[0] = [page |-> page, rest |-> <<>>]
                  /\ \A k \in 0..(Len(t) - 1) : F[k + 1] = Take(F[k], t[k + 1])
<1> DEFINE n == Len(t)
           V == Loops
           F == CHOOSE G : G = [s \in SUBSET DOMAIN t |->
                    IF s = {} THEN [page |-> page, rest |-> <<>>]
                    ELSE LET x == Max(s) IN Take(G[s \ {x}], t[x])]
           step == [i \in 1..n |-> [v \in V |-> Take(v, t[i])]]
           folds(G) == G = [s \in SUBSET (1..n) |->
                    IF s = {} THEN [page |-> page, rest |-> <<>>]
                    ELSE Take(G[s \ {Max(s)}], t[Max(s)])]
<1>1. PushText(page, t) = F[DOMAIN t]
  BY DEF PushText, FoldLeft, MapThenFoldSet
<1>2. n \in Nat /\ DOMAIN t = 1..n
  OBVIOUS
<1>3. F = CHOOSE G : folds(G)
  BY <1>2
<1>4. ASSUME NEW v \in V, NEW i \in 1..n PROVE Take(v, t[i]) \in V
  <2>1. t[i] \in Symbols
    OBVIOUS
  <2> QED BY <2>1, TakeIs
<1>5. [page |-> page, rest |-> <<>>] \in V
  BY DEF Loops
<1> HIDE DEF F, n, V
<1>6. \E G : IsFold(G, V, [page |-> page, rest |-> <<>>], step, n)
  <2>1. step \in [1..n -> [V -> V]]
    BY <1>4
  <2> HIDE DEF step
  <2> QED BY <1>2, <1>5, <2>1, FoldExists
<1>7. \E G : folds(G)
  <2>1. PICK G : IsFold(G, V, [page |-> page, rest |-> <<>>], step, n)
    BY <1>6
  <2>2. ASSUME NEW s \in SUBSET (1..n), s # {}
        PROVE  G[s] = Take(G[s \ {Max(s)}], t[Max(s)])
    <3>1. Max(s) \in 1..n
      BY <1>2, <2>2, MaxOfPositions
    <3>2. G[s \ {Max(s)}] \in V
      BY <2>1 DEF IsFold
    <3>3. G[s] = step[Max(s)][G[s \ {Max(s)}]]
      BY <2>1, <2>2 DEF IsFold
    <3> QED BY <3>1, <3>2, <3>3
  <2>3. G = [s \in SUBSET (1..n) |-> G[s]] /\ G[{}] = [page |-> page, rest |-> <<>>]
    BY <2>1 DEF IsFold
  <2>4. folds(G)
    BY <2>2, <2>3
  <2> QED BY <2>4
<1>8. folds(F)
  BY <1>3, <1>7
<1>9. F[1..0] = [page |-> page, rest |-> <<>>]
  <2>1. 1..0 = {} /\ {} \in SUBSET (1..n)
    OBVIOUS
  <2> QED BY <1>8, <2>1
<1>10. ASSUME NEW k \in 0..(n - 1)
       PROVE  F[1..(k + 1)] = Take(F[1..k], t[k + 1])
  <2>1. 1..(k + 1) \in SUBSET (1..n) /\ 1..(k + 1) # {}
        /\ Max(1..(k + 1)) = k + 1 /\ (1..(k + 1)) \ {k + 1} = 1..k
    <3>1. k \in Nat /\ k + 1 <= n
      BY <1>2
    <3> QED BY <1>2, <3>1, LastPosition
  <2>2. \A s \in SUBSET (1..n) :
            s # {} => F[s] = Take(F[s \ {Max(s)}], t[Max(s)])
    BY <1>8
  <2> HIDE DEF folds
  <2> QED BY <2>1, <2>2
<1> HIDE DEF folds
<1> DEFINE f == [k \in 0..n |-> F[1..k]]
<1>11. f[0] = [page |-> page, rest |-> <<>>] /\ f[n] = F[DOMAIN t]
  BY <1>2, <1>9
<1>12. \A k \in 0..(n - 1) : f[k + 1] = Take(f[k], t[k + 1])
  <2> SUFFICES ASSUME NEW k \in 0..(n - 1) PROVE f[k + 1] = Take(f[k], t[k + 1])
    OBVIOUS
  <2>1. k \in 0..n /\ k + 1 \in 0..n
    BY <1>2
  <2> QED BY <1>10, <2>1
<1> HIDE DEF f
<1> QED BY <1>1, <1>11, <1>12 DEF n

\* A symbol more.
LEMMA TakeMore ==
    ASSUME sends \in Nat, NEW page \in PageStates, NEW t \in Seq(Symbols), NEW c \in Symbols
    PROVE  /\ PushText(page, <<>>) = [page |-> page, rest |-> <<>>]
           /\ PushText(page, Append(t, c)) = Take(PushText(page, t), c)
<1> DEFINE u == Append(t, c)
           n == Len(t)
<1>1. PushText(page, <<>>) = [page |-> page, rest |-> <<>>]
  <2> DEFINE nil == <<>>
  <2>1. nil \in Seq(Symbols) /\ Len(nil) = 0
    OBVIOUS
  <2> HIDE DEF nil
  <2>2. \E F : /\ PushText(page, nil) = F[Len(nil)] /\ F[0] = [page |-> page, rest |-> <<>>]
               /\ \A k \in 0..(Len(nil) - 1) : F[k + 1] = Take(F[k], nil[k + 1])
    BY <2>1, TakeGrows
  <2>3. PushText(page, nil) = [page |-> page, rest |-> <<>>]
    BY <2>1, <2>2
  <2> QED BY <2>3 DEF nil
<1>2. u \in Seq(Symbols) /\ Len(u) = n + 1 /\ n \in Nat /\ u[n + 1] = c
      /\ \A k \in 1..n : u[k] = t[k]
  OBVIOUS
<1> HIDE DEF u
<1>3. PICK f : /\ PushText(page, t) = f[n] /\ f[0] = [page |-> page, rest |-> <<>>]
               /\ \A k \in 0..(n - 1) : f[k + 1] = Take(f[k], t[k + 1])
  BY TakeGrows
<1>4. PICK g : /\ PushText(page, u) = g[Len(u)] /\ g[0] = [page |-> page, rest |-> <<>>]
               /\ \A k \in 0..(Len(u) - 1) : g[k + 1] = Take(g[k], u[k + 1])
  BY <1>2, TakeGrows
<1> HIDE DEF n
<1> DEFINE N == {k \in Nat : k <= n => g[k] = f[k]}
<1>5. 0 \in N
  BY <1>3, <1>4
<1>6. ASSUME NEW k \in Nat, k \in N PROVE k + 1 \in N
  <2> SUFFICES ASSUME k + 1 <= n PROVE g[k + 1] = f[k + 1]
    OBVIOUS
  <2>1. g[k] = f[k] /\ k \in 0..(n - 1) /\ k \in 0..(Len(u) - 1) /\ k + 1 \in 1..n
    BY <1>2, <1>6
  <2>2. f[k + 1] = Take(f[k], t[k + 1]) /\ g[k + 1] = Take(g[k], u[k + 1])
        /\ u[k + 1] = t[k + 1]
    BY <1>2, <1>3, <1>4, <2>1
  <2> QED BY <2>1, <2>2
<1>7. n \in N
  <2> HIDE DEF N
  <2> QED BY <1>2, <1>5, <1>6, Induct
<1>8. g[n + 1] = Take(g[n], c)
  <2>1. n \in 0..(Len(u) - 1)
    BY <1>2
  <2> QED BY <1>2, <1>4, <2>1
<1> QED BY <1>1, <1>2, <1>3, <1>4, <1>7, <1>8 DEF u


\* The text of a reply after each of its events.
LEMMA EncodeGrows ==
    ASSUME NEW break \in Seq(Symbols), NEW t \in Seq(Symbols)
    PROVE  \E F : /\ Encode(t, break) = F[Len(t)] /\ F[0] = <<>>
                  /\ \A k \in 0..(Len(t) - 1) : F[k + 1] = Extended(F[k], t[k + 1], break)
<1> DEFINE n == Len(t)
           V == Seq(Symbols)
           F == CHOOSE G : G = [s \in SUBSET DOMAIN t |->
                    IF s = {} THEN <<>>
                    ELSE LET x == Max(s) IN Extended(G[s \ {x}], t[x], break)]
           step == [i \in 1..n |-> [v \in V |-> Extended(v, t[i], break)]]
           folds(G) == G = [s \in SUBSET (1..n) |->
                    IF s = {} THEN <<>> ELSE Extended(G[s \ {Max(s)}], t[Max(s)], break)]
<1>1. Encode(t, break) = F[DOMAIN t]
  BY DEF Encode, Extended, FoldLeft, MapThenFoldSet
<1>2. n \in Nat /\ DOMAIN t = 1..n
  OBVIOUS
<1>3. F = CHOOSE G : folds(G)
  BY <1>2
<1>4. ASSUME NEW v \in V, NEW i \in 1..n PROVE Extended(v, t[i], break) \in V
  <2>1. t[i] \in Symbols
    OBVIOUS
  <2> QED BY <2>1, ExtendedIs
<1>5. <<>> \in V
  OBVIOUS
<1> HIDE DEF F, n, V
<1>6. \E G : IsFold(G, V, <<>>, step, n)
  <2>1. step \in [1..n -> [V -> V]]
    BY <1>4
  <2> HIDE DEF step
  <2> QED BY <1>2, <1>5, <2>1, FoldExists
<1>7. \E G : folds(G)
  <2>1. PICK G : IsFold(G, V, <<>>, step, n)
    BY <1>6
  <2>2. ASSUME NEW s \in SUBSET (1..n), s # {}
        PROVE  G[s] = Extended(G[s \ {Max(s)}], t[Max(s)], break)
    <3>1. Max(s) \in 1..n
      BY <1>2, <2>2, MaxOfPositions
    <3>2. G[s \ {Max(s)}] \in V
      BY <2>1 DEF IsFold
    <3>3. G[s] = step[Max(s)][G[s \ {Max(s)}]]
      BY <2>1, <2>2 DEF IsFold
    <3> QED BY <3>1, <3>2, <3>3
  <2>3. G = [s \in SUBSET (1..n) |-> G[s]] /\ G[{}] = <<>>
    BY <2>1 DEF IsFold
  <2>4. folds(G)
    BY <2>2, <2>3
  <2> QED BY <2>4
<1>8. folds(F)
  BY <1>3, <1>7
<1>9. F[1..0] = <<>>
  <2>1. 1..0 = {} /\ {} \in SUBSET (1..n)
    OBVIOUS
  <2> QED BY <1>8, <2>1
<1>10. ASSUME NEW k \in 0..(n - 1)
       PROVE  F[1..(k + 1)] = Extended(F[1..k], t[k + 1], break)
  <2>1. 1..(k + 1) \in SUBSET (1..n) /\ 1..(k + 1) # {}
        /\ Max(1..(k + 1)) = k + 1 /\ (1..(k + 1)) \ {k + 1} = 1..k
    <3>1. k \in Nat /\ k + 1 <= n
      BY <1>2
    <3> QED BY <1>2, <3>1, LastPosition
  <2>2. \A s \in SUBSET (1..n) :
            s # {} => F[s] = Extended(F[s \ {Max(s)}], t[Max(s)], break)
    BY <1>8
  <2> HIDE DEF folds
  <2> QED BY <2>1, <2>2
<1> HIDE DEF folds
<1> DEFINE f == [k \in 0..n |-> F[1..k]]
<1>11. f[0] = <<>> /\ f[n] = F[DOMAIN t]
  BY <1>2, <1>9
<1>12. \A k \in 0..(n - 1) : f[k + 1] = Extended(f[k], t[k + 1], break)
  <2> SUFFICES ASSUME NEW k \in 0..(n - 1) PROVE f[k + 1] = Extended(f[k], t[k + 1], break)
    OBVIOUS
  <2>1. k \in 0..n /\ k + 1 \in 0..n
    BY <1>2
  <2> QED BY <1>10, <2>1
<1> HIDE DEF f
<1> QED BY <1>1, <1>11, <1>12 DEF n

\* An event more.
LEMMA EncodeMore ==
    ASSUME NEW break \in Seq(Symbols), NEW t \in Seq(Symbols), NEW c \in Symbols
    PROVE  /\ Encode(<<>>, break) = <<>>
           /\ Encode(Append(t, c), break) = Extended(Encode(t, break), c, break)
<1> DEFINE u == Append(t, c)
           n == Len(t)
<1>1. Encode(<<>>, break) = <<>>
  <2> DEFINE nil == <<>>
  <2>1. nil \in Seq(Symbols) /\ Len(nil) = 0
    OBVIOUS
  <2> HIDE DEF nil
  <2>2. \E F : /\ Encode(nil, break) = F[Len(nil)] /\ F[0] = <<>>
               /\ \A k \in 0..(Len(nil) - 1) : F[k + 1] = Extended(F[k], nil[k + 1], break)
    BY <2>1, EncodeGrows
  <2>3. Encode(nil, break) = <<>>
    BY <2>1, <2>2
  <2> QED BY <2>3 DEF nil
<1>2. u \in Seq(Symbols) /\ Len(u) = n + 1 /\ n \in Nat /\ u[n + 1] = c
      /\ \A k \in 1..n : u[k] = t[k]
  OBVIOUS
<1> HIDE DEF u
<1>3. PICK f : /\ Encode(t, break) = f[n] /\ f[0] = <<>>
               /\ \A k \in 0..(n - 1) : f[k + 1] = Extended(f[k], t[k + 1], break)
  BY EncodeGrows
<1>4. PICK g : /\ Encode(u, break) = g[Len(u)] /\ g[0] = <<>>
               /\ \A k \in 0..(Len(u) - 1) : g[k + 1] = Extended(g[k], u[k + 1], break)
  BY <1>2, EncodeGrows
<1> HIDE DEF n
<1> DEFINE N == {k \in Nat : k <= n => g[k] = f[k]}
<1>5. 0 \in N
  BY <1>3, <1>4
<1>6. ASSUME NEW k \in Nat, k \in N PROVE k + 1 \in N
  <2> SUFFICES ASSUME k + 1 <= n PROVE g[k + 1] = f[k + 1]
    OBVIOUS
  <2>1. g[k] = f[k] /\ k \in 0..(n - 1) /\ k \in 0..(Len(u) - 1) /\ k + 1 \in 1..n
    BY <1>2, <1>6
  <2>2. f[k + 1] = Extended(f[k], t[k + 1], break) /\ g[k + 1] = Extended(g[k], u[k + 1], break)
        /\ u[k + 1] = t[k + 1]
    BY <1>2, <1>3, <1>4, <2>1
  <2> QED BY <2>1, <2>2
<1>7. n \in N
  <2> HIDE DEF N
  <2> QED BY <1>2, <1>5, <1>6, Induct
<1>8. g[n + 1] = Extended(g[n], c, break)
  <2>1. n \in 0..(Len(u) - 1)
    BY <1>2
  <2> QED BY <1>2, <1>4, <2>1
<1> QED BY <1>1, <1>2, <1>3, <1>4, <1>7, <1>8 DEF u

-----------------------------------------------------------------------------
(* A piece, one symbol at a time *)

\* The loop of push over one more symbol of a piece, joined to the carriage
\* return before it when that belongs to the piece too.
Feed(v, c, joined) ==
    IF c = LF /\ joined THEN Take([v EXCEPT !.rest = Front(v.rest)], LF)
    ELSE Take(v, c)

\* What the two loops return.
LEMMA UnifiedIs ==
    ASSUME NEW t \in Seq(Symbols)
    PROVE  Unified(t) \in Seq(Symbols)
<1>1. PICK F : /\ Unified(t) = F[Len(t)] /\ F[0] = <<>>
               /\ \A k \in 0..(Len(t) - 1) : F[k + 1] = Unify(F[k], t[k + 1])
  BY UnifyGrows
<1> DEFINE n == Len(t)
           N == {k \in Nat : k <= n => F[k] \in Seq(Symbols)}
<1>2. 0 \in N
  <2>1. F[0] \in Seq(Symbols)
    BY <1>1
  <2> QED BY <2>1
<1>3. ASSUME NEW k \in Nat, k \in N PROVE k + 1 \in N
  <2> SUFFICES ASSUME k + 1 <= n PROVE F[k + 1] \in Seq(Symbols)
    OBVIOUS
  <2>1. F[k] \in Seq(Symbols) /\ k \in 0..(Len(t) - 1) /\ t[k + 1] \in Symbols
    BY <1>3
  <2>2. F[k + 1] = Unify(F[k], t[k + 1])
    BY <1>1, <2>1
  <2> QED BY <2>1, <2>2, UnifyIs
<1>4. n \in Nat
  OBVIOUS
<1>5. n \in N
  <2> HIDE DEF N, n
  <2> QED BY <1>2, <1>3, <1>4, Induct
<1> QED BY <1>1, <1>4, <1>5

\* The same of the second.
LEMMA PushTextIs ==
    ASSUME sends \in Nat, NEW page \in PageStates, NEW t \in Seq(Symbols)
    PROVE  PushText(page, t) \in Loops
<1>1. PICK F : /\ PushText(page, t) = F[Len(t)] /\ F[0] = [page |-> page, rest |-> <<>>]
               /\ \A k \in 0..(Len(t) - 1) : F[k + 1] = Take(F[k], t[k + 1])
  BY TakeGrows
<1> DEFINE n == Len(t)
           N == {k \in Nat : k <= n => F[k] \in Loops}
<1>2. 0 \in N
  <2>1. F[0] \in Loops
    BY <1>1 DEF Loops
  <2> QED BY <2>1
<1>3. ASSUME NEW k \in Nat, k \in N PROVE k + 1 \in N
  <2> SUFFICES ASSUME k + 1 <= n PROVE F[k + 1] \in Loops
    OBVIOUS
  <2>1. F[k] \in Loops /\ k \in 0..(Len(t) - 1) /\ t[k + 1] \in Symbols
    BY <1>3
  <2>2. F[k + 1] = Take(F[k], t[k + 1])
    BY <1>1, <2>1
  <2> QED BY <2>1, <2>2, TakeIs
<1>4. n \in Nat
  OBVIOUS
<1>5. n \in N
  <2> HIDE DEF N, n
  <2> QED BY <1>2, <1>3, <1>4, Induct
<1> QED BY <1>1, <1>4, <1>5

\* Text joined to an appended symbol.
LEMMA JoinAppend ==
    ASSUME NEW S, NEW s \in Seq(S), NEW t \in Seq(S), NEW x \in S
    PROVE  s \o Append(t, x) = Append(s \o t, x) /\ s \o t \in Seq(S)
OBVIOUS

\* What was appended last, taken off again.
LEMMA FrontAppended ==
    ASSUME NEW S, NEW s \in Seq(S), NEW x \in S
    PROVE  Front(Append(s, x)) = s
<1> DEFINE t == Append(s, x)
<1>1. t \in Seq(S) /\ t # <<>> /\ Len(t) = Len(s) + 1 /\ \A k \in 1..Len(s) : t[k] = s[k]
  BY AppendIs
<1> HIDE DEF t
<1>2. /\ Front(t) \in Seq(S) /\ Len(Front(t)) = Len(s)
      /\ \A k \in 1..Len(s) : Front(t)[k] = s[k]
  <2>1. /\ Front(t) \in Seq(S) /\ Len(Front(t)) = Len(t) - 1
        /\ \A k \in 1..(Len(t) - 1) : Front(t)[k] = t[k]
    BY <1>1, FrontIs
  <2>2. Len(t) - 1 = Len(s)
    BY <1>1
  <2> QED BY <1>1, <2>1, <2>2
<1> DEFINE f == Front(t)
<1> HIDE DEF f
<1>3. f = s
  BY <1>2 DEF f
<1> QED BY <1>3 DEF f, t

\* Where the loop stands after one more symbol of a piece.
LEMMA PieceMore ==
    ASSUME sends \in Nat, NEW page \in PageStates, NEW held \in Seq(Symbols),
           NEW t \in Seq(Symbols), NEW c \in Symbols
    PROVE  /\ PushText(page, held \o Unified(Append(t, c)))
                = Feed(PushText(page, held \o Unified(t)), c, EndsIn(Unified(t), CR))
           /\ EndsIn(Unified(Append(t, c)), CR) <=> c = CR
<1> DEFINE u == Unified(t)
<1>1. u \in Seq(Symbols) /\ Unified(Append(t, c)) = Unify(u, c)
  BY UnifiedIs, UnifyMore
<1> HIDE DEF u
<1>2. CASE c = LF /\ EndsIn(u, CR)
  <2> DEFINE w == Front(u)
             v == PushText(page, held \o w)
  <2>1. w \in Seq(Symbols) /\ u = Append(w, CR) /\ Unify(u, c) = Append(w, LF)
    BY <1>1, <1>2, FrontIs DEF EndsIn, Unify
  <2> HIDE DEF w
  <2>2. held \o w \in Seq(Symbols) /\ held \o u = Append(held \o w, CR)
        /\ held \o Append(w, LF) = Append(held \o w, LF)
    BY <2>1, BreaksDiffer, JoinAppend
  <2>3. v \in Loops
    BY <2>2, PushTextIs
  <2>4. /\ PushText(page, held \o u) = Take(v, CR)
        /\ PushText(page, held \o Append(w, LF)) = Take(v, LF)
    <3> DEFINE s == held \o w
    <3>1. s \in Seq(Symbols) /\ CR \in Symbols /\ LF \in Symbols
      BY <2>2, BreaksDiffer
    <3> HIDE DEF s
    <3>2. /\ PushText(page, Append(s, CR)) = Take(PushText(page, s), CR)
          /\ PushText(page, Append(s, LF)) = Take(PushText(page, s), LF)
      BY <3>1, TakeMore
    <3> QED BY <2>2, <3>2 DEF s
  <2> HIDE DEF v
  <2>5. Take(v, CR) = [v EXCEPT !.rest = Append(v.rest, CR)]
    BY BreaksDiffer DEF Take
  <2>6. v.rest \in Seq(Symbols) /\ v = [page |-> v.page, rest |-> v.rest]
    BY <2>3 DEF Loops
  <2>7. Front(Append(v.rest, CR)) = v.rest
    BY <2>6, BreaksDiffer, FrontAppended
  <2>8. [Take(v, CR) EXCEPT !.rest = Front(Take(v, CR).rest)] = v
    BY <2>5, <2>6, <2>7
  <2>9. Feed(Take(v, CR), c, TRUE) = Take(v, LF)
    BY <1>2, <2>8 DEF Feed
  <2>10. LF \in Symbols /\ Last(Append(w, LF)) = LF /\ LF # CR
    BY <2>1, BreaksDiffer, LastAppended
  <2> QED BY <1>1, <1>2, <2>1, <2>4, <2>9, <2>10 DEF u, EndsIn
<1>3. CASE ~ (c = LF /\ EndsIn(u, CR))
  <2>1. Unify(u, c) = Append(u, c)
    BY <1>3 DEF Unify
  <2>2. held \o u \in Seq(Symbols) /\ held \o Append(u, c) = Append(held \o u, c)
    BY <1>1, JoinAppend
  <2>3. PushText(page, held \o Append(u, c)) = Take(PushText(page, held \o u), c)
    BY <2>2, TakeMore
  <2>4. Last(Append(u, c)) = c /\ Append(u, c) # <<>>
    BY <1>1, LastAppended, AppendIs
  <2> QED BY <1>1, <1>3, <2>1, <2>3, <2>4 DEF u, Feed, EndsIn
<1> QED BY <1>2, <1>3

-----------------------------------------------------------------------------
(* The text of a reply, symbol by symbol *)

Breaks == {<<LF>>, <<CR, LF>>}
Count == Tokens + 2         \* the events of a reply
Line(e, break) == <<e>> \o break \o break
LineSize(break) == IF break = <<LF>> THEN 3 ELSE 5
Start(size, j) == size * j  \* the symbols before event j + 1

\* An event and two line breaks of one symbol, or of two.
LEMMA ShortLine ==
    ASSUME NEW S, NEW e \in S, NEW b \in S
    PROVE  /\ <<b>> \in Seq(S) /\ <<e>> \o <<b>> \o <<b>> \in Seq(S)
           /\ Len(<<e>> \o <<b>> \o <<b>>) = 3
           /\ (<<e>> \o <<b>> \o <<b>>)[1] = e
           /\ (<<e>> \o <<b>> \o <<b>>)[2] = b /\ (<<e>> \o <<b>> \o <<b>>)[3] = b
<1> DEFINE x == <<e>>
           y == <<b>>
<1>1. x \in Seq(S) /\ y \in Seq(S) /\ Len(x) = 1 /\ Len(y) = 1 /\ x[1] = e /\ y[1] = b
  OBVIOUS
<1> HIDE DEF x, y
<1>2. x \o y \in Seq(S) /\ Len(x \o y) = 2 /\ (x \o y)[1] = e /\ (x \o y)[2] = b
  <2>1. /\ x \o y \in Seq(S) /\ Len(x \o y) = Len(x) + Len(y)
        /\ \A i \in 1..Len(x) : (x \o y)[i] = x[i]
        /\ \A i \in 1..Len(y) : (x \o y)[Len(x) + i] = y[i]
    <3>1. x \in Seq(S) /\ y \in Seq(S)
      BY <1>1
    <3> QED BY <3>1, JoinIs
  <2>2. (x \o y)[1] = x[1] /\ (x \o y)[1 + 1] = y[1]
    BY <1>1, <2>1
  <2> QED BY <1>1, <2>1, <2>2
<1> DEFINE z == x \o y
<1> HIDE DEF z
<1>3. /\ z \o y \in Seq(S) /\ Len(z \o y) = 3 /\ (z \o y)[1] = e
      /\ (z \o y)[2] = b /\ (z \o y)[3] = b
  BY <1>1, <1>2 DEF z
<1> QED BY <1>1, <1>3 DEF x, y, z

\* The same with CR LF.
LEMMA LongLine ==
    ASSUME NEW S, NEW e \in S, NEW a \in S, NEW b \in S
    PROVE  /\ <<a, b>> \in Seq(S) /\ <<e>> \o <<a, b>> \o <<a, b>> \in Seq(S)
           /\ Len(<<e>> \o <<a, b>> \o <<a, b>>) = 5
           /\ (<<e>> \o <<a, b>> \o <<a, b>>)[1] = e
           /\ (<<e>> \o <<a, b>> \o <<a, b>>)[2] = a
           /\ (<<e>> \o <<a, b>> \o <<a, b>>)[3] = b
           /\ (<<e>> \o <<a, b>> \o <<a, b>>)[4] = a
           /\ (<<e>> \o <<a, b>> \o <<a, b>>)[5] = b
<1> DEFINE x == <<e>>
           y == <<a, b>>
<1>1. /\ x \in Seq(S) /\ y \in Seq(S) /\ Len(x) = 1 /\ Len(y) = 2
      /\ x[1] = e /\ y[1] = a /\ y[2] = b
  OBVIOUS
<1> HIDE DEF x, y
<1>2. /\ x \o y \in Seq(S) /\ Len(x \o y) = 3 /\ (x \o y)[1] = e
      /\ (x \o y)[2] = a /\ (x \o y)[3] = b
  <2>1. /\ x \o y \in Seq(S) /\ Len(x \o y) = Len(x) + Len(y)
        /\ \A i \in 1..Len(x) : (x \o y)[i] = x[i]
        /\ \A i \in 1..Len(y) : (x \o y)[Len(x) + i] = y[i]
    <3>1. x \in Seq(S) /\ y \in Seq(S)
      BY <1>1
    <3> QED BY <3>1, JoinIs
  <2>2. (x \o y)[1] = x[1] /\ (x \o y)[1 + 1] = y[1] /\ (x \o y)[1 + 2] = y[2]
    BY <1>1, <2>1
  <2> QED BY <1>1, <2>1, <2>2
<1> DEFINE z == x \o y
<1> HIDE DEF z
<1>3. /\ z \o y \in Seq(S) /\ Len(z \o y) = 5 /\ (z \o y)[1] = e
      /\ (z \o y)[2] = a /\ (z \o y)[3] = b /\ (z \o y)[4] = a /\ (z \o y)[5] = b
  BY <1>1, <1>2 DEF z
<1> QED BY <1>1, <1>3 DEF x, y, z

\* An event as the server sends it.
LEMMA LineIs ==
    ASSUME NEW e \in Symbols, NEW break \in Breaks
    PROVE  /\ break \in Seq(Symbols)
           /\ Line(e, break) \in Seq(Symbols) /\ Len(Line(e, break)) = LineSize(break)
           /\ Line(e, break)[1] = e
           /\ break = <<LF>> => /\ LineSize(break) = 3
                                /\ Line(e, break)[2] = LF /\ Line(e, break)[3] = LF
           /\ break # <<LF>> => /\ LineSize(break) = 5
                                /\ Line(e, break)[2] = CR /\ Line(e, break)[3] = LF
                                /\ Line(e, break)[4] = CR /\ Line(e, break)[5] = LF
<1>1. CR \in Symbols /\ LF \in Symbols
  BY BreaksDiffer
<1>2. CASE break = <<LF>>
  <2>1. LineSize(break) = 3
    BY <1>2 DEF LineSize
  <2> QED BY <1>1, <1>2, <2>1, ShortLine DEF Line
<1>3. CASE break = <<CR, LF>>
  <2>1. break # <<LF>>
    <3>1. Len(<<LF>>) = 1 /\ Len(<<CR, LF>>) = 2
      OBVIOUS
    <3> QED BY <1>3, <3>1
  <2>2. LineSize(break) = 5
    BY <2>1 DEF LineSize
  <2> QED BY <1>1, <1>3, <2>1, <2>2, LongLine DEF Line
<1> QED BY <1>2, <1>3 DEF Breaks

\* Where events start.
LEMMA StartIs ==
    ASSUME NEW size \in {3, 5}, NEW j \in Nat
    PROVE  /\ Start(size, j) \in Nat /\ Start(size, 0) = 0
           /\ Start(size, j + 1) = Start(size, j) + size
           /\ \A k \in Nat : j < k => Start(size, j) + size <= Start(size, k)
<1>1. CASE size = 3
  BY <1>1 DEF Start
<1>2. CASE size = 5
  BY <1>2 DEF Start
<1> QED BY <1>1, <1>2

\* Where each symbol of an encoded text comes from.
IsText(text, n, es, break) ==
    /\ text \in Seq(Symbols) /\ Len(text) = Start(LineSize(break), n)
    /\ \A j \in 0..(n - 1), q \in 1..LineSize(break) :
          text[Start(LineSize(break), j) + q] = Line(es[j + 1], break)[q]

\* A text with one event more.
LEMMA IsTextMore ==
    ASSUME NEW break \in Breaks, NEW es, NEW n \in Nat, NEW text, es[n + 1] \in Symbols,
           IsText(text, n, es, break)
    PROVE  IsText(Extended(text, es[n + 1], break), n + 1, es, break)
<1> DEFINE size == LineSize(break)
           line == Line(es[n + 1], break)
           more == text \o line
<1>1. Extended(text, es[n + 1], break) = more
  BY DEF Extended, Line
<1>2. line \in Seq(Symbols) /\ Len(line) = size
  BY LineIs
<1>3. size \in {3, 5} /\ text \in Seq(Symbols) /\ Len(text) = Start(size, n)
  BY DEF LineSize, IsText
<1>4. \A j \in 0..(n - 1), q \in 1..size : text[Start(size, j) + q] = Line(es[j + 1], break)[q]
  BY DEF IsText
<1> HIDE DEF size, line
<1>5. /\ more \in Seq(Symbols) /\ Len(more) = Start(size, n) + size
      /\ \A p \in 1..Len(text) : more[p] = text[p]
      /\ \A q \in 1..size : more[Start(size, n) + q] = line[q]
  BY <1>2, <1>3, JoinIs
<1> HIDE DEF more
<1>6. Len(more) = Start(size, n + 1)
  BY <1>3, <1>5, StartIs
<1>7. ASSUME NEW j \in 0..n, NEW q \in 1..size
      PROVE  more[Start(size, j) + q] = Line(es[j + 1], break)[q]
  <2>1. CASE j = n
    BY <1>5, <2>1 DEF line
  <2>2. CASE j # n
    <3>1. j \in 0..(n - 1) /\ j \in Nat /\ j < n
      BY <2>2
    <3>2. Start(size, j) + size <= Start(size, n) /\ Start(size, j) \in Nat
      BY <1>3, <3>1, StartIs
    <3>3. Start(size, j) + q \in 1..Len(text)
      BY <1>3, <3>2
    <3> QED BY <1>4, <1>5, <3>1, <3>3
  <2> QED BY <2>1, <2>2
<1>8. (n + 1) - 1 = n
  OBVIOUS
<1> QED BY <1>1, <1>5, <1>6, <1>7, <1>8 DEF IsText, size

\* The text of some events.
LEMMA TextIs ==
    ASSUME NEW es \in Seq(Symbols), NEW break \in Breaks
    PROVE  IsText(Encode(es, break), Len(es), es, break)
<1>1. break \in Seq(Symbols)
  BY BreaksDiffer, LineIs
<1>2. PICK F : /\ Encode(es, break) = F[Len(es)] /\ F[0] = <<>>
               /\ \A k \in 0..(Len(es) - 1) : F[k + 1] = Extended(F[k], es[k + 1], break)
  BY <1>1, EncodeGrows
<1> DEFINE n == Len(es)
           N == {k \in Nat : k <= n => IsText(F[k], k, es, break)}
<1>3. 0 \in N
  <2>1. Start(LineSize(break), 0) = 0
    <3>1. LineSize(break) \in {3, 5}
      BY DEF LineSize
    <3> QED BY <3>1, StartIs
  <2>2. IsText(<<>>, 0, es, break)
    BY <2>1 DEF IsText
  <2> QED BY <1>2, <2>2
<1>4. ASSUME NEW k \in Nat, k \in N PROVE k + 1 \in N
  <2> SUFFICES ASSUME k + 1 <= n PROVE IsText(F[k + 1], k + 1, es, break)
    OBVIOUS
  <2>1. IsText(F[k], k, es, break) /\ k \in 0..(Len(es) - 1) /\ es[k + 1] \in Symbols
    BY <1>4
  <2>2. F[k + 1] = Extended(F[k], es[k + 1], break)
    BY <1>2, <2>1
  <2>3. IsText(Extended(F[k], es[k + 1], break), k + 1, es, break)
    BY <2>1, IsTextMore
  <2> QED BY <2>2, <2>3
<1>5. n \in Nat
  OBVIOUS
<1>6. n \in N
  <2> HIDE DEF N, n
  <2> QED BY <1>3, <1>4, <1>5, Induct
<1> QED BY <1>2, <1>5, <1>6

\* The events of a reply.
LEMMA AnswerIs ==
    ASSUME NEW id \in Pages, NEW last \in {"done", "error"}
    PROVE  /\ Answer(id, last) \in Seq(Symbols) /\ Len(Answer(id, last)) = Count
           /\ Count \in Nat /\ Count = Tokens + 2 /\ Tokens \in Nat
           /\ Answer(id, last)[1] = Event("meta", id)
           /\ \A k \in 1..Tokens : Answer(id, last)[k + 1] = Event("token", k)
           /\ Answer(id, last)[Tokens + 2] = Event(last, 0)
<1> DEFINE tokens == [k \in 1..Tokens |-> Event("token", k)]
           meta == Event("meta", id)
           end == Event(last, 0)
<1>1. Tokens \in Nat
  BY PageAssumption
<1>2. meta \in Symbols /\ end \in Symbols /\ \A k \in 1..Tokens : Event("token", k) \in Symbols
  BY <1>1 DEF Symbols, Values
<1>3. tokens \in Seq(Symbols) /\ Len(tokens) = Tokens
      /\ \A k \in 1..Tokens : tokens[k] = Event("token", k)
  BY <1>1, <1>2
<1>4. Answer(id, last) = <<meta>> \o tokens \o <<end>>
  BY DEF Answer
<1> HIDE DEF tokens, meta, end
<1>5. /\ <<meta>> \o tokens \in Seq(Symbols) /\ Len(<<meta>> \o tokens) = Tokens + 1
      /\ (<<meta>> \o tokens)[1] = meta
      /\ \A k \in 1..Tokens : (<<meta>> \o tokens)[k + 1] = tokens[k]
  BY <1>1, <1>2, <1>3
<1> DEFINE front == <<meta>> \o tokens
<1> HIDE DEF front
<1>6. /\ front \o <<end>> \in Seq(Symbols) /\ Len(front \o <<end>>) = Tokens + 2
      /\ (front \o <<end>>)[Tokens + 2] = end
      /\ \A k \in 1..(Tokens + 1) : (front \o <<end>>)[k] = front[k]
  BY <1>1, <1>2, <1>5 DEF front
<1>7. /\ (front \o <<end>>)[1] = meta
      /\ \A k \in 1..Tokens : (front \o <<end>>)[k + 1] = tokens[k]
  BY <1>1, <1>5, <1>6 DEF front
<1> QED BY <1>1, <1>3, <1>4, <1>6, <1>7 DEF Count, front, meta, end

-----------------------------------------------------------------------------
(* The parser over the symbols of one event *)

IsEvent(e) == e \in Symbols /\ e \notin {CR, LF}

\* What the parser may hold after the first r symbols of an event: of a CR LF
\* that came in two pieces both symbols are left.
Held(rest, e, r, break) ==
    \/ r = 0 /\ rest = <<>>
    \/ r = 1 /\ rest = <<e>>
    \/ r = 2 /\ break = <<LF>> /\ rest = <<e, LF>>
    \/ r = 2 /\ break # <<LF>> /\ rest = <<e, CR>>
    \/ r = 3 /\ break # <<LF>> /\ rest \in {<<e, LF>>, <<e, CR, LF>>}
    \/ r = 4 /\ break # <<LF>> /\ rest \in {<<e, LF, CR>>, <<e, CR, LF, CR>>}

\* Equal sequences.
LEMMA SameSeq ==
    ASSUME NEW S, NEW s \in Seq(S), NEW t \in Seq(S), Len(s) = Len(t),
           \A k \in 1..Len(s) : s[k] = t[k]
    PROVE  s = t
OBVIOUS

\* Sequences of up to four symbols, each as the last but one with one more.
LEMMA OneIs ==
    ASSUME NEW a \in Symbols
    PROVE  /\ <<a>> \in Seq(Symbols) /\ Append(<<>>, a) = <<a>>
           /\ <<a>> # <<>> /\ Last(<<a>>) = a
<1>1. Append(<<>>, a) = <<a>> /\ <<>> \in Seq(Symbols)
  OBVIOUS
<1>2. Append(<<>>, a) \in Seq(Symbols) /\ Append(<<>>, a) # <<>> /\ Last(Append(<<>>, a)) = a
  BY <1>1, LastAppended
<1> QED BY <1>1, <1>2

\* Two symbols.
LEMMA TwoIs ==
    ASSUME NEW a \in Symbols, NEW b \in Symbols
    PROVE  /\ <<a, b>> \in Seq(Symbols) /\ Append(<<a>>, b) = <<a, b>>
           /\ <<a, b>> # <<>> /\ Last(<<a, b>>) = b /\ Front(<<a, b>>) = <<a>>
<1> DEFINE s == <<a>>
           t == <<a, b>>
<1>2. s \in Seq(Symbols) /\ Len(s) = 1 /\ s[1] = a
  BY OneIs
<1>4. t \in Seq(Symbols) /\ Len(t) = 2 /\ t[1] = a /\ t[2] = b
  OBVIOUS
<1> HIDE DEF s, t
<1>1. Append(s, b) = t
  <2>1. /\ Append(s, b) \in Seq(Symbols) /\ Len(Append(s, b)) = 2
        /\ Append(s, b)[1] = a /\ Append(s, b)[2] = b
    <3>1. /\ Append(s, b) \in Seq(Symbols) /\ Len(Append(s, b)) = Len(s) + 1
          /\ Append(s, b)[Len(s) + 1] = b
          /\ \A k \in 1..Len(s) : Append(s, b)[k] = s[k]
      <4>1. s \in Seq(Symbols)
        BY <1>2
      <4> QED BY <4>1, AppendIs
    <3> QED BY <1>2, <3>1
  <2> QED BY <1>4, <2>1, SameSeq
<1>3. /\ Append(s, b) \in Seq(Symbols) /\ Append(s, b) # <<>>
      /\ Last(Append(s, b)) = b /\ Front(Append(s, b)) = s
  BY <1>2, LastAppended, FrontAppended
<1> QED BY <1>1, <1>3 DEF s, t

\* Three.
LEMMA ThreeIs ==
    ASSUME NEW a \in Symbols, NEW b \in Symbols, NEW c \in Symbols
    PROVE  /\ <<a, b, c>> \in Seq(Symbols) /\ Append(<<a, b>>, c) = <<a, b, c>>
           /\ <<a, b, c>> # <<>> /\ Last(<<a, b, c>>) = c /\ Front(<<a, b, c>>) = <<a, b>>
<1> DEFINE s == <<a, b>>
           t == <<a, b, c>>
<1>2. s \in Seq(Symbols) /\ Len(s) = 2 /\ s[1] = a /\ s[2] = b
  BY TwoIs
<1>4. t \in Seq(Symbols) /\ Len(t) = 3 /\ t[1] = a /\ t[2] = b /\ t[3] = c
  OBVIOUS
<1> HIDE DEF s, t
<1>1. Append(s, c) = t
  <2>1. /\ Append(s, c) \in Seq(Symbols) /\ Len(Append(s, c)) = 3
        /\ Append(s, c)[1] = a /\ Append(s, c)[2] = b /\ Append(s, c)[3] = c
    <3>1. /\ Append(s, c) \in Seq(Symbols) /\ Len(Append(s, c)) = Len(s) + 1
          /\ Append(s, c)[Len(s) + 1] = c
          /\ \A k \in 1..Len(s) : Append(s, c)[k] = s[k]
      <4>1. s \in Seq(Symbols)
        BY <1>2
      <4> QED BY <4>1, AppendIs
    <3> QED BY <1>2, <3>1
  <2> QED BY <1>4, <2>1, SameSeq
<1>3. /\ Append(s, c) \in Seq(Symbols) /\ Append(s, c) # <<>>
      /\ Last(Append(s, c)) = c /\ Front(Append(s, c)) = s
  BY <1>2, LastAppended, FrontAppended
<1> QED BY <1>1, <1>3 DEF s, t

\* Four.
LEMMA FourIs ==
    ASSUME NEW a \in Symbols, NEW b \in Symbols, NEW c \in Symbols, NEW d \in Symbols
    PROVE  /\ Append(<<a, b, c>>, d) = <<a, b, c, d>> /\ <<a, b, c, d>> # <<>>
           /\ Last(<<a, b, c, d>>) = d /\ Front(<<a, b, c, d>>) = <<a, b, c>>
<1> DEFINE s == <<a, b, c>>
           t == <<a, b, c, d>>
<1>2. s \in Seq(Symbols) /\ Len(s) = 3 /\ s[1] = a /\ s[2] = b /\ s[3] = c
  BY ThreeIs
<1>4. t \in Seq(Symbols) /\ Len(t) = 4 /\ t[1] = a /\ t[2] = b /\ t[3] = c /\ t[4] = d
  OBVIOUS
<1> HIDE DEF s, t
<1>1. Append(s, d) = t
  <2>1. /\ Append(s, d) \in Seq(Symbols) /\ Len(Append(s, d)) = 4
        /\ Append(s, d)[1] = a /\ Append(s, d)[2] = b /\ Append(s, d)[3] = c
        /\ Append(s, d)[4] = d
    <3>1. /\ Append(s, d) \in Seq(Symbols) /\ Len(Append(s, d)) = Len(s) + 1
          /\ Append(s, d)[Len(s) + 1] = d
          /\ \A k \in 1..Len(s) : Append(s, d)[k] = s[k]
      <4>1. s \in Seq(Symbols)
        BY <1>2
      <4> QED BY <4>1, AppendIs
    <3> QED BY <1>2, <3>1
  <2> QED BY <1>4, <2>1, SameSeq
<1>3. Append(s, d) # <<>> /\ Last(Append(s, d)) = d /\ Front(Append(s, d)) = s
  BY <1>2, LastAppended, FrontAppended
<1> QED BY <1>1, <1>3 DEF s, t

\* The buffers that are held, symbol by symbol.
LEMMA HeldIs ==
    ASSUME NEW e, IsEvent(e)
    PROVE  /\ ~ EndsIn(<<>>, LF) /\ ~ EndsIn(<<e>>, LF) /\ ~ EndsIn(<<e, CR>>, LF)
           /\ EndsIn(<<e, LF>>, LF) /\ EndsIn(<<e, CR, LF>>, LF)
           /\ EndsIn(<<e, LF, CR>>, CR) /\ EndsIn(<<e, CR, LF, CR>>, CR)
           /\ Append(<<>>, e) = <<e>>
           /\ Append(<<e>>, LF) = <<e, LF>> /\ Append(<<e>>, CR) = <<e, CR>>
           /\ Append(<<e, CR>>, LF) = <<e, CR, LF>> /\ Append(<<e, LF>>, CR) = <<e, LF, CR>>
           /\ Append(<<e, CR, LF>>, CR) = <<e, CR, LF, CR>>
           /\ Front(<<e, CR>>) = <<e>> /\ Front(<<e, LF, CR>>) = <<e, LF>>
           /\ Front(<<e, CR, LF, CR>>) = <<e, CR, LF>>
<1>1. /\ e \in Symbols /\ CR \in Symbols /\ LF \in Symbols /\ CR # LF
      /\ e # CR /\ e # LF
  BY BreaksDiffer DEF IsEvent
<1>2. Append(<<>>, e) = <<e>> /\ <<e>> # <<>> /\ Last(<<e>>) = e
  BY <1>1, OneIs
<1>3. /\ Append(<<e>>, CR) = <<e, CR>> /\ Last(<<e, CR>>) = CR /\ Front(<<e, CR>>) = <<e>>
      /\ Append(<<e>>, LF) = <<e, LF>> /\ Last(<<e, LF>>) = LF /\ <<e, LF>> # <<>>
  BY <1>1, TwoIs
<1>4. /\ Append(<<e, CR>>, LF) = <<e, CR, LF>> /\ Last(<<e, CR, LF>>) = LF
      /\ <<e, CR, LF>> # <<>>
  BY <1>1, ThreeIs
<1>5. /\ Append(<<e, LF>>, CR) = <<e, LF, CR>> /\ Last(<<e, LF, CR>>) = CR
      /\ Front(<<e, LF, CR>>) = <<e, LF>> /\ <<e, LF, CR>> # <<>>
  BY <1>1, ThreeIs
<1>6. /\ Append(<<e, CR, LF>>, CR) = <<e, CR, LF, CR>> /\ Last(<<e, CR, LF, CR>>) = CR
      /\ Front(<<e, CR, LF, CR>>) = <<e, CR, LF>> /\ <<e, CR, LF, CR>> # <<>>
  BY <1>1, FourIs
<1>7. /\ ~ EndsIn(<<>>, LF) /\ ~ EndsIn(<<e>>, LF) /\ ~ EndsIn(<<e, CR>>, LF)
  BY <1>1, <1>2, <1>3 DEF EndsIn
<1>8. /\ EndsIn(<<e, LF>>, LF) /\ EndsIn(<<e, CR, LF>>, LF)
      /\ EndsIn(<<e, LF, CR>>, CR) /\ EndsIn(<<e, CR, LF, CR>>, CR)
  BY <1>3, <1>4, <1>5, <1>6 DEF EndsIn
<1> QED BY <1>2, <1>3, <1>4, <1>5, <1>6, <1>7, <1>8

\* A block of one event.
LEMMA FlushOne ==
    ASSUME NEW page, NEW block \in Seq(Symbols), NEW e, IsEvent(e),
           block # <<>>, block[1] = e,
           \A i \in 2..Len(block) : block[i] \in {CR, LF}
    PROVE  FlushBlock(page, block) = OnEvent(page, e)
<1> DEFINE events == {i \in DOMAIN block : block[i] \notin {CR, LF}}
<1>1. events = {1}
  BY DEF IsEvent
<1>2. Max({1}) = 1
  <2>1. {1} \in SUBSET (1..1) /\ {1} # {} /\ 1 \in Nat
    OBVIOUS
  <2>2. Max({1}) \in {1}
    BY <2>1, MaxOfPositions
  <2> QED BY <2>2
<1>3. FlushBlock(page, block)
        = LET last == block[Max(events)]
          IN  IF events = {} THEN page
              ELSE OnEvent(page, IF events = {Max(events)} THEN last ELSE Event(last[1], 0))
  BY DEF FlushBlock
<1>4. Max(events) = 1 /\ events # {} /\ events = {Max(events)} /\ block[Max(events)] = e
  BY <1>1, <1>2
<1> HIDE DEF events
<1> QED BY <1>3, <1>4

\* The blocks that the symbols of one event make up.
LEMMA FlushHeld ==
    ASSUME NEW page, NEW e, IsEvent(e)
    PROVE  /\ FlushBlock(page, <<>>) = page
           /\ \A block \in {<<e>>, <<e, LF>>, <<e, CR>>, <<e, CR, LF>>} :
                 FlushBlock(page, block) = OnEvent(page, e)
<1>1. e \in Symbols /\ CR \in Symbols /\ LF \in Symbols
  BY BreaksDiffer DEF IsEvent
<1>2. FlushBlock(page, <<>>) = page
  BY DEF FlushBlock
<1>3. FlushBlock(page, <<e>>) = OnEvent(page, e)
  <2> DEFINE b == <<e>>
  <2>1. b \in Seq(Symbols) /\ b # <<>> /\ b[1] = e /\ Len(b) = 1
    BY <1>1
  <2> HIDE DEF b
  <2>2. \A i \in 2..Len(b) : b[i] \in {CR, LF}
    BY <2>1
  <2>3. FlushBlock(page, b) = OnEvent(page, e)
    BY <2>1, <2>2, FlushOne
  <2> QED BY <2>3 DEF b
<1>4. ASSUME NEW c \in {CR, LF} PROVE FlushBlock(page, <<e, c>>) = OnEvent(page, e)
  <2> DEFINE b == <<e, c>>
  <2>1. b \in Seq(Symbols) /\ b # <<>> /\ b[1] = e /\ b[2] = c /\ Len(b) = 2
    BY <1>1
  <2> HIDE DEF b
  <2>2. \A i \in 2..Len(b) : b[i] \in {CR, LF}
    BY <2>1
  <2>3. FlushBlock(page, b) = OnEvent(page, e)
    BY <2>1, <2>2, FlushOne
  <2> QED BY <2>3 DEF b
<1>5. FlushBlock(page, <<e, CR, LF>>) = OnEvent(page, e)
  <2> DEFINE b == <<e, CR, LF>>
  <2>1. b \in Seq(Symbols) /\ b # <<>> /\ b[1] = e /\ b[2] = CR /\ b[3] = LF /\ Len(b) = 3
    BY <1>1
  <2> HIDE DEF b
  <2>2. \A i \in 2..Len(b) : b[i] \in {CR, LF}
    BY <2>1
  <2>3. FlushBlock(page, b) = OnEvent(page, e)
    BY <2>1, <2>2, FlushOne
  <2> QED BY <2>3 DEF b
<1> QED BY <1>2, <1>3, <1>4, <1>5

\* A symbol that ends no event, and one that does.
LEMMA TakeKeeps ==
    ASSUME NEW page, NEW rest, NEW c, ~ (c = LF /\ EndsIn(rest, LF))
    PROVE  Take([page |-> page, rest |-> rest], c) = [page |-> page, rest |-> Append(rest, c)]
BY DEF Take

\* The empty line that ends one.
LEMMA TakeEnds ==
    ASSUME NEW page, NEW rest, EndsIn(rest, LF)
    PROVE  Take([page |-> page, rest |-> rest], LF)
             = [page |-> FlushBlock(page, rest), rest |-> <<>>]
BY DEF Take

\* The parser over one symbol of an event.
LEMMA FeedIs ==
    ASSUME NEW page, NEW rest, NEW e, IsEvent(e), NEW break \in Breaks,
           NEW r \in 0..(LineSize(break) - 1), Held(rest, e, r, break),
           NEW joined \in BOOLEAN, joined => r \in {2, 4} /\ break # <<LF>>, r = 4 => joined
    PROVE  LET next == Feed([page |-> page, rest |-> rest], Line(e, break)[r + 1], joined)
           IN  IF r + 1 = LineSize(break) THEN next = [page |-> OnEvent(page, e), rest |-> <<>>]
               ELSE /\ next = [page |-> page, rest |-> next.rest]
                    /\ Held(next.rest, e, r + 1, break)
<1> DEFINE v == [page |-> page, rest |-> rest]
           line == Line(e, break)
           c == line[r + 1]
           next == Feed(v, c, joined)
<1>1. /\ e \in Symbols /\ CR \in Symbols /\ LF \in Symbols /\ CR # LF
      /\ e # CR /\ e # LF
  BY BreaksDiffer DEF IsEvent
<1>2. /\ line[1] = e
      /\ break = <<LF>> => LineSize(break) = 3 /\ line[2] = LF /\ line[3] = LF
      /\ break # <<LF>> => /\ LineSize(break) = 5 /\ line[2] = CR /\ line[3] = LF
                           /\ line[4] = CR /\ line[5] = LF
  BY <1>1, LineIs
<1>3. ~ joined => next = Take(v, c)
  BY DEF Feed
<1>4. joined /\ c = LF => next = Take([page |-> page, rest |-> Front(rest)], LF)
  BY DEF Feed
<1>5. IsEvent(e)
  OBVIOUS
<1> HIDE DEF line, next, IsEvent, v
<1>6. CASE r = 0
  <2>1. rest = <<>> /\ c = e /\ ~ joined /\ r + 1 # LineSize(break) /\ r + 1 = 1
    BY <1>2, <1>6 DEF Held
  <2>2. next = [page |-> page, rest |-> <<e>>]
    BY <1>1, <1>3, <1>5, <2>1, TakeKeeps, HeldIs DEF v
  <2> QED BY <2>1, <2>2 DEF Held, next, v, line
<1>7. CASE r = 1
  <2>1. rest = <<e>> /\ ~ joined /\ r + 1 # LineSize(break) /\ r + 1 = 2 /\ c = line[2]
    BY <1>2, <1>7 DEF Held
  <2>2. c \in {CR, LF}
    BY <1>2, <2>1
  <2>3. Append(<<e>>, c) = <<e, c>> /\ ~ EndsIn(<<e>>, LF)
    BY <1>5, <2>2, HeldIs
  <2>4. next = Take([page |-> page, rest |-> <<e>>], c)
    BY <1>3, <2>1 DEF v
  <2>5. next = [page |-> page, rest |-> <<e, c>>]
    BY <2>3, <2>4, TakeKeeps
  <2>6. next.rest = <<e, c>> /\ next = [page |-> page, rest |-> next.rest]
    BY <2>5
  <2>7. Held(<<e, c>>, e, 2, break)
    BY <1>2, <2>1 DEF Held
  <2> QED BY <2>1, <2>6, <2>7 DEF next, v, line
<1>8. CASE r = 2 /\ break = <<LF>>
  <2>1. rest = <<e, LF>> /\ ~ joined /\ r + 1 = LineSize(break) /\ c = LF
    BY <1>2, <1>8 DEF Held
  <2>2. next = [page |-> FlushBlock(page, rest), rest |-> <<>>]
    BY <1>3, <1>5, <2>1, TakeEnds, HeldIs DEF v
  <2> QED BY <1>5, <2>1, <2>2, FlushHeld DEF next, v, line
<1>9. CASE r = 2 /\ break # <<LF>>
  <2>1. rest = <<e, CR>> /\ r + 1 # LineSize(break) /\ r + 1 = 3 /\ c = LF
    BY <1>2, <1>9 DEF Held
  <2>2. CASE joined
    <3>1. next = [page |-> page, rest |-> <<e, LF>>]
      <4>1. Front(rest) = <<e>> /\ Append(<<e>>, LF) = <<e, LF>> /\ ~ EndsIn(<<e>>, LF)
        BY <1>5, <2>1, HeldIs
      <4>2. next = Take([page |-> page, rest |-> <<e>>], LF)
        BY <1>4, <2>1, <2>2, <4>1
      <4> QED BY <4>1, <4>2, TakeKeeps
    <3> QED BY <1>9, <2>1, <3>1 DEF Held, next, v, line
  <2>3. CASE ~ joined
    <3>1. next = [page |-> page, rest |-> <<e, CR, LF>>]
      <4>1. Append(<<e, CR>>, LF) = <<e, CR, LF>> /\ ~ EndsIn(<<e, CR>>, LF)
        BY <1>5, HeldIs
      <4>2. next = Take([page |-> page, rest |-> <<e, CR>>], LF)
        BY <1>3, <2>1, <2>3 DEF v
      <4> QED BY <4>1, <4>2, TakeKeeps
    <3> QED BY <1>9, <2>1, <3>1 DEF Held, next, v, line
  <2> QED BY <2>2, <2>3
<1>10. CASE r = 3
  <2>1. /\ rest \in {<<e, LF>>, <<e, CR, LF>>} /\ ~ joined /\ r + 1 # LineSize(break)
        /\ r + 1 = 4 /\ c = CR /\ break # <<LF>>
    BY <1>2, <1>10 DEF Held
  <2>2. next = [page |-> page, rest |-> Append(rest, CR)]
    BY <1>1, <1>3, <2>1, TakeKeeps DEF v
  <2>3. Append(rest, CR) \in {<<e, LF, CR>>, <<e, CR, LF, CR>>}
    BY <1>5, <2>1, HeldIs
  <2>4. next.rest = Append(rest, CR) /\ next = [page |-> page, rest |-> next.rest]
    BY <2>2
  <2>5. Held(Append(rest, CR), e, 4, break)
    BY <2>1, <2>3 DEF Held
  <2> QED BY <2>1, <2>4, <2>5 DEF next, v, line
<1>11. CASE r = 4
  <2>1. /\ rest \in {<<e, LF, CR>>, <<e, CR, LF, CR>>} /\ joined /\ r + 1 = LineSize(break)
        /\ c = LF
    BY <1>2, <1>11 DEF Held
  <2>2. Front(rest) \in {<<e, LF>>, <<e, CR, LF>>}
    BY <1>5, <2>1, HeldIs
  <2>3. next = [page |-> FlushBlock(page, Front(rest)), rest |-> <<>>]
    BY <1>4, <1>5, <2>1, <2>2, TakeEnds, HeldIs
  <2> QED BY <1>5, <2>1, <2>2, <2>3, FlushHeld DEF next, v, line
<1>12. r \in {0, 1, 2, 3, 4}
  BY <1>2
<1> QED BY <1>6, <1>7, <1>8, <1>9, <1>10, <1>11, <1>12

-----------------------------------------------------------------------------
(* The page after some events of a reply *)

\* A message that shows the first tokens of its reply.
Sound(m) ==
    /\ m.text = FirstTokens(m.reply, Len(m.text))
    /\ m.status \in {"stored", "question"} => m.text = <<>>
    /\ (m.reply = 0) <=> (m.status = "stored")
    /\ m.status = "done" => Len(m.text) = Tokens

\* The tokens of a message are of its own reply.
OwnTokens(m) == \A n \in 1..Len(m.text) : m.text[n][1] = m.reply

\* What RepliesIntact says of one message, and of a thread, if the replies h
\* were hurt.
Fit(m, h) == OwnTokens(m) /\ (m.reply = 0 \/ m.reply \notin h => Sound(m))
ThreadFit(messages, h) ==
    messages \in Seq(PageMessages) /\ \A i \in 1..Len(messages) : Fit(messages[i], h)

\* The last message is that of reply n, which shows what was read of it.
Awaits(messages, n) ==
    /\ messages \in Seq(PageMessages) /\ messages # <<>>
    /\ Sound(messages[Len(messages)]) /\ messages[Len(messages)].reply = n

\* Reply n writes into the last message, its own; the other messages are as they should be.
Writes(messages, n, h) ==
    /\ messages \in Seq(PageMessages)
    /\ \A i \in 1..(Len(messages) - 1) : Fit(messages[i], h)
    /\ messages # <<>> =>
          OwnTokens(messages[Len(messages)]) /\ messages[Len(messages)].reply = n

ShownTokens(j) == IF j = 0 THEN 0 ELSE IF j = Count THEN Tokens ELSE j - 1

PageAfter(page, j, n) ==
    /\ page \in PageStates
    /\ Awaits(page.thread, n)
    /\ LET m == page.thread[Len(page.thread)]
       IN  Len(m.text) = ShownTokens(j) /\ (j < Count => m.status = "streaming")

\* The first tokens of a reply, and one more.
LEMMA FirstTokensIs ==
    ASSUME NEW reply \in Nat, NEW k \in Nat
    PROVE  /\ FirstTokens(reply, k) \in Seq(Nat \X Nat) /\ Len(FirstTokens(reply, k)) = k
           /\ FirstTokens(reply, 0) = <<>>
           /\ Append(FirstTokens(reply, k), <<reply, k + 1>>) = FirstTokens(reply, k + 1)
<1> DEFINE T == Nat \X Nat
           s == FirstTokens(reply, k)
           t == FirstTokens(reply, k + 1)
           u == Append(s, <<reply, k + 1>>)
<1>1. ASSUME NEW n \in Nat
      PROVE  /\ FirstTokens(reply, n) \in Seq(T) /\ Len(FirstTokens(reply, n)) = n
             /\ \A i \in 1..n : FirstTokens(reply, n)[i] = <<reply, i>>
  BY DEF FirstTokens
<1>2. s \in Seq(T) /\ Len(s) = k /\ \A i \in 1..k : s[i] = <<reply, i>>
  BY <1>1
<1>3. t \in Seq(T) /\ Len(t) = k + 1 /\ \A i \in 1..(k + 1) : t[i] = <<reply, i>>
  BY <1>1
<1>4. <<reply, k + 1>> \in T
  OBVIOUS
<1> DEFINE x == <<reply, k + 1>>
<1> HIDE DEF s, t, T, x
<1>5. /\ Append(s, x) \in Seq(T) /\ Len(Append(s, x)) = Len(s) + 1
      /\ Append(s, x)[Len(s) + 1] = x /\ \A i \in 1..Len(s) : Append(s, x)[i] = s[i]
  <2>1. s \in Seq(T) /\ x \in T
    BY <1>2, <1>4 DEF x
  <2> QED BY <2>1, AppendIs
<1>6. Append(s, x) = t
  <2>1. \A i \in 1..(k + 1) : Append(s, x)[i] = t[i]
    <3> SUFFICES ASSUME NEW i \in 1..(k + 1) PROVE Append(s, x)[i] = t[i]
      OBVIOUS
    <3>1. CASE i = k + 1
      BY <1>2, <1>3, <1>5, <3>1 DEF x
    <3>2. CASE i # k + 1
      <4>1. i \in 1..k
        BY <3>2
      <4> QED BY <1>2, <1>3, <1>5, <4>1
    <3> QED BY <3>1, <3>2
  <2>2. Len(Append(s, x)) = Len(t)
    BY <1>2, <1>3, <1>5
  <2>3. Append(s, x) \in Seq(T) /\ t \in Seq(T) /\ Len(t) = k + 1
    BY <1>3, <1>5
  <2> QED BY <2>1, <2>2, <2>3, SameSeq
<1>7. FirstTokens(reply, 0) = <<>>
  BY DEF FirstTokens
<1> QED BY <1>2, <1>6, <1>7 DEF s, t, T, x

\* A sound message in the place of the last.
LEMMA PatchWhole ==
    ASSUME attached = TRUE, NEW messages, Awaits(messages, sends),
           NEW m \in PageMessages, Sound(m), m.reply = sends
    PROVE  /\ Awaits(PatchLast(messages, m), sends)
           /\ PatchLast(messages, m)[Len(PatchLast(messages, m))] = m
<1> DEFINE p == PatchLast(messages, m)
<1>1. messages \in Seq(PageMessages) /\ messages # <<>>
  BY DEF Awaits
<1>2. p \in Seq(PageMessages) /\ Len(p) = Len(messages) /\ p[Len(messages)] = m
  BY <1>1, PatchIs
<1> HIDE DEF p
<1>3. p # <<>> /\ p[Len(p)] = m
  BY <1>1, <1>2
<1> QED BY <1>2, <1>3 DEF Awaits, p

\* The status of the attached reply is set.
LEMMA StatusWhole ==
    ASSUME attached = TRUE, sends \in Nat \ {0}, NEW messages, Awaits(messages, sends),
           NEW status \in {"done", "error", "cancelled", "early"},
           status = "done" => Len(messages[Len(messages)].text) = Tokens
    PROVE  /\ Awaits(WithStatus(messages, status), sends)
           /\ LET n == WithStatus(messages, status)
              IN  n[Len(n)].text = messages[Len(messages)].text
<1> DEFINE m == messages[Len(messages)]
           n == [m EXCEPT !.status = status]
<1>1. /\ messages \in Seq(PageMessages) /\ messages # <<>>
      /\ Sound(messages[Len(messages)]) /\ messages[Len(messages)].reply = sends
  BY DEF Awaits
<1>2. m \in PageMessages /\ Last(messages) = m /\ m.reply = sends /\ Sound(m)
  <2>1. Last(messages) = m /\ m \in PageMessages
    <3> HIDE DEF m
    <3>1. Last(messages) = messages[Len(messages)] /\ Last(messages) \in PageMessages
      BY <1>1, FrontIs
    <3> QED BY <3>1 DEF m
  <2> QED BY <1>1, <2>1
<1>3. n = [of |-> m.of, reply |-> m.reply, text |-> m.text, status |-> status]
  BY <1>2 DEF PageMessages
<1>4. n \in PageMessages
  BY <1>2, <1>3 DEF PageMessages, Statuses
<1>5. status = "done" => Len(m.text) = Tokens
  OBVIOUS
<1>6. WithStatus(messages, status) = PatchLast(messages, n)
  BY <1>2 DEF WithStatus
<1>7. n.text = m.text /\ n.reply = m.reply /\ n.status = status
  BY <1>3
<1> HIDE DEF m, n
<1>8. Sound(n)
  BY <1>2, <1>5, <1>7 DEF Sound
<1>9. n.reply = sends
  BY <1>2, <1>7
<1> QED BY <1>4, <1>6, <1>7, <1>8, <1>9, PatchWhole DEF m

\* The attached reply gets its next token.
LEMMA TokenWhole ==
    ASSUME attached = TRUE, sends \in Nat \ {0},
           NEW messages, Awaits(messages, sends), NEW k \in Nat,
           Len(messages[Len(messages)].text) = k,
           messages[Len(messages)].status = "streaming"
    PROVE  LET n == WithToken(messages, <<sends, k + 1>>)
           IN  /\ Awaits(n, sends) /\ Len(n[Len(n)].text) = k + 1
               /\ n[Len(n)].status = "streaming"
<1> DEFINE m == messages[Len(messages)]
           token == <<sends, k + 1>>
           text == Append(m.text, token)
           n == [m EXCEPT !.text = text]
<1>1. /\ messages \in Seq(PageMessages) /\ messages # <<>>
      /\ Sound(messages[Len(messages)]) /\ messages[Len(messages)].reply = sends
  BY DEF Awaits
<1>2. m \in PageMessages /\ Last(messages) = m /\ m.reply = sends /\ Sound(m)
  <2>1. Last(messages) = m /\ m \in PageMessages
    BY <1>1, FrontIs
  <2> QED BY <1>1, <2>1
<1>3. n = [of |-> m.of, reply |-> m.reply, text |-> text, status |-> m.status]
  <2> HIDE DEF text, m
  <2> QED BY <1>2 DEF PageMessages
<1>4. m.text = FirstTokens(sends, k)
  BY <1>2 DEF Sound
<1>5. Append(m.text, token) = FirstTokens(sends, k + 1) /\ Len(FirstTokens(sends, k + 1)) = k + 1
  <2>1. sends \in Nat
    OBVIOUS
  <2>2. Append(FirstTokens(sends, k), <<sends, k + 1>>) = FirstTokens(sends, k + 1)
    BY <2>1, FirstTokensIs, Zenon
  <2>3. Len(FirstTokens(sends, k + 1)) = k + 1
    <3>1. k + 1 \in Nat
      OBVIOUS
    <3> QED BY <2>1, <3>1, FirstTokensIs
  <2> QED BY <1>4, <2>2, <2>3
<1>6. m.text \in Seq(Nat \X Values) /\ token \in Nat \X Values
  BY <1>2 DEF PageMessages, Values
<1>7. WithToken(messages, token) = PatchLast(messages, n)
  BY <1>2 DEF WithToken
<1>8. m.status = "streaming"
  OBVIOUS
<1>9. Append(m.text, token) \in Seq(Nat \X Values)
  BY <1>6, AppendIs
<1>10. text \in Seq(Nat \X Values) /\ text = FirstTokens(sends, k + 1) /\ Len(text) = k + 1
  BY <1>5, <1>9
<1> HIDE DEF token, text
<1>11. n \in PageMessages
  BY <1>2, <1>3, <1>10 DEF PageMessages, text
<1>12. n.text = text /\ n.reply = sends /\ n.status = "streaming"
  BY <1>2, <1>3, <1>8 DEF text
<1> HIDE DEF m, n
<1>13. Sound(n)
  BY <1>10, <1>12 DEF Sound
<1> QED BY <1>7, <1>10, <1>11, <1>12, <1>13, PatchWhole DEF token

\* The event after the first j of a reply.
LEMMA EventStep ==
    ASSUME attached = TRUE, sends \in Nat \ {0}, NEW id \in Pages, NEW last \in {"done", "error"},
           NEW j \in 0..(Count - 1), NEW page, PageAfter(page, j, sends)
    PROVE  PageAfter(OnEvent(page, Answer(id, last)[j + 1]), j + 1, sends)
<1> DEFINE e == Answer(id, last)[j + 1]
           m == page.thread[Len(page.thread)]
           next == OnEvent(page, e)
<1>1. /\ page \in PageStates /\ Awaits(page.thread, sends)
      /\ Len(m.text) = ShownTokens(j) /\ m.status = "streaming"
  <2>1. j < Count
    BY AnswerIs
  <2> QED BY <2>1 DEF PageAfter
<1>2. /\ page.address \in Values /\ page.streamOf \in Values
      /\ page = [thread |-> page.thread, address |-> page.address, streamOf |-> page.streamOf]
  BY <1>1 DEF PageStates
<1>3. CASE j = 0
  <2>1. e = Event("meta", id)
    BY <1>3, AnswerIs
  <2>2. e[1] = "meta" /\ e[2] = id /\ id \in Values
    BY <2>1, EventIs DEF Values
  <2>3. next \in {page, [page EXCEPT !.streamOf = id, !.address = id]}
    <3> HIDE DEF e
    <3> QED BY <2>2 DEF OnEvent
  <2>4. next \in PageStates /\ next.thread = page.thread
    BY <1>1, <1>2, <2>2, <2>3 DEF PageStates
  <2>5. ShownTokens(0) = 0 /\ ShownTokens(1) = 0
    BY AnswerIs DEF ShownTokens
  <2> HIDE DEF next
  <2>6. PageAfter(next, 1, sends)
    BY <1>1, <1>3, <2>4, <2>5 DEF PageAfter
  <2> QED BY <1>3, <2>6 DEF next
<1>4. CASE j \in 1..Tokens
  <2>1. e = Event("token", j)
    BY <1>4, AnswerIs
  <2>2. e[1] = "token" /\ e[2] = j
    BY <2>1, EventIs
  <2>3. next = [page EXCEPT !.thread = WithToken(page.thread, <<sends, j>>)]
    <3> HIDE DEF e
    <3> QED BY <2>2 DEF OnEvent
  <2>4. ShownTokens(j) = j - 1 /\ ShownTokens(j + 1) = j /\ j - 1 \in Nat /\ j - 1 + 1 = j
    <3>1. Count = Tokens + 2 /\ Tokens \in Nat
      BY AnswerIs
    <3>2. j # 0 /\ j # Count /\ j + 1 # 0 /\ j + 1 # Count /\ j \in Nat /\ j # 0
      BY <1>4, <3>1
    <3>3. ShownTokens(j) = j - 1 /\ ShownTokens(j + 1) = j + 1 - 1
      BY <3>2 DEF ShownTokens
    <3> QED BY <3>2, <3>3
  <2> DEFINE n == WithToken(page.thread, <<sends, j>>)
  <2>5. Awaits(n, sends) /\ Len(n[Len(n)].text) = j /\ n[Len(n)].status = "streaming"
    <3>1. \A k \in Nat : k = j - 1 =>
             LET w == WithToken(page.thread, <<sends, k + 1>>)
             IN  Awaits(w, sends) /\ Len(w[Len(w)].text) = k + 1 /\ w[Len(w)].status = "streaming"
      BY <1>1, <2>4, TokenWhole
    <3> QED BY <2>4, <3>1
  <2> HIDE DEF n
  <2>6. next = [thread |-> n, address |-> page.address, streamOf |-> page.streamOf]
    BY <1>2, <2>3 DEF n
  <2>7. next \in PageStates /\ next.thread = n
    BY <1>2, <2>5, <2>6 DEF PageStates, Awaits
  <2> HIDE DEF next
  <2> QED BY <2>4, <2>5, <2>7 DEF PageAfter, next
<1>5. CASE j = Tokens + 1
  <2>1. e = Event(last, 0)
    BY <1>5, AnswerIs
  <2>2. e[1] = last
    BY <2>1, EventIs
  <2>3. next = [page EXCEPT !.thread = WithStatus(page.thread, last)]
    <3> HIDE DEF e
    <3> QED BY <2>2 DEF OnEvent
  <2>4. /\ ShownTokens(j) = Tokens /\ ShownTokens(j + 1) = Tokens /\ j + 1 = Count
        /\ j \in Nat
    <3>1. Count = Tokens + 2 /\ Tokens \in Nat
      BY AnswerIs
    <3>2. /\ j + 1 = Count /\ j # 0 /\ j # Count /\ j + 1 # 0 /\ j - 1 = Tokens /\ j \in Nat
      BY <1>5, <3>1
    <3>3. ShownTokens(j) = j - 1 /\ ShownTokens(j + 1) = Tokens
      BY <3>2 DEF ShownTokens
    <3> QED BY <3>2, <3>3
  <2> DEFINE n == WithStatus(page.thread, last)
  <2>5. Awaits(n, sends) /\ Len(n[Len(n)].text) = Tokens
    BY <1>1, <2>4, StatusWhole
  <2> HIDE DEF n
  <2>6. next = [thread |-> n, address |-> page.address, streamOf |-> page.streamOf]
    BY <1>2, <2>3 DEF n
  <2>7. next \in PageStates /\ next.thread = n
    BY <1>2, <2>5, <2>6 DEF PageStates, Awaits
  <2>8. ~ (j + 1 < Count)
    BY <2>4
  <2> HIDE DEF next
  <2> QED BY <2>4, <2>5, <2>7, <2>8 DEF PageAfter, next
<1>6. j \in {0} \cup (1..Tokens) \cup {Tokens + 1}
  BY AnswerIs
<1> QED BY <1>3, <1>4, <1>5, <1>6

-----------------------------------------------------------------------------
(* The parser over a piece of a reply *)

\* The parser has read j events of a reply and r symbols of the next.
At(page, rest, id, last, break, j, r, n) ==
    /\ j \in 0..Count /\ r \in 0..(LineSize(break) - 1) /\ (j = Count => r = 0)
    /\ PageAfter(page, j, n)
    /\ rest \in Seq(Symbols)
    /\ IF j = Count THEN rest = <<>> ELSE Held(rest, Answer(id, last)[j + 1], r, break)

\* What it has not read.
Left(text, id, last, break, j, r) ==
    /\ text \in Seq(Symbols)
    /\ Len(text) = Start(LineSize(break), Count) - (Start(LineSize(break), j) + r)
    /\ \A p \in 1..Len(text) :
          text[p] = Encode(Answer(id, last), break)[Start(LineSize(break), j) + r + p]

\* The events of a reply are no line breaks.
LEMMA AnswerEvents ==
    ASSUME NEW id \in Pages, NEW last \in {"done", "error"}, NEW j \in 0..(Count - 1)
    PROVE  IsEvent(Answer(id, last)[j + 1])
<1> DEFINE e == Answer(id, last)[j + 1]
<1>1. j \in {0} \cup (1..Tokens) \cup {Tokens + 1}
  BY AnswerIs
<1>2. e \in Symbols
  <2>1. j + 1 \in 1..Len(Answer(id, last)) /\ Answer(id, last) \in Seq(Symbols)
    BY AnswerIs
  <2> QED BY <2>1
<1>3. CASE j = 0
  <2>1. e = Event("meta", id)
    BY <1>3, AnswerIs
  <2> QED BY <1>2, <2>1, EventIs DEF IsEvent
<1>4. CASE j \in 1..Tokens
  <2>1. e = Event("token", j)
    BY <1>4, AnswerIs
  <2> QED BY <1>2, <2>1, EventIs DEF IsEvent
<1>5. CASE j = Tokens + 1
  <2>1. e = Event(last, 0)
    BY <1>5, AnswerIs
  <2> QED BY <1>2, <2>1, EventIs DEF IsEvent
<1> QED BY <1>1, <1>3, <1>4, <1>5

\* The symbol after the first r of event j + 1.
LEMMA NextSymbol ==
    ASSUME NEW id \in Pages, NEW last \in {"done", "error"}, NEW break \in Breaks,
           NEW j \in 0..(Count - 1), NEW r \in 0..(LineSize(break) - 1)
    PROVE  LET e == Answer(id, last)[j + 1]
               c == Line(e, break)[r + 1]
           IN  /\ Encode(Answer(id, last), break)[Start(LineSize(break), j) + r + 1] = c
               /\ c \in Symbols
               /\ c = CR => break # <<LF>> /\ r + 1 \in {2, 4} /\ r + 1 < LineSize(break)
               /\ break # <<LF>> /\ r + 1 \in {2, 4} => c = CR
               /\ break = <<LF>> => LineSize(break) = 3
               /\ break # <<LF>> => LineSize(break) = 5
<1> DEFINE e == Answer(id, last)[j + 1]
           line == Line(e, break)
           es == Answer(id, last)
           size == LineSize(break)
<1>1. IsEvent(e) /\ e \in Symbols /\ e # CR /\ CR # LF
  BY AnswerEvents, BreaksDiffer DEF IsEvent
<1>2. /\ line[1] = e /\ line \in Seq(Symbols) /\ Len(line) = size
      /\ break = <<LF>> => size = 3 /\ line[2] = LF /\ line[3] = LF
      /\ break # <<LF>> => /\ size = 5 /\ line[2] = CR /\ line[3] = LF
                           /\ line[4] = CR /\ line[5] = LF
  BY <1>1, LineIs
<1>3. IsText(Encode(es, break), Len(es), es, break) /\ Len(es) = Count
  BY AnswerIs, TextIs
<1>4. \A k \in 0..(Count - 1), q \in 1..size :
         Encode(es, break)[Start(size, k) + q] = Line(es[k + 1], break)[q]
  BY <1>3 DEF IsText
<1>5. size \in {3, 5}
  BY DEF LineSize
<1>6. r + 1 \in 1..size /\ Start(size, j) \in Nat /\ r \in Nat /\ j \in Nat
  <2>1. Count \in Nat
    BY AnswerIs
  <2>2. j \in Nat /\ r \in Nat /\ r + 1 \in 1..size
    BY <1>5, <2>1
  <2> QED BY <1>5, <2>2, StartIs
<1>7. Encode(es, break)[Start(size, j) + (r + 1)] = line[r + 1]
  BY <1>4, <1>6
<1>8. Start(size, j) + (r + 1) = Start(size, j) + r + 1
  BY <1>6
<1> HIDE DEF line, size, es, e
<1>9. line[r + 1] \in Symbols
  BY <1>2, <1>6
<1>10. r \in {0, 1, 2, 3, 4}
  BY <1>5, <1>6
<1>11. /\ line[r + 1] = CR => break # <<LF>> /\ r + 1 \in {2, 4} /\ r + 1 < size
       /\ break # <<LF>> /\ r + 1 \in {2, 4} => line[r + 1] = CR
  BY <1>1, <1>2, <1>6, <1>10
<1> QED BY <1>2, <1>7, <1>8, <1>9, <1>11 DEF line, size, es, e

\* One symbol more.
LEMMA StepAt ==
    ASSUME attached = TRUE, sends \in Nat \ {0},
           NEW id \in Pages, NEW last \in {"done", "error"}, NEW break \in Breaks,
           NEW j \in 0..(Count - 1), NEW r, NEW page, NEW rest,
           At(page, rest, id, last, break, j, r, sends),
           NEW joined \in BOOLEAN, joined => r \in {2, 4} /\ break # <<LF>>, r = 4 => joined
    PROVE  LET c == Encode(Answer(id, last), break)[Start(LineSize(break), j) + r + 1]
               next == Feed([page |-> page, rest |-> rest], c, joined)
           IN  \E i \in 0..Count, q \in 0..(LineSize(break) - 1) :
                  /\ At(next.page, next.rest, id, last, break, i, q, sends)
                  /\ next = [page |-> next.page, rest |-> next.rest]
                  /\ Start(LineSize(break), i) + q = Start(LineSize(break), j) + r + 1
                  /\ (c = CR) => q \in {2, 4} /\ break # <<LF>>
                  /\ (q = 4) => c = CR
<1> DEFINE e == Answer(id, last)[j + 1]
           size == LineSize(break)
           c == Line(e, break)[r + 1]
           next == Feed([page |-> page, rest |-> rest], c, joined)
<1>1. /\ r \in 0..(size - 1) /\ PageAfter(page, j, sends) /\ Held(rest, e, r, break)
      /\ rest \in Seq(Symbols) /\ j # Count
  BY AnswerIs DEF At
<1>2. /\ IsEvent(e)
      /\ Encode(Answer(id, last), break)[Start(size, j) + r + 1] = c
      /\ c = CR => break # <<LF>> /\ r + 1 \in {2, 4} /\ r + 1 < size
      /\ break # <<LF>> /\ r + 1 \in {2, 4} => c = CR
      /\ break = <<LF>> => size = 3
      /\ break # <<LF>> => size = 5
  BY <1>1, AnswerEvents, NextSymbol
<1>3. IF r + 1 = size THEN next = [page |-> OnEvent(page, e), rest |-> <<>>]
      ELSE /\ next = [page |-> page, rest |-> next.rest]
           /\ Held(next.rest, e, r + 1, break)
  BY <1>1, <1>2, FeedIs
<1>4. size \in {3, 5} /\ j \in Nat /\ j + 1 \in 0..Count /\ Count \in Nat
  BY AnswerIs DEF LineSize
<1>5. Start(size, j) \in Nat /\ Start(size, j + 1) = Start(size, j) + size
  BY <1>4, StartIs
<1> HIDE DEF c, next, e
<1>6. CASE r + 1 = size
  <2>1. next = [page |-> OnEvent(page, e), rest |-> <<>>]
    BY <1>3, <1>6
  <2>2. PageAfter(OnEvent(page, e), j + 1, sends)
    BY <1>1, EventStep DEF e
  <2>3. Held(<<>>, Answer(id, last)[j + 1 + 1], 0, break)
    BY DEF Held
  <2>4. 0 \in 0..(size - 1) /\ <<>> \in Seq(Symbols)
    BY <1>4
  <2>5. At(next.page, next.rest, id, last, break, j + 1, 0, sends)
    BY <1>4, <2>1, <2>2, <2>3, <2>4 DEF At
  <2>6. next = [page |-> next.page, rest |-> next.rest]
    BY <2>1
  <2>7. Start(size, j + 1) + 0 = Start(size, j) + r + 1
    BY <1>1, <1>4, <1>5, <1>6
  <2>8. c # CR
    BY <1>2, <1>6
  <2>9. c = Encode(Answer(id, last), break)[Start(size, j) + r + 1]
    BY <1>2
  <2> QED BY <1>4, <2>4, <2>5, <2>6, <2>7, <2>8, <2>9 DEF next
<1>7. CASE r + 1 # size
  <2>1. next = [page |-> page, rest |-> next.rest] /\ Held(next.rest, e, r + 1, break)
    BY <1>3, <1>7
  <2>2. r + 1 \in 0..(size - 1) /\ j \in 0..Count
    BY <1>1, <1>4, <1>7
  <2>3. next.rest \in Seq(Symbols)
    <3>1. e \in Symbols /\ CR \in Symbols /\ LF \in Symbols
      BY <1>2, BreaksDiffer DEF IsEvent
    <3>2. /\ <<e>> \in Seq(Symbols) /\ <<e, LF>> \in Seq(Symbols) /\ <<e, CR>> \in Seq(Symbols)
          /\ <<e, CR, LF>> \in Seq(Symbols) /\ <<e, LF, CR>> \in Seq(Symbols)
          /\ <<>> \in Seq(Symbols)
      BY <3>1, OneIs, TwoIs, ThreeIs
    <3>3. <<e, CR, LF, CR>> \in Seq(Symbols)
      <4>1. Append(<<e, CR, LF>>, CR) \in Seq(Symbols)
        BY <3>1, <3>2, AppendIs
      <4> QED BY <1>2, <4>1, HeldIs
    <3> QED BY <2>1, <3>2, <3>3 DEF Held
  <2>4. next.page = page
    BY <2>1
  <2>5. At(next.page, next.rest, id, last, break, j, r + 1, sends)
    BY <1>1, <2>1, <2>2, <2>3, <2>4 DEF At, e
  <2>6. Start(size, j) + (r + 1) = Start(size, j) + r + 1
    BY <1>1, <1>4, <1>5
  <2>7. c = CR => r + 1 \in {2, 4} /\ break # <<LF>>
    BY <1>2
  <2>8. r + 1 = 4 => c = CR
    BY <1>1, <1>2, <1>4, <2>2
  <2>9. c = Encode(Answer(id, last), break)[Start(size, j) + r + 1]
    BY <1>2
  <2> QED BY <2>1, <2>2, <2>4, <2>5, <2>6, <2>7, <2>8, <2>9 DEF next
<1> QED BY <1>6, <1>7

\* Before the first symbol.
LEMMA NothingRead ==
    ASSUME sends \in Nat, NEW page \in PageStates
    PROVE  /\ Unified(<<>>) = <<>>
           /\ PushText(page, <<>>) = [page |-> page, rest |-> <<>>]
<1> DEFINE t == <<>>
<1>1. t \in Seq(Symbols) /\ CR \in Symbols
  BY BreaksDiffer
<1> HIDE DEF t
<1>2. Unified(<<>>) = <<>> /\ Unified(Append(t, CR)) = Unify(Unified(t), CR)
  BY <1>1, UnifyMore, Zenon
<1>3. /\ PushText(page, <<>>) = [page |-> page, rest |-> <<>>]
      /\ PushText(page, Append(t, CR)) = Take(PushText(page, t), CR)
  BY <1>1, TakeMore, Zenon
<1> QED BY <1>2, <1>3

\* What the parser holds is its own buffer.
LEMMA HeldAgain ==
    ASSUME sends \in Nat, NEW page \in PageStates, NEW e, IsEvent(e), NEW break,
           NEW r, r # 4, NEW rest, Held(rest, e, r, break)
    PROVE  PushText(page, rest) = [page |-> page, rest |-> rest]
<1>1. e \in Symbols /\ CR \in Symbols /\ LF \in Symbols /\ e # LF /\ CR # LF
  BY BreaksDiffer DEF IsEvent
<1>2. /\ <<>> \in Seq(Symbols) /\ <<e>> \in Seq(Symbols) /\ <<e, LF>> \in Seq(Symbols)
      /\ <<e, CR>> \in Seq(Symbols)
  BY <1>1, OneIs, TwoIs
<1>3. PushText(page, <<>>) = [page |-> page, rest |-> <<>>]
  BY NothingRead
<1>4. PushText(page, <<e>>) = [page |-> page, rest |-> <<e>>]
  <2>1. PushText(page, Append(<<>>, e)) = Take(PushText(page, <<>>), e)
    BY <1>1, <1>2, TakeMore
  <2> QED BY <1>1, <1>3, <2>1, HeldIs, TakeKeeps
<1>5. ASSUME NEW c \in {CR, LF}
      PROVE  PushText(page, <<e, c>>) = [page |-> page, rest |-> <<e, c>>]
  <2>1. Append(<<e>>, c) = <<e, c>> /\ ~ EndsIn(<<e>>, LF) /\ c \in Symbols
    BY <1>1, HeldIs
  <2>2. PushText(page, Append(<<e>>, c)) = Take(PushText(page, <<e>>), c)
    BY <1>2, <2>1, TakeMore
  <2> QED BY <1>4, <2>1, <2>2, TakeKeeps
<1>6. PushText(page, <<e, CR, LF>>) = [page |-> page, rest |-> <<e, CR, LF>>]
  <2>1. Append(<<e, CR>>, LF) = <<e, CR, LF>> /\ ~ EndsIn(<<e, CR>>, LF)
    BY HeldIs
  <2>2. PushText(page, Append(<<e, CR>>, LF)) = Take(PushText(page, <<e, CR>>), LF)
    BY <1>1, <1>2, TakeMore
  <2> QED BY <1>5, <2>1, <2>2, TakeKeeps
<1> QED BY <1>3, <1>4, <1>5, <1>6 DEF Held

\* Some first symbols, and one more.
LEMMA PartMore ==
    ASSUME NEW S, NEW s \in Seq(S), NEW k \in Nat, k + 1 <= Len(s)
    PROVE  /\ SubSeq(s, 1, k) \in Seq(S) /\ s[k + 1] \in S
           /\ SubSeq(s, 1, k + 1) = Append(SubSeq(s, 1, k), s[k + 1])
<1> DEFINE a == SubSeq(s, 1, k)
           b == SubSeq(s, 1, k + 1)
           x == s[k + 1]
<1>1. k \in 0..Len(s) /\ k + 1 \in 0..Len(s) /\ k + 1 \in 1..Len(s) /\ x \in S
  OBVIOUS
<1>2. a \in Seq(S) /\ Len(a) = k /\ \A i \in 1..k : a[i] = s[i]
  BY <1>1, PartIs
<1>3. b \in Seq(S) /\ Len(b) = k + 1 /\ \A i \in 1..(k + 1) : b[i] = s[i]
  BY <1>1, PartIs
<1> HIDE DEF a, b
<1>4. /\ Append(a, x) \in Seq(S) /\ Len(Append(a, x)) = Len(a) + 1
      /\ Append(a, x)[Len(a) + 1] = x /\ \A i \in 1..Len(a) : Append(a, x)[i] = a[i]
  <2>1. a \in Seq(S)
    BY <1>2
  <2> HIDE DEF x
  <2> QED BY <1>1, <2>1, AppendIs
<1>5. b = Append(a, x)
  <2>1. ASSUME NEW i \in 1..(k + 1) PROVE b[i] = Append(a, x)[i]
    <3>1. CASE i = k + 1
      BY <1>2, <1>3, <1>4, <3>1
    <3>2. CASE i # k + 1
      <4>1. i \in 1..k
        BY <3>2
      <4> QED BY <1>2, <1>3, <1>4, <4>1
    <3> QED BY <3>1, <3>2
  <2> HIDE DEF x
  <2>2. Len(b) = Len(Append(a, x)) /\ Len(b) = k + 1
    BY <1>2, <1>3, <1>4
  <2>3. b \in Seq(S) /\ Append(a, x) \in Seq(S)
    BY <1>3, <1>4
  <2> QED BY <2>1, <2>2, <2>3, SameSeq
<1> QED BY <1>1, <1>2, <1>5 DEF a, b

\* A piece of a reply, cut anywhere.
LEMMA ReadAt ==
    ASSUME attached = TRUE, sends \in Nat \ {0},
           NEW id \in Pages, NEW last \in {"done", "error"}, NEW break \in Breaks,
           NEW j, NEW r, NEW page, NEW held, NEW text,
           At(page, held, id, last, break, j, r, sends), r # 4,
           Left(text, id, last, break, j, r),
           NEW n \in 0..Len(text)
    PROVE  LET read == PushText(page, held \o Unified(SubSeq(text, 1, n)))
           IN  \E i \in 0..Count, q \in 0..(LineSize(break) - 1) :
                  /\ At(read.page, read.rest, id, last, break, i, q, sends)
                  /\ Left(SubSeq(text, n + 1, Len(text)), id, last, break, i, q)
<1> DEFINE size == LineSize(break)
           full == Encode(Answer(id, last), break)
           first(k) == SubSeq(text, 1, k)
           D(k) == PushText(page, held \o Unified(first(k)))
           Is(k, i, q) ==
              /\ At(D(k).page, D(k).rest, id, last, break, i, q, sends)
              /\ D(k) = [page |-> D(k).page, rest |-> D(k).rest]
              /\ Start(size, i) + q = Start(size, j) + r + k
              /\ EndsIn(Unified(first(k)), CR) => q \in {2, 4} /\ break # <<LF>>
              /\ q = 4 => EndsIn(Unified(first(k)), CR)
           N == {k \in Nat : k <= Len(text) =>
                    \E i \in 0..Count, q \in 0..(size - 1) : Is(k, i, q)}
<1>1. /\ j \in 0..Count /\ r \in 0..(size - 1) /\ (j = Count => r = 0)
      /\ PageAfter(page, j, sends) /\ held \in Seq(Symbols)
      /\ IF j = Count THEN held = <<>> ELSE Held(held, Answer(id, last)[j + 1], r, break)
  BY DEF At
<1>2. /\ text \in Seq(Symbols)
      /\ Len(text) = Start(size, Count) - (Start(size, j) + r)
      /\ \A p \in 1..Len(text) : text[p] = full[Start(size, j) + r + p]
  BY DEF Left
<1>3. size \in {3, 5} /\ Count \in Nat /\ j \in Nat /\ r \in Nat
  BY <1>1, AnswerIs DEF LineSize
<1>4. Start(size, j) \in Nat /\ Start(size, Count) \in Nat
  BY <1>3, StartIs
<1>5. page \in PageStates /\ sends \in Nat
  BY <1>1 DEF PageAfter
<1>6. 0 \in N
  <2>1. first(0) = <<>>
    BY <1>2
  <2>2. Unified(<<>>) = <<>> /\ held \o <<>> = held
    <3>1. held \o <<>> = held
      BY <1>1
    <3> QED BY <1>5, <3>1, NothingRead
  <2>3. D(0) = PushText(page, held)
    BY <2>1, <2>2
  <2>4. D(0) = [page |-> page, rest |-> held]
    <3>1. CASE j = Count
      BY <1>1, <1>5, <2>3, <3>1, NothingRead
    <3>2. CASE j # Count
      <4>1. j \in 0..(Count - 1)
        BY <1>1, <1>3, <3>2
      <4>2. IsEvent(Answer(id, last)[j + 1])
        BY <4>1, AnswerEvents
      <4> QED BY <1>1, <1>5, <2>3, <3>2, <4>2, HeldAgain
    <3> QED BY <3>1, <3>2
  <2>5. ~ EndsIn(Unified(first(0)), CR)
    BY <2>1, <2>2 DEF EndsIn
  <2>6. Start(size, j) + r = Start(size, j) + r + 0
    BY <1>3, <1>4
  <2>7. Is(0, j, r)
    BY <2>4, <2>5, <2>6
  <2> QED BY <1>1, <2>7
<1>7. ASSUME NEW k \in Nat, k \in N PROVE k + 1 \in N
  <2> SUFFICES ASSUME k + 1 <= Len(text)
               PROVE  \E i \in 0..Count, q \in 0..(size - 1) : Is(k + 1, i, q)
    OBVIOUS
  <2> DEFINE c == text[k + 1]
             joined == EndsIn(Unified(first(k)), CR)
  <2>1. PICK i \in 0..Count, q \in 0..(size - 1) : Is(k, i, q)
    BY <1>2, <1>7
  <2>2. first(k) \in Seq(Symbols) /\ first(k + 1) = Append(first(k), c) /\ c \in Symbols
    BY <1>2, PartMore
  <2>3. /\ D(k + 1) = Feed(D(k), c, joined)
        /\ EndsIn(Unified(first(k + 1)), CR) <=> c = CR
    <3>1. /\ PushText(page, held \o Unified(Append(first(k), c)))
               = Feed(PushText(page, held \o Unified(first(k))), c, joined)
          /\ EndsIn(Unified(Append(first(k), c)), CR) <=> c = CR
      <4> HIDE DEF first, c
      <4> QED BY <1>1, <1>5, <2>2, PieceMore
    <3> QED BY <2>2, <3>1
  <2>4. Start(size, i) + q + 1 = Start(size, j) + r + (k + 1)
    BY <1>3, <1>4, <2>1, StartIs
  <2>5. i \in 0..(Count - 1)
    <3>1. i \in Nat /\ q \in Nat /\ Start(size, i) \in Nat
      <4>1. i \in Nat /\ q \in Nat
        BY <1>3
      <4> QED BY <1>3, <4>1, StartIs
    <3>2. Start(size, j) + r + (k + 1) <= Start(size, Count)
      BY <1>2, <1>3, <1>4
    <3>3. i # Count
      BY <1>4, <2>4, <3>1, <3>2
    <3> QED BY <1>3, <3>1, <3>3
  <2>6. c = full[Start(size, i) + q + 1]
    BY <1>2, <2>4
  <2>7. joined \in BOOLEAN
    BY DEF EndsIn
  <2>8. PICK x \in 0..Count, y \in 0..(size - 1) :
           /\ At(D(k + 1).page, D(k + 1).rest, id, last, break, x, y, sends)
           /\ D(k + 1) = [page |-> D(k + 1).page, rest |-> D(k + 1).rest]
           /\ Start(size, x) + y = Start(size, i) + q + 1
           /\ (c = CR) => y \in {2, 4} /\ break # <<LF>>
           /\ (y = 4) => c = CR
    <3> DEFINE d == D(k)
    <3>1. /\ At(d.page, d.rest, id, last, break, i, q, sends)
          /\ d = [page |-> d.page, rest |-> d.rest]
          /\ joined => q \in {2, 4} /\ break # <<LF>>
          /\ q = 4 => joined
      BY <2>1
    <3>2. D(k + 1) = Feed(d, c, joined)
      BY <2>3
    <3> HIDE DEF d, D, joined, c
    <3>3. D(k + 1) = Feed([page |-> d.page, rest |-> d.rest], full[Start(size, i) + q + 1], joined)
      BY <2>6, <3>1, <3>2
    <3> QED BY <2>5, <2>6, <2>7, <3>1, <3>3, StepAt
  <2>9. Is(k + 1, x, y)
    BY <2>3, <2>4, <2>8
  <2> QED BY <2>9
<1>8. n \in N
  <2> HIDE DEF N
  <2>1. n \in Nat
    BY <1>2
  <2> QED BY <1>6, <1>7, <2>1, Induct
<1>9. PICK i \in 0..Count, q \in 0..(size - 1) : Is(n, i, q)
  BY <1>2, <1>8
<1>10. Left(SubSeq(text, n + 1, Len(text)), id, last, break, i, q)
  <2> DEFINE left == SubSeq(text, n + 1, Len(text))
  <2>1. /\ left \in Seq(Symbols) /\ Len(left) = Len(text) - n
        /\ \A k \in 1..(Len(text) - n) : left[k] = text[n + k]
    BY <1>2, PartIs
  <2> HIDE DEF left
  <2>2. /\ Start(size, i) + q = Start(size, j) + r + n /\ n \in Nat /\ i \in Nat /\ q \in Nat
        /\ Start(size, i) \in Nat
    BY <1>3, <1>9, StartIs
  <2>3. Len(left) = Start(size, Count) - (Start(size, i) + q)
    BY <1>2, <1>3, <1>4, <2>1, <2>2
  <2>4. ASSUME NEW p \in 1..Len(left)
        PROVE  left[p] = full[Start(size, i) + q + p]
    <3>1. n + p \in 1..Len(text) /\ p \in Nat
      BY <1>2, <2>1, <2>2
    <3>2. left[p] = full[Start(size, j) + r + (n + p)]
      BY <1>2, <2>1, <3>1
    <3>3. Start(size, j) + r + (n + p) = Start(size, i) + q + p
      BY <1>3, <1>4, <2>2, <3>1
    <3> QED BY <3>2, <3>3
  <2> QED BY <2>1, <2>3, <2>4 DEF Left, left
<1> QED BY <1>9, <1>10

-----------------------------------------------------------------------------
(* The messages of the other replies *)

\* Nothing in another message is the running reply's doing.
LEMMA PatchWrites ==
    ASSUME NEW messages, Writes(messages, sends, hurt), messages # <<>>,
           NEW m \in PageMessages, OwnTokens(m),
           m.reply = messages[Len(messages)].reply
    PROVE  Writes(PatchLast(messages, m), sends, hurt)
<1> DEFINE p == PatchLast(messages, m)
<1>1. CASE attached
  <2>1. messages \in Seq(PageMessages)
    BY DEF Writes
  <2>2. /\ p \in Seq(PageMessages) /\ Len(p) = Len(messages) /\ p[Len(messages)] = m
        /\ \A k \in 1..(Len(messages) - 1) : p[k] = messages[k]
    BY <1>1, <2>1, PatchIs
  <2> HIDE DEF p
  <2>3. \A i \in 1..(Len(p) - 1) : Fit(p[i], hurt)
    BY <2>2 DEF Writes
  <2>4. m.reply = sends
    BY DEF Writes
  <2>5. p[Len(p)] = m
    BY <2>2
  <2> QED BY <2>2, <2>3, <2>4, <2>5 DEF Writes, p
<1>2. CASE ~ attached
  BY <1>2 DEF PatchLast
<1> QED BY <1>1, <1>2

\* A status.
LEMMA StatusWrites ==
    ASSUME NEW messages, Writes(messages, sends, hurt),
           NEW status \in {"done", "error", "cancelled", "early"}
    PROVE  Writes(WithStatus(messages, status), sends, hurt)
<1>1. CASE messages = <<>>
  BY <1>1 DEF WithStatus, PatchLast
<1>2. CASE messages # <<>>
  <2> DEFINE m == Last(messages)
             n == [m EXCEPT !.status = status]
  <2>1. m \in PageMessages /\ m = messages[Len(messages)]
    BY <1>2, FrontIs DEF Writes
  <2>2. OwnTokens(m)
    BY <1>2, <2>1 DEF Writes
  <2> HIDE DEF m
  <2>3. n \in PageMessages /\ n.text = m.text /\ n.reply = m.reply
    BY <2>1 DEF PageMessages, Statuses
  <2> HIDE DEF n
  <2>4. OwnTokens(n)
    BY <2>2, <2>3 DEF OwnTokens
  <2>5. Writes(PatchLast(messages, n), sends, hurt)
    BY <1>2, <2>1, <2>3, <2>4, PatchWrites
  <2> QED BY <2>5 DEF WithStatus, m, n
<1> QED BY <1>1, <1>2

\* A token.
LEMMA TokenWrites ==
    ASSUME sends \in Nat, NEW messages, Writes(messages, sends, hurt), NEW v \in Values
    PROVE  Writes(WithToken(messages, <<sends, v>>), sends, hurt)
<1>1. CASE messages = <<>>
  BY <1>1 DEF WithToken, PatchLast
<1>2. CASE messages # <<>>
  <2> DEFINE m == Last(messages)
             token == <<sends, v>>
             text == Append(m.text, token)
             n == [m EXCEPT !.text = text]
  <2>1. m \in PageMessages /\ m = messages[Len(messages)]
    BY <1>2, FrontIs DEF Writes
  <2>2. OwnTokens(m) /\ m.reply = sends
    BY <1>2, <2>1 DEF Writes
  <2>3. token \in Nat \X Values /\ token[1] = sends
    OBVIOUS
  <2> HIDE DEF m, token
  <2>4. /\ text \in Seq(Nat \X Values) /\ Len(text) = Len(m.text) + 1
        /\ text[Len(m.text) + 1] = token
        /\ \A i \in 1..Len(m.text) : text[i] = m.text[i]
    <3>1. m.text \in Seq(Nat \X Values)
      BY <2>1 DEF PageMessages
    <3> QED BY <2>3, <3>1, AppendIs
  <2> HIDE DEF text
  <2>5. n \in PageMessages /\ n.text = text /\ n.reply = m.reply
    BY <2>1, <2>4 DEF PageMessages
  <2> HIDE DEF n
  <2>6. ASSUME NEW i \in 1..Len(text) PROVE text[i][1] = m.reply
    <3>1. CASE i = Len(m.text) + 1
      BY <2>2, <2>3, <2>4, <3>1
    <3>2. CASE i # Len(m.text) + 1
      <4>1. i \in 1..Len(m.text)
        <5>1. Len(m.text) \in Nat
          BY <2>1 DEF PageMessages
        <5> QED BY <2>4, <3>2, <5>1
      <4> QED BY <2>2, <2>4, <4>1 DEF OwnTokens
    <3> QED BY <3>1, <3>2
  <2>7. OwnTokens(n)
    BY <2>5, <2>6 DEF OwnTokens
  <2>8. Writes(PatchLast(messages, n), sends, hurt)
    BY <1>2, <2>1, <2>5, <2>7, PatchWrites
  <2>9. WithToken(messages, <<sends, v>>) = PatchLast(messages, n)
    BY DEF WithToken, n, text, token, m
  <2> QED BY <2>8, <2>9
<1> QED BY <1>1, <1>2

\* A page whose reply writes into the last message.
WritesPage(page) == page \in PageStates /\ Writes(page.thread, sends, hurt)

\* An event keeps it so.
LEMMA EventWrites ==
    ASSUME sends \in Nat, NEW page, WritesPage(page), NEW e,
           e[1] \in {"meta", "token", "done", "error"}, e[2] \in Values
    PROVE  WritesPage(OnEvent(page, e))
<1>1. OnEvent(page, e) \in PageStates /\ page \in PageStates
  BY OnEventIs DEF WritesPage
<1>2. OnEvent(page, e).thread \in {page.thread, WithToken(page.thread, <<sends, e[2]>>),
                                   WithStatus(page.thread, e[1])}
      /\ (OnEvent(page, e).thread # page.thread =>
             \/ OnEvent(page, e).thread = WithToken(page.thread, <<sends, e[2]>>)
             \/ /\ e[1] \in {"done", "error"}
                /\ OnEvent(page, e).thread = WithStatus(page.thread, e[1]))
  BY <1>1 DEF OnEvent, PageStates
<1>3. Writes(WithToken(page.thread, <<sends, e[2]>>), sends, hurt)
  BY TokenWrites DEF WritesPage
<1>4. e[1] \in {"done", "error"} => Writes(WithStatus(page.thread, e[1]), sends, hurt)
  BY StatusWrites DEF WritesPage
<1> QED BY <1>1, <1>2, <1>3, <1>4 DEF WritesPage

\* A block.
LEMMA FlushWrites ==
    ASSUME sends \in Nat, NEW page, WritesPage(page), NEW block \in Seq(Symbols)
    PROVE  WritesPage(FlushBlock(page, block))
<1> DEFINE events == {i \in DOMAIN block : block[i] \notin {CR, LF}}
           last == block[Max(events)]
<1>1. CASE events = {}
  BY <1>1 DEF FlushBlock
<1>2. CASE events # {}
  <2>1. events \in SUBSET (1..Len(block)) /\ Len(block) \in Nat
    OBVIOUS
  <2>2. Max(events) \in events
    <3> HIDE DEF events
    <3> QED BY <1>2, <2>1, MaxOfPositions
  <2>3. last \in Symbols /\ last \notin {CR, LF}
    BY <2>2
  <2> HIDE DEF last
  <2>4. /\ last[1] \in {"meta", "token", "done", "error"} /\ last[2] \in Values
        /\ 0 \in Values
    BY <2>3, SymbolIs DEF Values
  <2>5. Event(last[1], 0)[1] = last[1] /\ Event(last[1], 0)[2] = 0
    BY EventIs
  <2>6. WritesPage(OnEvent(page, last)) /\ WritesPage(OnEvent(page, Event(last[1], 0)))
    BY <2>4, <2>5, EventWrites
  <2>7. FlushBlock(page, block)
            \in {OnEvent(page, last), OnEvent(page, Event(last[1], 0))}
    BY <1>2 DEF FlushBlock, last
  <2> QED BY <2>6, <2>7
<1> QED BY <1>1, <1>2

\* A text.
LEMMA TextWrites ==
    ASSUME sends \in Nat, NEW page, WritesPage(page), NEW t \in Seq(Symbols)
    PROVE  WritesPage(PushText(page, t).page)
<1>0. page \in PageStates
  BY DEF WritesPage
<1>1. PICK F : /\ PushText(page, t) = F[Len(t)] /\ F[0] = [page |-> page, rest |-> <<>>]
               /\ \A k \in 0..(Len(t) - 1) : F[k + 1] = Take(F[k], t[k + 1])
  BY <1>0, TakeGrows
<1> DEFINE n == Len(t)
           Good(v) == v \in Loops /\ WritesPage(v.page)
           N == {k \in Nat : k <= n => Good(F[k])}
<1>2. 0 \in N
  <2>1. <<>> \in Seq(Symbols)
    OBVIOUS
  <2>2. F[0] \in Loops /\ F[0].page = page
    BY <1>0, <1>1, <2>1 DEF Loops
  <2> QED BY <2>2
<1>3. ASSUME NEW k \in Nat, k \in N PROVE k + 1 \in N
  <2> SUFFICES ASSUME k + 1 <= n PROVE Good(F[k + 1])
    OBVIOUS
  <2> DEFINE v == F[k]
             c == t[k + 1]
  <2>1. Good(v) /\ k \in 0..(Len(t) - 1) /\ c \in Symbols
    BY <1>3
  <2>2. F[k + 1] = Take(v, c)
    BY <1>1, <2>1
  <2> HIDE DEF v, c
  <2>3. v.rest \in Seq(Symbols) /\ v = [page |-> v.page, rest |-> v.rest]
    BY <2>1 DEF Loops
  <2>4. Take(v, c).page \in {v.page, FlushBlock(v.page, v.rest)}
    BY <2>3 DEF Take
  <2>5. Take(v, c) \in Loops
    BY <2>1, TakeIs
  <2>6. WritesPage(FlushBlock(v.page, v.rest))
    BY <2>1, <2>3, FlushWrites
  <2> QED BY <2>1, <2>2, <2>4, <2>5, <2>6
<1>4. n \in Nat
  OBVIOUS
<1>5. n \in N
  <2> HIDE DEF N, n
  <2> QED BY <1>2, <1>3, <1>4, Induct
<1> QED BY <1>1, <1>4, <1>5

\* More replies may be hurt.
LEMMA HurtMore ==
    ASSUME NEW h, NEW more, h \subseteq more
    PROVE  /\ \A m : Fit(m, h) => Fit(m, more)
           /\ \A messages, n : Writes(messages, n, h) => Writes(messages, n, more)
<1>1. \A m : Fit(m, h) => Fit(m, more)
  BY DEF Fit
<1> QED BY <1>1 DEF Writes

\* With its own message sound, or hurt itself, a reply leaves the thread as it
\* should be.
LEMMA WritesFit ==
    ASSUME NEW messages, NEW n, n # 0, NEW h, Writes(messages, n, h),
           n \notin h => Awaits(messages, n)
    PROVE  ThreadFit(messages, h)
<1>1. messages \in Seq(PageMessages)
  BY DEF Writes
<1>2. ASSUME NEW i \in 1..Len(messages) PROVE Fit(messages[i], h)
  <2>1. CASE i \in 1..(Len(messages) - 1)
    BY <2>1 DEF Writes
  <2>2. CASE i = Len(messages)
    <3> DEFINE m == messages[Len(messages)]
    <3>1. messages # <<>>
      BY <1>1, <2>2
    <3>2. OwnTokens(m) /\ m.reply = n
      BY <3>1 DEF Writes
    <3>3. n \notin h => Sound(m)
      BY DEF Awaits
    <3> HIDE DEF m
    <3>4. Fit(m, h)
      BY <3>2, <3>3 DEF Fit
    <3> QED BY <2>2, <3>4 DEF m
  <2> QED BY <1>1, <2>1, <2>2
<1> QED BY <1>1, <1>2 DEF ThreadFit

-----------------------------------------------------------------------------
(* The invariant of the page *)

\* Somewhere in a reply: the message shows what was read, the parser's buffer
\* and the wire hold the rest.
Reading(page, text, rest, n) ==
    \E id \in Pages, last \in {"done", "error"}, break \in Breaks :
        \E j \in 0..Count, r \in 0..(LineSize(break) - 1) :
            /\ r # 4
            /\ At(page, rest, id, last, break, j, r, n)
            /\ Left(text, id, last, break, j, r)

PageTypes ==
    /\ exists \subseteq Pages
    /\ address \in Values /\ shown \in Values /\ loading \in Values
    /\ target \in Values /\ streamOf \in Values
    /\ attached \in BOOLEAN /\ aborted \in BOOLEAN
    /\ sends \in Nat
    /\ request \in {"none", "posted", "refreshing", "reposted", "reading"}
    /\ thread \in Seq(PageMessages)
    /\ wire \in Seq(Symbols) /\ buffer \in Seq(Symbols)

\* Only a refresh outlives its reply, and only an aborted one.
PageFlow ==
    /\ ~ attached => request = "none" \/ (request = "refreshing" /\ aborted)
    /\ request # "reading" => buffer = <<>>

\* The messages are as they should be; the attached reply writes into the last
\* of them and, unless it was hurt, that shows what the parser has read of it.
PageSound ==
    /\ ThreadFit(thread, hurt)
    /\ attached =>
          /\ sends # 0 /\ Writes(thread, sends, hurt)
          /\ sends \notin hurt =>
                IF request = "reading" THEN Reading(Page, wire, buffer, sends)
                ELSE PageAfter(Page, 0, sends)

PageInv == PageTypes /\ PageFlow /\ PageSound

\* What both cases say of the attached reply.
LEMMA AwaitsReply ==
    ASSUME PageInv, sends \notin hurt, attached = TRUE
    PROVE  sends \in Nat \ {0} /\ Awaits(thread, sends)
<1>1. sends \in Nat \ {0}
  BY DEF PageInv, PageTypes, PageSound
<1>2. \E j : PageAfter(Page, j, sends)
  BY DEF PageInv, PageSound, Reading, At
<1>3. Awaits(Page.thread, sends)
  BY <1>2 DEF PageAfter
<1> QED BY <1>1, <1>3 DEF Page

\* The empty thread is as it should be, and of every type.
LEMMA EmptyIs ==
    /\ <<>> \in Seq(PageMessages) /\ <<>> \in Seq(Symbols)
    /\ \A h : ThreadFit(<<>>, h)
    /\ Nowhere \in Values /\ 0 \in Nat
<1>1. <<>> \in Seq(PageMessages) /\ <<>> \in Seq(Symbols) /\ Len(<<>>) = 0
  OBVIOUS
<1> QED BY <1>1 DEF ThreadFit, Values

\* The page starts sound.
LEMMA PageStarts == PageInit => PageInv
<1> SUFFICES ASSUME PageInit PROVE PageInv
  OBVIOUS
<1>1. PageTypes
  BY PageAssumption, EmptyIs DEF PageInit, PageTypes
<1>2. PageFlow
  BY DEF PageInit, PageFlow
<1>3. PageSound
  BY EmptyIs DEF PageInit, PageSound
<1> QED BY <1>1, <1>2, <1>3 DEF PageInv

\* A status is set on the last message, if any.
LEMMA StatusTyped ==
    ASSUME NEW messages \in Seq(PageMessages),
           NEW status \in {"done", "error", "cancelled", "early"}
    PROVE  WithStatus(messages, status) \in Seq(PageMessages)
<1>1. CASE messages = <<>>
  BY <1>1 DEF WithStatus, PatchLast
<1>2. CASE messages # <<>>
  <2> DEFINE m == Last(messages)
  <2>1. m \in PageMessages
    BY <1>2, FrontIs
  <2> HIDE DEF m
  <2>2. [m EXCEPT !.status = status] \in PageMessages
    BY <2>1 DEF PageMessages, Statuses
  <2> QED BY <2>2, PatchIs DEF WithStatus, m
<1> QED BY <1>1, <1>2

\* send ends over messages that are as they should be.
LEMMA EndKeeps ==
    ASSUME PageInv, NEW messages, ThreadFit(messages, hurt), EndSend(messages),
           address' \in Values, hurt' = hurt
    PROVE  PageInv'
<1>1. PageTypes'
  BY EmptyIs DEF PageInv, PageTypes, EndSend, EndRequest, ThreadFit
<1>2. PageFlow'
  BY DEF PageFlow, EndSend, EndRequest
<1>3. PageSound'
  BY DEF PageSound, EndSend, EndRequest
<1> QED BY <1>1, <1>2, <1>3 DEF PageInv

\* The status of the reply that is attached, if any.
LEMMA StatusKeeps ==
    ASSUME PageInv, NEW status \in {"error", "cancelled"}
    PROVE  ThreadFit(WithStatus(thread, status), hurt)
<1>1. CASE attached = TRUE
  <2>1. sends \in Nat \ {0} /\ Writes(thread, sends, hurt)
    BY <1>1 DEF PageInv, PageTypes, PageSound
  <2>2. Writes(WithStatus(thread, status), sends, hurt)
    BY <2>1, StatusWrites
  <2>3. ASSUME sends \notin hurt PROVE Awaits(WithStatus(thread, status), sends)
    <3>1. Awaits(thread, sends) /\ status # "done"
      BY <1>1, <2>3, AwaitsReply
    <3> QED BY <1>1, <2>1, <3>1, StatusWhole
  <2> QED BY <2>1, <2>2, <2>3, WritesFit
<1>2. CASE attached # TRUE
  <2>1. attached = FALSE
    BY <1>2 DEF PageInv, PageTypes
  <2> QED BY <2>1 DEF WithStatus, PatchLast, PageInv, PageSound
<1> QED BY <1>1, <1>2

\* Wherever the user goes: a reply that streams there goes on, another is left.
LEMMA ShowKeeps ==
    ASSUME PageInv, NEW to \in Values, Show(to)
    PROVE  PageInv'
<1>1. sends' = sends /\ hurt' = hurt /\ exists' = exists /\ shown' = to /\ address' = to
  BY DEF Show
<1>2. CASE to # Nowhere /\ to = streamOf
  <2>1. UNCHANGED <<thread, request, target, attached, aborted, streamOf, wire, buffer>>
        /\ loading' = Nowhere
    BY <1>2 DEF Show
  <2>2. PageTypes' /\ PageFlow'
    BY <1>1, <2>1 DEF PageInv, PageTypes, PageFlow, Values
  <2>3. PageSound'
    <3>1. Page'.thread = Page.thread /\ Page'.streamOf = Page.streamOf
          /\ Page' = [thread |-> thread, address |-> to, streamOf |-> streamOf]
      BY <1>1, <2>1 DEF Page
    <3>2. ASSUME NEW j, PageAfter(Page, j, sends) PROVE PageAfter(Page', j, sends)
      BY <3>1, <3>2 DEF PageAfter, PageStates, Page
    <3>3. ASSUME Reading(Page, wire, buffer, sends) PROVE Reading(Page', wire, buffer, sends)
      BY <3>2, <3>3 DEF Reading, At
    <3> QED BY <1>1, <2>1, <3>2, <3>3 DEF PageInv, PageSound
  <2> QED BY <2>2, <2>3 DEF PageInv
<1>3. CASE ~ (to # Nowhere /\ to = streamOf)
  <2>1. /\ loading' = to /\ thread' \in {<<>>, thread}
        /\ attached' = FALSE
        /\ \/ attached /\ request # "refreshing" /\ EndRequest
           \/ /\ ~ (attached /\ request # "refreshing")
              /\ aborted' = (aborted \/ attached)
              /\ UNCHANGED <<request, target, streamOf, wire, buffer>>
    BY <1>3 DEF Show, Detach, EndRequest
  <2>2. PageTypes'
    BY <1>1, <2>1, EmptyIs DEF PageInv, PageTypes, EndRequest
  <2>3. PageFlow'
    BY <2>1 DEF PageInv, PageTypes, PageFlow, EndRequest
  <2>4. PageSound'
    BY <1>1, <2>1, EmptyIs DEF PageInv, PageSound
  <2> QED BY <2>2, <2>3, <2>4 DEF PageInv
<1> QED BY <1>2, <1>3

\* A request that was sent and not yet answered belongs to the attached reply.
LEMMA RequestAttached ==
    ASSUME PageInv, request \in {"posted", "reposted", "reading"}
    PROVE  attached = TRUE
BY DEF PageInv, PageTypes, PageFlow

\* Steps that leave the reply and its page alone.
LEMMA SameKeeps ==
    ASSUME PageInv, UNCHANGED <<thread, address, streamOf, sends, target, wire, buffer, hurt>>,
           request' = request, attached' = attached, aborted' \in BOOLEAN,
           aborted => aborted', exists' \subseteq Pages, shown' \in Values, loading' \in Values
    PROVE  PageInv'
<1>1. Page' = Page
  BY DEF Page
<1>2. PageTypes'
  BY DEF PageInv, PageTypes
<1>3. PageFlow'
  BY DEF PageInv, PageTypes, PageFlow
<1>4. PageSound'
  BY <1>1 DEF PageInv, PageSound
<1> QED BY <1>2, <1>3, <1>4 DEF PageInv

\* The request goes on, not yet answered.
LEMMA WaitKeeps ==
    ASSUME PageInv, UNCHANGED <<exists, address, shown, loading, thread, sends, target,
                                aborted, wire, buffer, attached, streamOf, hurt>>,
           attached = TRUE, request # "reading", request' \in {"refreshing", "reposted"}
    PROVE  PageInv'
<1>1. Page' = Page
  BY DEF Page
<1>2. PageTypes'
  BY DEF PageInv, PageTypes
<1>3. PageFlow'
  BY DEF PageInv, PageTypes, PageFlow
<1>4. PageSound'
  BY <1>1 DEF PageInv, PageSound
<1> QED BY <1>2, <1>3, <1>4 DEF PageInv

\* A new message, of no token yet.
LEMMA MessageIs ==
    ASSUME NEW of \in Values, NEW reply \in Nat, NEW status \in {"stored", "question", "streaming"},
           NEW h, reply \notin h \ {0} => (reply = 0 <=> status = "stored")
    PROVE  /\ Message(of, reply, status) \in PageMessages
           /\ OwnTokens(Message(of, reply, status)) /\ Fit(Message(of, reply, status), h)
           /\ (reply = 0 <=> status = "stored") => Sound(Message(of, reply, status))
           /\ Message(of, reply, status).reply = reply
           /\ Message(of, reply, status).text = <<>>
           /\ Message(of, reply, status).status = status
<1> DEFINE m == Message(of, reply, status)
<1>1. /\ m.of = of /\ m.reply = reply /\ m.text = <<>> /\ m.status = status
      /\ m = [of |-> of, reply |-> reply, text |-> <<>>, status |-> status]
  BY DEF Message
<1>2. <<>> \in Seq(Nat \X Values) /\ Len(<<>>) = 0
  OBVIOUS
<1>3. FirstTokens(reply, 0) = <<>>
  BY FirstTokensIs
<1> HIDE DEF m
<1>4. m \in PageMessages
  BY <1>1, <1>2 DEF PageMessages, Statuses
<1>5. (reply = 0 <=> status = "stored") => Sound(m)
  BY <1>1, <1>2, <1>3 DEF Sound
<1>6. OwnTokens(m) /\ Fit(m, h)
  BY <1>1, <1>2, <1>5 DEF OwnTokens, Fit
<1> QED BY <1>1, <1>4, <1>5, <1>6 DEF m

\* A load that lands on an attached reply hurts it.
LEMMA LoadLandsKeeps == PageInv /\ LoadLands => PageInv'
<1> SUFFICES ASSUME PageInv, LoadLands PROVE PageInv'
  OBVIOUS
<1> DEFINE n == IF attached THEN sends ELSE 0
           m == Message(loading, n, "stored")
<1>1. /\ loading \in Values /\ n \in Nat /\ hurt' = IF attached THEN hurt \cup {sends} ELSE hurt
      /\ attached => n = sends /\ sends # 0
  BY DEF PageInv, PageTypes, PageSound, LoadLands
<1>2. m \in PageMessages /\ m.reply = n /\ OwnTokens(m) /\ Fit(m, hurt')
  BY <1>1, MessageIs
<1> HIDE DEF m
<1> DEFINE new == <<m>>
<1>3. /\ new \in Seq(PageMessages)
      /\ ThreadFit(new, hurt') /\ Writes(new, n, hurt')
  <2>1. new \in Seq(PageMessages) /\ Len(new) = 1 /\ new[1] = m
    BY <1>2
  <2> HIDE DEF new
  <2> QED BY <1>2, <2>1 DEF ThreadFit, Writes
<1> HIDE DEF new
<1>4. thread' = new
  BY DEF LoadLands, m, new
<1> HIDE DEF n
<1>5. PageTypes'
  BY <1>3, <1>4, EmptyIs DEF PageInv, PageTypes, LoadLands, requestVars
<1>6. PageFlow'
  BY DEF PageInv, PageFlow, LoadLands, requestVars
<1>7. PageSound'
  <2>1. sends' = sends /\ attached' = attached /\ (attached => sends \in hurt')
    BY <1>1 DEF LoadLands, requestVars
  <2> QED BY <1>1, <1>3, <1>4, <2>1 DEF PageSound
<1> QED BY <1>5, <1>6, <1>7 DEF PageInv

\* A new reply has no token yet, and a buffer of its own.
LEMMA SendKeeps == PageInv /\ Send => PageInv'
<1> SUFFICES ASSUME PageInv, Send PROVE PageInv'
  OBVIOUS
<1> DEFINE n == sends + 1
           q == Message(shown, n, "question")
           m == Message(shown, n, "streaming")
<1>1. /\ shown \in Values /\ n \in Nat \ {0} /\ thread \in Seq(PageMessages)
      /\ address \in Values
  BY DEF PageInv, PageTypes
<1>2. q \in PageMessages /\ Fit(q, hurt)
  BY <1>1, MessageIs
<1>3. /\ m \in PageMessages /\ Sound(m) /\ m.reply = n /\ m.text = <<>>
      /\ m.status = "streaming" /\ Fit(m, hurt) /\ OwnTokens(m)
  BY <1>1, MessageIs
<1>4. thread' = thread \o <<q, m>> /\ sends' = n
  BY DEF Send
<1> DEFINE pair == <<q, m>>
<1> HIDE DEF q, m, n
<1>5. pair \in Seq(PageMessages) /\ Len(pair) = 2 /\ pair[1] = q /\ pair[2] = m
  BY <1>2, <1>3
<1> HIDE DEF pair
<1>6. /\ thread' \in Seq(PageMessages) /\ Len(thread') = Len(thread) + 2
      /\ \A i \in 1..Len(thread) : thread'[i] = thread[i]
      /\ thread'[Len(thread) + 1] = q /\ thread'[Len(thread) + 2] = m
      /\ Len(thread) \in Nat
  <2>1. pair \in Seq(PageMessages)
    BY <1>5
  <2>2. /\ thread \o pair \in Seq(PageMessages) /\ Len(thread \o pair) = Len(thread) + Len(pair)
        /\ \A i \in 1..Len(thread) : (thread \o pair)[i] = thread[i]
        /\ \A i \in 1..Len(pair) : (thread \o pair)[Len(thread) + i] = pair[i]
    BY <1>1, <2>1, JoinIs
  <2> QED BY <1>1, <1>4, <1>5, <2>2 DEF pair
<1>7. ThreadFit(thread', hurt) /\ Writes(thread', n, hurt)
  <2>1. ASSUME NEW i \in 1..Len(thread') PROVE Fit(thread'[i], hurt)
    <3>1. CASE i \in 1..Len(thread)
      BY <1>6, <3>1 DEF PageInv, PageSound, ThreadFit
    <3>2. CASE i \in {Len(thread) + 1, Len(thread) + 2}
      BY <1>2, <1>3, <1>6, <3>2
    <3>3. i \in 1..Len(thread) \/ i \in {Len(thread) + 1, Len(thread) + 2}
      BY <1>6
    <3> QED BY <3>1, <3>2, <3>3
  <2>2. thread'[Len(thread')] = m /\ \A i \in 1..(Len(thread') - 1) : i \in 1..Len(thread')
    BY <1>6
  <2>3. n # 0
    BY <1>1 DEF n
  <2> QED BY <1>3, <1>6, <2>1, <2>2, <2>3 DEF ThreadFit, Writes
<1>8. PageTypes'
  BY <1>1, <1>4, <1>6 DEF PageInv, PageTypes, Send, n
<1>9. PageFlow'
  BY DEF PageInv, PageFlow, Send
<1>10. PageSound'
  <2> SUFFICES PageAfter(Page', 0, n)
    BY <1>1, <1>4, <1>7 DEF Send, PageSound
  <2>1. Page' = [thread |-> thread', address |-> address, streamOf |-> shown]
    BY DEF Page, Send
  <2>2. thread' # <<>> /\ thread'[Len(thread')] = m
    BY <1>6
  <2>3. Awaits(thread', n)
    BY <1>3, <1>6, <2>2 DEF Awaits
  <2>4. ShownTokens(0) = 0 /\ Len(<<>>) = 0
    BY DEF ShownTokens
  <2> DEFINE p == Page'
  <2>5. p.thread = thread' /\ p \in PageStates
    BY <1>1, <1>6, <2>1 DEF PageStates
  <2> HIDE DEF p
  <2>6. PageAfter(p, 0, n)
    BY <1>3, <2>2, <2>3, <2>4, <2>5 DEF PageAfter
  <2> QED BY <2>6 DEF p
<1> QED BY <1>8, <1>9, <1>10 DEF PageInv

\* Stopped, the reply keeps what it has.
LEMMA StopKeeps == PageInv /\ Stop => PageInv'
<1> SUFFICES ASSUME PageInv, Stop PROVE PageInv'
  OBVIOUS
<1>1. address' = address /\ hurt' = hurt /\ address \in Values
  BY DEF Stop, PageInv, PageTypes
<1>2. CASE request = "refreshing"
  BY <1>1, <1>2, SameKeeps DEF Stop, PageInv, PageTypes
<1>3. CASE request # "refreshing"
  <2>1. EndSend(WithStatus(thread, "cancelled"))
    BY <1>3 DEF Stop
  <2> QED BY <1>1, <2>1, StatusKeeps, EndKeeps
<1> QED BY <1>2, <1>3

\* An aborted reply ends here, another is posted again.
LEMMA RefreshedKeeps == PageInv /\ Refreshed => PageInv'
<1> SUFFICES ASSUME PageInv, Refreshed PROVE PageInv'
  OBVIOUS
<1>1. address' = address /\ hurt' = hurt /\ address \in Values
  BY DEF Refreshed, PageInv, PageTypes
<1>2. CASE aborted
  <2>1. EndSend(WithStatus(thread, "cancelled"))
    BY <1>2 DEF Refreshed
  <2> QED BY <1>1, <2>1, StatusKeeps, EndKeeps
<1>3. CASE ~ aborted
  <2>1. attached = TRUE
    BY <1>3 DEF Refreshed, PageInv, PageTypes, PageFlow
  <2> QED BY <1>1, <1>3, <2>1, WaitKeeps DEF Refreshed
<1> QED BY <1>2, <1>3

\* Both messages of the refused reply are gone; the others stay.
LEMMA RefusedKeeps == PageInv /\ Refused => PageInv'
<1> SUFFICES ASSUME PageInv, Refused PROVE PageInv'
  OBVIOUS
<1> DEFINE kept == SubSeq(thread, 1, Len(thread) - 2)
<1>1. thread \in Seq(PageMessages) /\ address \in Values
  BY DEF PageInv, PageTypes
<1>2. attached = TRUE
  BY RequestAttached DEF Refused, Posted
<1>3. EndSend(kept) /\ address' = address /\ hurt' = hurt
  BY <1>2 DEF Refused
<1>4. ThreadFit(kept, hurt)
  <2>1. CASE Len(thread) - 2 \in 0..Len(thread)
    <3>1. /\ kept \in Seq(PageMessages) /\ Len(kept) = Len(thread) - 2
          /\ \A i \in 1..(Len(thread) - 2) : kept[i] = thread[i]
      BY <1>1, <2>1, PartIs
    <3> HIDE DEF kept
    <3>2. ASSUME NEW i \in 1..Len(kept) PROVE Fit(kept[i], hurt)
      <4>1. i \in 1..(Len(thread) - 2) /\ i \in 1..Len(thread)
        BY <1>1, <3>1
      <4> QED BY <3>1, <4>1 DEF PageInv, PageSound, ThreadFit
    <3> QED BY <3>1, <3>2 DEF ThreadFit
  <2>2. CASE Len(thread) - 2 \notin 0..Len(thread)
    <3>1. 1 \in Int /\ Len(thread) - 2 \in Int /\ Len(thread) - 2 < 1
      BY <1>1, <2>2
    <3>2. kept = <<>>
      BY <3>1, SubSeqEmpty
    <3> QED BY <3>2, EmptyIs
  <2> QED BY <2>1, <2>2
<1> QED BY <1>1, <1>3, <1>4, EndKeeps

\* Broken off, too.
LEMMA NetworkErrorKeeps == PageInv /\ NetworkError => PageInv'
<1> SUFFICES ASSUME PageInv, NetworkError PROVE PageInv'
  OBVIOUS
<1>1. address' = address /\ hurt' = hurt /\ address \in Values
  BY DEF NetworkError, PageInv, PageTypes
<1>2. EndSend(WithStatus(thread, "error"))
  BY DEF NetworkError
<1> QED BY <1>1, <1>2, StatusKeeps, EndKeeps

\* The whole answer is on the wire, and nothing read.
LEMMA AcceptedKeeps == PageInv /\ Accepted => PageInv'
<1> SUFFICES ASSUME PageInv, Accepted PROVE PageInv'
  OBVIOUS
<1>1. attached = TRUE /\ request # "reading" /\ buffer = <<>>
  <2>1. request \in {"posted", "reposted"}
    BY DEF Accepted, Posted
  <2> QED BY <2>1, RequestAttached DEF PageInv, PageFlow
<1>2. PICK id \in Pages, last \in {"done", "error"}, break \in Breaks :
         exists' = exists \cup {id} /\ wire' = Encode(Answer(id, last), break)
  BY DEF Accepted, Breaks
<1>3. Page' = Page /\ request' = "reading"
      /\ UNCHANGED <<address, shown, loading, loadFailed, thread, sends, target,
                   aborted, buffer, attached, streamOf, hurt>>
  BY DEF Accepted, Page
<1> DEFINE size == LineSize(break)
           full == Encode(Answer(id, last), break)
<1>4. size \in {3, 5} /\ Count \in Nat /\ Count # 0
  BY AnswerIs DEF LineSize
<1>5. full \in Seq(Symbols) /\ Len(full) = Start(size, Count)
  <2>1. IsText(full, Count, Answer(id, last), break)
    BY AnswerIs, TextIs
  <2> QED BY <2>1 DEF IsText
<1> HIDE DEF full
<1>6. Left(full, id, last, break, 0, 0)
  <2>1. Start(size, 0) = 0 /\ Start(size, Count) \in Nat
    BY <1>4, StartIs
  <2>2. Len(full) = Start(size, Count) - (Start(size, 0) + 0)
    BY <1>5, <2>1
  <2>3. \A p \in 1..Len(full) : Start(size, 0) + 0 + p = p
    BY <2>1
  <2> QED BY <1>5, <2>2, <2>3 DEF Left, full
<1>7. PageTypes'
  BY <1>2, <1>3, <1>5 DEF PageInv, PageTypes, full
<1>8. PageFlow'
  BY <1>1, <1>3 DEF PageFlow
<1>9. PageSound'
  <2> SUFFICES ASSUME sends \notin hurt PROVE Reading(Page, full, <<>>, sends)
    BY <1>1, <1>2, <1>3 DEF PageInv, PageSound, full
  <2>1. PageAfter(Page, 0, sends)
    BY <1>1 DEF PageInv, PageSound
  <2>2. Held(<<>>, Answer(id, last)[0 + 1], 0, break)
    BY DEF Held
  <2>3. 0 \in 0..Count /\ 0 \in 0..(size - 1) /\ <<>> \in Seq(Symbols) /\ 0 # 4
    BY <1>4
  <2>4. At(Page, <<>>, id, last, break, 0, 0, sends)
    BY <1>4, <2>1, <2>2, <2>3 DEF At
  <2> QED BY <1>6, <2>1, <2>3, <2>4 DEF Reading
<1> QED BY <1>7, <1>8, <1>9 DEF PageInv

\* A buffer that ends in the middle of a CR LF after an LF is noticed.
LEMMA SplitNoticed ==
    ASSUME NEW e, IsEvent(e), NEW rest, rest \in {<<e, LF, CR>>, <<e, CR, LF, CR>>}
    PROVE  SplitBreak(rest)
<1>1. EndsIn(<<e, LF, CR>>, CR) /\ EndsIn(<<e, CR, LF, CR>>, CR)
      /\ Front(<<e, LF, CR>>) = <<e, LF>> /\ Front(<<e, CR, LF, CR>>) = <<e, CR, LF>>
      /\ EndsIn(<<e, LF>>, LF) /\ EndsIn(<<e, CR, LF>>, LF)
  BY HeldIs
<1> QED BY <1>1 DEF SplitBreak

\* The smaller of two numbers.
LEMMA MinOf ==
    ASSUME NEW a \in Nat, NEW b \in Nat
    PROVE  Min({a, b}) \in Nat /\ Min({a, b}) <= a /\ Min({a, b}) <= b
<1>1. PICK x \in {a, b} : \A y \in {a, b} : x <= y
  OBVIOUS
<1>2. Min({a, b}) \in {a, b} /\ \A y \in {a, b} : Min({a, b}) <= y
  BY <1>1 DEF Min
<1> QED BY <1>2

\* A piece arrives: another place in the same answer, or a split line break.
LEMMA ReadKeepsPage == PageInv /\ Read => PageInv'
<1> SUFFICES ASSUME PageInv, Read PROVE PageInv'
  OBVIOUS
<1>1. request = "reading" /\ attached = TRUE
  BY RequestAttached DEF Read
<1> DEFINE text(n) == SubSeq(wire, 1, n)
           D(n) == PushText(Page, buffer \o Unified(text(n)))
<1>2. PICK n \in 1..Min({MaxPiece, Len(wire)}) :
         /\ wire' = SubSeq(wire, n + 1, Len(wire))
         /\ buffer' = D(n).rest
         /\ thread' = D(n).page.thread
         /\ address' = D(n).page.address /\ streamOf' = D(n).page.streamOf
         /\ hurt' = IF SplitBreak(D(n).rest) THEN hurt \cup {sends} ELSE hurt
  BY DEF Read
<1> DEFINE d == D(n)
<1>3. UNCHANGED <<exists, shown, loading, loadFailed, sends, request, target,
                  aborted, attached>>
  BY DEF Read
<1>4. wire \in Seq(Symbols) /\ buffer \in Seq(Symbols) /\ sends \in Nat /\ Page \in PageStates
  BY DEF PageInv, PageTypes, Page, PageStates
<1>5. n \in 0..Len(wire)
  <2>1. MaxPiece \in Nat /\ Len(wire) \in Nat
    BY <1>4, PageAssumption
  <2>2. Min({MaxPiece, Len(wire)}) \in Nat /\ Min({MaxPiece, Len(wire)}) <= Len(wire)
    BY <2>1, MinOf
  <2> QED BY <2>1, <2>2
<1>6. wire' \in Seq(Symbols)
  BY <1>2, <1>4, <1>5, PartIs
<1>7. d \in Loops /\ WritesPage(d.page)
  <2>1. text(n) \in Seq(Symbols)
    BY <1>4, <1>5, PartIs
  <2> DEFINE piece == Unified(text(n))
  <2>2. piece \in Seq(Symbols)
    BY <2>1, UnifiedIs
  <2> HIDE DEF piece
  <2>3. buffer \o piece \in Seq(Symbols)
    BY <1>4, <2>2
  <2>4. PushText(Page, buffer \o piece) \in Loops
    BY <1>4, <2>3, PushTextIs
  <2>5. WritesPage(Page)
    BY <1>1, <1>4 DEF WritesPage, Page, PageInv, PageSound
  <2>6. WritesPage(PushText(Page, buffer \o piece).page)
    BY <1>4, <2>3, <2>5, TextWrites
  <2> QED BY <2>4, <2>6 DEF piece
<1>8. /\ d.rest \in Seq(Symbols) /\ d.page \in PageStates
      /\ d.page = [thread |-> d.page.thread, address |-> d.page.address,
                   streamOf |-> d.page.streamOf]
      /\ d.page.thread \in Seq(PageMessages) /\ d.page.address \in Values
      /\ d.page.streamOf \in Values
  BY <1>7 DEF Loops, PageStates
<1>9. ASSUME sends \notin hurt
      PROVE  \E id \in Pages, last \in {"done", "error"}, break \in Breaks :
                \E i \in 0..Count, q \in 0..(LineSize(break) - 1) :
                   /\ At(d.page, d.rest, id, last, break, i, q, sends)
                   /\ Left(SubSeq(wire, n + 1, Len(wire)), id, last, break, i, q)
  <2>1. sends \in Nat \ {0}
    BY <1>1, <1>9, AwaitsReply
  <2>2. PICK id \in Pages, last \in {"done", "error"}, break \in Breaks :
           \E j \in 0..Count, r \in 0..(LineSize(break) - 1) :
              /\ r # 4
              /\ At(Page, buffer, id, last, break, j, r, sends)
              /\ Left(wire, id, last, break, j, r)
    BY <1>1, <1>9 DEF PageInv, PageSound, Reading
  <2>3. PICK j \in 0..Count, r \in 0..(LineSize(break) - 1) :
           /\ r # 4
           /\ At(Page, buffer, id, last, break, j, r, sends)
           /\ Left(wire, id, last, break, j, r)
    BY <2>2
  <2>4. \E i \in 0..Count, q \in 0..(LineSize(break) - 1) :
           /\ At(d.page, d.rest, id, last, break, i, q, sends)
           /\ Left(SubSeq(wire, n + 1, Len(wire)), id, last, break, i, q)
    BY <1>1, <1>5, <2>1, <2>3, ReadAt
  <2> QED BY <2>4
<1> HIDE DEF d, D, text
<1>10. PageTypes'
  BY <1>2, <1>3, <1>6, <1>8 DEF PageInv, PageTypes, d
<1>11. PageFlow'
  BY <1>1, <1>3 DEF PageFlow
<1>12. PageSound'
  <2>1. Page' = d.page /\ buffer' = d.rest
    BY <1>2, <1>8 DEF Page, d
  <2>2. sends # 0 /\ Writes(thread', sends, hurt')
    <3>1. sends # 0 /\ Writes(thread', sends, hurt) /\ hurt \subseteq hurt'
      BY <1>1, <1>2, <1>7 DEF d, WritesPage, PageInv, PageSound
    <3> QED BY <3>1, HurtMore
  <2> SUFFICES ASSUME sends \notin hurt'
               PROVE  Awaits(thread', sends) /\ Reading(Page', wire', buffer', sends)
    BY <1>1, <1>3, <2>2, WritesFit DEF PageSound
  <2>10. sends \notin hurt /\ ~ SplitBreak(d.rest)
    BY <1>2 DEF d
  <2>3. PICK id \in Pages, last \in {"done", "error"}, break \in Breaks :
           \E i \in 0..Count, q \in 0..(LineSize(break) - 1) :
              /\ At(d.page, d.rest, id, last, break, i, q, sends)
              /\ Left(SubSeq(wire, n + 1, Len(wire)), id, last, break, i, q)
    BY <1>9, <2>10
  <2>4. PICK i \in 0..Count, q \in 0..(LineSize(break) - 1) :
              /\ At(d.page, d.rest, id, last, break, i, q, sends)
              /\ Left(SubSeq(wire, n + 1, Len(wire)), id, last, break, i, q)
    BY <2>3
  <2>5. q # 4
    <3> SUFFICES ASSUME q = 4 PROVE FALSE
      OBVIOUS
    <3>1. i # Count /\ i \in 0..(Count - 1)
      BY <2>4, AnswerIs DEF At
    <3> DEFINE e == Answer(id, last)[i + 1]
    <3>2. Held(d.rest, e, 4, break)
      BY <2>4, <3>1 DEF At
    <3>3. IsEvent(e)
      BY <3>1, AnswerEvents
    <3> HIDE DEF e
    <3>4. d.rest \in {<<e, LF, CR>>, <<e, CR, LF, CR>>}
      BY <3>2 DEF Held
    <3> QED BY <2>10, <3>3, <3>4, SplitNoticed
  <2>6. Reading(d.page, wire', d.rest, sends)
    BY <1>2, <2>4, <2>5 DEF Reading
  <2>7. Awaits(thread', sends)
    BY <1>2, <2>4 DEF At, PageAfter, d
  <2> QED BY <2>1, <2>6, <2>7
<1> QED BY <1>10, <1>11, <1>12 DEF PageInv

\* What the parser still holds at the end is one event, or nothing.
LEMMA EndOfBodyKeeps == PageInv /\ EndOfBody => PageInv'
<1> SUFFICES ASSUME PageInv, EndOfBody PROVE PageInv'
  OBVIOUS
<1>1. request = "reading" /\ attached = TRUE
  BY RequestAttached DEF EndOfBody
<1> DEFINE page == FlushBlock(Page, buffer)
           messages == page.thread
           open == messages # <<>> /\ Last(messages).status = "streaming"
           left == IF open THEN WithStatus(messages, "early") ELSE messages
<1>2. EndSend(left) /\ address' = page.address /\ hurt' = hurt
  BY DEF EndOfBody
<1>3. buffer \in Seq(Symbols) /\ sends \in Nat /\ Page \in PageStates
  BY DEF PageInv, PageTypes, Page, PageStates
<1>4. page \in PageStates /\ WritesPage(page) /\ sends # 0
  <2>1. WritesPage(Page) /\ sends # 0
    BY <1>1, <1>3 DEF WritesPage, Page, PageInv, PageSound
  <2> QED BY <1>3, <2>1, FlushWrites DEF WritesPage
<1> HIDE DEF page
<1>5. messages \in Seq(PageMessages) /\ page.address \in Values
  BY <1>4 DEF PageStates
<1>6. sends \notin hurt => Awaits(messages, sends) /\ sends \in Nat \ {0}
  <2> SUFFICES ASSUME sends \notin hurt PROVE Awaits(messages, sends) /\ sends \in Nat \ {0}
    OBVIOUS
  <2>1. sends \in Nat \ {0}
    BY <1>1, AwaitsReply
  <2>2. PICK id \in Pages, last \in {"done", "error"}, break \in Breaks :
           \E j \in 0..Count, r \in 0..(LineSize(break) - 1) :
              r # 4 /\ At(Page, buffer, id, last, break, j, r, sends)
    BY <1>1 DEF PageInv, PageSound, Reading
  <2>3. PICK j \in 0..Count, r \in 0..(LineSize(break) - 1) :
           r # 4 /\ At(Page, buffer, id, last, break, j, r, sends)
    BY <2>2
  <2>4. PageAfter(Page, j, sends)
    BY <2>3 DEF At
  <2>5. CASE buffer = <<>>
    <3>1. page = Page
      BY <2>5 DEF page, FlushBlock
    <3> QED BY <2>1, <2>4, <3>1 DEF PageAfter
  <2>6. CASE buffer # <<>>
    <3>1. j # Count /\ j \in 0..(Count - 1)
      BY <2>3, <2>6, AnswerIs DEF At
    <3> DEFINE e == Answer(id, last)[j + 1]
    <3>2. Held(buffer, e, r, break)
      BY <2>3, <3>1 DEF At
    <3>3. IsEvent(e)
      BY <3>1, AnswerEvents
    <3>4. PageAfter(OnEvent(Page, e), j + 1, sends)
      BY <1>1, <2>1, <2>4, <3>1, EventStep
    <3> HIDE DEF e
    <3>5. buffer \in {<<e>>, <<e, LF>>, <<e, CR>>, <<e, CR, LF>>}
      BY <2>3, <2>6, <3>2 DEF Held
    <3>6. page = OnEvent(Page, e)
      BY <3>3, <3>5, FlushHeld DEF page
    <3> QED BY <2>1, <3>4, <3>6 DEF PageAfter
  <2> QED BY <2>5, <2>6
<1>7. Writes(messages, sends, hurt) /\ Writes(WithStatus(messages, "early"), sends, hurt)
  BY <1>4, StatusWrites DEF WritesPage
<1>8. ASSUME sends \notin hurt PROVE Awaits(left, sends)
  <2>1. Awaits(messages, sends) /\ sends \in Nat \ {0} /\ "early" # "done"
    BY <1>6, <1>8
  <2>2. Awaits(WithStatus(messages, "early"), sends)
    BY <1>1, <2>1, StatusWhole
  <2> QED BY <2>1, <2>2
<1>9. Writes(left, sends, hurt)
  BY <1>7
<1> HIDE DEF left
<1>10. ThreadFit(left, hurt)
  BY <1>4, <1>8, <1>9, WritesFit
<1> QED BY <1>2, <1>5, <1>10, EndKeeps

-----------------------------------------------------------------------------
(* The theorem *)

\* Every step keeps the invariant.
LEMMA PageSteps == PageInv /\ [PageNext]_pageVars => PageInv'
<1> SUFFICES ASSUME PageInv, [PageNext]_pageVars PROVE PageInv'
  OBVIOUS
<1>1. ASSUME NEW to \in Pages \cup {Nowhere}, Navigate(to) PROVE PageInv'
  <2>1. to \in Values /\ Show(to)
    BY <1>1 DEF Navigate, Values
  <2> QED BY <2>1, ShowKeeps
<1>2. CASE Render
  <2>1. address \in Values /\ Show(address)
    BY <1>2 DEF Render, PageInv, PageTypes
  <2> QED BY <2>1, ShowKeeps
<1>3. CASE LoadFails
  <2>1. Nowhere \in Values
    BY EmptyIs
  <2> QED BY <1>3, <2>1, SameKeeps DEF LoadFails, requestVars, PageInv, PageTypes
<1>4. CASE Unauthorized
  <2>1. attached = TRUE /\ request # "reading"
    BY <1>4, RequestAttached DEF Unauthorized
  <2> QED BY <1>4, <2>1, WaitKeeps DEF Unauthorized
<1>5. CASE UNCHANGED pageVars
  BY <1>5, SameKeeps DEF pageVars, requestVars, PageInv, PageTypes
<1> QED BY <1>1, <1>2, <1>3, <1>4, <1>5, LoadLandsKeeps, SendKeeps, StopKeeps,
           RefreshedKeeps, RefusedKeeps, NetworkErrorKeeps, AcceptedKeeps, ReadKeepsPage,
           EndOfBodyKeeps DEF PageNext

\* However the network cuts a reply, in pieces of whatever size and with either
\* line break, and wherever the user goes meanwhile, its tokens get into its own
\* message and no other, in their order, and one shown as done has them all,
\* unless a load or a split line break has hurt that very reply; what it writes
\* then goes into its own message or the one that came over it, and all other
\* messages are as they should be (Chat.jsx, sse.js).
THEOREM RepliesStayIntact == PageSpec => []RepliesIntact
<1>1. PageInit => PageInv
  BY PageStarts
<1>2. PageInv /\ [PageNext]_pageVars => PageInv'
  BY PageSteps
<1>3. PageInv => RepliesIntact
  <2> SUFFICES ASSUME PageInv, NEW i \in DOMAIN thread
               PROVE  LET m == thread[i]
                      IN  /\ \A n \in DOMAIN m.text : m.text[n][1] = m.reply
                          /\ m.reply = 0 => m.status = "stored"
                          /\ m.reply \notin hurt \cup {0} =>
                                /\ m.text = FirstTokens(m.reply, Len(m.text))
                                /\ m.status = "question" => m.text = <<>>
                                /\ m.status # "stored"
                                /\ m.status = "done" => Len(m.text) = Tokens
    BY DEF RepliesIntact
  <2> DEFINE m == thread[i]
  <2>1. i \in 1..Len(thread) /\ m \in PageMessages
    BY DEF PageInv, PageTypes
  <2>2. Fit(m, hurt)
    BY <2>1 DEF PageInv, PageSound, ThreadFit
  <2>3. DOMAIN m.text = 1..Len(m.text)
    BY <2>1 DEF PageMessages
  <2> HIDE DEF m
  <2>4. \A n \in DOMAIN m.text : m.text[n][1] = m.reply
    BY <2>2, <2>3 DEF Fit, OwnTokens
  <2>5. m.reply \notin hurt \/ m.reply = 0 => Sound(m)
    BY <2>2 DEF Fit
  <2>6. m.reply = 0 => m.status = "stored"
    BY <2>5 DEF Sound
  <2>7. m.reply \notin hurt \cup {0} =>
           /\ m.text = FirstTokens(m.reply, Len(m.text))
           /\ m.status = "question" => m.text = <<>>
           /\ m.status # "stored"
           /\ m.status = "done" => Len(m.text) = Tokens
    BY <2>5 DEF Sound
  <2> QED BY <2>4, <2>6, <2>7 DEF m
<1> QED BY <1>1, <1>2, <1>3, PTL DEF PageSpec

-----------------------------------------------------------------------------
(* The types: where the page may be *)

\* What an address can name.
Places == Pages \cup {Nowhere}

\* A text in which no conversation is named, and one that names an existing
\* conversation with its first symbol, if at all.
NoMeta(text) == \A i \in 1..Len(text) : text[i][1] # "meta"
MetaFirst(text) ==
    \A i \in 1..Len(text) : text[i][1] = "meta" => i = 1 /\ text[i][2] \in Pages

LEMMA BreakNames == CR[1] # "meta" /\ LF[1] # "meta"
<1>1. CR[1] = "CR" /\ LF[1] = "LF"
  BY DEF CR, LF
<1> QED BY <1>1

\* Nothing names nothing.
LEMMA NothingNamed ==
    /\ NoMeta(<<>>) /\ MetaFirst(<<>>)
    /\ \A text : NoMeta(text) => MetaFirst(text)
BY DEF NoMeta, MetaFirst

\* One symbol more.
LEMMA MetaAppended ==
    ASSUME NEW s \in Seq(Symbols), NEW c \in Symbols
    PROVE  /\ MetaFirst(s) /\ (c[1] = "meta" => s = <<>> /\ c[2] \in Pages) => MetaFirst(Append(s, c))
           /\ NoMeta(s) /\ c[1] # "meta" => NoMeta(Append(s, c))
<1>1. /\ Len(Append(s, c)) = Len(s) + 1 /\ Append(s, c)[Len(s) + 1] = c
      /\ \A n \in 1..Len(s) : Append(s, c)[n] = s[n]
  BY AppendIs
<1>2. \A n \in 1..(Len(s) + 1) : n \in 1..Len(s) \/ n = Len(s) + 1
  OBVIOUS
<1>3. s = <<>> => Len(s) + 1 = 1
  OBVIOUS
<1> QED BY <1>1, <1>2, <1>3 DEF MetaFirst, NoMeta

\* All but the last.
LEMMA MetaFront ==
    ASSUME NEW s \in Seq(Symbols), s # <<>>
    PROVE  /\ MetaFirst(s) => MetaFirst(Front(s))
           /\ NoMeta(s) => NoMeta(Front(s))
<1>1. /\ Len(Front(s)) = Len(s) - 1 /\ Len(s) \in Nat \ {0}
      /\ \A n \in 1..(Len(s) - 1) : Front(s)[n] = s[n]
  BY FrontIs
<1>2. \A n \in 1..(Len(s) - 1) : n \in 1..Len(s)
  BY <1>1
<1> QED BY <1>1, <1>2 DEF MetaFirst, NoMeta

\* Some first symbols, and those after them.
LEMMA MetaParts ==
    ASSUME NEW s \in Seq(Symbols), NEW n \in 1..Len(s)
    PROVE  /\ MetaFirst(s) => MetaFirst(SubSeq(s, 1, n)) /\ NoMeta(SubSeq(s, n + 1, Len(s)))
           /\ NoMeta(s) => NoMeta(SubSeq(s, 1, n)) /\ NoMeta(SubSeq(s, n + 1, Len(s)))
<1> DEFINE first == SubSeq(s, 1, n)
           rest == SubSeq(s, n + 1, Len(s))
<1>1. /\ Len(first) = n /\ \A k \in 1..n : first[k] = s[k]
      /\ Len(rest) = Len(s) - n /\ \A k \in 1..(Len(s) - n) : rest[k] = s[n + k]
  BY PartIs
<1> HIDE DEF first, rest
<1>2. /\ \A k \in 1..n : k \in 1..Len(s)
      /\ \A k \in 1..(Len(s) - n) : n + k \in 1..Len(s) /\ n + k # 1
  OBVIOUS
<1>3. /\ MetaFirst(s) => MetaFirst(first) /\ NoMeta(rest)
      /\ NoMeta(s) => NoMeta(first) /\ NoMeta(rest)
  BY <1>1, <1>2 DEF MetaFirst, NoMeta
<1> QED BY <1>3 DEF first, rest

\* One text behind another.
LEMMA MetaJoined ==
    ASSUME NEW s \in Seq(Symbols), NEW t \in Seq(Symbols), NoMeta(t)
    PROVE  MetaFirst(s) => MetaFirst(s \o t)
<1>1. /\ Len(s \o t) = Len(s) + Len(t)
      /\ \A i \in 1..Len(s) : (s \o t)[i] = s[i]
      /\ \A i \in 1..Len(t) : (s \o t)[Len(s) + i] = t[i]
  BY JoinIs
<1>2. ASSUME MetaFirst(s), NEW i \in 1..Len(s \o t), (s \o t)[i][1] = "meta"
      PROVE  i = 1 /\ (s \o t)[i][2] \in Pages
  <2>1. CASE i <= Len(s)
    <3>1. i \in 1..Len(s)
      BY <1>1, <2>1
    <3> QED BY <1>1, <1>2, <3>1 DEF MetaFirst
  <2>2. CASE i > Len(s)
    <3> DEFINE k == i - Len(s)
    <3>1. k \in 1..Len(t) /\ Len(s) + k = i
      BY <1>1, <2>2
    <3> HIDE DEF k
    <3> QED BY <1>1, <1>2, <3>1 DEF NoMeta
  <2>3. i \in Int /\ Len(s) \in Int
    BY <1>1
  <2> QED BY <2>1, <2>2, <2>3
<1> QED BY <1>2 DEF MetaFirst

\* A step of the first loop of push.
LEMMA UnifyMeta ==
    ASSUME NEW s \in Seq(Symbols), NEW c \in Symbols
    PROVE  /\ MetaFirst(s) /\ (c[1] = "meta" => s = <<>> /\ c[2] \in Pages) => MetaFirst(Unify(s, c))
           /\ NoMeta(s) /\ c[1] # "meta" => NoMeta(Unify(s, c))
<1>1. CASE c = LF /\ EndsIn(s, CR)
  <2>1. s # <<>> /\ Front(s) \in Seq(Symbols) /\ LF \in Symbols
    BY <1>1, FrontIs, BreaksDiffer DEF EndsIn
  <2>2. Unify(s, c) = Append(Front(s), LF)
    BY <1>1 DEF Unify
  <2> DEFINE f == Front(s)
  <2>3. (MetaFirst(s) => MetaFirst(f)) /\ (NoMeta(s) => NoMeta(f)) /\ f \in Seq(Symbols)
    BY <2>1, MetaFront
  <2> HIDE DEF f
  <2> QED BY <2>1, <2>2, <2>3, MetaAppended, BreakNames DEF f
<1>2. CASE ~ (c = LF /\ EndsIn(s, CR))
  <2>1. Unify(s, c) = Append(s, c)
    BY <1>2 DEF Unify
  <2> QED BY <2>1, MetaAppended
<1> QED BY <1>1, <1>2

\* The whole loop.
LEMMA UnifiedMeta ==
    ASSUME NEW t \in Seq(Symbols)
    PROVE  (MetaFirst(t) => MetaFirst(Unified(t))) /\ (NoMeta(t) => NoMeta(Unified(t)))
<1>1. PICK F : /\ Unified(t) = F[Len(t)] /\ F[0] = <<>>
               /\ \A k \in 0..(Len(t) - 1) : F[k + 1] = Unify(F[k], t[k + 1])
  BY UnifyGrows
<1> DEFINE n == Len(t)
           Good(s) == /\ s \in Seq(Symbols)
                      /\ MetaFirst(t) => MetaFirst(s)
                      /\ NoMeta(t) => NoMeta(s)
           N == {k \in Nat : k <= n => Good(F[k])}
<1>2. 0 \in N
  BY <1>1, NothingNamed, EmptyIs
<1>3. ASSUME NEW k \in Nat, k \in N PROVE k + 1 \in N
  <2> SUFFICES ASSUME k + 1 <= n PROVE Good(F[k + 1])
    OBVIOUS
  <2>1. /\ Good(F[k]) /\ k \in 0..(Len(t) - 1) /\ t[k + 1] \in Symbols /\ k + 1 \in 1..Len(t)
        /\ k + 1 = 1 => k = 0
    BY <1>3
  <2>2. F[k + 1] = Unify(F[k], t[k + 1])
    BY <1>1, <2>1
  <2>3. MetaFirst(t) => (t[k + 1][1] = "meta" => F[k] = <<>> /\ t[k + 1][2] \in Pages)
    BY <1>1, <2>1 DEF MetaFirst
  <2>4. NoMeta(t) => t[k + 1][1] # "meta"
    BY <2>1 DEF NoMeta
  <2>5. Unify(F[k], t[k + 1]) \in Seq(Symbols)
    BY <2>1, UnifyIs
  <2> QED BY <2>1, <2>2, <2>3, <2>4, <2>5, UnifyMeta
<1>4. n \in Nat
  OBVIOUS
<1>5. n \in N
  <2> HIDE DEF N, n
  <2> QED BY <1>2, <1>3, <1>4, Induct
<1> QED BY <1>1, <1>4, <1>5

\* An event and its line breaks.
LEMMA LineMeta ==
    ASSUME NEW e \in Symbols, NEW break \in Breaks
    PROVE  /\ (e[1] = "meta" => e[2] \in Pages) => MetaFirst(Line(e, break))
           /\ e[1] # "meta" => NoMeta(Line(e, break))
<1> DEFINE line == Line(e, break)
<1>1. /\ Len(line) = LineSize(break) /\ line[1] = e
      /\ break = <<LF>> => /\ LineSize(break) = 3 /\ line[2] = LF /\ line[3] = LF
      /\ break # <<LF>> => /\ LineSize(break) = 5 /\ line[2] = CR /\ line[3] = LF
                           /\ line[4] = CR /\ line[5] = LF
  BY LineIs
<1> HIDE DEF line
<1>2. \A i \in 1..Len(line) : i # 1 => line[i] \in {CR, LF}
  <2>1. CASE break = <<LF>>
    <3>1. \A i \in 1..3 : i = 1 \/ i = 2 \/ i = 3
      OBVIOUS
    <3> QED BY <1>1, <2>1, <3>1
  <2>2. CASE break # <<LF>>
    <3>1. \A i \in 1..5 : i = 1 \/ i = 2 \/ i = 3 \/ i = 4 \/ i = 5
      OBVIOUS
    <3> QED BY <1>1, <2>2, <3>1
  <2> QED BY <2>1, <2>2
<1>3. \A i \in 1..Len(line) : i # 1 => line[i][1] # "meta"
  BY <1>2, BreakNames
<1>4. /\ (e[1] = "meta" => e[2] \in Pages) => MetaFirst(line)
      /\ e[1] # "meta" => NoMeta(line)
  BY <1>1, <1>3 DEF MetaFirst, NoMeta
<1> QED BY <1>4 DEF line

\* A whole reply names its conversation first.
LEMMA AnswerMeta ==
    ASSUME NEW id \in Pages, NEW last \in {"done", "error"}, NEW break \in Breaks
    PROVE  MetaFirst(Encode(Answer(id, last), break))
<1> DEFINE es == Answer(id, last)
<1>1. /\ es \in Seq(Symbols) /\ Len(es) = Tokens + 2 /\ Tokens \in Nat
      /\ es[1] = Event("meta", id)
      /\ \A k \in 1..Tokens : es[k + 1] = Event("token", k)
      /\ es[Tokens + 2] = Event(last, 0)
  BY AnswerIs
<1> HIDE DEF es
<1>2. MetaFirst(es)
  <2>1. es[1][1] = "meta" /\ es[1][2] = id
    BY <1>1, EventIs
  <2>2. ASSUME NEW k \in 1..Tokens PROVE es[k + 1][1] = "token"
    <3>1. es[k + 1] = Event("token", k)
      BY <1>1
    <3> QED BY <3>1, EventIs
  <2>3. es[Tokens + 2][1] = last /\ last # "meta"
    BY <1>1, EventIs
  <2>4. ASSUME NEW i \in 1..Len(es) PROVE i = 1 \/ i = Tokens + 2 \/ (i - 1) \in 1..Tokens
    BY <1>1
  <2>5. ASSUME NEW i \in 1..Len(es), i # 1 PROVE es[i][1] # "meta"
    <3>1. CASE i = Tokens + 2
      BY <2>3, <3>1
    <3>2. CASE (i - 1) \in 1..Tokens
      <4>1. (i - 1) + 1 = i
        OBVIOUS
      <4> QED BY <2>2, <3>2, <4>1
    <3> QED BY <2>4, <2>5, <3>1, <3>2
  <2> QED BY <2>1, <2>5 DEF MetaFirst
<1>3. break \in Seq(Symbols)
  BY BreaksDiffer, LineIs
<1>4. PICK F : /\ Encode(es, break) = F[Len(es)] /\ F[0] = <<>>
               /\ \A k \in 0..(Len(es) - 1) : F[k + 1] = Extended(F[k], es[k + 1], break)
  BY <1>1, <1>3, EncodeGrows
<1> DEFINE n == Len(es)
           N == {k \in Nat : k <= n => F[k] \in Seq(Symbols) /\ MetaFirst(F[k])}
<1>5. 0 \in N
  BY <1>4, NothingNamed, EmptyIs
<1>6. ASSUME NEW k \in Nat, k \in N PROVE k + 1 \in N
  <2> SUFFICES ASSUME k + 1 <= n PROVE F[k + 1] \in Seq(Symbols) /\ MetaFirst(F[k + 1])
    OBVIOUS
  <2> DEFINE e == es[k + 1]
             line == Line(e, break)
  <2>1. /\ F[k] \in Seq(Symbols) /\ MetaFirst(F[k]) /\ k \in 0..(Len(es) - 1)
        /\ e \in Symbols /\ k + 1 \in 1..Len(es) /\ (k + 1 = 1 => k = 0)
    BY <1>1, <1>6
  <2>2. e[1] = "meta" => k = 0 /\ e[2] \in Pages
    BY <1>2, <2>1 DEF MetaFirst
  <2>3. F[k + 1] = F[k] \o line
    BY <1>4, <2>1 DEF Extended, Line
  <2> HIDE DEF e
  <2>4. /\ line \in Seq(Symbols) /\ (e[1] = "meta" => MetaFirst(line))
        /\ (e[1] # "meta" => NoMeta(line))
    BY <2>1, <2>2, LineIs, LineMeta
  <2> HIDE DEF line
  <2>5. F[k] \o line \in Seq(Symbols)
    BY <2>1, <2>4, JoinIs
  <2>6. CASE e[1] = "meta"
    <3>1. F[k] = <<>>
      BY <1>4, <2>2, <2>6
    <3>2. F[k] \o line = line
      BY <2>4, <3>1
    <3> QED BY <2>3, <2>4, <2>6, <3>2
  <2>7. CASE e[1] # "meta"
    BY <2>1, <2>3, <2>4, <2>5, <2>7, MetaJoined
  <2> QED BY <2>6, <2>7
<1>7. n \in Nat
  BY <1>1
<1>8. n \in N
  <2> HIDE DEF N, n
  <2> QED BY <1>5, <1>6, <1>7, Induct
<1> QED BY <1>4, <1>7, <1>8 DEF es

\* A page whose references are conversations.
NamedPage(page) ==
    page \in PageStates /\ page.address \in Places /\ page.streamOf \in Places

\* An event, of which meta alone refers to a conversation.
LEMMA OnEventNamed ==
    ASSUME sends \in Nat, NEW page, NamedPage(page), NEW e,
           e[1] \in {"meta", "token", "done", "error"}, e[2] \in Values,
           e[1] = "meta" => e[2] \in Pages
    PROVE  NamedPage(OnEvent(page, e))
<1>1. OnEvent(page, e) \in PageStates
  BY OnEventIs DEF NamedPage
<1>2. CASE e[1] = "meta" /\ target = Nowhere
  <2>1. OnEvent(page, e) = [page EXCEPT !.streamOf = e[2], !.address = e[2]]
    BY <1>2 DEF OnEvent
  <2>2. OnEvent(page, e).address = e[2] /\ OnEvent(page, e).streamOf = e[2]
    BY <2>1 DEF NamedPage, PageStates
  <2> QED BY <1>1, <1>2, <2>2 DEF NamedPage, Places
<1>3. CASE ~ (e[1] = "meta" /\ target = Nowhere)
  <2>1. \/ OnEvent(page, e) = page
        \/ OnEvent(page, e) = [page EXCEPT !.thread = WithToken(@, <<sends, e[2]>>)]
        \/ OnEvent(page, e) = [page EXCEPT !.thread = WithStatus(@, e[1])]
    BY <1>3 DEF OnEvent
  <2>2. OnEvent(page, e).address = page.address /\ OnEvent(page, e).streamOf = page.streamOf
    BY <2>1 DEF NamedPage, PageStates
  <2> QED BY <1>1, <2>2 DEF NamedPage
<1> QED BY <1>2, <1>3

\* A block: two events in one are no meta, for that comes first.
LEMMA FlushNamed ==
    ASSUME sends \in Nat, NEW page, NamedPage(page), NEW block \in Seq(Symbols), MetaFirst(block)
    PROVE  NamedPage(FlushBlock(page, block))
<1> DEFINE events == {i \in DOMAIN block : block[i] \notin {CR, LF}}
           last == block[Max(events)]
<1>1. CASE events = {}
  BY <1>1 DEF FlushBlock
<1>2. CASE events # {}
  <2>1. events \in SUBSET (1..Len(block)) /\ Len(block) \in Nat
    OBVIOUS
  <2>2. Max(events) \in events /\ \A i \in events : i <= Max(events)
    <3> HIDE DEF events
    <3> QED BY <1>2, <2>1, MaxOfPositions
  <2>3. last \in Symbols /\ last \notin {CR, LF} /\ Max(events) \in 1..Len(block)
    BY <2>2
  <2>4. last[1] = "meta" => events = {Max(events)} /\ last[2] \in Pages
    <3> SUFFICES ASSUME last[1] = "meta" PROVE events = {Max(events)} /\ last[2] \in Pages
      OBVIOUS
    <3>1. Max(events) = 1 /\ last[2] \in Pages
      BY <2>3 DEF MetaFirst
    <3>2. \A i \in events : i \in 1..Len(block) /\ i <= 1
      <4> HIDE DEF events
      <4> QED BY <2>1, <2>2, <3>1
    <3>3. \A i \in events : i = 1
      <4> HIDE DEF events
      <4> QED BY <3>2
    <3> HIDE DEF events
    <3> QED BY <2>2, <3>1, <3>3
  <2> DEFINE e == IF events = {Max(events)} THEN last ELSE Event(last[1], 0)
  <2>5. FlushBlock(page, block) = OnEvent(page, e)
    BY <1>2 DEF FlushBlock
  <2>6. /\ last[1] \in {"meta", "token", "done", "error"} /\ last[2] \in Values
        /\ 0 \in Values
    <3> HIDE DEF last
    <3> QED BY <2>3, SymbolIs DEF Values
  <2>7. Event(last[1], 0)[1] = last[1] /\ Event(last[1], 0)[2] = 0
    BY EventIs
  <2> HIDE DEF last, events
  <2>8. /\ e[1] \in {"meta", "token", "done", "error"} /\ e[2] \in Values
        /\ e[1] = "meta" => e[2] \in Pages
    <3>1. CASE events = {Max(events)}
      BY <2>4, <2>6, <3>1
    <3>2. CASE events # {Max(events)}
      BY <2>4, <2>6, <2>7, <3>2
    <3> QED BY <3>1, <3>2
  <2> HIDE DEF e
  <2> QED BY <2>5, <2>8, OnEventNamed
<1> QED BY <1>1, <1>2

\* A step of the second loop of push.
LEMMA TakeNamed ==
    ASSUME sends \in Nat, NEW v \in Loops, NamedPage(v.page), MetaFirst(v.rest),
           NEW c \in Symbols, c[1] = "meta" => v.rest = <<>> /\ c[2] \in Pages
    PROVE  NamedPage(Take(v, c).page) /\ MetaFirst(Take(v, c).rest)
<1>1. v.rest \in Seq(Symbols) /\ v = [page |-> v.page, rest |-> v.rest]
  BY DEF Loops
<1>2. CASE c = LF /\ EndsIn(v.rest, LF)
  <2>1. /\ Take(v, c).page = FlushBlock(v.page, v.rest) /\ Take(v, c).rest = <<>>
    BY <1>2 DEF Take
  <2> QED BY <1>1, <2>1, FlushNamed, NothingNamed
<1>3. CASE ~ (c = LF /\ EndsIn(v.rest, LF))
  <2>1. Take(v, c) = [v EXCEPT !.rest = Append(v.rest, c)]
    BY <1>3 DEF Take
  <2>2. Take(v, c).page = v.page /\ Take(v, c).rest = Append(v.rest, c)
    BY <1>1, <2>1
  <2> QED BY <1>1, <2>2, MetaAppended
<1> QED BY <1>2, <1>3

\* The whole loop.
LEMMA PushTextNamed ==
    ASSUME sends \in Nat, NEW page, NamedPage(page), NEW t \in Seq(Symbols), MetaFirst(t)
    PROVE  /\ NamedPage(PushText(page, t).page)
           /\ PushText(page, t).rest \in Seq(Symbols) /\ MetaFirst(PushText(page, t).rest)
<1>0. page \in PageStates
  BY DEF NamedPage
<1>1. PICK F : /\ PushText(page, t) = F[Len(t)] /\ F[0] = [page |-> page, rest |-> <<>>]
               /\ \A k \in 0..(Len(t) - 1) : F[k + 1] = Take(F[k], t[k + 1])
  BY <1>0, TakeGrows
<1> DEFINE n == Len(t)
           Good(v) == v \in Loops /\ NamedPage(v.page) /\ MetaFirst(v.rest)
           N == {k \in Nat : k <= n => Good(F[k])}
<1>2. 0 \in N
  <2>1. F[0] \in Loops /\ F[0].page = page /\ F[0].rest = <<>>
    BY <1>0, <1>1, EmptyIs DEF Loops
  <2> QED BY <2>1, NothingNamed
<1>3. ASSUME NEW k \in Nat, k \in N PROVE k + 1 \in N
  <2> SUFFICES ASSUME k + 1 <= n PROVE Good(F[k + 1])
    OBVIOUS
  <2>1. /\ Good(F[k]) /\ k \in 0..(Len(t) - 1) /\ t[k + 1] \in Symbols /\ k + 1 \in 1..Len(t)
        /\ k + 1 = 1 => k = 0
    BY <1>3
  <2>2. F[k + 1] = Take(F[k], t[k + 1])
    BY <1>1, <2>1
  <2>3. t[k + 1][1] = "meta" => k = 0 /\ t[k + 1][2] \in Pages
    BY <2>1 DEF MetaFirst
  <2>4. k = 0 => F[k].rest = <<>>
    BY <1>1
  <2>5. Take(F[k], t[k + 1]) \in Loops
    BY <2>1, TakeIs
  <2> QED BY <2>1, <2>2, <2>3, <2>4, <2>5, TakeNamed
<1>4. n \in Nat
  OBVIOUS
<1>5. n \in N
  <2> HIDE DEF N, n
  <2> QED BY <1>2, <1>3, <1>4, Induct
<1> QED BY <1>1, <1>4, <1>5 DEF Loops

-----------------------------------------------------------------------------
(* Where the page may be, step by step *)

\* The page's references, what names the next, and the replies that count.
PageLinks ==
    /\ {address, shown, loading, target, streamOf} \subseteq Places
    /\ MetaFirst(buffer)
    /\ NoMeta(wire) \/ (buffer = <<>> /\ MetaFirst(wire))
    /\ loadFailed \in BOOLEAN
    /\ sends <= MaxSends /\ hurt \subseteq 1..sends
    /\ attached \/ request # "none" => sends # 0

\* send ends.
LEMMA EndLinks ==
    ASSUME PageLinks, NEW messages, EndSend(messages), address' \in Places, hurt' = hurt
    PROVE  PageLinks'
<1>1. /\ target' = Nowhere /\ streamOf' = Nowhere /\ wire' = <<>> /\ buffer' = <<>>
      /\ attached' = FALSE /\ request' = "none"
      /\ UNCHANGED <<shown, loading, loadFailed, sends>>
  BY DEF EndSend, EndRequest
<1> QED BY <1>1, NothingNamed DEF PageLinks, Places

\* Another conversation is shown.
LEMMA ShowLinks ==
    ASSUME PageInv, PageLinks, NEW to \in Places, Show(to)
    PROVE  PageLinks'
<1>1. /\ sends' = sends /\ hurt' = hurt /\ shown' = to /\ address' = to /\ loadFailed' = FALSE
      /\ loading' \in {to, Nowhere}
  BY DEF Show
<1>2. CASE UNCHANGED <<request, target, attached, streamOf, wire, buffer>>
  BY <1>1, <1>2 DEF PageLinks, Places
<1>3. CASE EndRequest
  BY <1>1, <1>3, NothingNamed DEF PageLinks, Places, EndRequest
<1>4. CASE attached' = FALSE /\ UNCHANGED <<request, target, streamOf, wire, buffer>>
  BY <1>1, <1>4 DEF PageLinks, Places
<1> QED BY <1>2, <1>3, <1>4 DEF Show, Detach

\* The whole reply is on the wire.
LEMMA AcceptedLinks ==
    ASSUME PageInv, PageLinks, Accepted
    PROVE  PageLinks'
<1>1. buffer = <<>> /\ sends # 0
  <2>1. request \in {"posted", "reposted"}
    BY DEF Accepted, Posted
  <2> QED BY <2>1 DEF PageInv, PageFlow, PageLinks
<1>2. PICK id \in Pages, last \in {"done", "error"}, break \in Breaks :
         wire' = Encode(Answer(id, last), break)
  BY DEF Accepted, Breaks
<1>3. MetaFirst(wire')
  BY <1>2, AnswerMeta
<1>4. UNCHANGED <<address, shown, loading, loadFailed, sends, target, buffer, attached,
                  streamOf, hurt>>
  BY DEF Accepted
<1> QED BY <1>1, <1>3, <1>4 DEF PageLinks

\* A piece is read: what names a conversation is gone from the wire.
LEMMA ReadLinks ==
    ASSUME PageInv, PageLinks, Read
    PROVE  PageLinks'
<1> DEFINE text(n) == buffer \o Unified(SubSeq(wire, 1, n))
           D(n) == PushText(Page, text(n))
<1>1. PICK n \in 1..Min({MaxPiece, Len(wire)}) :
         /\ wire' = SubSeq(wire, n + 1, Len(wire))
         /\ buffer' = D(n).rest
         /\ address' = D(n).page.address /\ streamOf' = D(n).page.streamOf
         /\ hurt' = IF SplitBreak(D(n).rest) THEN hurt \cup {sends} ELSE hurt
  BY DEF Read
<1>2. request = "reading" /\ UNCHANGED <<shown, loading, loadFailed, sends, request, target,
                                         attached>>
  BY DEF Read
<1>3. /\ wire \in Seq(Symbols) /\ buffer \in Seq(Symbols) /\ sends \in Nat
      /\ NamedPage(Page)
  BY DEF PageInv, PageTypes, Page, PageStates, PageLinks, NamedPage
<1>4. n \in 1..Len(wire) /\ n \in 0..Len(wire)
  <2>1. MaxPiece \in Nat /\ Len(wire) \in Nat
    BY <1>3, PageAssumption
  <2>2. Min({MaxPiece, Len(wire)}) \in Nat /\ Min({MaxPiece, Len(wire)}) <= Len(wire)
    BY <2>1, MinOf
  <2> QED BY <2>1, <2>2
<1> DEFINE piece == SubSeq(wire, 1, n)
           rest == SubSeq(wire, n + 1, Len(wire))
           unified == Unified(piece)
<1>5. piece \in Seq(Symbols) /\ unified \in Seq(Symbols)
  <2>1. piece \in Seq(Symbols)
    BY <1>3, <1>4, PartIs
  <2> HIDE DEF piece
  <2> QED BY <2>1, UnifiedIs
<1>6. /\ MetaFirst(wire) => MetaFirst(piece) /\ NoMeta(rest)
      /\ NoMeta(wire) => NoMeta(piece) /\ NoMeta(rest)
  BY <1>3, <1>4, MetaParts
<1> HIDE DEF rest
<1>7. (MetaFirst(piece) => MetaFirst(unified)) /\ (NoMeta(piece) => NoMeta(unified))
  <2> HIDE DEF piece
  <2> QED BY <1>5, UnifiedMeta
<1>8. NoMeta(rest) /\ buffer \o unified \in Seq(Symbols) /\ MetaFirst(buffer \o unified)
  <2> HIDE DEF unified, piece
  <2>1. buffer \o unified \in Seq(Symbols)
    BY <1>3, <1>5, JoinIs
  <2>2. CASE NoMeta(wire)
    BY <1>3, <1>5, <1>6, <1>7, <2>1, <2>2, MetaJoined DEF PageLinks
  <2>3. CASE buffer = <<>> /\ MetaFirst(wire)
    <3>1. buffer \o unified = unified
      BY <1>5, <2>3
    <3> QED BY <1>6, <1>7, <2>1, <2>3, <3>1
  <2> QED BY <2>2, <2>3 DEF PageLinks
<1> DEFINE whole == buffer \o unified
           d == PushText(Page, whole)
<1>9. D(n) = d
  OBVIOUS
<1>10. NamedPage(d.page) /\ MetaFirst(d.rest)
  <2>1. whole \in Seq(Symbols) /\ MetaFirst(whole)
    BY <1>8
  <2> HIDE DEF whole
  <2> QED BY <1>3, <2>1, PushTextNamed
<1> HIDE DEF d
<1>11. /\ wire' = rest /\ buffer' = d.rest /\ address' = d.page.address
       /\ streamOf' = d.page.streamOf
       /\ hurt' \in {hurt, hurt \cup {sends}}
  BY <1>1, <1>9 DEF rest
<1>12. hurt' \subseteq 1..sends /\ sends # 0
  <2>1. sends # 0 /\ hurt \subseteq 1..sends
    BY <1>2 DEF PageLinks
  <2>2. sends \in 1..sends
    BY <1>3, <2>1
  <2> QED BY <1>11, <2>1, <2>2
<1> QED BY <1>2, <1>8, <1>10, <1>11, <1>12 DEF PageLinks, NamedPage

\* The body ends, and the parser flushes what it holds.
LEMMA EndOfBodyLinks ==
    ASSUME PageInv, PageLinks, EndOfBody
    PROVE  PageLinks'
<1> DEFINE page == FlushBlock(Page, buffer)
<1>1. address' = page.address /\ hurt' = hurt /\ \E messages : EndSend(messages)
  BY DEF EndOfBody
<1>2. /\ buffer \in Seq(Symbols) /\ sends \in Nat /\ NamedPage(Page)
  BY DEF PageInv, PageTypes, Page, PageStates, PageLinks, NamedPage
<1>3. NamedPage(page)
  BY <1>2, FlushNamed DEF PageLinks
<1> HIDE DEF page
<1> QED BY <1>1, <1>3, EndLinks DEF NamedPage

\* Every step keeps the references, one case per action.
LEMMA PageLinksStep ==
    ASSUME PageInv, PageLinks, [PageNext]_pageVars
    PROVE  PageLinks'
<1>0. /\ sends \in Nat /\ address \in Places /\ shown \in Places
      /\ attached \in BOOLEAN /\ MaxSends \in Nat
  BY PageAssumption DEF PageInv, PageTypes, PageLinks
<1>1. ASSUME NEW to \in Pages \cup {Nowhere}, Navigate(to) PROVE PageLinks'
  <2>1. to \in Places /\ Show(to)
    BY <1>1 DEF Navigate, Places
  <2> QED BY <2>1, ShowLinks
<1>2. CASE Render
  BY <1>0, <1>2, ShowLinks DEF Render
<1>3. CASE LoadLands
  <2>1. /\ hurt' = IF attached THEN hurt \cup {sends} ELSE hurt
        /\ loading' = Nowhere
        /\ UNCHANGED <<address, shown, loadFailed, requestVars, attached, streamOf>>
    BY <1>3 DEF LoadLands
  <2>2. attached => sends \in 1..sends
    BY <1>0 DEF PageLinks
  <2>3. hurt' \subseteq 1..sends
    BY <2>1, <2>2 DEF PageLinks
  <2> QED BY <2>1, <2>3 DEF PageLinks, Places, requestVars
<1>4. CASE LoadFails
  BY <1>4 DEF LoadFails, PageLinks, Places, requestVars
<1>5. CASE Send
  <2>1. /\ sends' = sends + 1 /\ sends < MaxSends
        /\ target' = shown /\ streamOf' = shown
        /\ UNCHANGED <<address, shown, loading, loadFailed, wire, buffer, hurt>>
    BY <1>5 DEF Send
  <2>2. sends' <= MaxSends /\ sends' # 0 /\ 1..sends \subseteq 1..sends'
    BY <1>0, <2>1
  <2> QED BY <2>1, <2>2 DEF PageLinks
<1>6. CASE Stop
  <2>1. address' = address /\ hurt' = hurt
    BY <1>6 DEF Stop
  <2>2. CASE request = "refreshing"
    BY <1>6, <2>1, <2>2 DEF Stop, PageLinks
  <2>3. CASE request # "refreshing"
    <3>1. EndSend(WithStatus(thread, "cancelled"))
      BY <1>6, <2>3 DEF Stop
    <3> QED BY <1>0, <2>1, <3>1, EndLinks
  <2> QED BY <2>2, <2>3
<1>7. CASE Unauthorized
  BY <1>7 DEF Unauthorized, PageLinks
<1>8. CASE Refreshed
  <2>1. address' = address /\ hurt' = hurt
    BY <1>8 DEF Refreshed
  <2>2. CASE aborted
    <3>1. EndSend(WithStatus(thread, "cancelled"))
      BY <1>8, <2>2 DEF Refreshed
    <3> QED BY <1>0, <2>1, <3>1, EndLinks
  <2>3. CASE ~ aborted
    BY <1>8, <2>1, <2>3 DEF Refreshed, PageLinks
  <2> QED BY <2>2, <2>3
<1>9. CASE Refused
  <2>1. address' = address /\ hurt' = hurt /\ \E messages : EndSend(messages)
    BY <1>9 DEF Refused
  <2> QED BY <1>0, <2>1, EndLinks
<1>10. CASE NetworkError
  <2>1. address' = address /\ hurt' = hurt /\ EndSend(WithStatus(thread, "error"))
    BY <1>10 DEF NetworkError
  <2> QED BY <1>0, <2>1, EndLinks
<1>11. CASE UNCHANGED pageVars
  BY <1>11 DEF pageVars, requestVars, PageLinks
<1> QED BY <1>1, <1>2, <1>3, <1>4, <1>5, <1>6, <1>7, <1>8, <1>9, <1>10, <1>11,
           AcceptedLinks, ReadLinks, EndOfBodyLinks DEF PageNext

\* However a reply is cut into pieces: the page's address, and the
\* conversations it shows, loads and streams into are conversations, or none
\* (not the rest of an event that the parser took apart); a reply is hurt
\* only after it was asked for.
THEOREM PageTyped == PageSpec => []PageTypeOK
<1>1. PageInit => PageInv /\ PageLinks
  <2> SUFFICES ASSUME PageInit PROVE PageLinks
    BY PageStarts
  <2>1. /\ wire = <<>> /\ buffer = <<>> /\ hurt = {} /\ sends = 0
        /\ attached = FALSE /\ request = "none" /\ loadFailed = FALSE
        /\ {address, shown, loading, target, streamOf} \subseteq Places
    BY DEF PageInit, Places
  <2>2. sends <= MaxSends
    BY <2>1, PageAssumption
  <2> QED BY <2>1, <2>2, NothingNamed DEF PageLinks
<1>2. PageInv /\ PageLinks /\ [PageNext]_pageVars => (PageInv /\ PageLinks)'
  BY PageSteps, PageLinksStep
<1>3. PageInv /\ PageLinks => PageTypeOK
  <2> SUFFICES ASSUME PageInv, PageLinks PROVE PageTypeOK
    OBVIOUS
  <2>1. sends \in 0..MaxSends
    BY PageAssumption DEF PageInv, PageTypes, PageLinks
  <2>2. \A i \in DOMAIN thread : thread[i].status \in Statuses
    <3>1. \A m \in PageMessages : m.status \in Statuses
      BY DEF PageMessages
    <3> QED BY <3>1 DEF PageInv, PageTypes
  <2> QED BY <2>1, <2>2 DEF PageTypeOK, PageInv, PageTypes, PageLinks, Places, Statuses
<1> QED BY <1>1, <1>2, <1>3, PTL DEF PageSpec

=============================================================================
