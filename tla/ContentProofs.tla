---------------------------- MODULE ContentProofs ----------------------------
(***************************************************************************)
(* Proofs about the contents of a run: Conversations, for every set of     *)
(* conversations and of chats and every length of the history (a model is  *)
(* given a context that its provider accepts), and ProviderStream, for     *)
(* every number of calls, fragments and pieces of text (the runner is      *)
(* given the calls that the model made).                                   *)
(***************************************************************************)
EXTENDS Conversations, ProviderStream, DataLemmas, TLAPS

-----------------------------------------------------------------------------
(* Rows are kept in their order: Filter is defined by recursion *)

Kept(v, r, S) == IF r \in S THEN Append(v, r) ELSE v

\* The rows that are kept are rows of the set.
LEMMA FilterIs ==
    ASSUME NEW T, NEW rows \in Seq(T), NEW S, S \subseteq T
    PROVE  Filter(rows, S) \in Seq(S)
<1> DEFINE n == Len(rows)
           V == Seq(S)
           step == [i \in 1..n |-> [v \in V |-> Kept(v, rows[i], S)]]
           keeps(G) == G = [k \in 0..n |->
                    IF k = 0 THEN <<>> ELSE Kept(G[k - 1], rows[k], S)]
           F == CHOOSE G : keeps(G)
<1>1. Filter(rows, S) = F[n]
  BY DEF Filter, Kept
<1>2. n \in Nat
  OBVIOUS
<1>3. ASSUME NEW v \in V, NEW r PROVE Kept(v, r, S) \in V
  BY DEF Kept
<1>4. <<>> \in V
  OBVIOUS
<1> HIDE DEF n, V
<1>5. \E G : keeps(G)
  <2>1. step \in [1..n -> [V -> V]]
    BY <1>3
  <2>2. PICK G : IsRecursion(G, V, <<>>, step, n)
    <3> HIDE DEF step
    <3> QED BY <1>2, <1>4, <2>1, RecursionExists
  <2>3. ASSUME NEW k \in 0..n
        PROVE  G[k] = IF k = 0 THEN <<>> ELSE Kept(G[k - 1], rows[k], S)
    <3>1. CASE k = 0
      BY <2>2, <3>1 DEF IsRecursion
    <3>2. CASE k # 0
      <4>1. k \in 1..n /\ k - 1 \in 0..n
        BY <1>2, <3>2
      <4>2. G[k] = step[k][G[k - 1]] /\ G[k - 1] \in V
        BY <2>2, <4>1 DEF IsRecursion
      <4> QED BY <3>2, <4>1, <4>2
    <3> QED BY <3>1, <3>2
  <2>4. keeps(G)
    <3>1. G = [k \in 0..n |-> G[k]]
      BY <2>2 DEF IsRecursion
    <3> QED BY <2>3, <3>1
  <2> QED BY <2>4
<1>6. keeps(F)
  <2> HIDE DEF keeps
  <2> QED BY <1>5
<1>7. ASSUME NEW k \in 0..n
      PROVE  F[k] = IF k = 0 THEN <<>> ELSE Kept(F[k - 1], rows[k], S)
  <2> HIDE DEF F
  <2> QED BY <1>6
<1> HIDE DEF F
<1> DEFINE N == {k \in Nat : k <= n => F[k] \in V}
<1>8. 0 \in N
  BY <1>2, <1>4, <1>7
<1>9. ASSUME NEW k \in Nat, k \in N PROVE k + 1 \in N
  <2> SUFFICES ASSUME k + 1 <= n PROVE F[k + 1] \in V
    OBVIOUS
  <2>1. F[k] \in V
    BY <1>2, <1>9
  <2>2. k + 1 \in 0..n /\ k + 1 # 0 /\ (k + 1) - 1 = k
    BY <1>2
  <2>3. F[k + 1] = Kept(F[k], rows[k + 1], S)
    BY <1>7, <2>2
  <2> QED BY <1>3, <2>1, <2>3
<1>10. n \in N
  <2> HIDE DEF N
  <2> QED BY <1>2, <1>8, <1>9, Induct
<1> QED BY <1>1, <1>2, <1>10 DEF V

-----------------------------------------------------------------------------
(* Turns: what the Anthropic adapter makes of the messages so far *)

\* Messages that a run may hold, and turns of them.
Messages == [role : {"user", "assistant", "tool"}, content : {"words", "spaces", ""},
             calls : BOOLEAN]
BlockNames == {"text", "tool_use", "tool_result"}
Turns == [role : {"user", "assistant"}, blocks : Seq(BlockNames)]

\* A message of the conversation: what recent_history returns.
PlainMessages == {m \in Messages : m.role # "tool" /\ m.content = "words" /\ m.calls = FALSE}

\* The blocks of one message, and the side of the conversation it goes to.
LEMMA BlocksAre ==
    ASSUME NEW m \in Messages
    PROVE  /\ Blocks(m) \in Seq(BlockNames) /\ Side(m) \in {"user", "assistant"}
           /\ m \in PlainMessages => Blocks(m) = <<"text">> /\ Side(m) = m.role
<1>1. Side(m) \in {"user", "assistant"}
  BY DEF Side
<1>2. CASE m.role = "tool"
  <2>1. Blocks(m) = <<"tool_result">>
    BY <1>2 DEF Blocks
  <2> QED BY <1>1, <1>2, <2>1 DEF PlainMessages, BlockNames
<1>3. CASE m.role = "assistant"
  <2>1. Blocks(m) = (IF Blank(m.content) THEN <<>> ELSE <<"text">>)
                    \o (IF m.calls THEN <<"tool_use">> ELSE <<>>)
    BY <1>3 DEF Blocks
  <2>2. Blocks(m) \in Seq(BlockNames)
    <3>1. /\ (IF Blank(m.content) THEN <<>> ELSE <<"text">>) \in Seq(BlockNames)
          /\ (IF m.calls THEN <<"tool_use">> ELSE <<>>) \in Seq(BlockNames)
      <4>1. /\ <<>> \in Seq(BlockNames) /\ <<"text">> \in Seq(BlockNames)
            /\ <<"tool_use">> \in Seq(BlockNames)
        BY DEF BlockNames
      <4> QED BY <4>1, Zenon
    <3> QED BY <2>1, <3>1
  <2>3. ASSUME m \in PlainMessages PROVE Blocks(m) = <<"text">>
    <3>1. ~ Blank(m.content) /\ m.calls = FALSE
      BY <2>3 DEF PlainMessages, Blank
    <3>2. Blocks(m) = <<"text">> \o <<>>
      BY <2>1, <3>1
    <3> QED BY <3>2
  <2> QED BY <1>1, <1>3, <2>2, <2>3 DEF Side
<1>4. CASE m.role = "user"
  <2>1. Blocks(m) = IF Blank(m.content) THEN <<>> ELSE <<"text">>
    BY <1>4 DEF Blocks
  <2>2. <<>> \in Seq(BlockNames) /\ <<"text">> \in Seq(BlockNames)
    BY DEF BlockNames
  <2>3. Blocks(m) \in Seq(BlockNames)
    BY <2>1, <2>2
  <2>4. Side(m) = "user"
    BY <1>4 DEF Side
  <2>5. m \in PlainMessages => Blocks(m) = <<"text">>
    BY <2>1 DEF PlainMessages, Blank
  <2> QED BY <1>1, <1>4, <2>3, <2>4, <2>5
<1> QED BY <1>2, <1>3, <1>4 DEF Messages

\* A push leaves the earlier turns alone and gives turns.
LEMMA PushIs ==
    ASSUME NEW turns \in Seq(Turns), NEW m \in Messages
    PROVE  /\ Push(turns, m) \in Seq(Turns)
           /\ Blocks(m) = <<>> => Push(turns, m) = turns
           /\ Blocks(m) # <<>> /\ (turns = <<>> \/ Last(turns).role # Side(m)) =>
                 Push(turns, m) = Append(turns, Turn(Side(m), Blocks(m)))
           /\ Blocks(m) # <<>> /\ turns # <<>> /\ Last(turns).role = Side(m) =>
                 /\ Len(Push(turns, m)) = Len(turns)
                 /\ \A n \in 1..(Len(turns) - 1) : Push(turns, m)[n] = turns[n]
                 /\ Push(turns, m)[Len(turns)].role = Side(m)
                 /\ Push(turns, m)[Len(turns)].blocks = turns[Len(turns)].blocks \o Blocks(m)
<1>1. Blocks(m) \in Seq(BlockNames) /\ Side(m) \in {"user", "assistant"}
  BY BlocksAre
<1>2. CASE Blocks(m) = <<>>
  BY <1>2 DEF Push
<1>3. CASE Blocks(m) # <<>> /\ (turns = <<>> \/ Last(turns).role # Side(m))
  <2>1. Push(turns, m) = Append(turns, Turn(Side(m), Blocks(m)))
    BY <1>3 DEF Push
  <2>2. Turn(Side(m), Blocks(m)) \in Turns
    BY <1>1 DEF Turn, Turns
  <2> QED BY <1>3, <2>1, <2>2
<1>4. CASE Blocks(m) # <<>> /\ turns # <<>> /\ Last(turns).role = Side(m)
  <2> DEFINE n == Len(turns)
             turn == [turns[n] EXCEPT !.blocks = turns[n].blocks \o Blocks(m)]
  <2>1. Push(turns, m) = [turns EXCEPT ![n] = turn]
    BY <1>4 DEF Push
  <2>2. n \in 1..Len(turns) /\ turns[n] \in Turns /\ turns[n].role = Side(m)
    BY <1>4 DEF Last
  <2>3. turn \in Turns /\ turn.role = Side(m) /\ turn.blocks = turns[n].blocks \o Blocks(m)
    <3>1. turns[n].blocks \o Blocks(m) \in Seq(BlockNames)
      BY <1>1, <2>2 DEF Turns
    <3> QED BY <1>1, <2>2, <3>1 DEF Turns
  <2> HIDE DEF turn
  <2>4. /\ [turns EXCEPT ![n] = turn] \in Seq(Turns)
        /\ Len([turns EXCEPT ![n] = turn]) = Len(turns)
        /\ [turns EXCEPT ![n] = turn][n] = turn
        /\ \A i \in 1..(n - 1) : [turns EXCEPT ![n] = turn][i] = turns[i]
    BY <2>2, <2>3
  <2> QED BY <1>4, <2>1, <2>3, <2>4
<1> QED BY <1>2, <1>3, <1>4

\* The turns after each of the messages.
LEMMA TurnsGrow ==
    ASSUME NEW ms \in Seq(Messages)
    PROVE  \E F : /\ FoldLeft(Push, <<>>, ms) = F[Len(ms)]
                  /\ F[0] = <<>>
                  /\ \A k \in 0..(Len(ms) - 1) : F[k + 1] = Push(F[k], ms[k + 1])
<1> DEFINE n == Len(ms)
           V == Seq(Turns)
           F == CHOOSE G : G = [s \in SUBSET DOMAIN ms |->
                    IF s = {} THEN <<>>
                    ELSE LET x == Max(s) IN Push(G[s \ {x}], ms[x])]
           step == [i \in 1..n |-> [v \in V |-> Push(v, ms[i])]]
           folds(G) == G = [s \in SUBSET (1..n) |->
                    IF s = {} THEN <<>> ELSE Push(G[s \ {Max(s)}], ms[Max(s)])]
<1>1. FoldLeft(Push, <<>>, ms) = F[DOMAIN ms]
  BY DEF FoldLeft, MapThenFoldSet
<1>2. n \in Nat /\ DOMAIN ms = 1..n
  OBVIOUS
<1>3. F = CHOOSE G : folds(G)
  BY <1>2
<1>4. ASSUME NEW v \in V, NEW i \in 1..n PROVE Push(v, ms[i]) \in V
  <2>1. v \in Seq(Turns) /\ ms[i] \in Messages
    OBVIOUS
  <2> QED BY <2>1, PushIs
<1>5. <<>> \in V
  OBVIOUS
<1> HIDE DEF F, n, V
<1>6. \E G : IsFold(G, V, <<>>, step, n)
  <2>1. step \in [1..n -> [V -> V]]
    BY <1>4
  <2> HIDE DEF step
  <2> QED BY <1>2, <1>5, <2>1, FoldExists
<1>7. \E G : folds(G)
  <2>1. PICK G : IsFold(G, V, <<>>, step, n)
    BY <1>6
  <2>2. ASSUME NEW s \in SUBSET (1..n), s # {}
        PROVE  G[s] = Push(G[s \ {Max(s)}], ms[Max(s)])
    <3>1. Max(s) \in 1..n
      BY <1>2, <2>2, MaxOfPositions
    <3>2. G[s \ {Max(s)}] \in V
      BY <2>1 DEF IsFold
    <3>3. G[s] = step[Max(s)][G[s \ {Max(s)}]]
      BY <2>1, <2>2 DEF IsFold
    <3> QED BY <3>1, <3>2, <3>3
  <2>3. G = [s \in SUBSET (1..n) |-> G[s]] /\ G[{}] = <<>>
    BY <2>1 DEF IsFold
  <2>4. folds(G)
    BY <2>2, <2>3
  <2> QED BY <2>4
<1>8. folds(F)
  BY <1>3, <1>7
<1>9. F[1..0] = <<>>
  <2>1. 1..0 = {} /\ {} \in SUBSET (1..n)
    OBVIOUS
  <2> QED BY <1>8, <2>1
<1>10. ASSUME NEW k \in 0..(n - 1)
       PROVE  F[1..(k + 1)] = Push(F[1..k], ms[k + 1])
  <2>1. 1..(k + 1) \in SUBSET (1..n) /\ 1..(k + 1) # {}
        /\ Max(1..(k + 1)) = k + 1 /\ (1..(k + 1)) \ {k + 1} = 1..k
    <3>1. k \in Nat /\ k + 1 <= n
      BY <1>2
    <3> QED BY <1>2, <3>1, LastPosition
  <2>2. \A s \in SUBSET (1..n) :
            s # {} => F[s] = Push(F[s \ {Max(s)}], ms[Max(s)])
    BY <1>8
  <2> HIDE DEF folds
  <2> QED BY <2>1, <2>2
<1> HIDE DEF folds
<1> DEFINE f == [k \in 0..n |-> F[1..k]]
<1>11. f[0] = <<>> /\ f[n] = F[DOMAIN ms]
  BY <1>2, <1>9
<1>12. \A k \in 0..(n - 1) : f[k + 1] = Push(f[k], ms[k + 1])
  <2> SUFFICES ASSUME NEW k \in 0..(n - 1) PROVE f[k + 1] = Push(f[k], ms[k + 1])
    OBVIOUS
  <2>1. k \in 0..n /\ k + 1 \in 0..n
    BY <1>2
  <2> QED BY <1>10, <2>1
<1> HIDE DEF f
<1> QED BY <1>1, <1>11, <1>12 DEF n

\* Neighbouring turns have different roles.
Alternate(turns) ==
    \A n \in 1..(Len(turns) - 1) : turns[n + 1].role # turns[n].role

\* Turns that hold nothing but text, and some.
TextOnly(turns) ==
    \A n \in 1..Len(turns) :
        /\ turns[n].blocks # <<>>
        /\ \A i \in 1..Len(turns[n].blocks) : turns[n].blocks[i] = "text"

\* Turns that the provider accepts once they are trimmed.
Wire(turns) ==
    /\ turns \in Seq(Turns) /\ turns # <<>> /\ Alternate(turns)
    /\ turns[Len(turns)].role = "user"
    /\ "tool_use" \notin Range(turns[Len(turns)].blocks)
    /\ \A n \in 1..Len(turns) : turns[n].blocks # <<>>
    /\ \A n \in 1..(Len(turns) - 1) :
          "tool_use" \in Range(turns[n].blocks) <=> turns[n + 1].blocks[1] = "tool_result"
    /\ \E k \in 1..Len(turns) :
          /\ turns[k].role = "user" /\ turns[k].blocks[1] = "text"
          /\ \A j \in 1..(k - 1) : turns[j].role # "user"

\* The messages of a conversation become turns of text that alternate.
LEMMA PlainPushed ==
    ASSUME NEW turns \in Seq(Turns), Alternate(turns), TextOnly(turns), NEW m \in PlainMessages
    PROVE  /\ Push(turns, m) \in Seq(Turns)
           /\ Alternate(Push(turns, m)) /\ TextOnly(Push(turns, m))
           /\ Push(turns, m) # <<>>
           /\ Push(turns, m)[Len(Push(turns, m))].role = m.role
<1> DEFINE p == Push(turns, m)
           L == Len(turns)
<1>0. m \in Messages /\ L \in Nat
  BY DEF PlainMessages
<1>1. Blocks(m) = <<"text">> /\ Side(m) = m.role /\ Blocks(m) # <<>>
  <2>1. Blocks(m) = <<"text">> /\ Side(m) = m.role
    BY <1>0, BlocksAre
  <2>2. <<"text">> # <<>>
    OBVIOUS
  <2> QED BY <2>1, <2>2
<1>2. p \in Seq(Turns)
  BY <1>0, PushIs
<1>3. CASE turns = <<>> \/ Last(turns).role # Side(m)
  <2>1. p = Append(turns, Turn(m.role, <<"text">>))
    <3>1. Push(turns, m) = Append(turns, Turn(Side(m), Blocks(m)))
      BY <1>0, <1>1, <1>3, PushIs
    <3> QED BY <1>1, <3>1
  <2> DEFINE t == Turn(m.role, <<"text">>)
  <2>2. t.role = m.role /\ t.blocks = <<"text">>
    BY DEF Turn
  <2> HIDE DEF t
  <2>3. Len(p) = L + 1 /\ p[L + 1] = t /\ \A n \in 1..L : p[n] = turns[n]
    BY <2>1 DEF t
  <2> HIDE DEF p
  <2>4. Alternate(p)
    <3> SUFFICES ASSUME NEW n \in 1..(Len(p) - 1) PROVE p[n + 1].role # p[n].role
      BY DEF Alternate
    <3>1. CASE n < L
      <4>1. n \in 1..L /\ n + 1 \in 1..L /\ n \in 1..(L - 1)
        BY <1>0, <3>1
      <4> QED BY <2>3, <4>1 DEF Alternate
    <3>2. CASE n = L
      <4>1. turns # <<>> /\ L \in 1..L
        BY <1>0, <3>2
      <4> QED BY <1>1, <1>3, <2>2, <2>3, <3>2, <4>1 DEF Last
    <3> QED BY <1>0, <2>3, <3>1, <3>2
  <2>5. TextOnly(p)
    <3> SUFFICES ASSUME NEW n \in 1..Len(p)
                 PROVE  /\ p[n].blocks # <<>>
                        /\ \A i \in 1..Len(p[n].blocks) : p[n].blocks[i] = "text"
      BY DEF TextOnly
    <3>1. CASE n \in 1..L
      BY <2>3, <3>1 DEF TextOnly
    <3>2. CASE n = L + 1
      <4>1. p[n].blocks = <<"text">>
        BY <2>2, <2>3, <3>2
      <4>2. <<"text">> # <<>> /\ \A i \in 1..Len(<<"text">>) : <<"text">>[i] = "text"
        OBVIOUS
      <4> QED BY <4>1, <4>2
    <3> QED BY <1>0, <2>3, <3>1, <3>2
  <2>6. p # <<>> /\ p[Len(p)].role = m.role
    BY <1>0, <2>2, <2>3
  <2> QED BY <1>2, <2>4, <2>5, <2>6 DEF p
<1>4. CASE turns # <<>> /\ Last(turns).role = Side(m)
  <2>1. /\ Len(p) = L /\ \A n \in 1..(L - 1) : p[n] = turns[n]
        /\ p[L].role = m.role /\ p[L].blocks = turns[L].blocks \o <<"text">>
    BY <1>0, <1>1, <1>4, PushIs
  <2>2. L \in 1..L /\ turns[L].role = m.role /\ turns[L].blocks \in Seq(BlockNames)
    <3>1. L \in 1..L /\ turns[L] \in Turns
      BY <1>0, <1>4
    <3> QED BY <1>1, <1>4, <3>1 DEF Last, Turns
  <2> HIDE DEF p
  <2>3. ASSUME NEW n \in 1..L PROVE p[n].role = turns[n].role
    <3>1. n = L \/ n \in 1..(L - 1)
      BY <1>0
    <3> QED BY <2>1, <2>2, <3>1
  <2>4. Alternate(p)
    <3> SUFFICES ASSUME NEW n \in 1..(L - 1) PROVE p[n + 1].role # p[n].role
      BY <2>1 DEF Alternate
    <3>1. n \in 1..L /\ n + 1 \in 1..L
      BY <1>0
    <3> QED BY <2>3, <3>1 DEF Alternate
  <2>5. TextOnly(p)
    <3> SUFFICES ASSUME NEW n \in 1..L
                 PROVE  /\ p[n].blocks # <<>>
                        /\ \A i \in 1..Len(p[n].blocks) : p[n].blocks[i] = "text"
      BY <2>1 DEF TextOnly
    <3>1. CASE n = L
      <4> DEFINE b == turns[L].blocks
      <4>1. b \in Seq(BlockNames) /\ \A i \in 1..Len(b) : b[i] = "text"
        BY <2>2 DEF TextOnly
      <4> HIDE DEF b
      <4>2. /\ Len(b \o <<"text">>) = Len(b) + 1 /\ (b \o <<"text">>)[Len(b) + 1] = "text"
            /\ \A i \in 1..Len(b) : (b \o <<"text">>)[i] = b[i]
            /\ b \o <<"text">> # <<>>
        BY <4>1
      <4>3. \A i \in 1..(Len(b) + 1) : (b \o <<"text">>)[i] = "text"
        <5>1. \A i \in 1..(Len(b) + 1) : i \in 1..Len(b) \/ i = Len(b) + 1
          BY <4>1
        <5> QED BY <4>1, <4>2, <5>1
      <4> QED BY <2>1, <3>1, <4>2, <4>3 DEF b
    <3>2. CASE n \in 1..(L - 1)
      BY <2>1, <3>2 DEF TextOnly
    <3> QED BY <1>0, <3>1, <3>2
  <2>6. p # <<>> /\ p[Len(p)].role = m.role
    BY <1>0, <2>1, <2>2
  <2> QED BY <1>2, <2>4, <2>5, <2>6 DEF p
<1> QED BY <1>3, <1>4

\* Turns of text that end with the user's.
LEMMA TextIsWire ==
    ASSUME NEW turns \in Seq(Turns), Alternate(turns), TextOnly(turns),
           turns # <<>>, turns[Len(turns)].role = "user"
    PROVE  Wire(turns)
<1> DEFINE L == Len(turns)
<1>1. L \in Nat /\ L > 0 /\ L \in 1..L
  OBVIOUS
<1>2. ASSUME NEW n \in 1..L
      PROVE  /\ turns[n].blocks[1] = "text" /\ turns[n].blocks # <<>>
             /\ "tool_use" \notin Range(turns[n].blocks)
             /\ turns[n].role \in {"user", "assistant"}
  <2>1. turns[n].blocks \in Seq(BlockNames) /\ turns[n].role \in {"user", "assistant"}
    <3>1. turns[n] \in Turns
      OBVIOUS
    <3> QED BY <3>1 DEF Turns
  <2>2. /\ turns[n].blocks # <<>>
        /\ \A i \in 1..Len(turns[n].blocks) : turns[n].blocks[i] = "text"
    BY DEF TextOnly
  <2> DEFINE b == turns[n].blocks
  <2> HIDE DEF b
  <2>3. b \in Seq(BlockNames) /\ b # <<>> /\ \A i \in 1..Len(b) : b[i] = "text"
    BY <2>1, <2>2 DEF b
  <2>4. b[1] = "text" /\ "tool_use" \notin Range(b)
    BY <2>3 DEF Range
  <2> QED BY <2>1, <2>3, <2>4 DEF b
<1>3. \E k \in 1..L :
          /\ turns[k].role = "user" /\ turns[k].blocks[1] = "text"
          /\ \A j \in 1..(k - 1) : turns[j].role # "user"
  <2>1. CASE turns[1].role = "user"
    <3>1. 1 \in 1..L /\ 1..(1 - 1) = {}
      BY <1>1
    <3> QED BY <1>2, <2>1, <3>1
  <2>2. CASE turns[1].role # "user"
    <3>1. L > 1
      BY <1>1, <2>2
    <3>2. 1 \in 1..(L - 1) /\ 1 \in 1..L /\ 2 \in 1..L /\ 1..(2 - 1) = {1}
      BY <1>1, <3>1
    <3>3. turns[1 + 1].role # turns[1].role
      BY <3>2 DEF Alternate
    <3>4. turns[2].role = "user"
      BY <1>2, <2>2, <3>2, <3>3
    <3> QED BY <1>2, <2>2, <3>2, <3>4
  <2> QED BY <2>1, <2>2
<1>4. ASSUME NEW n \in 1..(L - 1)
      PROVE  "tool_use" \in Range(turns[n].blocks) <=> turns[n + 1].blocks[1] = "tool_result"
  <2>1. n \in 1..L /\ n + 1 \in 1..L
    BY <1>1
  <2>2. "tool_use" \notin Range(turns[n].blocks) /\ turns[n + 1].blocks[1] = "text"
    BY <1>2, <2>1
  <2> QED BY <2>2
<1> QED BY <1>1, <1>2, <1>3, <1>4 DEF Wire


\* The block lists a tool round is made of.
LEMMA SomeBlocks ==
    /\ <<"text">> \in Seq(BlockNames) /\ <<"tool_use">> \in Seq(BlockNames)
    /\ <<"tool_result">> \in Seq(BlockNames) /\ <<>> \in Seq(BlockNames)
    /\ <<"tool_result">> # <<>> /\ <<"tool_result">>[1] = "tool_result"
    /\ "tool_use" \notin Range(<<"tool_result">>)
<1>1. /\ <<"text">> \in Seq(BlockNames) /\ <<"tool_use">> \in Seq(BlockNames)
      /\ <<"tool_result">> \in Seq(BlockNames) /\ <<>> \in Seq(BlockNames)
  BY DEF BlockNames
<1>2. <<"tool_result">> # <<>> /\ <<"tool_result">>[1] = "tool_result"
  OBVIOUS
<1>3. DOMAIN <<"tool_result">> = {1}
  OBVIOUS
<1>4. "tool_use" \notin Range(<<"tool_result">>)
  BY <1>2, <1>3 DEF Range
<1> QED BY <1>1, <1>2, <1>4

\* What a call begins with, and that it has a call.
LEMMA CallBlocks ==
    ASSUME NEW b, b \in {<<>>, <<"text">>}
    PROVE  /\ b \o <<"tool_use">> \in Seq(BlockNames) /\ b \o <<"tool_use">> # <<>>
           /\ "tool_use" \in Range(b \o <<"tool_use">>)
           /\ (b \o <<"tool_use">>)[1] # "tool_result"
<1>1. b \in Seq(BlockNames) /\ <<"tool_use">> \in Seq(BlockNames)
  BY SomeBlocks
<1>2. Len(<<"tool_use">>) = 1 /\ <<"tool_use">>[1] = "tool_use"
  OBVIOUS
<1>3. /\ b \o <<"tool_use">> \in Seq(BlockNames)
      /\ Len(b \o <<"tool_use">>) = Len(b) + 1
      /\ \A i \in 1..Len(b) : (b \o <<"tool_use">>)[i] = b[i]
      /\ (b \o <<"tool_use">>)[Len(b) + 1] = "tool_use"
  BY <1>1, <1>2, JoinIs
<1>4. "tool_use" \in Range(b \o <<"tool_use">>)
  <2>1. Len(b) + 1 \in 1..Len(b \o <<"tool_use">>)
    BY <1>1, <1>3
  <2> QED BY <1>3, <2>1, RangeHas
<1>5. (b \o <<"tool_use">>)[1] # "tool_result"
  <2>1. CASE b = <<>>
    BY <1>3, <2>1
  <2>2. CASE b = <<"text">>
    <3>1. Len(b) = 1 /\ b[1] = "text"
      BY <2>2
    <3>2. (b \o <<"tool_use">>)[1] = b[1]
      BY <1>3, <3>1
    <3> QED BY <3>1, <3>2
  <2> QED BY <2>1, <2>2
<1>6. b \o <<"tool_use">> # <<>>
  BY <1>1, <1>3
<1> QED BY <1>3, <1>4, <1>5, <1>6

\* A round of calls and results, behind turns that end with the user's.
LEMMA RoundAdded ==
    ASSUME NEW turns, Wire(turns),
           NEW t \in Turns, t.role = "assistant", t.blocks # <<>>,
           "tool_use" \in Range(t.blocks), t.blocks[1] # "tool_result",
           NEW u \in Turns, u.role = "user", u.blocks = <<"tool_result">>
    PROVE  Wire(Append(Append(turns, t), u))
<1> DEFINE L == Len(turns)
           q == Append(Append(turns, t), u)
<1>0. turns \in Seq(Turns) /\ turns # <<>>
  BY DEF Wire
<1>1. L \in Nat /\ L > 0 /\ L \in 1..L
  BY <1>0
<1>2. turns[L].role = "user"
  BY DEF Wire
<1>3. /\ q \in Seq(Turns) /\ q # <<>>
      /\ Len(q) = L + 2 /\ q[L + 1] = t /\ q[L + 2] = u
      /\ \A n \in 1..L : q[n] = turns[n]
  <2> DEFINE p == Append(turns, t)
  <2>1. /\ p \in Seq(Turns) /\ Len(p) = L + 1 /\ p[L + 1] = t
        /\ \A n \in 1..L : p[n] = turns[n]
    BY <1>0, AppendIs
  <2> HIDE DEF p, L
  <2>2. /\ Append(p, u) \in Seq(Turns) /\ Append(p, u) # <<>>
        /\ Len(Append(p, u)) = Len(p) + 1 /\ Append(p, u)[Len(p) + 1] = u
        /\ \A n \in 1..Len(p) : Append(p, u)[n] = p[n]
    BY <2>1, AppendIs
  <2>3. q = Append(p, u)
    BY DEF p
  <2> HIDE DEF q
  <2>4. Len(q) = L + 2 /\ q[L + 2] = u /\ q[L + 1] = t
    <3>1. L + 1 \in 1..Len(p) /\ Len(p) + 1 = L + 2
      BY <1>1, <2>1
    <3> QED BY <2>1, <2>2, <2>3, <3>1
  <2>5. \A n \in 1..L : q[n] = turns[n]
    <3>1. \A n \in 1..L : n \in 1..Len(p)
      BY <1>1, <2>1
    <3> QED BY <2>1, <2>2, <2>3, <3>1
  <2> QED BY <2>2, <2>3, <2>4, <2>5
<1> HIDE DEF q, L
<1>9. ASSUME NEW n \in 1..(Len(q) - 1)
      PROVE  /\ q[n + 1].role # q[n].role
             /\ "tool_use" \in Range(q[n].blocks) <=> q[n + 1].blocks[1] = "tool_result"
  <2>0. n \in 1..(L - 1) \/ n = L \/ n = L + 1
    BY <1>1, <1>3
  <2>1. CASE n \in 1..(L - 1)
    <3>1. n \in 1..L /\ n + 1 \in 1..L
      BY <1>1, <2>1
    <3>2. q[n] = turns[n] /\ q[n + 1] = turns[n + 1]
      BY <1>3, <3>1
    <3> QED BY <2>1, <3>2 DEF Wire, Alternate, L
  <2>2. CASE n = L
    <3>1. q[n] = turns[L] /\ q[n + 1] = t
      BY <1>1, <1>3, <2>2
    <3>2. "tool_use" \notin Range(turns[L].blocks)
      BY DEF Wire, L
    <3> QED BY <1>2, <3>1, <3>2
  <2>3. CASE n = L + 1
    <3>1. q[n] = t /\ n + 1 = L + 2
      BY <1>1, <1>3, <2>3
    <3>2. q[n + 1] = u
      BY <1>3, <3>1
    <3> QED BY <3>1, <3>2, SomeBlocks
  <2> QED BY <2>0, <2>1, <2>2, <2>3
<1>10. ASSUME NEW n \in 1..Len(q) PROVE q[n].blocks # <<>>
  <2>0. n \in 1..L \/ n = L + 1 \/ n = L + 2
    BY <1>1, <1>3
  <2>1. CASE n \in 1..L
    BY <1>3, <2>1 DEF Wire, L
  <2>2. CASE n = L + 1
    BY <1>3, <2>2
  <2>3. CASE n = L + 2
    BY <1>3, <2>3, SomeBlocks
  <2> QED BY <2>0, <2>1, <2>2, <2>3
<1>11. \E k \in 1..Len(q) :
          /\ q[k].role = "user" /\ q[k].blocks[1] = "text"
          /\ \A j \in 1..(k - 1) : q[j].role # "user"
  <2>1. PICK k \in 1..L :
          /\ turns[k].role = "user" /\ turns[k].blocks[1] = "text"
          /\ \A j \in 1..(k - 1) : turns[j].role # "user"
    BY DEF Wire, L
  <2>2. k \in 1..Len(q) /\ \A j \in 1..(k - 1) : j \in 1..L
    BY <1>1, <1>3
  <2> QED BY <1>3, <2>1, <2>2
<1>12. q[Len(q)].role = "user" /\ "tool_use" \notin Range(q[Len(q)].blocks)
  BY <1>3, SomeBlocks
<1>13. Wire(q)
  BY <1>3, <1>9, <1>10, <1>11, <1>12 DEF Wire, Alternate
<1> QED BY <1>13 DEF q

\* The fields of a message.
LEMMA SaidIs ==
    ASSUME NEW role \in {"user", "assistant", "tool"}, NEW content \in {"words", "spaces", ""},
           NEW calls \in BOOLEAN
    PROVE  /\ Said(role, content, calls) \in Messages
           /\ Said(role, content, calls).role = role
           /\ Said(role, content, calls).content = content
           /\ Said(role, content, calls).calls = calls
BY DEF Said, Messages

\* The fields of a turn.
LEMMA TurnIs ==
    ASSUME NEW role \in {"user", "assistant"}, NEW blocks \in Seq(BlockNames)
    PROVE  /\ Turn(role, blocks) \in Turns
           /\ Turn(role, blocks).role = role /\ Turn(role, blocks).blocks = blocks
BY DEF Turn, Turns

\* The text of a round that calls tools.
RoundTexts == {"", "words"}

\* A tool round leaves a good list of turns good: the call joins or opens the
\* assistant's turn, the result opens the user's.
LEMMA RoundPushed ==
    ASSUME NEW turns, Wire(turns), NEW content \in RoundTexts
    PROVE  Wire(Push(Push(turns, Said("assistant", content, TRUE)),
                     Said("tool", "words", FALSE)))
<1>0. /\ turns \in Seq(Turns) /\ turns # <<>> /\ turns[Len(turns)].role = "user"
      /\ Last(turns).role = "user"
  BY DEF Wire, Last
<1>1. PICK call \in Messages :
          /\ call = Said("assistant", content, TRUE)
          /\ call.role = "assistant" /\ call.calls = TRUE /\ call.content = content
  <2>1. content \in {"words", "spaces", ""} /\ TRUE \in BOOLEAN
    BY DEF RoundTexts
  <2>2. "assistant" \in {"user", "assistant", "tool"}
    OBVIOUS
  <2> QED BY <2>1, <2>2, SaidIs
<1>2. PICK answer \in Messages :
          answer = Said("tool", "words", FALSE) /\ answer.role = "tool"
  BY SaidIs
<1>3. PICK b \in {<<>>, <<"text">>} : Blocks(call) = b \o <<"tool_use">>
  <2>1. Blocks(call) = (IF Blank(content) THEN <<>> ELSE <<"text">>) \o <<"tool_use">>
    BY <1>1 DEF Blocks
  <2> QED BY <2>1
<1>4. PICK t \in Turns :
          t = Turn("assistant", Blocks(call)) /\ t.role = "assistant"
          /\ t.blocks = Blocks(call)
  <2>1. Blocks(call) \in Seq(BlockNames)
    BY <1>3, CallBlocks
  <2> QED BY <2>1, TurnIs
<1>5. PICK u \in Turns :
          u = Turn("user", <<"tool_result">>) /\ u.role = "user"
          /\ u.blocks = <<"tool_result">>
  BY SomeBlocks, TurnIs
<1>6. Side(call) = "assistant" /\ Blocks(call) # <<>>
  BY <1>1, <1>3, CallBlocks DEF Side
<1>7. Side(answer) = "user" /\ Blocks(answer) = <<"tool_result">>
  BY <1>2 DEF Side, Blocks
<1>8. Push(turns, call) = Append(turns, t)
  <2>1. Last(turns).role # Side(call)
    BY <1>0, <1>6
  <2> QED BY <1>0, <1>4, <1>6, <2>1, PushIs
<1>9. PICK p \in Seq(Turns) : p = Append(turns, t) /\ Last(p) = t /\ p # <<>>
  <2>1. turns \in Seq(Turns)
    BY <1>0
  <2> QED BY <2>1, LastAppended
<1>10. Push(p, answer) = Append(p, u)
  <2>1. Last(p).role # Side(answer) /\ Blocks(answer) # <<>>
    BY <1>4, <1>7, <1>9, SomeBlocks
  <2>2. Push(p, answer) = Append(p, Turn(Side(answer), Blocks(answer)))
    BY <1>9, <2>1, PushIs
  <2> QED BY <1>5, <1>7, <2>2
<1>11. Wire(Append(Append(turns, t), u))
  BY <1>3, <1>4, <1>5, CallBlocks, RoundAdded
<1> QED BY <1>1, <1>2, <1>8, <1>9, <1>10, <1>11

\* The demand to answer now joins the user's last turn.
LEMMA AnswerPushed ==
    ASSUME NEW turns, Wire(turns)
    PROVE  Wire(Push(turns, Said("user", "words", FALSE)))
<1> DEFINE m == Said("user", "words", FALSE)
           L == Len(turns)
           p == Push(turns, m)
           b == turns[L].blocks
<1>0. turns \in Seq(Turns) /\ turns # <<>> /\ L \in Nat /\ L > 0 /\ L \in 1..L
      /\ turns[L] \in Turns
  <2>1. turns \in Seq(Turns) /\ turns # <<>>
    BY DEF Wire
  <2> QED BY <2>1
<1>1. m \in Messages /\ m \in PlainMessages /\ m.role = "user"
  BY DEF Said, Messages, PlainMessages
<1> HIDE DEF m
<1>2. Blocks(m) = <<"text">> /\ Side(m) = "user"
  BY <1>1, BlocksAre
<1>3. turns[L].role = "user" /\ Last(turns).role = "user" /\ <<"text">> # <<>>
  BY <1>0 DEF Wire, Last
<1>4. /\ p \in Seq(Turns) /\ Len(p) = L /\ \A n \in 1..(L - 1) : p[n] = turns[n]
      /\ p[L].role = "user" /\ p[L].blocks = b \o <<"text">>
  BY <1>0, <1>1, <1>2, <1>3, PushIs
<1> HIDE DEF p
<1>5. /\ b \in Seq(BlockNames) /\ b # <<>> /\ "tool_use" \notin Range(b)
  BY <1>0 DEF Wire, Turns
<1> HIDE DEF b
<1>6. /\ b \o <<"text">> # <<>> /\ (b \o <<"text">>)[1] = b[1]
      /\ "tool_use" \notin Range(b \o <<"text">>)
  <2>1. /\ Len(b \o <<"text">>) = Len(b) + 1 /\ (b \o <<"text">>)[Len(b) + 1] = "text"
        /\ \A i \in 1..Len(b) : (b \o <<"text">>)[i] = b[i]
        /\ Len(b) \in Nat /\ Len(b) > 0 /\ b \o <<"text">> # <<>>
        /\ DOMAIN (b \o <<"text">>) = 1..(Len(b) + 1)
    BY <1>5
  <2>2. ASSUME NEW i \in 1..(Len(b) + 1) PROVE (b \o <<"text">>)[i] # "tool_use"
    <3>1. i \in 1..Len(b) \/ i = Len(b) + 1
      BY <2>1
    <3>2. \A j \in 1..Len(b) : b[j] # "tool_use"
      BY <1>5 DEF Range
    <3> QED BY <2>1, <3>1, <3>2
  <2> QED BY <2>1, <2>2 DEF Range
<1>7. ASSUME NEW n \in 1..L
      PROVE  /\ p[n].role = turns[n].role /\ p[n].blocks[1] = turns[n].blocks[1]
             /\ p[n].blocks # <<>>
             /\ n < L => p[n] = turns[n]
  <2>1. CASE n = L
    BY <1>3, <1>4, <1>6, <2>1 DEF b
  <2>2. CASE n \in 1..(L - 1)
    BY <1>4, <2>2 DEF Wire
  <2> QED BY <1>0, <2>1, <2>2
<1>8. ASSUME NEW n \in 1..(L - 1)
      PROVE  /\ p[n + 1].role # p[n].role
             /\ "tool_use" \in Range(p[n].blocks) <=> p[n + 1].blocks[1] = "tool_result"
  <2>1. n \in 1..L /\ n + 1 \in 1..L /\ n < L
    BY <1>0
  <2>2. p[n] = turns[n] /\ p[n + 1].role = turns[n + 1].role
        /\ p[n + 1].blocks[1] = turns[n + 1].blocks[1]
    BY <1>7, <2>1
  <2> QED BY <2>2 DEF Wire, Alternate
<1>9. \E k \in 1..L :
          /\ p[k].role = "user" /\ p[k].blocks[1] = "text"
          /\ \A j \in 1..(k - 1) : p[j].role # "user"
  <2>1. PICK k \in 1..L :
          /\ turns[k].role = "user" /\ turns[k].blocks[1] = "text"
          /\ \A j \in 1..(k - 1) : turns[j].role # "user"
    BY DEF Wire
  <2>2. \A j \in 1..(k - 1) : j \in 1..L
    BY <1>0
  <2> QED BY <1>7, <2>1, <2>2
<1>10. p # <<>>
  BY <1>0, <1>4
<1>11. Wire(p)
  BY <1>4, <1>6, <1>7, <1>8, <1>9, <1>10 DEF Wire, Alternate
<1> QED BY <1>11 DEF p, m

\* Trimmed to the first text of the user, such turns are accepted.
LEMMA WireAccepted ==
    ASSUME NEW turns, Wire(turns)
    PROVE  AnthropicAccepts(Trim(turns))
<1> DEFINE L == Len(turns)
           starts == {n \in DOMAIN turns : turns[n].role = "user"
                                           /\ "text" \in Range(turns[n].blocks)}
<1>0. turns \in Seq(Turns) /\ L \in Nat /\ DOMAIN turns = 1..L
  BY DEF Wire
<1>1. PICK k \in 1..L :
          /\ turns[k].role = "user" /\ turns[k].blocks[1] = "text"
          /\ \A j \in 1..(k - 1) : turns[j].role # "user"
  BY DEF Wire
<1>2. k \in starts
  <2>1. turns[k] \in Turns
    BY <1>0
  <2>2. turns[k].blocks \in Seq(BlockNames) /\ turns[k].blocks # <<>>
    BY <2>1 DEF Turns, Wire
  <2>3. 1 \in DOMAIN turns[k].blocks
    BY <2>2
  <2>4. "text" \in Range(turns[k].blocks)
    BY <1>1, <2>3 DEF Range
  <2> QED BY <1>0, <1>1, <2>4
<1>3. ASSUME NEW n \in starts PROVE n \in Int /\ k <= n
  <2>1. n \in 1..L /\ turns[n].role = "user"
    BY <1>0
  <2>2. ~(n \in 1..(k - 1))
    BY <1>1, <2>1
  <2> QED BY <2>1, <2>2
<1>4. Min(starts) = k
  <2> DEFINE least == CHOOSE x \in starts : \A y \in starts : x <= y
  <2>1. Min(starts) = least
    BY DEF Min
  <2> HIDE DEF starts
  <2>2. \E x \in starts : \A y \in starts : x <= y
    BY <1>2, <1>3
  <2>3. least \in starts /\ \A y \in starts : least <= y
    BY <2>2
  <2> HIDE DEF least
  <2>4. least <= k /\ k <= least /\ least \in Int
    BY <1>2, <1>3, <2>3
  <2> QED BY <2>1, <2>4
<1> DEFINE t == SubSeq(turns, k, L)
<1>5. Trim(turns) = t
  BY <1>2, <1>4 DEF Trim
<1>6. /\ t \in Seq(Turns) /\ Len(t) = L - k + 1
      /\ \A n \in 1..(L - k + 1) : t[n] = turns[n + k - 1]
  BY <1>0
<1> HIDE DEF t, starts
<1>7. t # <<>> /\ t[1] = turns[k] /\ t[Len(t)] = turns[L]
  <2>1. 1 \in 1..(L - k + 1) /\ L - k + 1 \in 1..(L - k + 1)
    BY <1>0
  <2>2. t[1] = turns[1 + k - 1] /\ t[L - k + 1] = turns[(L - k + 1) + k - 1]
    BY <1>6, <2>1
  <2>3. 1 + k - 1 = k /\ (L - k + 1) + k - 1 = L
    BY <1>0
  <2> QED BY <1>0, <1>6, <2>2, <2>3
<1>8. ASSUME NEW n \in 1..Len(t) PROVE n + k - 1 \in 1..L /\ t[n] = turns[n + k - 1]
  BY <1>0, <1>6
<1>9. ASSUME NEW n \in 1..Len(t), n > 1
      PROVE  /\ t[n].role # t[n - 1].role
             /\ "tool_use" \in Range(t[n - 1].blocks) <=> t[n].blocks[1] = "tool_result"
  <2> DEFINE i == n - 1 + k - 1
  <2>1. n - 1 \in 1..Len(t) /\ i \in 1..(L - 1) /\ n + k - 1 = i + 1
    BY <1>0, <1>6, <1>9
  <2>2. t[n] = turns[i + 1] /\ t[n - 1] = turns[i]
    BY <1>8, <2>1
  <2> HIDE DEF i
  <2> QED BY <2>1, <2>2 DEF Wire, Alternate
<1>10. ASSUME NEW n \in 1..Len(t) PROVE t[n].blocks # <<>>
  BY <1>8 DEF Wire
<1>11. turns[L].role = "user"
  BY DEF Wire
<1> QED BY <1>1, <1>5, <1>6, <1>7, <1>9, <1>10, <1>11 DEF AnthropicAccepts, Last

\* The turns F after each of the messages.
Grows(F, ms) ==
    /\ F[0] = <<>>
    /\ \A k \in 0..(Len(ms) - 1) : F[k + 1] = Push(F[k], ms[k + 1])

\* A conversation up to a question of the user.
Asked(h) == h \in Seq(PlainMessages) /\ h # <<>> /\ h[Len(h)].role = "user"

\* The turns of the conversation alone, before the tool rounds, are good.
LEMMA ConversationTurns ==
    ASSUME NEW h, Asked(h), NEW ms, Len(ms) \in Nat, Len(ms) >= Len(h),
           \A i \in 1..Len(h) : ms[i] = h[i], NEW F, Grows(F, ms)
    PROVE  Wire(F[Len(h)])
<1>0. h \in Seq(PlainMessages) /\ Len(h) \in Nat /\ Len(h) > 0
  <2>1. h \in Seq(PlainMessages) /\ h # <<>>
    BY DEF Asked
  <2> QED BY <2>1
<1> DEFINE Good(k) == /\ F[k] \in Seq(Turns) /\ Alternate(F[k]) /\ TextOnly(F[k])
                      /\ k > 0 => F[k] # <<>> /\ F[k][Len(F[k])].role = h[k].role
           N == {k \in Nat : k <= Len(h) => Good(k)}
<1>1. 0 \in N
  <2>1. F[0] = <<>>
    BY DEF Grows
  <2>2. <<>> \in Seq(Turns) /\ Alternate(<<>>) /\ TextOnly(<<>>)
    BY DEF Alternate, TextOnly
  <2>3. Good(0)
    BY <2>1, <2>2
  <2> HIDE DEF Good
  <2> QED BY <2>3
<1>2. ASSUME NEW k \in Nat, k \in N PROVE k + 1 \in N
  <2> SUFFICES ASSUME k + 1 <= Len(h) PROVE Good(k + 1)
    OBVIOUS
  <2>1. F[k] \in Seq(Turns) /\ Alternate(F[k]) /\ TextOnly(F[k])
    BY <1>0, <1>2
  <2>2. k \in 0..(Len(ms) - 1) /\ k + 1 \in 1..Len(h)
    BY <1>0
  <2>3. ms[k + 1] = h[k + 1] /\ h[k + 1] \in PlainMessages
    BY <1>0, <2>2
  <2>4. F[k + 1] = Push(F[k], h[k + 1])
    BY <2>2, <2>3 DEF Grows
  <2> QED BY <2>1, <2>3, <2>4, PlainPushed
<1>3. Len(h) \in N
  <2> HIDE DEF N
  <2> QED BY <1>0, <1>1, <1>2, Induct
<1>4. Good(Len(h)) /\ h[Len(h)].role = "user"
  BY <1>0, <1>3 DEF Asked
<1> QED BY <1>0, <1>4, TextIsWire

\* The two messages of a tool round.
LEMMA RoundIs ==
    ASSUME NEW content \in RoundTexts
    PROVE  /\ Round(content) \in Seq(Messages) /\ Len(Round(content)) = 2
           /\ Round(content)[1] = Said("assistant", content, TRUE)
           /\ Round(content)[2] = Said("tool", "words", FALSE)
<1>1. content \in {"words", "spaces", ""} /\ TRUE \in BOOLEAN /\ FALSE \in BOOLEAN
      /\ "words" \in {"words", "spaces", ""}
      /\ "assistant" \in {"user", "assistant", "tool"}
      /\ "tool" \in {"user", "assistant", "tool"}
  BY DEF RoundTexts
<1>2. PICK a \in Messages : a = Said("assistant", content, TRUE)
  BY <1>1, SaidIs
<1>3. PICK b \in Messages : b = Said("tool", "words", FALSE)
  BY <1>1, SaidIs
<1>4. Round(content) = <<a, b>>
  BY <1>2, <1>3 DEF Round
<1>5. <<a, b>> \in Seq(Messages) /\ Len(<<a, b>>) = 2 /\ <<a, b>>[1] = a /\ <<a, b>>[2] = b
  BY PairIs
<1> QED BY <1>2, <1>3, <1>4, <1>5

\* The one message the loop adds when no round is left.
LEMMA AnswerNowIs ==
    /\ AnswerNow \in Seq(Messages) /\ Len(AnswerNow) = 1
    /\ AnswerNow[1] = Said("user", "words", FALSE)
<1>1. "user" \in {"user", "assistant", "tool"} /\ FALSE \in BOOLEAN
      /\ "words" \in {"words", "spaces", ""}
  OBVIOUS
<1>2. PICK a \in Messages : a = Said("user", "words", FALSE)
  BY <1>1, SaidIs
<1>3. <<a>> \in Seq(Messages) /\ Len(<<a>>) = 1 /\ <<a>>[1] = a
  OBVIOUS
<1> QED BY <1>2, <1>3 DEF AnswerNow

\* What a run adds: no round, one, two, or one and the demand to answer.
LEMMA ContinuationIs ==
    ASSUME NEW more \in Continuations
    PROVE  \/ more = <<>>
           \/ \E c \in RoundTexts : more = Round(c)
           \/ \E c \in RoundTexts, d \in RoundTexts : more = Round(c) \o Round(d)
           \/ \E c \in RoundTexts : more = Round(c) \o AnswerNow
<1>1. "" \in RoundTexts /\ "words" \in RoundTexts
  BY DEF RoundTexts
<1> QED BY <1>1 DEF Continuations

\* Whatever a run adds to the conversation, the provider accepts it.
LEMMA ContinuedAccepted ==
    ASSUME NEW h, Asked(h), NEW more \in Continuations
    PROVE  AnthropicAccepts(AnthropicMessages(h \o more))
<1> DEFINE L == Len(h)
           ms == h \o more
<1>0. h \in Seq(Messages) /\ L \in Nat
  <2>1. h \in Seq(PlainMessages) /\ PlainMessages \subseteq Messages
    BY DEF Asked, PlainMessages
  <2> QED BY <2>1
<1>1. more \in Seq(Messages)
      /\ \/ Len(more) = 0
         \/ \E c \in RoundTexts :
               /\ more[1] = Said("assistant", c, TRUE)
               /\ more[2] = Said("tool", "words", FALSE)
               /\ \/ Len(more) = 2
                  \/ Len(more) = 3 /\ more[3] = Said("user", "words", FALSE)
                  \/ \E d \in RoundTexts :
                        /\ Len(more) = 4
                        /\ more[3] = Said("assistant", d, TRUE)
                        /\ more[4] = Said("tool", "words", FALSE)
  <2>1. CASE more = <<>>
    <3>1. Len(more) = 0 /\ more \in Seq(Messages)
      BY <2>1
    <3> QED BY <3>1
  <2>2. CASE \E c \in RoundTexts : more = Round(c)
    <3>1. PICK c \in RoundTexts : more = Round(c)
      BY <2>2
    <3> QED BY <3>1, RoundIs
  <2>3. CASE \E c \in RoundTexts, d \in RoundTexts : more = Round(c) \o Round(d)
    <3>1. PICK c \in RoundTexts, d \in RoundTexts : more = Round(c) \o Round(d)
      BY <2>3
    <3>2. PICK a \in Seq(Messages) :
              /\ a = Round(c) /\ Len(a) = 2
              /\ a[1] = Said("assistant", c, TRUE) /\ a[2] = Said("tool", "words", FALSE)
      BY RoundIs
    <3>3. PICK b \in Seq(Messages) :
              /\ b = Round(d) /\ Len(b) = 2
              /\ b[1] = Said("assistant", d, TRUE) /\ b[2] = Said("tool", "words", FALSE)
      BY RoundIs
    <3>4. /\ a \o b \in Seq(Messages) /\ Len(a \o b) = 4
          /\ (a \o b)[1] = a[1] /\ (a \o b)[2] = a[2]
          /\ (a \o b)[3] = b[1] /\ (a \o b)[4] = b[2]
      <4>1. Len(a) = 2 /\ Len(b) = 2
        BY <3>2, <3>3
      <4>2. /\ a \o b \in Seq(Messages) /\ Len(a \o b) = 2 + Len(b)
            /\ (a \o b)[1] = a[1] /\ (a \o b)[2] = a[2]
            /\ Len(b) > 0 => (a \o b)[3] = b[1]
            /\ Len(b) > 1 => (a \o b)[4] = b[2]
        BY <4>1, PairJoined
      <4> QED BY <4>1, <4>2
    <3>5. more = a \o b
      BY <3>1, <3>2, <3>3
    <3> QED BY <3>2, <3>3, <3>4, <3>5, Zenon
  <2>4. CASE \E c \in RoundTexts : more = Round(c) \o AnswerNow
    <3>1. PICK c \in RoundTexts : more = Round(c) \o AnswerNow
      BY <2>4
    <3>2. PICK a \in Seq(Messages) :
              /\ a = Round(c) /\ Len(a) = 2
              /\ a[1] = Said("assistant", c, TRUE) /\ a[2] = Said("tool", "words", FALSE)
      BY RoundIs
    <3>3. PICK b \in Seq(Messages) :
              /\ b = AnswerNow /\ Len(b) = 1 /\ b[1] = Said("user", "words", FALSE)
      BY AnswerNowIs
    <3>4. /\ a \o b \in Seq(Messages) /\ Len(a \o b) = 3
          /\ (a \o b)[1] = a[1] /\ (a \o b)[2] = a[2] /\ (a \o b)[3] = b[1]
      <4>1. Len(a) = 2 /\ Len(b) = 1
        BY <3>2, <3>3
      <4>2. Len(b) > 0 /\ 2 + Len(b) = 3
        BY <4>1
      <4>0. Len(a) = 2
        BY <3>2
      <4>3. /\ a \o b \in Seq(Messages) /\ Len(a \o b) = 2 + Len(b)
            /\ (a \o b)[1] = a[1] /\ (a \o b)[2] = a[2]
            /\ Len(b) > 0 => (a \o b)[3] = b[1]
            /\ Len(b) > 1 => (a \o b)[4] = b[2]
        BY <4>0, PairJoined
      <4> QED BY <4>2, <4>3
    <3>5. more = a \o b
      BY <3>1, <3>2, <3>3
    <3> QED BY <3>2, <3>3, <3>4, <3>5, Zenon
  <2> QED BY <2>1, <2>2, <2>3, <2>4, ContinuationIs
<1>2. /\ ms \in Seq(Messages) /\ Len(ms) = L + Len(more) /\ Len(more) \in Nat
      /\ \A i \in 1..L : ms[i] = h[i]
      /\ \A i \in 1..Len(more) : ms[L + i] = more[i]
  <2>1. h \in Seq(Messages) /\ more \in Seq(Messages)
    BY <1>0, <1>1
  <2>2. Len(more) \in Nat
    BY <2>1
  <2> QED BY <2>1, <2>2, JoinIs
<1> HIDE DEF ms, L
<1>3. PICK F : FoldLeft(Push, <<>>, ms) = F[Len(ms)] /\ Grows(F, ms)
  BY <1>2, TurnsGrow DEF Grows
<1>4. Wire(F[L])
  BY <1>0, <1>2, <1>3, ConversationTurns DEF L
<1>5. ASSUME NEW i \in 1..Len(more) PROVE F[L + i] = Push(F[L + i - 1], more[i])
  <2>1. L + i - 1 \in 0..(Len(ms) - 1) /\ (L + i - 1) + 1 = L + i
    BY <1>0, <1>2 DEF L
  <2>2. F[(L + i - 1) + 1] = Push(F[L + i - 1], ms[(L + i - 1) + 1])
    BY <1>3, <2>1 DEF Grows
  <2> QED BY <1>2, <2>1, <2>2
<1>6. ASSUME NEW i \in Nat, i + 2 <= Len(more), Wire(F[L + i]), NEW c \in RoundTexts,
             more[i + 1] = Said("assistant", c, TRUE),
             more[i + 2] = Said("tool", "words", FALSE)
      PROVE  Wire(F[L + i + 2])
  <2>0. L \in Nat /\ Len(more) \in Nat /\ i \in Nat /\ i + 2 <= Len(more)
    BY <1>0, <1>2, <1>6 DEF L
  <2>1. /\ i + 1 \in 1..Len(more) /\ i + 2 \in 1..Len(more)
        /\ L + (i + 1) - 1 = L + i /\ L + (i + 2) - 1 = L + (i + 1)
        /\ L + (i + 2) = L + i + 2
    BY <2>0
  <2>2. F[L + (i + 1)] = Push(F[L + i], more[i + 1])
    BY <1>5, <2>1
  <2>3. F[L + (i + 2)] = Push(F[L + (i + 1)], more[i + 2])
    BY <1>5, <2>1
  <2>4. Wire(Push(Push(F[L + i], Said("assistant", c, TRUE)),
                  Said("tool", "words", FALSE)))
    BY <1>6, RoundPushed
  <2> QED BY <1>6, <2>1, <2>2, <2>3, <2>4
<1>7. Wire(F[L + Len(more)])
  <2>0. L + 0 = L /\ L + 0 + 2 = L + 2 /\ L + 2 + 2 = L + 4 /\ L + 3 - 1 = L + 2
        /\ 0 + 1 = 1 /\ 0 + 2 = 2 /\ 2 + 1 = 3 /\ 2 + 2 = 4
    BY <1>0 DEF L
  <2>1. CASE Len(more) = 0
    BY <1>4, <2>0, <2>1
  <2>2. ASSUME NEW c \in RoundTexts, Len(more) >= 2,
               more[1] = Said("assistant", c, TRUE), more[2] = Said("tool", "words", FALSE)
        PROVE  Wire(F[L + 2])
    <3>1. Wire(F[L + 0]) /\ 0 \in Nat /\ 0 + 2 <= Len(more)
          /\ more[0 + 1] = Said("assistant", c, TRUE)
          /\ more[0 + 2] = Said("tool", "words", FALSE)
      BY <1>4, <2>0, <2>2
    <3>2. Wire(F[L + 0 + 2])
      BY <1>6, <3>1
    <3> QED BY <2>0, <3>2
  <2>3. ASSUME Wire(F[L + 2]), Len(more) = 3, more[3] = Said("user", "words", FALSE)
        PROVE  Wire(F[L + 3])
    <3>1. 3 \in 1..Len(more)
      BY <2>3
    <3>2. F[L + 3] = Push(F[L + 3 - 1], more[3])
      BY <1>5, <3>1
    <3> QED BY <2>0, <2>3, <3>2, AnswerPushed
  <2>4. ASSUME Wire(F[L + 2]), NEW d \in RoundTexts, Len(more) = 4,
               more[3] = Said("assistant", d, TRUE), more[4] = Said("tool", "words", FALSE)
        PROVE  Wire(F[L + 4])
    <3>1. 2 \in Nat /\ 2 + 2 <= Len(more)
      <4>1. Len(more) = 4
        BY <2>4
      <4> QED BY <4>1
    <3>2. /\ more[2 + 1] = Said("assistant", d, TRUE)
          /\ more[2 + 2] = Said("tool", "words", FALSE)
      BY <2>0, <2>4, Zenon
    <3>3. Wire(F[L + 2 + 2])
      BY <1>6, <2>4, <3>1, <3>2
    <3> QED BY <2>0, <3>3
  <2>5. CASE Len(more) # 0
    <3>1. PICK c \in RoundTexts :
               /\ more[1] = Said("assistant", c, TRUE)
               /\ more[2] = Said("tool", "words", FALSE)
               /\ \/ Len(more) = 2
                  \/ Len(more) = 3 /\ more[3] = Said("user", "words", FALSE)
                  \/ \E d \in RoundTexts :
                        /\ Len(more) = 4
                        /\ more[3] = Said("assistant", d, TRUE)
                        /\ more[4] = Said("tool", "words", FALSE)
      BY <1>1, <2>5, Zenon
    <3>2. Len(more) >= 2
      <4>1. Len(more) = 2 \/ Len(more) = 3 \/ Len(more) = 4
        BY <3>1, Zenon
      <4> QED BY <4>1
    <3>3. Wire(F[L + 2])
      BY <2>2, <3>1, <3>2
    <3>4. CASE Len(more) = 2
      BY <3>3, <3>4
    <3>5. CASE Len(more) = 3 /\ more[3] = Said("user", "words", FALSE)
      BY <2>3, <3>3, <3>5
    <3>6. CASE \E d \in RoundTexts :
                  /\ Len(more) = 4 /\ more[3] = Said("assistant", d, TRUE)
                  /\ more[4] = Said("tool", "words", FALSE)
      <4>1. PICK d \in RoundTexts :
                  /\ Len(more) = 4 /\ more[3] = Said("assistant", d, TRUE)
                  /\ more[4] = Said("tool", "words", FALSE)
        BY <3>6
      <4> QED BY <2>4, <3>3, <4>1
    <3> QED BY <3>1, <3>4, <3>5, <3>6
  <2> QED BY <2>1, <2>5
<1>8. Len(ms) = L + Len(more)
  BY <1>2
<1>9. AnthropicAccepts(Trim(FoldLeft(Push, <<>>, ms)))
  BY <1>3, <1>7, <1>8, WireAccepted
<1> QED BY <1>9 DEF AnthropicMessages, ms

\* What the OpenAI adapter sends ends with the question.
LEMMA QuestionLast ==
    ASSUME NEW h, Asked(h), h[Len(h)] = Said("user", "words", FALSE)
    PROVE  Last(OpenAIMessages(h)) = Said("user", "words", FALSE)
<1>1. h \in Seq(Messages) /\ h # <<>>
  <2>1. h \in Seq(PlainMessages) /\ PlainMessages \subseteq Messages /\ h # <<>>
    BY DEF Asked, PlainMessages
  <2> QED BY <2>1
<1> DEFINE m == Said("system", "words", FALSE)
           M == Messages \cup {m}
<1>2. <<m>> \in Seq(M) /\ Len(<<m>>) = 1
  OBVIOUS
<1>3. h \in Seq(M) /\ Len(h) \in 1..Len(h)
  <2>1. Messages \subseteq M
    OBVIOUS
  <2> HIDE DEF M
  <2> QED BY <1>1, <2>1
<1> HIDE DEF m, M
<1>4. /\ Len(<<m>> \o h) = Len(<<m>>) + Len(h)
      /\ (<<m>> \o h)[Len(<<m>>) + Len(h)] = h[Len(h)]
  <2>1. \A i \in 1..Len(h) : (<<m>> \o h)[Len(<<m>>) + i] = h[i]
    BY <1>2, <1>3, JoinIs
  <2>2. Len(<<m>> \o h) = Len(<<m>>) + Len(h)
    BY <1>2, <1>3, JoinIs
  <2> QED BY <1>3, <2>1, <2>2
<1> QED BY <1>4 DEF OpenAIMessages, Last, m

-----------------------------------------------------------------------------
(* The rows and the chats *)

Rows == [session : Sessions, role : {"user", "assistant"},
         status : {"ok", "error", "cancelled"}, content : {"words", "spaces", ""}]

Question == Said("user", "words", FALSE)

\* The types that the proof needs.
ChatTypes ==
    /\ stored \in Seq(Rows)
    /\ stage \in [Chats -> {"idle", "new", "read", "asked", "running", "over"}]
    /\ talk \in [Chats -> SUBSET Sessions]
    /\ history \in [Chats -> Seq(PlainMessages)]

\* From its commit on, the history of a chat ends with its question.
QuestionAsked ==
    \A c \in Chats : stage[c] \in {"asked", "running"} =>
        history[c] # <<>> /\ history[c][Len(history[c])] = Question

\* The lookup is offered when a run starts, and finds something as long as
\* no conversation is deleted.
LookupFinds ==
    /\ offered \subseteq Chats
    /\ \A c \in offered : stage[c] \in {"running", "over"}
    /\ \A c \in Chats : stage[c] = "running" /\ c \in offered \ missed =>
          \E s \in talk[c] : PastReviews(s) # {}

ChatInv == ChatTypes /\ QuestionAsked /\ LookupFinds

\* The question is the user's and is kept by the clean-up.
LEMMA QuestionIs == Question \in PlainMessages /\ Question.role = "user"
<1>1. "user" \in {"user", "assistant", "tool"} /\ FALSE \in BOOLEAN
      /\ "words" \in {"words", "spaces", ""}
  OBVIOUS
<1>2. /\ Question \in Messages /\ Question.role = "user"
      /\ Question.content = "words" /\ Question.calls = FALSE
  BY <1>1, SaidIs DEF Question
<1>3. Question.role # "tool"
  BY <1>2
<1> QED BY <1>2, <1>3 DEF PlainMessages

\* The newest of the rows.
LEMMA WindowIs ==
    ASSUME NEW T, NEW rows \in Seq(T)
    PROVE  SubSeq(rows, Max({1, Len(rows) - HistoryMessages + 1}), Len(rows)) \in Seq(T)
<1> DEFINE x == Len(rows) - HistoryMessages + 1
           first == Max({1, x})
           m == IF x > 1 THEN x ELSE 1
<1>1. x \in Int /\ Len(rows) \in Nat
  BY ConversationAssumption
<1> HIDE DEF x
<1>2. m \in {1, x} /\ \A y \in {1, x} : m >= y
  BY <1>1
<1>3. first \in {1, x} /\ \A y \in {1, x} : first >= y
  <2> HIDE DEF m
  <2> QED BY <1>2 DEF Max
<1>4. first \in Int /\ first >= 1
  BY <1>1, <1>3
<1> HIDE DEF first
<1>5. SubSeq(rows, first, Len(rows)) \in Seq(T)
  BY <1>1, <1>4
<1> QED BY <1>5 DEF first, x

\* What a chat reads is text that somebody wrote.
LEMMA HistoryIs ==
    ASSUME stored \in Seq(Rows), NEW s
    PROVE  RecentHistory(s) \in Seq(PlainMessages)
<1> DEFINE A == {r \in Range(stored) : r.session = s /\ r.status # "error"}
           B == {r \in Range(stored) : ~ Blank(r.content)}
           kept == Filter(stored, A)
           recent == SubSeq(kept, Max({1, Len(kept) - HistoryMessages + 1}), Len(kept))
           said == Filter(recent, B)
<1>1. Range(stored) \subseteq Rows
  BY SeqHolds
<1>2. A \subseteq Rows /\ B \subseteq Rows
  BY <1>1
<1>3. RecentHistory(s) = [n \in DOMAIN said |-> Said(said[n].role, said[n].content, FALSE)]
  BY DEF RecentHistory
<1>4. ASSUME NEW r \in B PROVE Said(r.role, r.content, FALSE) \in PlainMessages
  <2>1. r \in Rows /\ ~ Blank(r.content)
    BY <1>2
  <2>2. r.role \in {"user", "assistant"} /\ r.content = "words"
    BY <2>1 DEF Rows, Blank
  <2> DEFINE m == Said(r.role, "words", FALSE)
  <2>3. m \in Messages /\ m.role = r.role /\ m.content = "words" /\ m.calls = FALSE
    <3>1. r.role \in {"user", "assistant", "tool"} /\ FALSE \in BOOLEAN
          /\ "words" \in {"words", "spaces", ""}
      BY <2>2
    <3> QED BY <3>1, SaidIs
  <2>4. m.role # "tool"
    BY <2>2, <2>3
  <2> HIDE DEF m
  <2>5. m \in PlainMessages
    BY <2>3, <2>4 DEF PlainMessages
  <2> QED BY <2>2, <2>5 DEF m
<1> HIDE DEF A, B
<1>5. kept \in Seq(Rows)
  <2>1. kept \in Seq(A)
    BY <1>2, FilterIs
  <2> HIDE DEF kept
  <2> QED BY <1>2, <2>1
<1> HIDE DEF kept
<1>6. recent \in Seq(Rows)
  BY <1>5, WindowIs
<1> HIDE DEF recent
<1>7. said \in Seq(B)
  BY <1>2, <1>6, FilterIs
<1> HIDE DEF said
<1>8. [n \in DOMAIN said |-> Said(said[n].role, said[n].content, FALSE)] \in Seq(PlainMessages)
  <2>1. DOMAIN said = 1..Len(said) /\ Len(said) \in Nat
        /\ \A n \in 1..Len(said) : said[n] \in B
    BY <1>7
  <2> DEFINE e(n) == Said(said[n].role, said[n].content, FALSE)
  <2>2. \A n \in 1..Len(said) : e(n) \in PlainMessages
    BY <1>4, <2>1
  <2> HIDE DEF e
  <2>3. [n \in 1..Len(said) |-> e(n)] \in Seq(PlainMessages)
    BY <2>1, <2>2
  <2> QED BY <2>1, <2>3 DEF e
<1> QED BY <1>3, <1>8

\* What a lookup finds it finds when rows have been added.
LEMMA LookupStays ==
    ASSUME NEW s, Range(stored) \subseteq Range(stored'), PastReviews(s) # {}
    PROVE  PastReviews(s)' # {}
BY DEF PastReviews

\* A run ends with a status and a text that a row can hold.
LEMMA EndingIs ==
    ASSUME NEW e \in Endings
    PROVE  /\ e[1] \in {"ok", "error", "cancelled"}
           /\ e[2] \in {"words", "spaces", ""}
<1>1. PICK a \in {"ok", "error", "cancelled"}, b \in {"words", "spaces", ""} : e = <<a, b>>
  BY DEF Endings
<1>2. e[1] = a /\ e[2] = b
  BY <1>1, PairOf
<1> QED BY <1>2

\* Every step of a conversation keeps the invariant, one case per action.
LEMMA ChatInvStep ==
    ASSUME ChatInv, [ConversationNext]_conversationVars
    PROVE  ChatInv'
<1>0. /\ stored \in Seq(Rows)
      /\ stage \in [Chats -> {"idle", "new", "read", "asked", "running", "over"}]
      /\ talk \in [Chats -> SUBSET Sessions]
      /\ history \in [Chats -> Seq(PlainMessages)]
      /\ offered \subseteq Chats
  BY DEF ChatInv, ChatTypes, LookupFinds
<1>1. ASSUME NEW s \in Sessions, CreateSession(s) PROVE ChatInv'
  BY <1>1 DEF CreateSession, ChatInv, ChatTypes, QuestionAsked, LookupFinds, PastReviews
<1>2. ASSUME NEW s \in Sessions, DeleteSession(s) PROVE ChatInv'
  <2>1. /\ stored' = Filter(stored, {r \in Range(stored) : r.session # s})
        /\ missed' = missed \cup Running
        /\ UNCHANGED <<used, stage, talk, history, offered>>
    BY <1>2 DEF DeleteSession
  <2>2. stored' \in Seq(Rows)
    <3> DEFINE A == {r \in Range(stored) : r.session # s}
    <3>1. A \subseteq Rows
      BY <1>0, SeqHolds
    <3>2. stored' = Filter(stored, A)
      BY <2>1
    <3> HIDE DEF A
    <3>3. stored' \in Seq(A)
      BY <1>0, <3>1, <3>2, FilterIs
    <3> QED BY <3>1, <3>3
  <2>3. ChatTypes' /\ QuestionAsked'
    BY <2>1, <2>2 DEF ChatInv, ChatTypes, QuestionAsked
  <2>4. ASSUME NEW c \in Chats, stage'[c] = "running" PROVE c \in missed'
    BY <2>1, <2>4 DEF Running
  <2>5. LookupFinds'
    BY <2>1, <2>4 DEF ChatInv, LookupFinds
  <2> QED BY <2>3, <2>5 DEF ChatInv
<1>3. ASSUME NEW c \in Chats, NEW s \in Sessions, OpenChat(c, s) PROVE ChatInv'
  <2>1. /\ stage[c] = "idle"
        /\ stage' = [stage EXCEPT ![c] = IF s \in used THEN "read" ELSE "new"]
        /\ talk' = [talk EXCEPT ![c] = {s}]
        /\ history' = [history EXCEPT ![c] = RecentHistory(s)]
        /\ UNCHANGED <<sessions, stored, offered, missed>>
    BY <1>3 DEF OpenChat, Become
  <2>2. RecentHistory(s) \in Seq(PlainMessages)
    BY <1>0, HistoryIs
  <2>3. stage'[c] \in {"new", "read"}
    BY <1>0, <2>1
  <2>4. \A d \in Chats : d # c => /\ stage'[d] = stage[d] /\ talk'[d] = talk[d]
                                  /\ history'[d] = history[d]
    BY <1>0, <2>1
  <2>5. ChatTypes'
    BY <1>0, <2>1, <2>2 DEF ChatTypes
  <2>6. QuestionAsked'
    BY <2>3, <2>4 DEF ChatInv, QuestionAsked
  <2>7. c \notin offered
    BY <2>1 DEF ChatInv, LookupFinds
  <2>8. \A t : PastReviews(t)' = PastReviews(t)
    BY <2>1 DEF PastReviews
  <2>9. LookupFinds'
    BY <1>0, <2>1, <2>3, <2>4, <2>7, <2>8 DEF ChatInv, LookupFinds
  <2> QED BY <2>5, <2>6, <2>9 DEF ChatInv
<1>4. ASSUME NEW c \in Chats, CommitQuestion(c) PROVE ChatInv'
  <2>1. PICK s \in talk[c] :
          /\ stage[c] \in {"new", "read"}
          /\ stored' = Append(stored, Row(s, "user", "ok", "words"))
          /\ history' = [history EXCEPT ![c] = Append(history[c], Question)]
          /\ stage' = [stage EXCEPT ![c] = "asked"]
          /\ UNCHANGED <<used, talk, offered, missed>>
    BY <1>4 DEF CommitQuestion, Become, Question
  <2>2. Row(s, "user", "ok", "words") \in Rows
    BY <1>0, <2>1 DEF Row, Rows
  <2>3. stored' \in Seq(Rows) /\ Range(stored) \subseteq Range(stored')
    BY <1>0, <2>1, <2>2, AppendHolds, AppendIs
  <2>4. history[c] \in Seq(PlainMessages) /\ Question \in PlainMessages
    BY <1>0, QuestionIs
  <2>5. /\ history'[c] \in Seq(PlainMessages) /\ history'[c] # <<>>
        /\ history'[c][Len(history'[c])] = Question
    <3>1. history'[c] = Append(history[c], Question)
      BY <1>0, <2>1
    <3>2. /\ Append(history[c], Question) \in Seq(PlainMessages)
          /\ Append(history[c], Question) # <<>>
          /\ Last(Append(history[c], Question)) = Question
      BY <2>4, LastAppended
    <3> QED BY <3>1, <3>2 DEF Last
  <2>6. \A d \in Chats : d # c => stage'[d] = stage[d] /\ history'[d] = history[d]
    BY <1>0, <2>1
  <2>7. ChatTypes'
    BY <1>0, <2>1, <2>3, <2>5 DEF ChatTypes
  <2>8. QuestionAsked'
    BY <2>5, <2>6 DEF ChatInv, QuestionAsked
  <2>9. c \notin offered /\ stage'[c] = "asked"
    BY <1>0, <2>1 DEF ChatInv, LookupFinds
  <2>10. LookupFinds'
    BY <1>0, <2>1, <2>3, <2>6, <2>9, LookupStays DEF ChatInv, LookupFinds
  <2> QED BY <2>7, <2>8, <2>10 DEF ChatInv
<1>5. ASSUME NEW c \in Chats, StartRun(c) PROVE ChatInv'
  <2>1. /\ stage[c] = "asked"
        /\ offered' = IF ToolsWithData(c) THEN offered \cup {c} ELSE offered
        /\ stage' = [stage EXCEPT ![c] = "running"]
        /\ UNCHANGED <<sessions, used, stored, talk, history, missed>>
    BY <1>5 DEF StartRun, Become
  <2>2. stage'[c] = "running" /\ \A d \in Chats : d # c => stage'[d] = stage[d]
    BY <1>0, <2>1
  <2>3. ChatTypes'
    BY <1>0, <2>1 DEF ChatTypes
  <2>4. QuestionAsked'
    BY <2>1, <2>2 DEF ChatInv, QuestionAsked
  <2>5. \A t : PastReviews(t)' = PastReviews(t)
    BY <2>1 DEF PastReviews
  <2>6. c \in offered' => \E s \in talk[c] : PastReviews(s) # {}
    <3>1. c \notin offered
      BY <2>1 DEF ChatInv, LookupFinds
    <3> QED BY <2>1, <3>1 DEF ToolsWithData
  <2>7. LookupFinds'
    BY <1>0, <2>1, <2>2, <2>5, <2>6 DEF ChatInv, LookupFinds
  <2> QED BY <2>3, <2>4, <2>7 DEF ChatInv
<1>6. ASSUME NEW c \in Chats, FailChat(c) PROVE ChatInv'
  <2>1. /\ stage' = [stage EXCEPT ![c] = "over"]
        /\ UNCHANGED <<sessions, used, stored, talk, history, offered, missed>>
    BY <1>6 DEF FailChat, Become
  <2>2. stage'[c] = "over" /\ \A d \in Chats : d # c => stage'[d] = stage[d]
    BY <1>0, <2>1
  <2>3. ChatTypes'
    BY <1>0, <2>1 DEF ChatTypes
  <2>4. \A t : PastReviews(t)' = PastReviews(t)
    BY <2>1 DEF PastReviews
  <2> QED BY <1>0, <2>1, <2>2, <2>3, <2>4 DEF ChatInv, QuestionAsked, LookupFinds
<1>7. ASSUME NEW c \in Chats, PersistReply(c) PROVE ChatInv'
  <2>1. PICK e \in Endings, s \in talk[c] :
          stored' = IF s \in sessions
                    THEN Append(stored, Row(s, "assistant", e[1], e[2])) ELSE stored
    BY <1>7 DEF PersistReply
  <2>2. /\ stage' = [stage EXCEPT ![c] = "over"]
        /\ UNCHANGED <<sessions, used, talk, history, offered, missed>>
    BY <1>7 DEF PersistReply, Become
  <2>3. Row(s, "assistant", e[1], e[2]) \in Rows
    BY <1>0, EndingIs DEF Row, Rows
  <2>4. stored' \in Seq(Rows) /\ Range(stored) \subseteq Range(stored')
    BY <1>0, <2>1, <2>3, AppendHolds, AppendIs
  <2>5. stage'[c] = "over" /\ \A d \in Chats : d # c => stage'[d] = stage[d]
    BY <1>0, <2>2
  <2>6. ChatTypes'
    BY <1>0, <2>2, <2>4 DEF ChatTypes
  <2>7. QuestionAsked'
    BY <2>2, <2>5 DEF ChatInv, QuestionAsked
  <2>8. LookupFinds'
    BY <1>0, <2>2, <2>4, <2>5, LookupStays DEF ChatInv, LookupFinds
  <2> QED BY <2>6, <2>7, <2>8 DEF ChatInv
<1>8. CASE UNCHANGED conversationVars
  BY <1>8 DEF conversationVars, ChatInv, ChatTypes, QuestionAsked, LookupFinds, PastReviews
<1> QED BY <1>1, <1>2, <1>3, <1>4, <1>5, <1>6, <1>7, <1>8
        DEF ConversationNext, ConversationsStopped

\* Before the first chat there is nothing to keep.
LEMMA ChatInvStarts ==
    ASSUME ConversationInit
    PROVE  ChatInv
<1>1. /\ stored = <<>> /\ stage = [c \in Chats |-> "idle"]
      /\ talk = [c \in Chats |-> {}] /\ history = [c \in Chats |-> <<>>]
      /\ offered = {}
  BY DEF ConversationInit
<1>2. ChatTypes
  BY <1>1 DEF ChatTypes
<1>3. QuestionAsked /\ LookupFinds
  BY <1>1 DEF QuestionAsked, LookupFinds
<1> QED BY <1>2, <1>3 DEF ChatInv

\* Whatever conversations and chats there are and however long the history:
\* a run starts on a context that its provider accepts, in all its rounds,
\* with the question at its end; the lookup it is offered finds something.
THEOREM ContextStaysUsable == ConversationSpec => []ContextUsable
<1>1. ConversationInit => ChatInv
  BY ChatInvStarts
<1>2. ChatInv => ContextUsable
  <2> SUFFICES ASSUME ChatInv, NEW c \in Running
               PROVE  /\ \A more \in Continuations :
                            AnthropicAccepts(AnthropicMessages(history[c] \o more))
                      /\ Last(OpenAIMessages(history[c])) = Said("user", "words", FALSE)
                      /\ c \in offered \ missed => \E s \in talk[c] : PastReviews(s) # {}
    BY DEF ContextUsable
  <2>1. c \in Chats /\ stage[c] = "running"
    BY DEF Running
  <2>2. /\ history[c] \in Seq(PlainMessages) /\ history[c] # <<>>
        /\ history[c][Len(history[c])] = Question
    BY <2>1 DEF ChatInv, ChatTypes, QuestionAsked
  <2>3. Asked(history[c])
    BY <2>2, QuestionIs DEF Asked
  <2>4. Last(OpenAIMessages(history[c])) = Said("user", "words", FALSE)
    BY <2>2, <2>3, QuestionLast DEF Question
  <2> QED BY <2>1, <2>3, <2>4, ContinuedAccepted DEF ChatInv, LookupFinds
<1> QED BY <1>1, <1>2, ChatInvStep, PTL DEF ConversationSpec

\* A conversation that exists was begun, no row outlives its conversation,
\* and a chat is in a conversation that was begun.
RowsBelong ==
    /\ sessions \subseteq used /\ used \subseteq Sessions
    /\ \A n \in 1..Len(stored) : stored[n].session \in sessions
    /\ \A c \in Chats : talk[c] \subseteq used
    /\ missed \subseteq Chats

\* A row that is added belongs to a conversation if the others do.
LEMMA RowAdded ==
    ASSUME stored \in Seq(Rows), RowsBelong, NEW S, sessions \subseteq S,
           NEW r \in Rows, r.session \in S
    PROVE  \A n \in 1..Len(Append(stored, r)) : Append(stored, r)[n].session \in S
<1>1. /\ Len(Append(stored, r)) = Len(stored) + 1 /\ Append(stored, r)[Len(stored) + 1] = r
      /\ \A n \in 1..Len(stored) : Append(stored, r)[n] = stored[n]
  BY AppendIs
<1>2. ASSUME NEW n \in 1..(Len(stored) + 1) PROVE n \in 1..Len(stored) \/ n = Len(stored) + 1
  OBVIOUS
<1> QED BY <1>1, <1>2 DEF RowsBelong

\* Every step keeps the rows with their conversations, one case per action.
LEMMA RowsBelongStep ==
    ASSUME ChatTypes, RowsBelong, [ConversationNext]_conversationVars
    PROVE  RowsBelong'
<1>0. /\ stored \in Seq(Rows) /\ talk \in [Chats -> SUBSET Sessions]
      /\ stage \in [Chats -> {"idle", "new", "read", "asked", "running", "over"}]
  BY DEF ChatTypes
<1>1. ASSUME NEW s \in Sessions, CreateSession(s) PROVE RowsBelong'
  BY <1>1 DEF CreateSession, RowsBelong
<1>2. ASSUME NEW s \in Sessions, DeleteSession(s) PROVE RowsBelong'
  <2> DEFINE A == {r \in Range(stored) : r.session # s}
  <2>1. /\ sessions' = sessions \ {s} /\ stored' = Filter(stored, A)
        /\ missed' = missed \cup Running /\ UNCHANGED <<used, talk>>
    BY <1>2 DEF DeleteSession
  <2>2. A \subseteq Rows
    BY <1>0, SeqHolds
  <2>3. \A r \in A : r.session \in sessions \ {s}
    <3> SUFFICES ASSUME NEW r \in A PROVE r.session \in sessions \ {s}
      OBVIOUS
    <3>1. PICK n \in 1..Len(stored) : stored[n] = r
      BY <1>0 DEF Range
    <3> QED BY <3>1 DEF RowsBelong
  <2> HIDE DEF A
  <2>4. stored' \in Seq(A)
    BY <1>0, <2>1, <2>2, FilterIs
  <2>5. \A n \in 1..Len(stored') : stored'[n].session \in sessions'
    BY <2>1, <2>3, <2>4
  <2> QED BY <2>1, <2>5 DEF RowsBelong, Running
<1>3. ASSUME NEW c \in Chats, NEW s \in Sessions, OpenChat(c, s) PROVE RowsBelong'
  <2>1. /\ used' = used \cup {s} /\ talk' = [talk EXCEPT ![c] = {s}]
        /\ UNCHANGED <<sessions, stored, missed>>
    BY <1>3 DEF OpenChat
  <2>2. \A d \in Chats : talk'[d] \subseteq used'
    BY <1>0, <2>1 DEF RowsBelong
  <2> QED BY <2>1, <2>2 DEF RowsBelong
<1>4. ASSUME NEW c \in Chats, CommitQuestion(c) PROVE RowsBelong'
  <2>1. PICK s \in talk[c] :
          /\ sessions' = sessions \cup {s}
          /\ stored' = Append(stored, Row(s, "user", "ok", "words"))
          /\ UNCHANGED <<used, talk, missed>>
    BY <1>4 DEF CommitQuestion
  <2> DEFINE r == Row(s, "user", "ok", "words")
  <2>2. r \in Rows /\ r.session = s
    BY <1>0 DEF Row, Rows
  <2> HIDE DEF r
  <2>3. \A n \in 1..Len(stored') : stored'[n].session \in sessions'
    BY <1>0, <2>1, <2>2, RowAdded DEF r
  <2> QED BY <2>1, <2>3 DEF RowsBelong
<1>5. ASSUME NEW c \in Chats, StartRun(c) PROVE RowsBelong'
  BY <1>5 DEF StartRun, RowsBelong
<1>6. ASSUME NEW c \in Chats, FailChat(c) PROVE RowsBelong'
  BY <1>6 DEF FailChat, RowsBelong
<1>7. ASSUME NEW c \in Chats, PersistReply(c) PROVE RowsBelong'
  <2>1. PICK e \in Endings, s \in talk[c] :
          stored' = IF s \in sessions
                    THEN Append(stored, Row(s, "assistant", e[1], e[2])) ELSE stored
    BY <1>7 DEF PersistReply
  <2>2. UNCHANGED <<sessions, used, talk, missed>>
    BY <1>7 DEF PersistReply
  <2>3. CASE s \notin sessions
    BY <2>1, <2>2, <2>3 DEF RowsBelong
  <2>4. CASE s \in sessions
    <3> DEFINE r == Row(s, "assistant", e[1], e[2])
    <3>1. r \in Rows /\ r.session = s
      BY <1>0, EndingIs DEF Row, Rows
    <3> HIDE DEF r
    <3>2. stored' = Append(stored, r)
      BY <2>1, <2>4 DEF r
    <3>3. \A n \in 1..Len(stored') : stored'[n].session \in sessions
      BY <1>0, <2>4, <3>1, <3>2, RowAdded
    <3> QED BY <2>2, <3>3 DEF RowsBelong
  <2> QED BY <2>3, <2>4
<1>8. CASE UNCHANGED conversationVars
  BY <1>8 DEF conversationVars, RowsBelong
<1> QED BY <1>1, <1>2, <1>3, <1>4, <1>5, <1>6, <1>7, <1>8
        DEF ConversationNext, ConversationsStopped

\* However chats overlap, fail and lose their conversation: there is no row
\* without its conversation, and none that the tables do not hold.
THEOREM ConversationsTyped == ConversationSpec => []ConversationTypeOK
<1>1. ConversationInit => ChatInv /\ RowsBelong
  BY ChatInvStarts DEF ConversationInit, RowsBelong
<1>2. ChatInv /\ RowsBelong /\ [ConversationNext]_conversationVars
      => (ChatInv /\ RowsBelong)'
  BY ChatInvStep, RowsBelongStep DEF ChatInv
<1>3. ChatInv /\ RowsBelong => ConversationTypeOK
  <2> SUFFICES ASSUME ChatInv, RowsBelong PROVE ConversationTypeOK
    OBVIOUS
  <2>1. DOMAIN stored = 1..Len(stored) /\ \A n \in 1..Len(stored) : stored[n] \in Rows
    BY DEF ChatInv, ChatTypes
  <2>2. \A n \in 1..Len(stored) : /\ stored[n].role \in {"user", "assistant"}
                                 /\ stored[n].status \in {"ok", "error", "cancelled"}
    BY <2>1 DEF Rows
  <2> QED BY <2>1, <2>2 DEF ConversationTypeOK, ChatInv, ChatTypes, LookupFinds, RowsBelong
<1> QED BY <1>1, <1>2, <1>3, PTL DEF ConversationSpec

-----------------------------------------------------------------------------
(* The events of a reply *)

Pieces == Seq(Nat \X Nat)
ToolEvents ==
    [kind : {"tool"}, call : CallNumbers, raw : Pieces, args : {"empty", "parsed", "_raw"}]
Events ==
    {TextEvent} \cup ToolEvents \cup [kind : {"usage"}, tokens : Nat]

IsTool(e) == e.kind = "tool"
IsReport(e) == e.kind = "usage"

\* The calls among some events come in the model's order.
Ordered(events) ==
    \A m, n \in 1..Len(events) :
        m < n /\ IsTool(events[m]) /\ IsTool(events[n]) => events[m].call < events[n].call

Has(events, i) == \E n \in 1..Len(events) : IsTool(events[n]) /\ events[n].call = i

NoReport(events) == \A n \in 1..Len(events) : ~ IsReport(events[n])
OneReport(events, total) ==
    \E n \in 1..Len(events) :
        /\ IsReport(events[n]) /\ events[n].tokens = total
        /\ \A m \in 1..Len(events) : IsReport(events[m]) => m = n

\* The fields of the events.
LEMMA ToolEventIs ==
    ASSUME NEW i \in CallNumbers, NEW raw \in Pieces
    PROVE  /\ ToolEvent(i, raw) \in Events /\ IsTool(ToolEvent(i, raw))
           /\ ~ IsReport(ToolEvent(i, raw))
           /\ ToolEvent(i, raw).call = i /\ ToolEvent(i, raw).raw = raw
<1>1. ParseArgs(i, raw) \in {"empty", "parsed", "_raw"}
  BY DEF ParseArgs
<1> HIDE DEF Pieces
<1>2. ToolEvent(i, raw) \in ToolEvents
  BY <1>1 DEF ToolEvent, ToolEvents
<1>3. IsTool(ToolEvent(i, raw)) /\ ~ IsReport(ToolEvent(i, raw))
  BY DEF ToolEvent, IsTool, IsReport
<1>4. ToolEvent(i, raw).call = i /\ ToolEvent(i, raw).raw = raw
  BY DEF ToolEvent
<1> QED BY <1>2, <1>3, <1>4 DEF Events

\* A piece of text is neither a call nor a report.
LEMMA TextEventIs ==
    TextEvent \in Events /\ ~ IsTool(TextEvent) /\ ~ IsReport(TextEvent)
<1>1. TextEvent.kind = "text"
  BY DEF TextEvent
<1> QED BY <1>1 DEF Events, IsTool, IsReport

\* A report holds its tokens.
LEMMA UsageEventIs ==
    ASSUME NEW n \in Nat
    PROVE  /\ UsageEvent(n) \in Events /\ IsReport(UsageEvent(n))
           /\ ~ IsTool(UsageEvent(n)) /\ UsageEvent(n).tokens = n
<1>1. UsageEvent(n).kind = "usage" /\ UsageEvent(n).tokens = n
  BY DEF UsageEvent
<1>2. UsageEvent(n) \in [kind : {"usage"}, tokens : Nat]
  BY DEF UsageEvent
<1> QED BY <1>1, <1>2 DEF Events, IsTool, IsReport

\* A tool event is a call with its fragments.
LEMMA ToolsAre ==
    ASSUME NEW e \in Events, IsTool(e)
    PROVE  e.call \in CallNumbers /\ e.raw \in Pieces
<1>1. e # TextEvent
  BY TextEventIs
<1>2. e \notin [kind : {"usage"}, tokens : Nat]
  <2>1. SUFFICES ASSUME e \in [kind : {"usage"}, tokens : Nat] PROVE FALSE
    OBVIOUS
  <2>2. e.kind = "usage"
    BY <2>1
  <2> QED BY <2>2 DEF IsTool
<1>3. e \in ToolEvents
  BY <1>1, <1>2 DEF Events
<1> HIDE DEF Pieces
<1> QED BY <1>3 DEF ToolEvents

-----------------------------------------------------------------------------
(* More events *)

\* Where the events of a longer reply come from.
LEMMA EventsJoined ==
    ASSUME NEW ys \in Seq(Events), NEW es \in Seq(Events)
    PROVE  /\ ys \o es \in Seq(Events) /\ Len(ys \o es) = Len(ys) + Len(es)
           /\ Len(ys) \in Nat /\ Len(es) \in Nat
           /\ \A n \in 1..Len(ys \o es) :
                 \/ n \in 1..Len(ys) /\ (ys \o es)[n] = ys[n]
                 \/ n - Len(ys) \in 1..Len(es) /\ (ys \o es)[n] = es[n - Len(ys)]
           /\ \A n \in 1..Len(ys) : n \in 1..Len(ys \o es) /\ (ys \o es)[n] = ys[n]
           /\ \A n \in 1..Len(es) :
                 Len(ys) + n \in 1..Len(ys \o es) /\ (ys \o es)[Len(ys) + n] = es[n]
<1> DEFINE zs == ys \o es
<1>1. zs \in Seq(Events) /\ Len(zs) = Len(ys) + Len(es)
      /\ Len(ys) \in Nat /\ Len(es) \in Nat
  OBVIOUS
<1>2. \A i \in 1..Len(ys) : zs[i] = ys[i]
  BY JoinIs
<1>3. \A i \in 1..Len(es) : zs[Len(ys) + i] = es[i]
  BY JoinIs
<1> HIDE DEF zs
<1>4. ASSUME NEW n \in 1..Len(zs)
      PROVE  \/ n \in 1..Len(ys) /\ zs[n] = ys[n]
             \/ n - Len(ys) \in 1..Len(es) /\ zs[n] = es[n - Len(ys)]
  <2>1. CASE n <= Len(ys)
    BY <1>1, <1>2, <2>1
  <2>2. CASE n > Len(ys)
    <3>1. n - Len(ys) \in 1..Len(es) /\ Len(ys) + (n - Len(ys)) = n
      BY <1>1, <2>2
    <3> QED BY <1>3, <3>1
  <2> QED BY <1>1, <2>1, <2>2
<1>5. \A n \in 1..Len(ys) : n \in 1..Len(zs) /\ zs[n] = ys[n]
  BY <1>1, <1>2
<1>6. \A n \in 1..Len(es) : Len(ys) + n \in 1..Len(zs) /\ zs[Len(ys) + n] = es[n]
  BY <1>1, <1>3
<1> QED BY <1>1, <1>4, <1>5, <1>6 DEF zs

\* Later calls come later.
LEMMA OrderKept ==
    ASSUME NEW ys \in Seq(Events), NEW es \in Seq(Events), Ordered(ys), Ordered(es),
           \A m \in 1..Len(ys), n \in 1..Len(es) :
               IsTool(ys[m]) /\ IsTool(es[n]) => ys[m].call < es[n].call
    PROVE  Ordered(ys \o es)
<1> DEFINE zs == ys \o es
<1>0. /\ Len(ys) \in Nat /\ Len(es) \in Nat /\ Len(zs) = Len(ys) + Len(es)
      /\ \A n \in 1..Len(zs) :
                 \/ n \in 1..Len(ys) /\ zs[n] = ys[n]
                 \/ n - Len(ys) \in 1..Len(es) /\ zs[n] = es[n - Len(ys)]
  BY EventsJoined
<1> HIDE DEF zs
<1> SUFFICES ASSUME NEW m \in 1..Len(zs), NEW n \in 1..Len(zs), m < n,
                    IsTool(zs[m]), IsTool(zs[n])
             PROVE  zs[m].call < zs[n].call
  BY DEF Ordered, zs
<1>1. CASE n \in 1..Len(ys) /\ zs[n] = ys[n]
  <2>1. m \in 1..Len(ys) /\ zs[m] = ys[m]
    BY <1>0, <1>1
  <2> QED BY <1>1, <2>1 DEF Ordered
<1>2. CASE n - Len(ys) \in 1..Len(es) /\ zs[n] = es[n - Len(ys)]
  <2>1. CASE m \in 1..Len(ys) /\ zs[m] = ys[m]
    BY <1>2, <2>1
  <2>2. CASE m - Len(ys) \in 1..Len(es) /\ zs[m] = es[m - Len(ys)]
    <3>1. m - Len(ys) < n - Len(ys)
      BY <1>0
    <3> QED BY <1>2, <2>2, <3>1 DEF Ordered
  <2> QED BY <1>0, <2>1, <2>2
<1> QED BY <1>0, <1>1, <1>2

\* The calls of both.
LEMMA CallsJoined ==
    ASSUME NEW ys \in Seq(Events), NEW es \in Seq(Events), NEW i
    PROVE  Has(ys \o es, i) <=> Has(ys, i) \/ Has(es, i)
<1>1. ASSUME Has(ys \o es, i) PROVE Has(ys, i) \/ Has(es, i)
  BY <1>1, EventsJoined DEF Has
<1>2. ASSUME Has(ys, i) PROVE Has(ys \o es, i)
  BY <1>2, EventsJoined DEF Has
<1>3. ASSUME Has(es, i) PROVE Has(ys \o es, i)
  <2>1. PICK n \in 1..Len(es) : IsTool(es[n]) /\ es[n].call = i
    BY <1>3 DEF Has
  <2>2. Len(ys) + n \in 1..Len(ys \o es) /\ (ys \o es)[Len(ys) + n] = es[n]
    BY EventsJoined
  <2> QED BY <2>1, <2>2 DEF Has
<1> QED BY <1>1, <1>2, <1>3

\* The reports of both.
LEMMA ReportsJoined ==
    ASSUME NEW ys \in Seq(Events), NEW es \in Seq(Events)
    PROVE  /\ NoReport(ys) /\ NoReport(es) => NoReport(ys \o es)
           /\ \A total : OneReport(ys, total) /\ NoReport(es) => OneReport(ys \o es, total)
           /\ \A total : NoReport(ys) /\ OneReport(es, total) => OneReport(ys \o es, total)
<1>1. ASSUME NoReport(ys), NoReport(es) PROVE NoReport(ys \o es)
  BY <1>1, EventsJoined DEF NoReport
<1>2. ASSUME NEW total, OneReport(ys, total), NoReport(es)
      PROVE  OneReport(ys \o es, total)
  <2>1. PICK n \in 1..Len(ys) :
            /\ IsReport(ys[n]) /\ ys[n].tokens = total
            /\ \A m \in 1..Len(ys) : IsReport(ys[m]) => m = n
    BY <1>2 DEF OneReport
  <2>2. n \in 1..Len(ys \o es) /\ (ys \o es)[n] = ys[n]
    BY EventsJoined
  <2>3. ASSUME NEW m \in 1..Len(ys \o es), IsReport((ys \o es)[m]) PROVE m = n
    <3>1. \/ m \in 1..Len(ys) /\ (ys \o es)[m] = ys[m]
          \/ m - Len(ys) \in 1..Len(es) /\ (ys \o es)[m] = es[m - Len(ys)]
      BY EventsJoined
    <3> QED BY <1>2, <2>1, <2>3, <3>1 DEF NoReport
  <2> QED BY <2>1, <2>2, <2>3 DEF OneReport
<1>3. ASSUME NEW total, NoReport(ys), OneReport(es, total)
      PROVE  OneReport(ys \o es, total)
  <2>1. PICK n \in 1..Len(es) :
            /\ IsReport(es[n]) /\ es[n].tokens = total
            /\ \A m \in 1..Len(es) : IsReport(es[m]) => m = n
    BY <1>3 DEF OneReport
  <2>2. Len(ys) + n \in 1..Len(ys \o es) /\ (ys \o es)[Len(ys) + n] = es[n]
    BY EventsJoined
  <2>3. ASSUME NEW m \in 1..Len(ys \o es), IsReport((ys \o es)[m]) PROVE m = Len(ys) + n
    <3>1. \/ m \in 1..Len(ys) /\ (ys \o es)[m] = ys[m]
          \/ m - Len(ys) \in 1..Len(es) /\ (ys \o es)[m] = es[m - Len(ys)]
      BY EventsJoined
    <3>2. m - Len(ys) = n
      BY <1>3, <2>1, <2>3, <3>1 DEF NoReport
    <3>3. Len(ys) \in Nat /\ m \in Int /\ n \in Int
      BY EventsJoined
    <3> QED BY <3>2, <3>3
  <2> QED BY <2>1, <2>2, <2>3 DEF OneReport
<1> QED BY <1>1, <1>2, <1>3

-----------------------------------------------------------------------------
(* The parser's slots, and what OpenAI's parser makes of them at the end *)

Slot == [named : BOOLEAN, raw : Pieces]
SlotsTyped == DOMAIN slots \subseteq CallNumbers /\ \A i \in DOMAIN slots : slots[i] \in Slot

\* Fragments of call i alone, in their order, and none that was not sent.
Fits(i, raw, limit) ==
    \A k \in 1..Len(raw) :
        /\ raw[k][1] = i /\ raw[k][2] <= limit
        /\ k > 1 => raw[k - 1][2] < raw[k][2]

\* Calls are numbered from one.
LEMMA CallsCounted ==
    /\ Len(Fragments) \in Nat /\ CallNumbers = 1..Len(Fragments)
    /\ \A i \in CallNumbers : Fragments[i] \in Nat
BY StreamAssumption DEF CallNumbers

\* What is yielded of the slots up to k.
Gathered(k, v) ==
    /\ v \in Seq(Events) /\ Ordered(v)
    /\ \A n \in 1..Len(v) :
          /\ IsTool(v[n]) /\ ~ IsReport(v[n])
          /\ v[n].call \in DOMAIN slots /\ v[n].call <= k
          /\ v[n].raw = slots[v[n].call].raw
    /\ \A i \in DOMAIN slots : i <= k /\ slots[i].named => Has(v, i)

With(i, v) ==
    IF i \in DOMAIN slots /\ slots[i].named
    THEN Append(v, ToolEvent(i, slots[i].raw)) ELSE v

\* A reply with one event.
LEMMA OneEvent ==
    ASSUME NEW e \in Events
    PROVE  /\ <<e>> \in Seq(Events) /\ Len(<<e>>) = 1 /\ <<e>>[1] = e
           /\ Ordered(<<e>>)
           /\ IsTool(e) => Has(<<e>>, e.call)
           /\ ~ IsReport(e) => NoReport(<<e>>)
           /\ \A n \in 1..Len(<<e>>) : <<e>>[n] = e
<1> DEFINE es == <<e>>
<1>1. es \in Seq(Events) /\ Len(es) = 1 /\ es[1] = e
  OBVIOUS
<1> HIDE DEF es
<1>2. \A n \in 1..Len(es) : n = 1
  BY <1>1
<1>3. Ordered(es)
  BY <1>2 DEF Ordered
<1>4. IsTool(e) => Has(es, e.call)
  <2>1. 1 \in 1..Len(es)
    BY <1>1
  <2> QED BY <1>1, <2>1 DEF Has
<1>5. ~ IsReport(e) => NoReport(es)
  BY <1>1, <1>2 DEF NoReport
<1>6. \A n \in 1..Len(es) : es[n] = e
  BY <1>1, <1>2
<1> QED BY <1>1, <1>3, <1>4, <1>5, <1>6 DEF es

\* An event added is a reply of one event joined.
LEMMA Appended ==
    ASSUME NEW v \in Seq(Events), NEW e \in Events
    PROVE  Append(v, e) = v \o <<e>>
OBVIOUS

\* One slot more.
LEMMA GatheredWith ==
    ASSUME SlotsTyped, NEW k \in CallNumbers, NEW v, Gathered(k - 1, v)
    PROVE  Gathered(k, With(k, v))
<1> USE CallsCounted
<1>1. CASE ~ (k \in DOMAIN slots /\ slots[k].named)
  <2>1. With(k, v) = v
    BY <1>1 DEF With
  <2>2. DOMAIN slots \subseteq CallNumbers
    BY DEF SlotsTyped
  <2>3. \A i \in DOMAIN slots : i <= k /\ slots[i].named => i <= k - 1
    BY <1>1, <2>2
  <2>4. \A i \in DOMAIN slots : i <= k /\ slots[i].named => Has(v, i)
    BY <2>3 DEF Gathered
  <2>5. \A n \in 1..Len(v) : v[n].call <= k
    <3>1. ASSUME NEW n \in 1..Len(v) PROVE v[n].call <= k
      <4>1. v[n].call \in CallNumbers /\ v[n].call <= k - 1
        BY <2>2 DEF Gathered
      <4> QED BY <4>1
    <3> QED BY <3>1
  <2> QED BY <2>1, <2>4, <2>5 DEF Gathered
<1>2. CASE k \in DOMAIN slots /\ slots[k].named
  <2> DEFINE e == ToolEvent(k, slots[k].raw)
  <2>1. slots[k].raw \in Pieces
    BY <1>2 DEF SlotsTyped, Slot
  <2>2. e \in Events /\ IsTool(e) /\ ~ IsReport(e) /\ e.call = k /\ e.raw = slots[k].raw
    BY <2>1, ToolEventIs
  <2> HIDE DEF e
  <2>3. v \in Seq(Events)
    BY DEF Gathered
  <2>4. With(k, v) = v \o <<e>>
    BY <1>2, <2>2, <2>3, Appended DEF With, e
  <2> DEFINE es == <<e>>
  <2>5. /\ es \in Seq(Events) /\ Ordered(es) /\ Has(es, k)
        /\ \A n \in 1..Len(es) : es[n] = e
    BY <2>2, OneEvent
  <2> HIDE DEF es
  <2>6. /\ v \o es \in Seq(Events)
        /\ \A n \in 1..Len(v \o es) :
             \/ n \in 1..Len(v) /\ (v \o es)[n] = v[n]
             \/ n - Len(v) \in 1..Len(es) /\ (v \o es)[n] = es[n - Len(v)]
    BY <2>3, <2>5, EventsJoined
  <2>7. \A n \in 1..Len(v) : v[n].call < k /\ v[n].call <= k
    <3>1. ASSUME NEW n \in 1..Len(v) PROVE v[n].call < k /\ v[n].call <= k
      <4>1. v[n].call \in CallNumbers /\ v[n].call <= k - 1
        BY DEF Gathered, SlotsTyped
      <4> QED BY <4>1
    <3> QED BY <3>1
  <2>8. Ordered(v \o es)
    <3>1. Ordered(v)
      BY DEF Gathered
    <3>2. \A m \in 1..Len(v), n \in 1..Len(es) : v[m].call < es[n].call
      BY <2>2, <2>5, <2>7
    <3> QED BY <2>3, <2>5, <3>1, <3>2, OrderKept
  <2>9. ASSUME NEW n \in 1..Len(v \o es)
        PROVE  LET x == (v \o es)[n]
               IN  /\ IsTool(x) /\ ~ IsReport(x) /\ x.call \in DOMAIN slots /\ x.call <= k
                   /\ x.raw = slots[x.call].raw
    <3>1. CASE n \in 1..Len(v) /\ (v \o es)[n] = v[n]
      BY <2>7, <3>1 DEF Gathered
    <3>2. CASE (v \o es)[n] = e
      BY <1>2, <2>2, <3>2
    <3> QED BY <2>5, <2>6, <3>1, <3>2
  <2>10. ASSUME NEW i \in DOMAIN slots, i <= k, slots[i].named PROVE Has(v \o es, i)
    <3>1. CASE i = k
      BY <2>3, <2>5, <3>1, CallsJoined
    <3>2. CASE i # k
      <4>1. i \in CallNumbers
        BY DEF SlotsTyped
      <4>2. i <= k - 1
        BY <2>10, <3>2, <4>1
      <4>3. Has(v, i)
        BY <2>10, <4>2 DEF Gathered
      <4> QED BY <2>3, <2>5, <4>3, CallsJoined
    <3> QED BY <3>1, <3>2
  <2>11. With(k, v) = v \o es
    BY <2>4 DEF es
  <2> QED BY <2>6, <2>8, <2>9, <2>10, <2>11 DEF Gathered
<1> QED BY <1>1, <1>2

\* The named calls, in their order.
LEMMA FinishedIs ==
    ASSUME SlotsTyped
    PROVE  Gathered(Len(Fragments), Finished)
<1> DEFINE n == Len(Fragments)
           V == Seq(Events)
           step == [i \in 1..n |-> [v \in V |-> With(i, v)]]
           gathers(G) == G = [k \in 0..n |-> IF k = 0 THEN <<>> ELSE With(k, G[k - 1])]
           F == CHOOSE G : gathers(G)
<1>1. Finished = F[n]
  BY DEF Finished, With
<1>2. n \in Nat /\ CallNumbers = 1..n
  BY CallsCounted
<1>3. ASSUME NEW v \in V, NEW i \in 1..n PROVE With(i, v) \in V
  <2>1. CASE i \in DOMAIN slots /\ slots[i].named
    <3>1. slots[i].raw \in Pieces /\ i \in CallNumbers
      BY <1>2, <2>1 DEF SlotsTyped, Slot
    <3>2. ToolEvent(i, slots[i].raw) \in Events
      BY <3>1, ToolEventIs
    <3>3. Append(v, ToolEvent(i, slots[i].raw)) \in V
      BY <3>2
    <3> QED BY <2>1, <3>3 DEF With
  <2>2. CASE ~ (i \in DOMAIN slots /\ slots[i].named)
    BY <2>2 DEF With
  <2> QED BY <2>1, <2>2
<1>4. <<>> \in V
  OBVIOUS
<1>5. Gathered(0, <<>>)
  <2>1. \A i \in DOMAIN slots : ~ (i <= 0)
    BY <1>2 DEF SlotsTyped
  <2>2. 1..Len(<<>>) = {}
    OBVIOUS
  <2> QED BY <1>4, <2>1, <2>2 DEF Gathered, Ordered
<1> HIDE DEF n, V
<1>6. \E G : gathers(G)
  <2>1. step \in [1..n -> [V -> V]]
    BY <1>3
  <2>2. PICK G : IsRecursion(G, V, <<>>, step, n)
    <3> HIDE DEF step
    <3> QED BY <1>2, <1>4, <2>1, RecursionExists
  <2>3. ASSUME NEW k \in 0..n
        PROVE  G[k] = IF k = 0 THEN <<>> ELSE With(k, G[k - 1])
    <3>1. CASE k = 0
      BY <2>2, <3>1 DEF IsRecursion
    <3>2. CASE k # 0
      <4>1. k \in 1..n /\ k - 1 \in 0..n
        BY <1>2, <3>2
      <4>2. G[k] = step[k][G[k - 1]] /\ G[k - 1] \in V
        BY <2>2, <4>1 DEF IsRecursion
      <4> QED BY <3>2, <4>1, <4>2
    <3> QED BY <3>1, <3>2
  <2>4. gathers(G)
    <3>1. G = [k \in 0..n |-> G[k]]
      BY <2>2 DEF IsRecursion
    <3> QED BY <2>3, <3>1
  <2> QED BY <2>4
<1>7. gathers(F)
  <2> HIDE DEF gathers
  <2> QED BY <1>6
<1>8. ASSUME NEW k \in 0..n
      PROVE  F[k] = IF k = 0 THEN <<>> ELSE With(k, F[k - 1])
  <2> HIDE DEF F
  <2> QED BY <1>7
<1> HIDE DEF F
<1> DEFINE N == {k \in Nat : k <= n => Gathered(k, F[k])}
<1>9. 0 \in N
  BY <1>2, <1>5, <1>8
<1>10. ASSUME NEW k \in Nat, k \in N PROVE k + 1 \in N
  <2> SUFFICES ASSUME k + 1 <= n PROVE Gathered(k + 1, F[k + 1])
    OBVIOUS
  <2>1. Gathered(k, F[k])
    BY <1>2, <1>10
  <2>2. k + 1 \in 0..n /\ k + 1 # 0 /\ (k + 1) - 1 = k /\ k + 1 \in CallNumbers
    BY <1>2
  <2>3. F[k + 1] = With(k + 1, F[k])
    BY <1>8, <2>2
  <2>4. Gathered((k + 1) - 1, F[k])
    BY <2>1, <2>2
  <2> QED BY <2>2, <2>3, <2>4, GatheredWith
<1>11. n \in N
  <2> HIDE DEF N
  <2> QED BY <1>2, <1>9, <1>10, Induct
<1> QED BY <1>1, <1>2, <1>11 DEF n

\* The tokens of a reply are a number.
LEMMA ProducedIs ==
    ASSUME texts \in Nat, sent \in [CallNumbers -> Nat]
    PROVE  Produced \in Nat
<1> DEFINE n == Len(Fragments)
           step == [i \in 1..n |-> [v \in Nat |-> v + sent[i]]]
           adds(G) == G = [k \in 0..n |-> IF k = 0 THEN texts ELSE G[k - 1] + sent[k]]
           F == CHOOSE G : adds(G)
<1>1. Produced = F[n]
  BY DEF Produced
<1>2. n \in Nat /\ CallNumbers = 1..n
  BY CallsCounted
<1> HIDE DEF n
<1>3. \E G : adds(G) /\ G \in [0..n -> Nat]
  <2>1. step \in [1..n -> [Nat -> Nat]]
    BY <1>2
  <2>2. PICK G : IsRecursion(G, Nat, texts, step, n)
    <3> HIDE DEF step
    <3> QED BY <1>2, <2>1, RecursionExists
  <2>3. ASSUME NEW k \in 0..n
        PROVE  G[k] = IF k = 0 THEN texts ELSE G[k - 1] + sent[k]
    <3>1. CASE k = 0
      BY <2>2, <3>1 DEF IsRecursion
    <3>2. CASE k # 0
      <4>1. k \in 1..n /\ k - 1 \in 0..n
        BY <1>2, <3>2
      <4>2. G[k] = step[k][G[k - 1]] /\ G[k - 1] \in Nat
        BY <2>2, <4>1 DEF IsRecursion
      <4> QED BY <3>2, <4>1, <4>2
    <3> QED BY <3>1, <3>2
  <2>4. adds(G)
    <3>1. G = [k \in 0..n |-> G[k]]
      BY <2>2 DEF IsRecursion
    <3> QED BY <2>3, <3>1
  <2>5. G \in [0..n -> Nat]
    BY <2>2 DEF IsRecursion
  <2> QED BY <2>4, <2>5
<1>7. adds(F)
  <2> HIDE DEF adds
  <2> QED BY <1>3
<1>8. ASSUME NEW k \in 0..n
      PROVE  F[k] = IF k = 0 THEN texts ELSE F[k - 1] + sent[k]
  <2> HIDE DEF F
  <2> QED BY <1>7
<1> HIDE DEF F
<1> DEFINE N == {k \in Nat : k <= n => F[k] \in Nat}
<1>9. 0 \in N
  BY <1>2, <1>8
<1>10. ASSUME NEW k \in Nat, k \in N PROVE k + 1 \in N
  <2> SUFFICES ASSUME k + 1 <= n PROVE F[k + 1] \in Nat
    OBVIOUS
  <2>1. F[k] \in Nat
    BY <1>2, <1>10
  <2>2. k + 1 \in 0..n /\ k + 1 # 0 /\ (k + 1) - 1 = k /\ k + 1 \in CallNumbers
    BY <1>2
  <2>3. F[k + 1] = F[k] + sent[k + 1]
    BY <1>8, <2>2
  <2> QED BY <2>1, <2>2, <2>3
<1>11. n \in N
  <2> HIDE DEF N
  <2> QED BY <1>2, <1>9, <1>10, Induct
<1> QED BY <1>1, <1>2, <1>11

-----------------------------------------------------------------------------
(* The invariant of a reply *)

Dialogue == {"openai", "anthropic", "ollama"}

\* Types, and how far a call has been sent.
StreamTypes ==
    /\ dialect \in Dialogue
    /\ opened \in 0..Len(Fragments)
    /\ sent \in [CallNumbers -> Nat]
    /\ \A i \in CallNumbers :
          sent[i] <= Fragments[i] /\ (i > opened => sent[i] = 0)
    /\ stopped \subseteq 1..opened
    /\ texts \in Nat /\ counted \in Nat
    /\ SlotsTyped /\ DOMAIN slots \subseteq 1..opened
    /\ yielded \in Seq(Events)
    /\ reply \in {"streaming", "summed", "over", "failed"}

\* What has been yielded, whatever went wrong.
CallMayBeYielded(e, adapter, calls, ended, ending) ==
    /\ e.call \in 1..calls /\ Unmixed(e)
    /\ adapter = "anthropic" => e.call \in ended
    /\ adapter = "openai" => ending = "over"
YieldedWell ==
    /\ Ordered(yielded)
    /\ \A n \in 1..Len(yielded) : IsTool(yielded[n]) =>
          CallMayBeYielded(yielded[n], dialect, opened, stopped, reply)

SlotsFit == \A i \in DOMAIN slots : Fits(i, slots[i].raw, sent[i])

\* What an unharmed reply has in addition.
YieldedWhole ==
    \A n \in 1..Len(yielded) :
        IsTool(yielded[n]) => Len(yielded[n].raw) = Fragments[yielded[n].call]
SlotsWhole ==
    \A i \in DOMAIN slots : slots[i].named /\ Len(slots[i].raw) = sent[i]
NothingMissing ==
    /\ dialect = "openai" =>
          /\ reply \in {"streaming", "summed"} => DOMAIN slots = 1..opened
          /\ reply = "summed" => \A i \in 1..opened : sent[i] = Fragments[i]
          /\ reply = "over" => \A i \in 1..opened : Has(yielded, i)
    /\ dialect = "anthropic" =>
          /\ DOMAIN slots = (1..opened) \ stopped
          /\ \A i \in stopped : Has(yielded, i)
          /\ reply \in {"summed", "over"} => stopped = 1..opened
    /\ dialect = "ollama" =>
          DOMAIN slots = {} /\ \A i \in 1..opened : Has(yielded, i)
UsageReported ==
    /\ reply = "streaming" => NoReport(yielded)
    /\ reply = "summed" =>
          IF dialect = "anthropic" THEN NoReport(yielded) /\ counted = Produced
                                   ELSE OneReport(yielded, Produced)
    /\ reply = "over" => OneReport(yielded, Produced)
Unharmed ==
    flaws = {} => YieldedWhole /\ SlotsWhole /\ NothingMissing /\ UsageReported

StreamInv == StreamTypes /\ YieldedWell /\ SlotsFit /\ Unharmed

-----------------------------------------------------------------------------
(* Lemmas about steps *)

\* What fits a call is not mixed with another.
LEMMA FitsUnmixed ==
    ASSUME NEW raw \in Pieces, NEW i, NEW limit, Fits(i, raw, limit),
           NEW e, e.call = i, e.raw = raw
    PROVE  Unmixed(e)
<1>1. DOMAIN raw = 1..Len(raw)
  BY DEF Pieces
<1> QED BY <1>1 DEF Unmixed, Fits

\* It still fits when more has been sent.
LEMMA FitsLater ==
    ASSUME NEW raw \in Pieces, NEW i, NEW limit \in Nat, NEW later \in Nat,
           limit <= later, Fits(i, raw, limit)
    PROVE  Fits(i, raw, later)
<1>1. \A k \in 1..Len(raw) : raw[k] \in Nat \X Nat
  BY DEF Pieces
<1>2. \A k \in 1..Len(raw) : raw[k][2] \in Nat
  BY <1>1
<1>3. \A k \in 1..Len(raw) : raw[k][2] <= later
  BY <1>2 DEF Fits
<1> QED BY <1>3 DEF Fits

\* It fits with the fragment that follows.
LEMMA FitsOneMore ==
    ASSUME NEW raw \in Pieces, NEW i \in Nat, NEW limit \in Nat, Fits(i, raw, limit)
    PROVE  /\ Append(raw, <<i, limit + 1>>) \in Pieces
           /\ Fits(i, Append(raw, <<i, limit + 1>>), limit + 1)
           /\ Len(Append(raw, <<i, limit + 1>>)) = Len(raw) + 1
<1> DEFINE p == <<i, limit + 1>>
           new == Append(raw, p)
<1>1. p \in Nat \X Nat /\ p[1] = i /\ p[2] = limit + 1
  OBVIOUS
<1> HIDE DEF p
<1>2. /\ new \in Pieces /\ Len(new) = Len(raw) + 1 /\ new[Len(raw) + 1] = p
      /\ \A k \in 1..Len(raw) : new[k] = raw[k]
      /\ Len(raw) \in Nat
  BY <1>1 DEF Pieces
<1> HIDE DEF new
<1>3. \A k \in 1..Len(raw) : raw[k] \in Nat \X Nat
  BY DEF Pieces
<1>4. \A k \in 1..Len(raw) : raw[k][2] \in Nat
  BY <1>3
<1>5. ASSUME NEW k \in 1..Len(new)
      PROVE  /\ new[k][1] = i /\ new[k][2] <= limit + 1
             /\ k > 1 => new[k - 1][2] < new[k][2]
  <2>1. CASE k \in 1..Len(raw)
    <3>1. raw[k][1] = i /\ raw[k][2] <= limit + 1
      BY <1>4, <2>1 DEF Fits
    <3>2. ASSUME k > 1 PROVE new[k - 1][2] < new[k][2]
      <4>1. k - 1 \in 1..Len(raw)
        BY <1>2, <2>1, <3>2
      <4> QED BY <1>2, <2>1, <3>2, <4>1 DEF Fits
    <3> QED BY <1>2, <2>1, <3>1, <3>2
  <2>2. CASE k = Len(raw) + 1
    <3>1. new[k][1] = i /\ new[k][2] = limit + 1
      BY <1>1, <1>2, <2>2
    <3>2. ASSUME k > 1 PROVE new[k - 1][2] < new[k][2]
      <4>1. k - 1 \in 1..Len(raw)
        BY <1>2, <2>2, <3>2
      <4>2. raw[k - 1][2] <= limit /\ raw[k - 1][2] \in Nat
        BY <1>4, <4>1 DEF Fits
      <4> QED BY <1>2, <3>1, <4>1, <4>2
    <3> QED BY <3>1, <3>2
  <2> QED BY <1>2, <2>1, <2>2
<1>6. Fits(i, new, limit + 1)
  BY <1>5 DEF Fits
<1> QED BY <1>2, <1>6 DEF new, p

\* Nothing is yielded.
LEMMA WellWithout ==
    ASSUME StreamTypes, YieldedWell, yielded' = yielded, dialect' = dialect,
           opened' \in Nat, opened <= opened', stopped \subseteq stopped',
           reply = "over" => reply' = "over"
    PROVE  YieldedWell'
<1>1. opened \in Nat /\ 1..opened \subseteq 1..opened'
  BY CallsCounted DEF StreamTypes
<1>2. \A n \in 1..Len(yielded) :
          IsTool(yielded[n]) =>
                CallMayBeYielded(yielded[n], dialect', opened', stopped', reply')
  BY <1>1 DEF YieldedWell, CallMayBeYielded
<1> QED BY <1>2 DEF YieldedWell

\* Something is.
LEMMA WellWith ==
    ASSUME StreamTypes, YieldedWell, NEW es \in Seq(Events), yielded' = yielded \o es,
           dialect' = dialect, opened' \in Nat, opened <= opened',
           stopped \subseteq stopped', reply = "over" => reply' = "over",
           Ordered(es),
           \A n \in 1..Len(es) : IsTool(es[n]) =>
                 CallMayBeYielded(es[n], dialect', opened', stopped', reply'),
           \A m \in 1..Len(yielded), n \in 1..Len(es) :
               IsTool(yielded[m]) /\ IsTool(es[n]) => yielded[m].call < es[n].call
    PROVE  YieldedWell' /\ yielded' \in Seq(Events)
<1>1. opened \in Nat /\ 1..opened \subseteq 1..opened' /\ yielded \in Seq(Events)
  BY CallsCounted DEF StreamTypes
<1>2. \A n \in 1..Len(yielded) :
          IsTool(yielded[n]) =>
                CallMayBeYielded(yielded[n], dialect', opened', stopped', reply')
  BY <1>1 DEF YieldedWell, CallMayBeYielded
<1>3. Ordered(yielded \o es)
  BY <1>1, OrderKept DEF YieldedWell
<1>4. ASSUME NEW n \in 1..Len(yielded \o es), IsTool((yielded \o es)[n])
      PROVE  CallMayBeYielded((yielded \o es)[n], dialect', opened', stopped', reply')
  <2>1. \/ n \in 1..Len(yielded) /\ (yielded \o es)[n] = yielded[n]
        \/ n - Len(yielded) \in 1..Len(es) /\ (yielded \o es)[n] = es[n - Len(yielded)]
    BY <1>1, EventsJoined
  <2> QED BY <1>2, <1>4, <2>1
<1>5. yielded \o es \in Seq(Events)
  BY <1>1, EventsJoined
<1>6. \A n \in 1..Len(yielded') : IsTool(yielded'[n]) =>
      CallMayBeYielded(yielded'[n], dialect', opened', stopped', reply')
  BY <1>4
<1>7. Ordered(yielded')
  BY <1>3
<1> QED BY <1>5, <1>6, <1>7 DEF YieldedWell

\* They are whole.
LEMMA WholeWith ==
    ASSUME NEW ys \in Seq(Events), NEW es \in Seq(Events),
           \A n \in 1..Len(ys) : IsTool(ys[n]) => Len(ys[n].raw) = Fragments[ys[n].call],
           \A n \in 1..Len(es) : IsTool(es[n]) => Len(es[n].raw) = Fragments[es[n].call]
    PROVE  \A n \in 1..Len(ys \o es) :
               IsTool((ys \o es)[n]) => Len((ys \o es)[n].raw) = Fragments[(ys \o es)[n].call]
<1> SUFFICES ASSUME NEW n \in 1..Len(ys \o es), IsTool((ys \o es)[n])
             PROVE  Len((ys \o es)[n].raw) = Fragments[(ys \o es)[n].call]
  OBVIOUS
<1>1. \/ n \in 1..Len(ys) /\ (ys \o es)[n] = ys[n]
      \/ n - Len(ys) \in 1..Len(es) /\ (ys \o es)[n] = es[n - Len(ys)]
  BY EventsJoined
<1> QED BY <1>1

\* The tokens of a reply change only when something is sent.
LEMMA ProducedKept ==
    ASSUME sent' = sent, texts' = texts
    PROVE  Produced' = Produced
BY DEF Produced

\* A slot is put, the others stay.
LEMMA SlotPut ==
    ASSUME SlotsTyped, NEW i \in CallNumbers, NEW slot \in Slot, PutSlot(i, slot)
    PROVE  /\ SlotsTyped' /\ DOMAIN slots' = DOMAIN slots \cup {i} /\ slots'[i] = slot
           /\ \A j \in DOMAIN slots : j # i => slots'[j] = slots[j]
<1>1. DOMAIN slots' = DOMAIN slots \cup {i} /\ slots'[i] = slot
      /\ \A j \in DOMAIN slots : j # i => slots'[j] = slots[j]
  BY DEF PutSlot
<1> QED BY <1>1 DEF SlotsTyped

\* An empty slot.
LEMMA FreshSlot ==
    [named |-> TRUE, raw |-> <<>>] \in Slot /\ [named |-> FALSE, raw |-> <<>>] \in Slot
BY DEF Slot, Pieces

\* setdefault returns a slot.
LEMMA SlotAtIs ==
    ASSUME SlotsTyped, NEW i
    PROVE  SlotAt(i) \in Slot
BY FreshSlot DEF SlotAt, SlotsTyped

\* A slot with one fragment more keeps its name.
LEMMA SlotGrows ==
    ASSUME NEW slot \in Slot, NEW p, Append(slot.raw, p) \in Pieces
    PROVE  /\ [slot EXCEPT !.raw = Append(@, p)] \in Slot
           /\ [slot EXCEPT !.raw = Append(@, p)].raw = Append(slot.raw, p)
           /\ [slot EXCEPT !.raw = Append(@, p)].named = slot.named
<1> HIDE DEF Pieces
<1> QED BY DEF Slot

-----------------------------------------------------------------------------
(* Every step preserves the invariant *)

\* Nothing was yielded and no slot has changed.
LEMMA QuietStep ==
    ASSUME StreamTypes, YieldedWell, SlotsFit, UNCHANGED <<dialect, slots, yielded>>,
           opened' \in Nat, opened <= opened', stopped \subseteq stopped',
           reply = "over" => reply' = "over",
           sent' \in [CallNumbers -> Nat], \A i \in CallNumbers : sent[i] <= sent'[i]
    PROVE  YieldedWell' /\ SlotsFit' /\ SlotsTyped'
<1>1. YieldedWell'
  BY WellWithout
<1>2. SlotsTyped'
  BY DEF StreamTypes, SlotsTyped
<1>3. ASSUME NEW i \in DOMAIN slots PROVE Fits(i, slots[i].raw, sent'[i])
  <2>1. i \in CallNumbers /\ slots[i].raw \in Pieces /\ sent[i] \in Nat /\ sent'[i] \in Nat
    <3> HIDE DEF Pieces
    <3> QED BY DEF StreamTypes, SlotsTyped, Slot
  <2> QED BY <2>1, FitsLater DEF SlotsFit
<1>4. SlotsFit'
  BY <1>3 DEF SlotsFit
<1> QED BY <1>1, <1>2, <1>4

\* A piece of text.
LEMMA TextStep ==
    ASSUME StreamInv, SendText
    PROVE  StreamInv'
<1> USE DEF StreamInv
<1>1. /\ UNCHANGED <<dialect, opened, sent, stopped, reply>> /\ texts' = texts + 1
      /\ reply = "streaming"
      /\ \/ yielded' = yielded \o <<TextEvent>> /\ UNCHANGED <<slots, counted, flaws>>
         \/ UNCHANGED <<slots, counted, yielded>> /\ flaws' # {}
  BY DEF SendText, MayGoOn, Arrives, Yield, parserVars
<1>4. /\ opened \in Nat /\ opened' \in Nat /\ opened <= opened'
      /\ sent' \in [CallNumbers -> Nat] /\ \A i \in CallNumbers : sent[i] <= sent'[i]
  <2>1. opened \in Nat
    BY CallsCounted DEF StreamTypes
  <2>2. sent' \in [CallNumbers -> Nat] /\ \A i \in CallNumbers : sent[i] <= sent'[i]
    BY <1>1 DEF StreamTypes
  <2> QED BY <1>1, <2>1, <2>2
<1>2. CASE UNCHANGED <<slots, counted, yielded>> /\ flaws' # {}
  <2>1. YieldedWell' /\ SlotsFit' /\ SlotsTyped'
    BY <1>1, <1>2, <1>4, QuietStep
  <2>2. StreamTypes'
    BY <1>1, <1>2, <2>1 DEF StreamTypes
  <2>3. Unharmed'
    BY <1>2 DEF Unharmed
  <2> QED BY <2>1, <2>2, <2>3
<1>3. CASE yielded' = yielded \o <<TextEvent>> /\ UNCHANGED <<slots, counted, flaws>>
  <2> DEFINE es == <<TextEvent>>
  <2>1. /\ es \in Seq(Events) /\ Ordered(es) /\ NoReport(es)
        /\ \A n \in 1..Len(es) : ~ IsTool(es[n])
    BY OneEvent, TextEventIs
  <2> HIDE DEF es
  <2>2. yielded' = yielded \o es /\ yielded \in Seq(Events) /\ opened \in Nat
    BY <1>3, CallsCounted DEF es, StreamTypes
  <2>3. YieldedWell' /\ yielded' \in Seq(Events)
    <3>1. /\ \A n \in 1..Len(es) : IsTool(es[n]) =>
                CallMayBeYielded(es[n], dialect', opened', stopped', reply')
          /\ \A m \in 1..Len(yielded), n \in 1..Len(es) :
                IsTool(yielded[m]) /\ IsTool(es[n]) => yielded[m].call < es[n].call
      BY <2>1
    <3>2. stopped \subseteq stopped' /\ (reply = "over" => reply' = "over")
          /\ dialect' = dialect
      BY <1>1
    <3> QED BY <1>4, <2>1, <2>2, <3>1, <3>2, WellWith
  <2>4. StreamTypes'
    BY <1>1, <1>3, <2>3 DEF StreamTypes, SlotsTyped
  <2>5. SlotsFit'
    BY <1>1, <1>3 DEF SlotsFit
  <2>6. ASSUME flaws = {}
        PROVE  YieldedWhole' /\ SlotsWhole' /\ NothingMissing' /\ UsageReported'
    <3>1. YieldedWhole /\ SlotsWhole /\ NothingMissing /\ UsageReported
      BY <2>6 DEF Unharmed
    <3>2. YieldedWhole'
      BY <2>1, <2>2, <3>1, WholeWith DEF YieldedWhole
    <3>3. SlotsWhole'
      BY <1>1, <1>3, <3>1 DEF SlotsWhole
    <3>4. \A i : Has(yielded, i) => Has(yielded', i)
      BY <2>1, <2>2, CallsJoined
    <3>5. NothingMissing'
      BY <1>1, <1>3, <3>1, <3>4 DEF NothingMissing
    <3>6. NoReport(yielded')
      BY <1>1, <2>1, <2>2, <3>1, ReportsJoined DEF UsageReported
    <3>7. UsageReported'
      BY <1>1, <3>6 DEF UsageReported
    <3> QED BY <3>2, <3>3, <3>5, <3>7
  <2>7. Unharmed'
    BY <1>3, <2>6 DEF Unharmed
  <2> QED BY <2>3, <2>4, <2>5, <2>7
<1> QED BY <1>1, <1>2, <1>3

\* The first delta of a call, or its block.
LEMMA StartStep ==
    ASSUME StreamInv, StartCall
    PROVE  StreamInv'
<1> USE DEF StreamInv
<1> DEFINE fresh == [named |-> TRUE, raw |-> <<>>]
<1>1. /\ UNCHANGED <<dialect, sent, stopped, texts, reply>> /\ opened' = opened + 1
      /\ reply = "streaming" /\ dialect # "ollama" /\ opened < Len(Fragments)
      /\ dialect = "anthropic" => stopped = 1..opened
      /\ \/ PutSlot(opened', fresh) /\ UNCHANGED <<counted, yielded, flaws>>
         \/ UNCHANGED <<slots, counted, yielded>> /\ flaws' # {}
  BY DEF StartCall, MayGoOn, Arrives, parserVars
<1>2. /\ opened \in Nat /\ opened' \in Nat /\ opened < opened' /\ opened' \in CallNumbers
      /\ opened' \in 0..Len(Fragments) /\ 1..opened \subseteq 1..opened'
      /\ 1..opened' = (1..opened) \cup {opened'} /\ opened' \notin 1..opened
  BY <1>1, CallsCounted DEF StreamTypes
<1>3. sent[opened'] = 0 /\ sent[opened'] \in Nat
  BY <1>2 DEF StreamTypes
<1>4. \A i \in CallNumbers : sent'[i] <= Fragments[i] /\ (i > opened' => sent'[i] = 0)
  BY <1>1, <1>2, CallsCounted DEF StreamTypes
<1>5. YieldedWell'
  BY <1>1, <1>2, WellWithout
<1>6. CASE UNCHANGED <<slots, counted, yielded>> /\ flaws' # {}
  <2>1. YieldedWell' /\ SlotsFit' /\ SlotsTyped'
    <3>1. sent' \in [CallNumbers -> Nat] /\ \A i \in CallNumbers : sent[i] <= sent'[i]
      BY <1>1 DEF StreamTypes
    <3> QED BY <1>1, <1>2, <1>6, <3>1, QuietStep
  <2>2. StreamTypes'
    BY <1>1, <1>2, <1>4, <1>6, <2>1 DEF StreamTypes
  <2>3. Unharmed'
    BY <1>6 DEF Unharmed
  <2> QED BY <2>1, <2>2, <2>3
<1>7. CASE PutSlot(opened', fresh) /\ UNCHANGED <<counted, yielded, flaws>>
  <2>1. fresh \in Slot /\ fresh.named = TRUE /\ fresh.raw = <<>>
    BY FreshSlot
  <2>2. SlotsTyped
    BY DEF StreamTypes
  <2> HIDE DEF fresh
  <2>3. /\ SlotsTyped' /\ DOMAIN slots' = DOMAIN slots \cup {opened'}
        /\ slots'[opened'] = fresh
        /\ \A j \in DOMAIN slots : j # opened' => slots'[j] = slots[j]
    <3>1. PICK k \in CallNumbers : k = opened'
      BY <1>2
    <3> QED BY <1>7, <2>1, <2>2, <3>1, SlotPut
  <2>4. DOMAIN slots' \subseteq 1..opened'
    BY <1>2, <2>3 DEF StreamTypes
  <2>5. StreamTypes'
    BY <1>1, <1>2, <1>4, <1>7, <2>3, <2>4 DEF StreamTypes
  <2>6. \A j \in DOMAIN slots : j # opened' /\ slots'[j] = slots[j]
    BY <1>2, <2>3 DEF StreamTypes
  <2>7. Fits(opened', fresh.raw, sent[opened'])
    BY <2>1 DEF Fits
  <2>8. SlotsFit'
    BY <1>1, <2>3, <2>6, <2>7 DEF SlotsFit
  <2>9. ASSUME flaws = {}
        PROVE  YieldedWhole' /\ SlotsWhole' /\ NothingMissing' /\ UsageReported'
    <3>1. YieldedWhole /\ SlotsWhole /\ NothingMissing /\ UsageReported
      BY <2>9 DEF Unharmed
    <3>2. YieldedWhole'
      BY <1>7, <3>1 DEF YieldedWhole
    <3>3. Len(fresh.raw) = 0
      BY <2>1
    <3>4. SlotsWhole'
      BY <1>1, <1>3, <2>1, <2>3, <2>6, <3>1, <3>3 DEF SlotsWhole
    <3>5. DOMAIN slots = (1..opened) \ stopped => DOMAIN slots' = (1..opened') \ stopped'
      BY <1>1, <1>2, <2>3 DEF StreamTypes
    <3>6. NothingMissing'
      BY <1>1, <1>2, <1>7, <2>3, <3>1, <3>5 DEF NothingMissing
    <3>7. UsageReported'
      BY <1>1, <1>7, <3>1 DEF UsageReported
    <3> QED BY <3>2, <3>4, <3>6, <3>7
  <2>10. Unharmed'
    BY <1>7, <2>9 DEF Unharmed
  <2> QED BY <1>5, <2>5, <2>8, <2>10
<1> QED BY <1>1, <1>6, <1>7

\* A fragment of a call.
LEMMA FragmentStep ==
    ASSUME StreamInv, SendFragment
    PROVE  StreamInv'
<1> USE DEF StreamInv
<1>1. PICK i \in 1..opened :
          /\ sent[i] < Fragments[i] /\ sent' = [sent EXCEPT ![i] = @ + 1]
          /\ Arrives(TakeFragment(i, sent'[i]))
  BY DEF SendFragment
<1>2. /\ UNCHANGED <<dialect, opened, stopped, texts, reply>>
      /\ reply = "streaming" /\ dialect # "ollama"
  BY DEF SendFragment, MayGoOn
<1>3. /\ opened \in Nat /\ opened <= Len(Fragments) /\ i \in CallNumbers /\ i \in Nat
      /\ Fragments[i] \in Nat
  BY CallsCounted DEF StreamTypes
<1>4. /\ sent' \in [CallNumbers -> Nat] /\ sent'[i] = sent[i] + 1 /\ sent[i] \in Nat
      /\ \A j \in CallNumbers : j # i => sent'[j] = sent[j]
  BY <1>1, <1>3 DEF StreamTypes
<1>5. \A j \in CallNumbers : sent[j] <= sent'[j]
  BY <1>4 DEF StreamTypes
<1>6. \A j \in CallNumbers : sent'[j] <= Fragments[j] /\ (j > opened' => sent'[j] = 0)
  <2>1. \A j \in CallNumbers : sent[j] <= Fragments[j] /\ (j > opened => sent[j] = 0)
    BY DEF StreamTypes
  <2>2. sent'[i] <= Fragments[i] /\ ~ (i > opened)
    BY <1>1, <1>3, <1>4
  <2> QED BY <1>2, <1>4, <2>1, <2>2
<1> DEFINE grown == [SlotAt(i) EXCEPT !.raw = Append(@, <<i, sent'[i]>>)]
<1>7. /\ counted' = counted /\ yielded' = yielded
      /\ \/ slots' = slots /\ flaws' # {}
         \/ slots' = slots /\ dialect = "anthropic" /\ i \notin DOMAIN slots /\ flaws' = flaws
         \/ PutSlot(i, grown) /\ ~ (dialect = "anthropic" /\ i \notin DOMAIN slots)
            /\ flaws' = flaws
  BY <1>1 DEF Arrives, TakeFragment, parserVars
<1>8. YieldedWell'
  BY <1>2, <1>3, <1>7, WellWithout
<1>9. CASE slots' = slots
  <2>1. YieldedWell' /\ SlotsFit' /\ SlotsTyped'
    BY <1>2, <1>3, <1>4, <1>5, <1>7, <1>9, QuietStep
  <2>2. StreamTypes'
    BY <1>2, <1>4, <1>6, <1>7, <1>9, <2>1 DEF StreamTypes
  <2>3. CASE flaws' # {}
    BY <2>1, <2>2, <2>3 DEF Unharmed
  <2>4. CASE flaws' = {}
    <3>1. ASSUME i \in DOMAIN slots PROVE FALSE
      <4>1. PutSlot(i, grown) /\ flaws = {}
        BY <1>7, <2>4, <3>1
      <4>2. SlotsWhole
        BY <4>1 DEF Unharmed
      <4>3. slots'[i] = grown
        BY <4>1 DEF PutSlot
      <4>4. SlotAt(i) = slots[i] /\ slots[i] \in Slot
        BY <3>1 DEF SlotAt, StreamTypes, SlotsTyped
      <4>5. Fits(i, slots[i].raw, sent[i]) /\ slots[i].raw \in Pieces
        BY <3>1, <4>4 DEF SlotsFit, Slot
      <4>6. /\ Append(slots[i].raw, <<i, sent[i] + 1>>) \in Pieces
            /\ Len(Append(slots[i].raw, <<i, sent[i] + 1>>)) = Len(slots[i].raw) + 1
        BY <1>3, <1>4, <4>5, FitsOneMore
      <4>7. grown.raw = Append(slots[i].raw, <<i, sent[i] + 1>>)
        BY <1>4, <4>4, <4>6, SlotGrows
      <4>8. Len(slots[i].raw) \in Nat
        BY <4>5 DEF Pieces
      <4> QED BY <1>9, <4>3, <4>6, <4>7, <4>8
    <3>2. flaws = {} /\ i \notin DOMAIN slots
      BY <1>7, <2>4, <3>1
    <3>3. YieldedWhole /\ SlotsWhole /\ NothingMissing /\ UsageReported
      BY <3>2 DEF Unharmed
    <3>4. YieldedWhole'
      BY <1>7, <3>3 DEF YieldedWhole
    <3>5. SlotsWhole'
      BY <1>4, <1>9, <3>2, <3>3 DEF SlotsWhole, StreamTypes, SlotsTyped
    <3>6. NothingMissing'
      BY <1>2, <1>7, <1>9, <3>3 DEF NothingMissing
    <3>7. UsageReported'
      BY <1>2, <1>7, <3>3 DEF UsageReported
    <3> QED BY <2>1, <2>2, <3>4, <3>5, <3>6, <3>7 DEF Unharmed
  <2> QED BY <2>3, <2>4
<1>10. CASE /\ PutSlot(i, grown) /\ flaws' = flaws
            /\ ~ (dialect = "anthropic" /\ i \notin DOMAIN slots)
  <2>1. SlotsTyped /\ SlotAt(i) \in Slot
    BY SlotAtIs DEF StreamTypes
  <2>2. SlotAt(i).raw \in Pieces
    BY <2>1 DEF Slot
  <2>3. Fits(i, SlotAt(i).raw, sent[i])
    <3>1. CASE i \in DOMAIN slots
      BY <3>1 DEF SlotAt, SlotsFit
    <3>2. CASE i \notin DOMAIN slots
      BY <3>2 DEF SlotAt, Fits
    <3> QED BY <3>1, <3>2
  <2> DEFINE new == Append(SlotAt(i).raw, <<i, sent[i] + 1>>)
  <2>4. new \in Pieces /\ Fits(i, new, sent[i] + 1) /\ Len(new) = Len(SlotAt(i).raw) + 1
    BY <1>3, <1>4, <2>2, <2>3, FitsOneMore
  <2>5. grown \in Slot /\ grown.raw = new /\ grown.named = SlotAt(i).named
    BY <1>4, <2>1, <2>4, SlotGrows
  <2> HIDE DEF grown, new
  <2>6. /\ SlotsTyped' /\ DOMAIN slots' = DOMAIN slots \cup {i} /\ slots'[i] = grown
        /\ \A j \in DOMAIN slots : j # i => slots'[j] = slots[j]
    BY <1>3, <1>10, <2>1, <2>5, SlotPut
  <2>7. DOMAIN slots' \subseteq 1..opened'
    BY <1>2, <2>6 DEF StreamTypes
  <2>8. StreamTypes'
    BY <1>2, <1>4, <1>6, <1>7, <2>6, <2>7 DEF StreamTypes
  <2>9. SlotsFit'
    <3>1. DOMAIN slots \subseteq CallNumbers
      BY <2>1 DEF SlotsTyped
    <3>2. Fits(i, slots'[i].raw, sent'[i])
      BY <1>4, <2>4, <2>5, <2>6
    <3>3. \A j \in DOMAIN slots : j # i => Fits(j, slots'[j].raw, sent'[j])
      BY <1>4, <2>6, <3>1 DEF SlotsFit
    <3> QED BY <2>6, <3>2, <3>3 DEF SlotsFit
  <2>10. ASSUME flaws = {}
         PROVE  YieldedWhole' /\ SlotsWhole' /\ NothingMissing' /\ UsageReported'
    <3>1. YieldedWhole /\ SlotsWhole /\ NothingMissing /\ UsageReported
      BY <2>10 DEF Unharmed
    <3>2. YieldedWhole'
      BY <1>7, <3>1 DEF YieldedWhole
    <3>3. i \in DOMAIN slots
      <4>1. dialect \in {"openai", "anthropic"}
        BY <1>2 DEF StreamTypes, Dialogue
      <4> QED BY <1>2, <1>10, <3>1, <4>1 DEF NothingMissing
    <3>4. SlotAt(i).named /\ Len(SlotAt(i).raw) = sent[i]
      BY <3>1, <3>3 DEF SlotAt, SlotsWhole
    <3>5. \A j \in DOMAIN slots : j # i => slots'[j].named /\ Len(slots'[j].raw) = sent'[j]
      BY <1>4, <2>6, <3>1 DEF SlotsWhole, StreamTypes, SlotsTyped
    <3>6. slots'[i].named /\ Len(slots'[i].raw) = sent'[i]
      BY <1>4, <2>4, <2>5, <2>6, <3>4
    <3>7. SlotsWhole'
      BY <2>6, <3>5, <3>6 DEF SlotsWhole
    <3>8. DOMAIN slots' = DOMAIN slots
      BY <2>6, <3>3
    <3>9. NothingMissing'
      BY <1>2, <1>7, <3>1, <3>8 DEF NothingMissing
    <3>10. UsageReported'
      BY <1>2, <1>7, <3>1 DEF UsageReported
    <3> QED BY <3>2, <3>7, <3>9, <3>10
  <2>11. Unharmed'
    BY <1>10, <2>10 DEF Unharmed
  <2> QED BY <1>8, <2>8, <2>9, <2>11
<1> QED BY <1>7, <1>9, <1>10

\* The end of a block.
LEMMA StopStep ==
    ASSUME StreamInv, StopBlock
    PROVE  StreamInv'
<1> USE DEF StreamInv
<1> DEFINE e == ToolEvent(opened, slots[opened].raw)
           left == DOMAIN slots \ {opened}
<1>1. /\ UNCHANGED <<dialect, opened, sent, texts, reply>>
      /\ stopped' = stopped \cup {opened} /\ opened > 0 /\ opened \notin stopped
      /\ sent[opened] = Fragments[opened] \/ "cut" \in flaws
      /\ reply = "streaming" /\ dialect = "anthropic"
      /\ \/ UNCHANGED <<slots, counted, yielded>> /\ flaws' # {}
         \/ opened \notin DOMAIN slots /\ UNCHANGED <<slots, counted, yielded, flaws>>
         \/ /\ opened \in DOMAIN slots /\ yielded' = yielded \o <<e>>
            /\ slots' = Restrict(slots, left) /\ UNCHANGED <<counted, flaws>>
  BY DEF StopBlock, Arrives, Yield, parserVars
<1>2. /\ opened \in Nat /\ opened' = opened /\ opened \in CallNumbers /\ opened <= opened'
      /\ stopped \subseteq 1..opened /\ stopped' \subseteq 1..opened'
      /\ stopped \subseteq stopped' /\ opened \in 1..opened
  BY <1>1, CallsCounted DEF StreamTypes
<1>3. sent' \in [CallNumbers -> Nat] /\ \A i \in CallNumbers : sent[i] <= sent'[i]
  BY <1>1 DEF StreamTypes
<1>4. CASE UNCHANGED <<slots, counted, yielded>>
  <2>1. YieldedWell' /\ SlotsFit' /\ SlotsTyped'
    BY <1>1, <1>2, <1>3, <1>4, QuietStep
  <2>2. StreamTypes'
    BY <1>1, <1>2, <1>4, <2>1 DEF StreamTypes
  <2>3. CASE flaws' # {}
    BY <2>1, <2>2, <2>3 DEF Unharmed
  <2>4. CASE flaws' = {} /\ opened \notin DOMAIN slots /\ flaws' = flaws
    <3>1. NothingMissing
      BY <2>4 DEF Unharmed
    <3>2. FALSE
      BY <1>1, <1>2, <2>4, <3>1 DEF NothingMissing
    <3> QED BY <3>2
  <2>5. CASE flaws' = {} /\ opened \in DOMAIN slots /\ slots' = Restrict(slots, left)
    <3>1. DOMAIN slots' = left
      BY <2>5 DEF Restrict
    <3> QED BY <1>4, <2>5, <3>1
  <2> QED BY <1>1, <2>3, <2>4, <2>5
<1>5. CASE /\ opened \in DOMAIN slots /\ yielded' = yielded \o <<e>>
           /\ slots' = Restrict(slots, left) /\ UNCHANGED <<counted, flaws>>
  <2>1. DOMAIN slots' = left /\ \A i \in left : slots'[i] = slots[i]
    BY <1>5 DEF Restrict
  <2>2. slots[opened] \in Slot /\ Fits(opened, slots[opened].raw, sent[opened])
    BY <1>5 DEF StreamTypes, SlotsTyped, SlotsFit
  <2>3. slots[opened].raw \in Pieces
    BY <2>2 DEF Slot
  <2>4. /\ e \in Events /\ IsTool(e) /\ ~ IsReport(e) /\ e.call = opened
        /\ e.raw = slots[opened].raw
    BY <1>2, <2>3, ToolEventIs
  <2> HIDE DEF e, left
  <2> DEFINE es == <<e>>
  <2>5. /\ es \in Seq(Events) /\ Ordered(es) /\ NoReport(es) /\ Has(es, opened)
        /\ \A n \in 1..Len(es) : es[n] = e
    BY <2>4, OneEvent
  <2>6. yielded' = yielded \o es /\ yielded \in Seq(Events)
    BY <1>5 DEF StreamTypes
  <2> HIDE DEF es
  <2>7. CallMayBeYielded(e, dialect', opened', stopped', reply')
    <3>1. Unmixed(e)
      BY <2>2, <2>3, <2>4, FitsUnmixed
    <3> QED BY <1>1, <1>2, <2>4, <3>1 DEF CallMayBeYielded
  <2>8. ASSUME NEW m \in 1..Len(yielded), IsTool(yielded[m])
        PROVE  yielded[m].call < opened
    <3>1. yielded[m].call \in 1..opened /\ yielded[m].call \in stopped
      BY <1>1, <2>8 DEF YieldedWell, CallMayBeYielded
    <3> QED BY <1>1, <1>2, <3>1
  <2>9. YieldedWell' /\ yielded' \in Seq(Events)
    <3>1. /\ \A n \in 1..Len(es) : IsTool(es[n]) =>
                CallMayBeYielded(es[n], dialect', opened', stopped', reply')
          /\ \A m \in 1..Len(yielded), n \in 1..Len(es) :
                IsTool(yielded[m]) /\ IsTool(es[n]) => yielded[m].call < es[n].call
      BY <2>4, <2>5, <2>7, <2>8
    <3>2. opened' \in Nat /\ opened <= opened' /\ stopped \subseteq stopped'
          /\ (reply = "over" => reply' = "over") /\ dialect' = dialect
      BY <1>1, <1>2
    <3> QED BY <2>5, <2>6, <3>1, <3>2, WellWith
  <2>10. SlotsTyped' /\ DOMAIN slots' \subseteq 1..opened'
    BY <1>1, <2>1 DEF left, StreamTypes, SlotsTyped
  <2>11. StreamTypes'
    BY <1>1, <1>2, <1>5, <2>9, <2>10 DEF StreamTypes
  <2>12. SlotsFit'
    BY <1>1, <2>1 DEF SlotsFit, left
  <2>13. ASSUME flaws = {}
         PROVE  YieldedWhole' /\ SlotsWhole' /\ NothingMissing' /\ UsageReported'
    <3>1. YieldedWhole /\ SlotsWhole /\ NothingMissing /\ UsageReported
      BY <2>13 DEF Unharmed
    <3>2. Len(e.raw) = Fragments[e.call]
      BY <1>1, <1>5, <2>4, <2>13, <3>1 DEF SlotsWhole
    <3>3. \A n \in 1..Len(es) : IsTool(es[n]) => Len(es[n].raw) = Fragments[es[n].call]
      BY <2>5, <3>2
    <3>4. YieldedWhole'
      BY <2>5, <2>6, <3>1, <3>3, WholeWith DEF YieldedWhole
    <3>5. SlotsWhole'
      BY <1>1, <2>1, <3>1 DEF SlotsWhole, left
    <3>6. \A i : Has(yielded', i) <=> Has(yielded, i) \/ Has(es, i)
      BY <2>5, <2>6, CallsJoined
    <3>7. DOMAIN slots' = (1..opened') \ stopped'
      BY <1>1, <2>1, <3>1 DEF NothingMissing, left
    <3>8. NothingMissing'
      BY <1>1, <2>5, <3>1, <3>6, <3>7 DEF NothingMissing
    <3>9. NoReport(yielded')
      BY <1>1, <2>5, <2>6, <3>1, ReportsJoined DEF UsageReported
    <3>10. UsageReported'
      BY <1>1, <3>9 DEF UsageReported
    <3> QED BY <3>4, <3>5, <3>8, <3>10
  <2>14. Unharmed'
    BY <1>5, <2>13 DEF Unharmed
  <2> QED BY <2>9, <2>11, <2>12, <2>14
<1> QED BY <1>1, <1>4, <1>5

\* Whole calls, in one line.
LEMMA CallsStep ==
    ASSUME StreamInv, SendCalls
    PROVE  StreamInv'
<1> USE DEF StreamInv
<1> DEFINE all(i) == [k \in 1..Fragments[i] |-> <<i, k>>]
<1>1. PICK upTo \in (opened + 1)..Len(Fragments) :
          /\ opened' = upTo
          /\ sent' = [i \in CallNumbers |-> IF i <= upTo THEN Fragments[i] ELSE 0]
          /\ Arrives(/\ Yield([n \in 1..(upTo - opened) |->
                                ToolEvent(opened + n, all(opened + n))])
                     /\ UNCHANGED <<slots, counted>>)
  BY DEF SendCalls
<1> DEFINE es == [n \in 1..(upTo - opened) |-> ToolEvent(opened + n, all(opened + n))]
<1>2. /\ UNCHANGED <<dialect, stopped, texts, reply>> /\ reply = "streaming"
      /\ dialect = "ollama"
      /\ \/ UNCHANGED <<slots, counted, yielded>> /\ flaws' # {}
         \/ yielded' = yielded \o es /\ UNCHANGED <<slots, counted, flaws>>
  BY <1>1 DEF SendCalls, MayGoOn, Arrives, Yield, parserVars
<1>3. /\ opened \in Nat /\ opened' \in Nat /\ upTo \in Nat /\ opened <= opened'
      /\ opened < upTo /\ upTo <= Len(Fragments)
      /\ opened' \in 0..Len(Fragments) /\ 1..opened \subseteq 1..opened'
  BY <1>1, CallsCounted DEF StreamTypes
<1>4. /\ sent' \in [CallNumbers -> Nat]
      /\ \A i \in CallNumbers : sent[i] <= sent'[i] /\ sent'[i] <= Fragments[i]
                                /\ (i > opened' => sent'[i] = 0)
  <2>1. sent' \in [CallNumbers -> Nat]
    BY <1>1, CallsCounted
  <2>2. ASSUME NEW i \in CallNumbers
        PROVE  sent[i] <= sent'[i] /\ sent'[i] <= Fragments[i] /\ (i > opened' => sent'[i] = 0)
    <3>1. sent[i] \in Nat /\ sent[i] <= Fragments[i] /\ (i > opened => sent[i] = 0)
      BY DEF StreamTypes
    <3>2. i \in Nat /\ Fragments[i] \in Nat
      BY CallsCounted
    <3>3. CASE i <= upTo
      BY <1>1, <3>1, <3>2, <3>3
    <3>4. CASE i > upTo
      <4>1. sent'[i] = 0
        BY <1>1, <1>3, <3>2, <3>4
      <4> QED BY <1>3, <3>1, <3>2, <3>4, <4>1
    <3> QED BY <1>3, <3>2, <3>3, <3>4
  <2> QED BY <2>1, <2>2
<1>5. stopped' \subseteq 1..opened' /\ DOMAIN slots \subseteq 1..opened'
  BY <1>2, <1>3 DEF StreamTypes
<1>6. CASE UNCHANGED <<slots, counted, yielded>> /\ flaws' # {}
  <2>1. YieldedWell' /\ SlotsFit' /\ SlotsTyped'
    BY <1>2, <1>3, <1>4, <1>6, QuietStep
  <2>2. StreamTypes'
    BY <1>2, <1>3, <1>4, <1>5, <1>6, <2>1 DEF StreamTypes
  <2>3. Unharmed'
    BY <1>6 DEF Unharmed
  <2> QED BY <2>1, <2>2, <2>3
<1>7. CASE yielded' = yielded \o es /\ UNCHANGED <<slots, counted, flaws>>
  <2>1. ASSUME NEW n \in 1..(upTo - opened)
        PROVE  LET x == ToolEvent(opened + n, all(opened + n))
               IN  /\ x \in Events /\ IsTool(x) /\ ~ IsReport(x) /\ x.call = opened + n
                   /\ Unmixed(x) /\ Len(x.raw) = Fragments[opened + n]
                   /\ opened + n \in 1..opened'
    <3>1. opened + n \in CallNumbers /\ opened + n \in 1..opened' /\ opened + n \in Nat
      BY <1>1, <1>3, CallsCounted
    <3>2. Fragments[opened + n] \in Nat
      BY <3>1, CallsCounted
    <3>3. PICK i \in CallNumbers : i = opened + n
      BY <3>1
    <3>4. Fragments[i] \in Nat /\ i \in Nat
      BY <3>1, <3>2, <3>3
    <3>5. all(i) \in Pieces /\ Len(all(i)) = Fragments[i]
      BY <3>4 DEF Pieces
    <3>6. Fits(i, all(i), Fragments[i])
      <4>1. ASSUME NEW k \in 1..Fragments[i]
            PROVE  all(i)[k][1] = i /\ all(i)[k][2] = k
        BY <3>4, <4>1
      <4> HIDE DEF all
      <4>2. ASSUME NEW k \in 1..Len(all(i))
            PROVE  /\ all(i)[k][1] = i /\ all(i)[k][2] <= Fragments[i]
                   /\ k > 1 => all(i)[k - 1][2] < all(i)[k][2]
        <5>1. all(i)[k][1] = i /\ all(i)[k][2] = k /\ k <= Fragments[i]
          BY <3>4, <3>5, <4>1
        <5>2. ASSUME k > 1 PROVE all(i)[k - 1][2] < all(i)[k][2]
          <6>1. k - 1 \in 1..Fragments[i]
            BY <3>4, <3>5, <5>2
          <6>2. all(i)[k - 1][2] = k - 1
            BY <4>1, <6>1
          <6> QED BY <5>1, <6>2
        <5> QED BY <5>1, <5>2
      <4> QED BY <4>2 DEF Fits
    <3> HIDE DEF all
    <3>7. LET x == ToolEvent(i, all(i))
          IN  /\ x \in Events /\ IsTool(x) /\ ~ IsReport(x) /\ x.call = i /\ x.raw = all(i)
      BY <3>5, ToolEventIs
    <3>8. Unmixed(ToolEvent(i, all(i)))
      BY <3>5, <3>6, <3>7, FitsUnmixed
    <3> QED BY <3>1, <3>3, <3>5, <3>7, <3>8
  <2> HIDE DEF all
  <2>2. es \in Seq(Events) /\ Len(es) = upTo - opened
    <3>1. upTo - opened \in Nat
      BY <1>3
    <3> HIDE DEF Events
    <3> QED BY <2>1, <3>1
  <2>3. \A n \in 1..Len(es) : es[n] = ToolEvent(opened + n, all(opened + n))
    BY <2>2
  <2> HIDE DEF es
  <2>4. \A n \in 1..Len(es) :
            /\ IsTool(es[n]) /\ ~ IsReport(es[n]) /\ es[n].call = opened + n
            /\ Unmixed(es[n]) /\ Len(es[n].raw) = Fragments[es[n].call]
            /\ es[n].call \in 1..opened'
    BY <2>1, <2>2, <2>3
  <2>5. Ordered(es)
    <3>1. ASSUME NEW m \in 1..Len(es), NEW n \in 1..Len(es), m < n
          PROVE  es[m].call < es[n].call
      <4>1. es[m].call = opened + m /\ es[n].call = opened + n
        BY <2>4
      <4>2. m \in Int /\ n \in Int
        OBVIOUS
      <4> QED BY <1>3, <3>1, <4>1, <4>2
    <3> QED BY <3>1 DEF Ordered
  <2>6. yielded' = yielded \o es /\ yielded \in Seq(Events)
    BY <1>7 DEF StreamTypes
  <2>7. YieldedWell' /\ yielded' \in Seq(Events)
    <3>1. \A n \in 1..Len(es) : IsTool(es[n]) =>
                CallMayBeYielded(es[n], dialect', opened', stopped', reply')
      BY <1>2, <2>4 DEF CallMayBeYielded
    <3>2. ASSUME NEW m \in 1..Len(yielded), NEW n \in 1..Len(es), IsTool(yielded[m])
          PROVE  yielded[m].call < es[n].call
      <4>1. yielded[m].call \in 1..opened
        BY <3>2 DEF YieldedWell, CallMayBeYielded
      <4> QED BY <1>3, <2>2, <2>4, <4>1
    <3>3. opened' \in Nat /\ opened <= opened' /\ stopped \subseteq stopped'
          /\ (reply = "over" => reply' = "over") /\ dialect' = dialect
      BY <1>2, <1>3
    <3> QED BY <2>2, <2>5, <2>6, <3>1, <3>2, <3>3, WellWith
  <2>8. SlotsTyped' /\ SlotsFit'
    <3>1. SlotsTyped'
      BY <1>7 DEF StreamTypes, SlotsTyped
    <3>2. ASSUME NEW i \in DOMAIN slots PROVE Fits(i, slots[i].raw, sent'[i])
      <4>1. i \in CallNumbers /\ slots[i].raw \in Pieces /\ sent[i] \in Nat /\ sent'[i] \in Nat
        <5>1. i \in CallNumbers /\ slots[i] \in Slot
          BY DEF StreamTypes, SlotsTyped
        <5>2. slots[i].raw \in Pieces
          BY <5>1 DEF Slot
        <5> QED BY <1>4, <5>1, <5>2 DEF StreamTypes
      <4> QED BY <1>4, <4>1, FitsLater DEF SlotsFit
    <3>3. SlotsFit'
      BY <1>7, <3>2 DEF SlotsFit
    <3> QED BY <3>1, <3>3
  <2>9. StreamTypes'
    BY <1>2, <1>3, <1>4, <1>5, <1>7, <2>7, <2>8 DEF StreamTypes
  <2>10. ASSUME flaws = {}
         PROVE  YieldedWhole' /\ SlotsWhole' /\ NothingMissing' /\ UsageReported'
    <3>1. YieldedWhole /\ SlotsWhole /\ NothingMissing /\ UsageReported
      BY <2>10 DEF Unharmed
    <3>2. YieldedWhole'
      BY <2>2, <2>4, <2>6, <3>1, WholeWith DEF YieldedWhole
    <3>3. \A i : Has(yielded', i) <=> Has(yielded, i) \/ Has(es, i)
      BY <2>2, <2>6, CallsJoined
    <3>4. ASSUME NEW i \in 1..opened' PROVE Has(yielded', i)
      <4>1. CASE i \in 1..opened
        BY <1>2, <3>1, <3>3, <4>1 DEF NothingMissing
      <4>2. CASE i \notin 1..opened
        <5>1. i - opened \in 1..Len(es) /\ opened + (i - opened) = i
          BY <1>1, <1>3, <2>2, <4>2
        <5>2. Has(es, i)
          BY <2>4, <5>1 DEF Has
        <5> QED BY <3>3, <5>2
      <4> QED BY <4>1, <4>2
    <3>9. DOMAIN slots' = {}
      BY <1>2, <1>7, <3>1 DEF NothingMissing
    <3>10. SlotsWhole'
      BY <3>9 DEF SlotsWhole
    <3>5. NothingMissing'
      BY <1>2, <3>4, <3>9 DEF NothingMissing
    <3>6. NoReport(es)
      BY <2>4 DEF NoReport
    <3>7. NoReport(yielded')
      BY <1>2, <2>2, <2>6, <3>1, <3>6, ReportsJoined DEF UsageReported
    <3>8. UsageReported'
      BY <1>2, <3>7 DEF UsageReported
    <3> QED BY <3>2, <3>5, <3>8, <3>10
  <2>11. Unharmed'
    BY <1>7, <2>10 DEF Unharmed
  <2> QED BY <2>7, <2>8, <2>9, <2>11
<1> QED BY <1>2, <1>6, <1>7

\* The reply is cut off.
LEMMA CutStep ==
    ASSUME StreamInv, CutOff
    PROVE  StreamInv'
<1> USE DEF StreamInv
<1>1. /\ UNCHANGED <<dialect, opened, sent, stopped, texts, slots, counted, yielded, reply>>
      /\ flaws' # {}
  BY DEF CutOff, serverVars, parserVars
<1>2. StreamTypes'
  BY <1>1 DEF StreamTypes, SlotsTyped
<1>3. YieldedWell' /\ SlotsFit' /\ Unharmed'
  BY <1>1 DEF YieldedWell, SlotsFit, Unharmed
<1> QED BY <1>2, <1>3

\* The usage, or Anthropic's count.
LEMMA UsageStep ==
    ASSUME StreamInv, SendUsage
    PROVE  StreamInv'
<1> USE DEF StreamInv
<1> DEFINE es == <<UsageEvent(Produced)>>
<1>1. /\ UNCHANGED <<dialect, opened, sent, stopped, texts, slots>>
      /\ reply = "streaming" /\ reply' = "summed" /\ AllSent
      /\ \/ UNCHANGED <<counted, yielded>> /\ flaws' # {}
         \/ dialect = "anthropic" /\ counted' = Produced /\ UNCHANGED <<yielded, flaws>>
         \/ dialect # "anthropic" /\ yielded' = yielded \o es /\ UNCHANGED <<counted, flaws>>
  BY DEF SendUsage, Arrives, TakeCount, Yield, parserVars, serverVars
<1>2. Produced \in Nat /\ Produced' = Produced
  BY <1>1, ProducedIs, ProducedKept DEF StreamTypes
<1>3. /\ es \in Seq(Events) /\ Ordered(es)
      /\ \A n \in 1..Len(es) : es[n] = UsageEvent(Produced)
      /\ Len(es) = 1
  BY <1>2, UsageEventIs, OneEvent
<1>4. /\ \A n \in 1..Len(es) : ~ IsTool(es[n])
      /\ OneReport(es, Produced)
  <2>1. /\ IsReport(UsageEvent(Produced)) /\ UsageEvent(Produced).tokens = Produced
        /\ ~ IsTool(UsageEvent(Produced))
    BY <1>2, UsageEventIs
  <2> HIDE DEF es
  <2>2. 1 \in 1..Len(es) /\ \A n \in 1..Len(es) : n = 1
    BY <1>3
  <2> QED BY <1>3, <2>1, <2>2 DEF OneReport
<1> HIDE DEF es
<1>5. yielded \in Seq(Events) /\ opened \in Nat
  BY CallsCounted DEF StreamTypes
<1>6. YieldedWell' /\ yielded' \in Seq(Events)
  <2>1. CASE yielded' = yielded
    BY <1>1, <1>5, <2>1, WellWithout
  <2>2. CASE yielded' = yielded \o es
    <3>1. /\ \A n \in 1..Len(es) : IsTool(es[n]) =>
                CallMayBeYielded(es[n], dialect', opened', stopped', reply')
          /\ \A m \in 1..Len(yielded), n \in 1..Len(es) :
                IsTool(yielded[m]) /\ IsTool(es[n]) => yielded[m].call < es[n].call
      BY <1>4
    <3>2. opened' \in Nat /\ opened <= opened' /\ stopped \subseteq stopped'
          /\ (reply = "over" => reply' = "over") /\ dialect' = dialect
      BY <1>1, <1>5
    <3> QED BY <1>3, <1>5, <2>2, <3>1, <3>2, WellWith
  <2> QED BY <1>1, <2>1, <2>2
<1>7. counted' \in Nat
  BY <1>1, <1>2 DEF StreamTypes
<1>8. StreamTypes'
  BY <1>1, <1>6, <1>7 DEF StreamTypes, SlotsTyped
<1>9. SlotsFit'
  BY <1>1 DEF SlotsFit
<1>10. ASSUME flaws' = {}
       PROVE  YieldedWhole' /\ SlotsWhole' /\ NothingMissing' /\ UsageReported'
  <2>1. /\ flaws = {}
        /\ \/ dialect = "anthropic" /\ counted' = Produced /\ yielded' = yielded
           \/ dialect # "anthropic" /\ yielded' = yielded \o es
    BY <1>1, <1>10
  <2>2. YieldedWhole /\ SlotsWhole /\ NothingMissing /\ UsageReported
    BY <2>1 DEF Unharmed
  <2>3. /\ \A i \in 1..opened : sent[i] = Fragments[i]
        /\ dialect = "anthropic" => stopped = 1..opened
    BY <1>1, <2>1 DEF AllSent
  <2>4. \A i : Has(yielded, i) => Has(yielded', i)
    <3>1. CASE yielded' = yielded
      BY <3>1
    <3>2. CASE yielded' = yielded \o es
      BY <1>3, <1>5, <3>2, CallsJoined
    <3> QED BY <2>1, <3>1, <3>2
  <2>5. YieldedWhole'
    <3>1. CASE yielded' = yielded
      BY <2>2, <3>1 DEF YieldedWhole
    <3>2. CASE yielded' = yielded \o es
      BY <1>3, <1>4, <1>5, <2>2, <3>2, WholeWith DEF YieldedWhole
    <3> QED BY <2>1, <3>1, <3>2
  <2>6. SlotsWhole'
    BY <1>1, <2>2 DEF SlotsWhole
  <2>7. NothingMissing'
    BY <1>1, <2>2, <2>3, <2>4 DEF NothingMissing
  <2>8. UsageReported'
    <3>1. NoReport(yielded)
      BY <1>1, <2>2 DEF UsageReported
    <3>2. CASE dialect = "anthropic" /\ counted' = Produced /\ yielded' = yielded
      BY <1>1, <1>2, <3>1, <3>2 DEF UsageReported
    <3>3. CASE dialect # "anthropic" /\ yielded' = yielded \o es
      <4>1. OneReport(yielded', Produced)
        BY <1>3, <1>4, <1>5, <3>1, <3>3, ReportsJoined
      <4> QED BY <1>1, <1>2, <3>3, <4>1 DEF UsageReported
    <3> QED BY <2>1, <3>2, <3>3
  <2> QED BY <2>5, <2>6, <2>7, <2>8
<1>11. Unharmed'
  BY <1>10 DEF Unharmed
<1> QED BY <1>6, <1>8, <1>9, <1>11

\* OpenAI's parser yields what it has gathered.
LEMMA FinishStep ==
    ASSUME StreamInv, dialect = "openai", reply \in {"streaming", "summed"},
           yielded' = yielded \o Finished, slots' = <<>>, reply' = "over",
           UNCHANGED <<dialect, opened, sent, stopped, texts, counted>>
    PROVE  /\ StreamTypes' /\ YieldedWell' /\ SlotsFit'
           /\ flaws = {} /\ reply = "summed" =>
                 YieldedWhole' /\ SlotsWhole' /\ NothingMissing' /\ UsageReported'
<1> USE DEF StreamInv
<1> DEFINE es == Finished
<1>1. Gathered(Len(Fragments), es) /\ SlotsTyped
  BY FinishedIs DEF StreamTypes
<1> HIDE DEF es
<1>2. yielded \in Seq(Events) /\ opened \in Nat /\ yielded' = yielded \o es
      /\ DOMAIN slots \subseteq 1..opened
  BY CallsCounted DEF StreamTypes, es
<1>3. /\ es \in Seq(Events) /\ Ordered(es)
      /\ \A n \in 1..Len(es) :
          /\ IsTool(es[n]) /\ ~ IsReport(es[n])
          /\ es[n].call \in DOMAIN slots /\ es[n].raw = slots[es[n].call].raw
      /\ \A i \in DOMAIN slots : i <= Len(Fragments) /\ slots[i].named => Has(es, i)
  BY <1>1 DEF Gathered
<1>4. ASSUME NEW n \in 1..Len(es)
      PROVE  CallMayBeYielded(es[n], dialect', opened', stopped', reply')
  <2>1. slots[es[n].call] \in Slot /\ Fits(es[n].call, slots[es[n].call].raw, sent[es[n].call])
    BY <1>1, <1>3 DEF SlotsTyped, SlotsFit
  <2>2. slots[es[n].call].raw \in Pieces
    BY <2>1 DEF Slot
  <2>3. Unmixed(es[n])
    BY <1>3, <2>1, <2>2, FitsUnmixed
  <2> QED BY <1>2, <1>3, <2>3 DEF CallMayBeYielded
<1>5. \A m \in 1..Len(yielded) : ~ IsTool(yielded[m])
  BY DEF YieldedWell, CallMayBeYielded
<1>6. YieldedWell' /\ yielded' \in Seq(Events)
  <2>1. opened' \in Nat /\ opened <= opened' /\ stopped \subseteq stopped'
    BY <1>2
  <2> QED BY <1>2, <1>3, <1>4, <1>5, <2>1, WellWith
<1>7. DOMAIN slots' = {}
  OBVIOUS
<1>8. StreamTypes'
  BY <1>6, <1>7 DEF StreamTypes, SlotsTyped
<1>9. SlotsFit'
  BY <1>7 DEF SlotsFit
<1>10. ASSUME flaws = {}, reply = "summed"
       PROVE  YieldedWhole' /\ SlotsWhole' /\ NothingMissing' /\ UsageReported'
  <2>1. YieldedWhole /\ SlotsWhole /\ NothingMissing /\ UsageReported
    BY <1>10 DEF Unharmed
  <2>2. DOMAIN slots = 1..opened /\ \A i \in 1..opened : sent[i] = Fragments[i]
    BY <1>10, <2>1 DEF NothingMissing
  <2>3. \A n \in 1..Len(es) : Len(es[n].raw) = Fragments[es[n].call]
    BY <1>3, <2>1, <2>2 DEF SlotsWhole
  <2>4. YieldedWhole'
    BY <1>2, <1>3, <2>1, <2>3, WholeWith DEF YieldedWhole
  <2>5. SlotsWhole'
    BY <1>7 DEF SlotsWhole
  <2>6. ASSUME NEW i \in 1..opened PROVE Has(yielded', i)
    <3>1. i \in DOMAIN slots /\ i <= Len(Fragments) /\ slots[i].named
      <4>1. opened \in Nat /\ opened <= Len(Fragments) /\ Len(Fragments) \in Nat
        BY CallsCounted DEF StreamTypes
      <4> QED BY <2>1, <2>2, <4>1 DEF SlotsWhole
    <3>2. Has(es, i)
      BY <1>3, <3>1
    <3> QED BY <1>2, <1>3, <3>2, CallsJoined
  <2>7. NothingMissing'
    BY <2>6 DEF NothingMissing
  <2>8. OneReport(yielded, Produced) /\ NoReport(es)
    BY <1>3, <1>10, <2>1 DEF UsageReported, NoReport
  <2>9. OneReport(yielded', Produced)
    BY <1>2, <1>3, <2>8, ReportsJoined
  <2>10. UsageReported'
    BY <2>9, ProducedKept DEF UsageReported
  <2> QED BY <2>4, <2>5, <2>7, <2>10
<1> QED BY <1>6, <1>8, <1>9, <1>10

\* The end of the reply.
LEMMA EndStep ==
    ASSUME StreamInv, SendEnd
    PROVE  StreamInv'
<1> USE DEF StreamInv
<1> DEFINE es == <<UsageEvent(counted)>>
<1>1. /\ UNCHANGED <<dialect, opened, sent, stopped, texts>>
      /\ reply = "summed" /\ reply' = "over"
  BY DEF SendEnd, serverVars
<1>2. CASE dialect = "openai"
  <2>1. yielded' = yielded \o Finished /\ slots' = <<>> /\ UNCHANGED <<counted, flaws>>
    BY <1>2 DEF SendEnd, Yield
  <2>2. /\ StreamTypes' /\ YieldedWell' /\ SlotsFit'
        /\ flaws = {} => YieldedWhole' /\ SlotsWhole' /\ NothingMissing' /\ UsageReported'
    BY <1>1, <1>2, <2>1, FinishStep
  <2>3. Unharmed'
    BY <2>1, <2>2 DEF Unharmed
  <2> QED BY <2>2, <2>3
<1>3. CASE dialect = "anthropic"
  <2>1. /\ slots' = slots /\ counted' = counted
        /\ \/ yielded' = yielded /\ flaws' # {}
           \/ yielded' = yielded \o es /\ flaws' = flaws
    BY <1>3 DEF SendEnd, Arrives, Yield, parserVars
  <2>2. counted \in Nat /\ yielded \in Seq(Events) /\ opened \in Nat
    BY CallsCounted DEF StreamTypes
  <2>3. /\ es \in Seq(Events) /\ Ordered(es)
        /\ \A n \in 1..Len(es) : es[n] = UsageEvent(counted)
        /\ Len(es) = 1
    BY <2>2, UsageEventIs, OneEvent
  <2>4. /\ \A n \in 1..Len(es) : ~ IsTool(es[n])
        /\ OneReport(es, counted)
    <3>1. /\ IsReport(UsageEvent(counted)) /\ UsageEvent(counted).tokens = counted
          /\ ~ IsTool(UsageEvent(counted))
      BY <2>2, UsageEventIs
    <3> HIDE DEF es
    <3>2. 1 \in 1..Len(es) /\ \A n \in 1..Len(es) : n = 1
      BY <2>3
    <3> QED BY <2>3, <3>1, <3>2 DEF OneReport
  <2> HIDE DEF es
  <2>5. YieldedWell' /\ yielded' \in Seq(Events)
    <3>1. CASE yielded' = yielded
      BY <1>1, <2>2, <3>1, WellWithout
    <3>2. CASE yielded' = yielded \o es
      <4>1. /\ \A n \in 1..Len(es) : IsTool(es[n]) =>
                  CallMayBeYielded(es[n], dialect', opened', stopped', reply')
            /\ \A m \in 1..Len(yielded), n \in 1..Len(es) :
                  IsTool(yielded[m]) /\ IsTool(es[n]) => yielded[m].call < es[n].call
        BY <2>4
      <4>2. opened' \in Nat /\ opened <= opened' /\ stopped \subseteq stopped'
            /\ (reply = "over" => reply' = "over") /\ dialect' = dialect
        BY <1>1, <2>2
      <4> QED BY <2>2, <2>3, <3>2, <4>1, <4>2, WellWith
    <3> QED BY <2>1, <3>1, <3>2
  <2>6. StreamTypes'
    BY <1>1, <2>1, <2>5 DEF StreamTypes, SlotsTyped
  <2>7. SlotsFit'
    BY <1>1, <2>1 DEF SlotsFit
  <2>8. ASSUME flaws' = {}
        PROVE  YieldedWhole' /\ SlotsWhole' /\ NothingMissing' /\ UsageReported'
    <3>1. flaws = {} /\ yielded' = yielded \o es
      BY <2>1, <2>8
    <3>2. YieldedWhole /\ SlotsWhole /\ NothingMissing /\ UsageReported
      BY <3>1 DEF Unharmed
    <3>3. \A i : Has(yielded, i) => Has(yielded', i)
      BY <2>2, <2>3, <3>1, CallsJoined
    <3>4. YieldedWhole'
      BY <2>2, <2>3, <2>4, <3>1, <3>2, WholeWith DEF YieldedWhole
    <3>5. SlotsWhole'
      BY <1>1, <2>1, <3>2 DEF SlotsWhole
    <3>6. NothingMissing'
      BY <1>1, <1>3, <2>1, <3>2, <3>3 DEF NothingMissing
    <3>7. NoReport(yielded) /\ counted = Produced
      BY <1>1, <1>3, <3>2 DEF UsageReported
    <3>8. OneReport(yielded', Produced)
      BY <2>2, <2>3, <2>4, <3>1, <3>7, ReportsJoined
    <3>9. UsageReported'
      BY <1>1, <3>8, ProducedKept DEF UsageReported
    <3> QED BY <3>4, <3>5, <3>6, <3>9
  <2>9. Unharmed'
    BY <2>8 DEF Unharmed
  <2> QED BY <2>5, <2>6, <2>7, <2>9
<1>4. CASE dialect = "ollama"
  <2>1. UNCHANGED <<slots, counted, yielded, flaws>>
    BY <1>4 DEF SendEnd, parserVars
  <2>2. YieldedWell'
    BY <1>1, <1>4, <2>1 DEF YieldedWell, CallMayBeYielded
  <2>3. StreamTypes'
    BY <1>1, <2>1 DEF StreamTypes, SlotsTyped
  <2>4. SlotsFit'
    BY <1>1, <2>1 DEF SlotsFit
  <2>5. ASSUME flaws = {}
        PROVE  YieldedWhole' /\ SlotsWhole' /\ NothingMissing' /\ UsageReported'
    <3>1. YieldedWhole /\ SlotsWhole /\ NothingMissing /\ UsageReported
      BY <2>5 DEF Unharmed
    <3>2. YieldedWhole' /\ SlotsWhole' /\ NothingMissing'
      BY <1>1, <1>4, <2>1, <3>1 DEF YieldedWhole, SlotsWhole, NothingMissing
    <3>3. UsageReported'
      BY <1>1, <1>4, <2>1, <3>1, ProducedKept DEF UsageReported
    <3> QED BY <3>2, <3>3
  <2>6. Unharmed'
    BY <2>1, <2>5 DEF Unharmed
  <2> QED BY <2>2, <2>3, <2>4, <2>6
<1> QED BY <1>2, <1>3, <1>4 DEF StreamTypes, Dialogue

\* The body ends early.
LEMMA EarlyStep ==
    ASSUME StreamInv, EndEarly
    PROVE  StreamInv'
<1> USE DEF StreamInv
<1>1. /\ UNCHANGED <<dialect, opened, sent, stopped, texts, counted>>
      /\ reply = "streaming" /\ reply' = "over" /\ flaws' # {}
  BY DEF EndEarly, serverVars
<1>2. Unharmed'
  BY <1>1 DEF Unharmed
<1>3. CASE dialect = "openai"
  <2>1. yielded' = yielded \o Finished /\ slots' = <<>>
    BY <1>3 DEF EndEarly, Yield
  <2> QED BY <1>1, <1>2, <1>3, <2>1, FinishStep
<1>4. CASE dialect # "openai"
  <2>1. UNCHANGED <<slots, yielded>>
    BY <1>4 DEF EndEarly
  <2>2. YieldedWell'
    BY <1>1, <1>4, <2>1 DEF YieldedWell, CallMayBeYielded
  <2>3. StreamTypes'
    BY <1>1, <2>1 DEF StreamTypes, SlotsTyped
  <2>4. SlotsFit'
    BY <1>1, <2>1 DEF SlotsFit
  <2> QED BY <1>2, <2>2, <2>3, <2>4
<1> QED BY <1>3, <1>4

\* The adapter raises.
LEMMA FailStep ==
    ASSUME StreamInv, Fail
    PROVE  StreamInv'
<1> USE DEF StreamInv
<1>1. /\ UNCHANGED <<dialect, opened, sent, stopped, texts, slots, counted, yielded, flaws>>
      /\ reply' = "failed" /\ reply # "over"
  BY DEF Fail, serverVars, parserVars
<1>2. StreamTypes'
  BY <1>1 DEF StreamTypes, SlotsTyped
<1>3. YieldedWell'
  BY <1>1 DEF YieldedWell, CallMayBeYielded
<1>4. SlotsFit'
  BY <1>1 DEF SlotsFit
<1>5. Unharmed'
  BY <1>1 DEF Unharmed, YieldedWhole, SlotsWhole, NothingMissing, UsageReported
<1> QED BY <1>2, <1>3, <1>4, <1>5

\* A reply begins sound.
LEMMA StreamStarts ==
    ASSUME StreamInit
    PROVE  StreamInv
<1>1. /\ dialect \in Dialogue /\ opened = 0 /\ sent = [i \in CallNumbers |-> 0]
      /\ stopped = {} /\ texts = 0 /\ slots = <<>> /\ counted \in Nat /\ yielded = <<>>
      /\ reply = "streaming" /\ flaws = {}
  BY StreamAssumption DEF StreamInit, Dialogue
<1>2. /\ DOMAIN slots = {} /\ 1..opened = {} /\ yielded \in Seq(Events)
      /\ 1..Len(yielded) = {}
  BY <1>1
<1>3. StreamTypes
  BY <1>1, <1>2, CallsCounted DEF StreamTypes, SlotsTyped
<1>4. YieldedWell /\ SlotsFit
  BY <1>2 DEF YieldedWell, SlotsFit, Ordered
<1>5. YieldedWhole /\ SlotsWhole /\ NothingMissing /\ UsageReported
  BY <1>1, <1>2 DEF YieldedWhole, SlotsWhole, NothingMissing, UsageReported, NoReport
<1> QED BY <1>3, <1>4, <1>5 DEF StreamInv, Unharmed

\* What the runner is given of a reply that keeps the invariant.
LEMMA SoundCalls ==
    ASSUME StreamInv
    PROVE  CallsWhole
<1> USE DEF StreamInv
<1>1. DOMAIN yielded = 1..Len(yielded) /\ opened \in Nat
  BY CallsCounted DEF StreamTypes
<1>2. YieldedCalls = {n \in 1..Len(yielded) : IsTool(yielded[n])}
  BY <1>1 DEF YieldedCalls, IsTool
<1>3. YieldedUsage = {n \in 1..Len(yielded) : IsReport(yielded[n])}
  BY <1>1 DEF YieldedUsage, IsReport
<1>4. \A m, n \in YieldedCalls : m < n => yielded[m].call < yielded[n].call
  BY <1>2 DEF YieldedWell, Ordered
<1>5. \A n \in YieldedCalls : Unmixed(yielded[n]) /\ yielded[n].call \in 1..opened
  BY <1>2 DEF YieldedWell, CallMayBeYielded
<1>6. flaws = {} =>
          \A n \in YieldedCalls : Len(yielded[n].raw) = Fragments[yielded[n].call]
  BY <1>2 DEF Unharmed, YieldedWhole
<1>7. ASSUME flaws = {}, reply = "over"
      PROVE  /\ {yielded[n].call : n \in YieldedCalls} = 1..opened
             /\ \E n \in YieldedUsage :
                   YieldedUsage = {n} /\ yielded[n].tokens = Produced
  <2>1. NothingMissing /\ UsageReported
    BY <1>7 DEF Unharmed
  <2>2. \A i \in 1..opened : Has(yielded, i)
    BY <1>7, <2>1 DEF NothingMissing, StreamTypes, Dialogue
  <2>3. \A i \in 1..opened : \E n \in YieldedCalls : yielded[n].call = i
    BY <1>2, <2>2 DEF Has
  <2>4. {yielded[n].call : n \in YieldedCalls} = 1..opened
    BY <1>5, <2>3
  <2>5. PICK n \in 1..Len(yielded) :
            /\ IsReport(yielded[n]) /\ yielded[n].tokens = Produced
            /\ \A m \in 1..Len(yielded) : IsReport(yielded[m]) => m = n
    BY <1>7, <2>1 DEF UsageReported, OneReport
  <2>6. YieldedUsage = {n}
    BY <1>3, <2>5
  <2> QED BY <1>3, <2>4, <2>5, <2>6
<1> QED BY <1>4, <1>5, <1>6, <1>7 DEF CallsWhole

\* Every step of a reply keeps the invariant: the cases, one lemma for each.
LEMMA StreamStep ==
    ASSUME StreamInv, [StreamNext]_streamVars
    PROVE  StreamInv'
<1>1. CASE UNCHANGED streamVars
  BY <1>1 DEF streamVars, serverVars, parserVars, StreamInv, StreamTypes, SlotsTyped,
     YieldedWell, SlotsFit, Unharmed, YieldedWhole, SlotsWhole, NothingMissing,
     UsageReported, Produced
<1>2. CASE StreamStopped
  BY <1>1, <1>2 DEF StreamStopped
<1> QED BY <1>1, <1>2, TextStep, StartStep, FragmentStep, StopStep, CallsStep, CutStep,
       UsageStep, EndStep, EarlyStep, FailStep DEF StreamNext

\* However the calls of a reply overlap, the runner gets each at most once, in
\* the model's order and with its own arguments; they are whole, all are there
\* and the tokens are reported once, unless the reply was cut off, damaged or
\* ended early.
THEOREM CallsStayWhole == StreamSpec => []CallsWhole
<1>1. StreamInit => StreamInv
  BY StreamStarts
<1>2. StreamInv /\ [StreamNext]_streamVars => StreamInv'
  BY StreamStep
<1>3. StreamInv => CallsWhole
  BY SoundCalls
<1> QED BY <1>1, <1>2, <1>3, PTL DEF StreamSpec

\* The adapter stays the one that was chosen; the reply is as long as it may
\* be, and is flawed in known ways.
ReplyBounded ==
    /\ dialect \in Dialects /\ texts <= MaxText
    /\ flaws \subseteq {"cut", "garbled", "early"}

LEMMA ReplyBoundedStep ==
    ASSUME StreamInv, ReplyBounded, [StreamNext]_streamVars
    PROVE  ReplyBounded'
<1>1. dialect' = dialect
  BY DEF StreamNext, SendText, StartCall, SendFragment, StopBlock, SendCalls, CutOff,
     SendUsage, SendEnd, EndEarly, Fail, StreamStopped, streamVars
<1>2. texts' = texts \/ (texts' = texts + 1 /\ texts < MaxText)
  BY DEF StreamNext, SendText, StartCall, SendFragment, StopBlock, SendCalls, CutOff,
     SendUsage, SendEnd, EndEarly, Fail, StreamStopped, streamVars, serverVars
<1>3. texts' <= MaxText
  BY <1>2, StreamAssumption DEF ReplyBounded, StreamInv, StreamTypes
<1>4. flaws' \subseteq flaws \cup {"cut", "garbled", "early"}
  <2>1. CASE SendText \/ StartCall \/ SendFragment
    BY <2>1 DEF SendText, StartCall, SendFragment, Arrives
  <2>2. CASE StopBlock \/ SendCalls
    BY <2>2 DEF StopBlock, SendCalls, Arrives
  <2>3. CASE SendUsage
    BY <2>3 DEF SendUsage, Arrives
  <2>4. CASE SendEnd
    <3>1. dialect \in Dialogue
      BY DEF StreamInv, StreamTypes
    <3> QED BY <2>4, <3>1 DEF SendEnd, Arrives, Dialogue
  <2>5. CASE CutOff \/ EndEarly \/ Fail \/ StreamStopped \/ UNCHANGED streamVars
    BY <2>5 DEF CutOff, EndEarly, Fail, StreamStopped, streamVars
  <2> QED BY <2>1, <2>2, <2>3, <2>4, <2>5 DEF StreamNext
<1> QED BY <1>1, <1>3, <1>4 DEF ReplyBounded

\* Whatever a service sends and a proxy damages: the parsers keep no call that
\* was not begun and yield no event of another kind.
THEOREM StreamTyped == StreamSpec => []StreamTypeOK
<1>1. StreamInit => StreamInv /\ ReplyBounded
  BY StreamStarts, StreamAssumption DEF StreamInit, ReplyBounded
<1>2. StreamInv /\ ReplyBounded /\ [StreamNext]_streamVars
      => (StreamInv /\ ReplyBounded)'
  BY StreamStep, ReplyBoundedStep
<1>3. StreamInv /\ ReplyBounded => StreamTypeOK
  <2> SUFFICES ASSUME StreamInv, ReplyBounded PROVE StreamTypeOK
    OBVIOUS
  <2>1. \A n \in DOMAIN yielded : yielded[n].kind \in {"text", "tool", "usage"}
    <3>1. \A e \in Events : e.kind \in {"text", "tool", "usage"}
      BY DEF Events, ToolEvents, TextEvent
    <3> QED BY <3>1 DEF StreamInv, StreamTypes
  <2>2. stopped \subseteq CallNumbers /\ texts \in 0..MaxText
    BY StreamAssumption, CallsCounted DEF StreamInv, StreamTypes, ReplyBounded
  <2> QED BY <2>1, <2>2 DEF StreamTypeOK, StreamInv, StreamTypes, ReplyBounded
<1> QED BY <1>1, <1>2, <1>3, PTL DEF StreamSpec
==============================================================================
