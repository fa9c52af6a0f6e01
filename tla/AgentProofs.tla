----------------------------- MODULE AgentProofs -----------------------------
(***************************************************************************)
(* Proofs about AgentRun, for every set of providers and calls, every      *)
(* fallback chain and every number of rounds and of calls in a turn; about *)
(* PlanPreference, for every set of models and of Settings pages and every *)
(* number of saves and redeployments; about StartUp, for any variables in  *)
(* any layers of the environment; and about the three together as MCReview *)
(* composes them.                                                          *)
(***************************************************************************)
EXTENDS MCReview, DataLemmas, FiniteSetTheorems, TLAPS

-----------------------------------------------------------------------------
(* A run of the agent *)

Message == {UserMessage} \cup {AssistantMessage(cs) : cs \in Seq(Calls)}
                         \cup {ToolReply(c) : c \in Calls}

\* The types that most proofs need.
RunTypes ==
    /\ pc \in {"round", "try", "stream", "tools", "executing", "ended"}
    /\ round \in 0..MaxRounds
    /\ text \in {"none", "prose", NoCall} \cup Known
    /\ calls \in Seq(Calls)
    /\ executed \in Seq([call : Calls, round : 0..MaxRounds])
    /\ messages \in Seq(Message)
    /\ pc = "executing" => calls # <<>>

\* What was executed has been seen, and once.
ExecutedSeen == \A i \in 1..Len(executed) : executed[i].call \in seen
OnceInv == ExecutedSeen /\ NoCallTwice

\* Tools run in rounds that have another round after them; from its top to
\* the end of its turn a round has not run any.
RoundsLeft ==
    /\ pc \in {"tools", "executing"} => round < MaxRounds
    /\ \A i \in 1..Len(executed) :
          /\ executed[i].round <= round
          /\ pc \in {"round", "try", "stream"} => executed[i].round < round
OrderInv == RoundsLeft /\ AnswersFollowTools

\* The messages as they will be when the pending calls have been answered.
Foreseen(ms, cs) ==
    [n \in 1..(Len(ms) + Len(cs)) |->
        IF n <= Len(ms) THEN ms[n] ELSE ToolReply(cs[n - Len(ms)])]
Pending == IF pc \in {"tools", "executing"} THEN calls ELSE <<>>
PendingAnswered == pc # "ended" => Answered(Foreseen(messages, Pending))

-----------------------------------------------------------------------------
(* The messages of a run *)

\* The roles of messages.
LEMMA MessageRoles ==
    /\ UserMessage \in Message /\ UserMessage.role = "user"
    /\ \A cs \in Seq(Calls) : /\ AssistantMessage(cs) \in Message
                              /\ AssistantMessage(cs).role = "assistant"
                              /\ AssistantMessage(cs).calls = cs
    /\ \A c \in Calls : ToolReply(c) \in Message /\ ToolReply(c).role = "tool"
<1>1. UserMessage \in Message /\ UserMessage.role = "user"
  BY DEF Message, UserMessage
<1>2. ASSUME NEW cs \in Seq(Calls)
      PROVE  /\ AssistantMessage(cs) \in Message
             /\ AssistantMessage(cs).role = "assistant"
             /\ AssistantMessage(cs).calls = cs
  BY DEF Message, AssistantMessage
<1>3. ASSUME NEW c \in Calls
      PROVE  ToolReply(c) \in Message /\ ToolReply(c).role = "tool"
  BY DEF Message, ToolReply
<1> QED BY <1>1, <1>2, <1>3

\* A message makes a number of calls.
LEMMA CallsCounted ==
    ASSUME NEW m \in Message
    PROVE  /\ CallsIn(m) \in Nat
           /\ CallsIn(m) # 0 => m.role = "assistant" /\ m.calls \in Seq(Calls)
<1>1. CASE m = UserMessage
  BY <1>1, MessageRoles DEF CallsIn
<1>2. ASSUME NEW cs \in Seq(Calls), m = AssistantMessage(cs)
      PROVE  CallsIn(m) \in Nat /\ m.role = "assistant" /\ m.calls \in Seq(Calls)
  BY <1>2, MessageRoles DEF CallsIn
<1>3. ASSUME NEW c \in Calls, m = ToolReply(c)
      PROVE  CallsIn(m) = 0
  BY <1>3, MessageRoles DEF CallsIn
<1> QED BY <1>1, <1>2, <1>3 DEF Message

\* Without pending calls nothing is foreseen.
LEMMA NothingPending ==
    ASSUME NEW ms \in Seq(Message)
    PROVE  Foreseen(ms, <<>>) = ms
BY DEF Foreseen

\* A reply to the first pending call is what was foreseen.
LEMMA ReplyForeseen ==
    ASSUME NEW ms \in Seq(Message), NEW cs \in Seq(Calls), cs # <<>>
    PROVE  Foreseen(Append(ms, ToolReply(Head(cs))), Tail(cs)) = Foreseen(ms, cs)
<1> DEFINE more == Append(ms, ToolReply(Head(cs)))
<1>1. ToolReply(Head(cs)) \in Message
  BY MessageRoles
<1>2. /\ Len(more) = Len(ms) + 1 /\ Len(Tail(cs)) = Len(cs) - 1
      /\ Len(cs) \in Nat /\ Len(ms) \in Nat /\ Len(cs) > 0
      /\ \A n \in 1..Len(ms) : more[n] = ms[n]
      /\ more[Len(ms) + 1] = ToolReply(cs[1])
      /\ \A n \in 1..(Len(cs) - 1) : Tail(cs)[n] = cs[n + 1]
  BY <1>1
<1>3. ASSUME NEW n \in 1..(Len(ms) + Len(cs))
      PROVE  (IF n <= Len(more) THEN more[n]
                                ELSE ToolReply(Tail(cs)[n - Len(more)]))
             = (IF n <= Len(ms) THEN ms[n] ELSE ToolReply(cs[n - Len(ms)]))
  <2> HIDE DEF more
  <2>1. CASE n <= Len(ms)
    BY <1>2, <2>1
  <2>2. CASE n = Len(ms) + 1
    BY <1>2, <2>2
  <2>3. CASE n > Len(ms) + 1
    <3>1. /\ n - Len(more) \in 1..(Len(cs) - 1)
          /\ (n - Len(more)) + 1 = n - Len(ms)
      BY <1>2, <2>3
    <3>2. Tail(cs)[n - Len(more)] = cs[n - Len(ms)]
      BY <1>2, <3>1
    <3> QED BY <1>2, <2>3, <3>2
  <2> QED BY <1>2, <2>1, <2>2, <2>3
<1>4. 1..(Len(more) + Len(Tail(cs))) = 1..(Len(ms) + Len(cs))
  BY <1>2
<1> HIDE DEF more
<1>5. Foreseen(more, Tail(cs)) = Foreseen(ms, cs)
  BY <1>3, <1>4 DEF Foreseen
<1> QED BY <1>5 DEF more

\* What is answered stays answered when anything but a reply follows.
LEMMA StaysAnswered ==
    ASSUME NEW ms \in Seq(Message), Answered(ms), NEW more,
           Len(more) \in Nat, Len(more) > Len(ms),
           \A n \in 1..Len(ms) : more[n] = ms[n],
           more[Len(ms) + 1].role # "tool",
           NEW i \in 1..Len(ms), more[i].role # "tool"
    PROVE  AnsweredAt(more, i)
<1>1. ms[i] \in Message /\ Len(ms) \in Nat /\ more[i] = ms[i]
  OBVIOUS
<1>2. CallsIn(ms[i]) \in Nat
  BY <1>1, CallsCounted
<1>3. AnsweredAt(ms, i)
  BY <1>1 DEF Answered
<1> DEFINE last == i + CallsIn(ms[i])
<1>4. /\ last \in Nat /\ last <= Len(ms)
      /\ \A k \in 1..CallsIn(ms[i]) : ms[i + k] = ToolReply(ms[i].calls[k])
      /\ last < Len(ms) => ms[last + 1].role # "tool"
  <2>1. last \in Nat
    BY <1>2
  <2>2. /\ last <= Len(ms)
        /\ \A k \in 1..CallsIn(ms[i]) : ms[i + k] = ToolReply(ms[i].calls[k])
        /\ last < Len(ms) => ms[last + 1].role # "tool"
    BY <1>3 DEF AnsweredAt
  <2> QED BY <2>1, <2>2
<1>5. more[last + 1].role # "tool"
  <2> HIDE DEF last
  <2>1. CASE last = Len(ms)
    BY <2>1
  <2>2. CASE last < Len(ms)
    <3>1. last + 1 \in 1..Len(ms)
      BY <1>1, <1>4, <2>2
    <3> QED BY <1>4, <2>2, <3>1
  <2> QED BY <1>1, <1>4, <2>1, <2>2
<1>6. ASSUME NEW k \in 1..CallsIn(ms[i]) PROVE more[i + k] = ms[i + k]
  <2> DEFINE many == CallsIn(ms[i])  all == Len(ms)
  <2>1. many \in Nat /\ all \in Nat /\ i \in 1..all /\ i + many <= all
    BY <1>1, <1>2, <1>4
  <2>2. k \in 1..many
    OBVIOUS
  <2> HIDE DEF many, all
  <2>3. i + k \in 1..all
    BY <2>1, <2>2
  <2> HIDE DEF last
  <2> QED BY <2>3 DEF all
<1>7. CallsIn(more[i]) = CallsIn(ms[i]) /\ more[i].calls = ms[i].calls
  BY <1>1
<1>8. \A k \in 1..CallsIn(more[i]) : more[i + k] = ToolReply(more[i].calls[k])
  BY <1>4, <1>6, <1>7
<1>9. i + CallsIn(more[i]) <= Len(more)
  BY <1>1, <1>4, <1>7
<1> QED BY <1>5, <1>7, <1>8, <1>9 DEF AnsweredAt

\* A message of the user leaves no call open.
LEMMA UserAnswered ==
    ASSUME NEW ms \in Seq(Message), Answered(ms)
    PROVE  Answered(Append(ms, UserMessage))
<1> DEFINE more == Append(ms, UserMessage)
<1>1. /\ Len(more) = Len(ms) + 1 /\ Len(ms) \in Nat
      /\ \A n \in 1..Len(ms) : more[n] = ms[n]
      /\ more[Len(ms) + 1] = UserMessage
  BY MessageRoles
<1> HIDE DEF more
<1>2. ASSUME NEW i \in 1..Len(more), more[i].role # "tool"
      PROVE  AnsweredAt(more, i)
  <2>1. CASE i = Len(ms) + 1
    <3>1. CallsIn(more[i]) = 0
      BY <1>1, <2>1, MessageRoles DEF CallsIn
    <3> QED BY <1>1, <2>1, <3>1 DEF AnsweredAt
  <2>2. CASE i \in 1..Len(ms)
    BY <1>1, <1>2, <2>2, StaysAnswered, MessageRoles
  <2> QED BY <1>1, <2>1, <2>2
<1> QED BY <1>2 DEF Answered, more

\* The turn that makes the calls, with all their replies.
LEMMA TurnAnswered ==
    ASSUME NEW ms \in Seq(Message), Answered(ms), NEW cs \in Seq(Calls)
    PROVE  Answered(Foreseen(Append(ms, AssistantMessage(cs)), cs))
<1> DEFINE called == Append(ms, AssistantMessage(cs))
           more == Foreseen(called, cs)
<1>1. /\ Len(called) = Len(ms) + 1 /\ Len(ms) \in Nat /\ Len(cs) \in Nat
      /\ \A n \in 1..Len(ms) : called[n] = ms[n]
      /\ called[Len(ms) + 1] = AssistantMessage(cs)
  BY MessageRoles
<1> HIDE DEF called
<1>2. /\ Len(more) = Len(ms) + 1 + Len(cs)
      /\ \A n \in 1..Len(ms) : more[n] = ms[n]
      /\ more[Len(ms) + 1] = AssistantMessage(cs)
      /\ \A k \in 1..Len(cs) : more[Len(ms) + 1 + k] = ToolReply(cs[k])
  BY <1>1 DEF Foreseen
<1> HIDE DEF more
<1>3. ASSUME NEW i \in 1..Len(more), more[i].role # "tool"
      PROVE  AnsweredAt(more, i)
  <2>1. CASE i = Len(ms) + 1
    <3>1. CallsIn(more[i]) = Len(cs) /\ more[i].calls = cs
      BY <1>2, <2>1, MessageRoles DEF CallsIn
    <3> QED BY <1>1, <1>2, <2>1, <3>1 DEF AnsweredAt
  <2>2. CASE i > Len(ms) + 1
    <3>1. i - (Len(ms) + 1) \in 1..Len(cs)
      BY <1>1, <1>2, <2>2
    <3>2. more[i] = ToolReply(cs[i - (Len(ms) + 1)])
      BY <1>1, <1>2, <3>1
    <3>3. cs[i - (Len(ms) + 1)] \in Calls
      BY <3>1
    <3> QED BY <1>3, <3>2, <3>3, MessageRoles
  <2>3. CASE i \in 1..Len(ms)
    <3>1. /\ Len(more) \in Nat /\ Len(more) > Len(ms)
          /\ more[Len(ms) + 1].role # "tool"
      BY <1>1, <1>2, MessageRoles
    <3> QED BY <1>2, <1>3, <2>3, <3>1, StaysAnswered
  <2> QED BY <1>1, <1>2, <2>1, <2>2, <2>3
<1> QED BY <1>3 DEF Answered, more, called

-----------------------------------------------------------------------------
(* The types *)

\* The calls to run are calls.
LEMMA CallsToRunTyped ==
    ASSUME RunTypes
    PROVE  CallsToRun \in Seq(Calls)
<1>1. CASE text \in Known
  <2>1. text \in Calls
    BY <1>1 DEF Calls, Known
  <2>2. <<text>> \in Seq(Calls) /\ <<>> \in Seq(Calls)
    BY <2>1
  <2>3. Recovered \in Seq(Calls)
    BY <2>2 DEF Recovered
  <2> QED BY <2>3 DEF RunTypes, CallsToRun
<1>2. CASE text \notin Known
  BY <1>2 DEF RunTypes, CallsToRun, Recovered
<1> QED BY <1>1, <1>2

\* The first pending call is a call, and so are the others.
LEMMA PendingTyped ==
    ASSUME RunTypes, calls # <<>>
    PROVE  Head(calls) \in Calls /\ Tail(calls) \in Seq(Calls)
BY DEF RunTypes

\* An executed call with its round.
LEMMA ExecutedTyped ==
    ASSUME RunTypes, NEW c \in Calls
    PROVE  Append(executed, [call |-> c, round |-> round])
               \in Seq([call : Calls, round : 0..MaxRounds])
BY DEF RunTypes

\* The calls, the messages and what was executed keep their types.
LEMMA TypesStep ==
    ASSUME RunTypes, [Next]_vars
    PROVE  RunTypes'
<1> USE AgentAssumption DEF RunTypes
<1>1. CASE BeginRound
  <2>1. Append(messages, UserMessage) \in Seq(Message)
    BY MessageRoles
  <2> QED BY <1>1, <2>1 DEF BeginRound
<1>2. CASE ProviderFails
  BY <1>2 DEF ProviderFails, RunRaises, run
<1>3. CASE ProviderAnswers
  BY <1>3 DEF ProviderAnswers, turn
<1>4. CASE ProviderBreaksOff
  BY <1>4 DEF ProviderBreaksOff, RunRaises, run, turn
<1>5. CASE Prose \/ Held
  BY <1>5 DEF Prose, Held, run
<1>6. CASE NativeCall
  <2>1. calls' \in Seq(Calls)
    BY <1>6 DEF NativeCall
  <2> QED BY <1>6, <2>1 DEF NativeCall, run
<1>7. CASE EndTurn
  <2>1. Append(messages, AssistantMessage(CallsToRun)) \in Seq(Message)
    BY CallsToRunTyped, MessageRoles
  <2>2. messages' \in Seq(Message) /\ calls' \in Seq(Calls)
    BY <1>7, <2>1, CallsToRunTyped DEF EndTurn
  <2>3. pc' \in {"tools", "ended"}
    BY <1>7 DEF EndTurn, EndOfRun
  <2> QED BY <1>7, <2>2, <2>3 DEF EndTurn
<1>8. CASE RepeatedCall \/ EndTool
  <2>1. calls # <<>>
    BY <1>8 DEF RepeatedCall, EndTool
  <2>2. Append(messages, ToolReply(Head(calls))) \in Seq(Message)
    BY <2>1, PendingTyped, MessageRoles
  <2> QED BY <1>8, <2>1, <2>2, PendingTyped DEF RepeatedCall, EndTool
<1>9. CASE StartTool
  BY <1>9, PendingTyped, ExecutedTyped DEF StartTool, turn
<1>10. CASE EndRound
  BY <1>10 DEF EndRound, EndOfRun, turn
<1>11. CASE UsageReport
  BY <1>11 DEF UsageReport, run
<1>12. CASE ClientLeaves \/ Ended \/ UNCHANGED vars
  BY <1>12 DEF ClientLeaves, Ended, vars, run, turn
<1> QED BY <1>1, <1>2, <1>3, <1>4, <1>5, <1>6, <1>7, <1>8, <1>9, <1>10, <1>11,
          <1>12 DEF Next, Step

\* The run starts with these types.
LEMMA TypesInit ==
    ASSUME Init
    PROVE  RunTypes
BY AgentAssumption, MessageRoles DEF Init, RunTypes

\* The types hold throughout.
LEMMA TypesHold == Spec => []RunTypes
<1>1. Init => RunTypes
  BY TypesInit
<1>2. RunTypes /\ [Next]_vars => RunTypes'
  BY TypesStep
<1> QED BY <1>1, <1>2, PTL DEF Spec

-----------------------------------------------------------------------------
(* What a step does to the calls that were executed *)

\* One that was not seen is executed, or none.
LEMMA ExecutedStep ==
    ASSUME RunTypes, [Next]_vars
    PROVE  \/ /\ StartTool /\ Head(calls) \in Calls
              /\ Len(executed') = Len(executed) + 1
              /\ \A i \in 1..Len(executed) : executed'[i] = executed[i]
              /\ executed'[Len(executed) + 1]
                    = [call |-> Head(calls), round |-> round]
           \/ executed' = executed /\ seen' = seen
<1>1. CASE StartTool
  <2>1. calls # <<>> /\ Head(calls) \in Calls
    BY <1>1, PendingTyped DEF StartTool
  <2> QED BY <1>1, <2>1 DEF StartTool, RunTypes
<1>2. CASE ~StartTool
  BY <1>2 DEF Next, Step, BeginRound, ProviderFails, ProviderAnswers,
     ProviderBreaksOff, Prose, Held, NativeCall, UsageReport, EndTurn,
     RepeatedCall, EndTool, EndRound, ClientLeaves, Ended, vars, run
<1> QED BY <1>1, <1>2

\* Whatever the model repeats, a call is run once.
THEOREM NoCallRunTwice == Spec => []NoCallTwice
<1>1. Init => OnceInv
  BY DEF Init, OnceInv, ExecutedSeen, NoCallTwice
<1>2. RunTypes /\ OnceInv /\ [Next]_vars => OnceInv'
  <2> SUFFICES ASSUME RunTypes, OnceInv, [Next]_vars PROVE OnceInv'
    OBVIOUS
  <2> USE DEF OnceInv, ExecutedSeen, NoCallTwice
  <2>1. CASE executed' = executed /\ seen' = seen
    BY <2>1
  <2>2. CASE /\ StartTool /\ Head(calls) \in Calls
             /\ Len(executed') = Len(executed) + 1
             /\ \A i \in 1..Len(executed) : executed'[i] = executed[i]
             /\ executed'[Len(executed) + 1]
                   = [call |-> Head(calls), round |-> round]
    <3>1. Head(calls) \notin seen /\ seen' = seen \cup {Head(calls)}
      BY <2>2 DEF StartTool
    <3>2. Len(executed) \in Nat
      BY DEF RunTypes
    <3>3. executed'[Len(executed) + 1].call = Head(calls)
      BY <2>2
    <3>4. ExecutedSeen'
      BY <2>2, <3>1, <3>2, <3>3
    <3>5. NoCallTwice'
      BY <2>2, <3>1, <3>2, <3>3
    <3> QED BY <3>4, <3>5
  <2> QED BY <2>1, <2>2, ExecutedStep
<1>3. OnceInv => NoCallTwice
  BY DEF OnceInv
<1> QED BY <1>1, <1>2, <1>3, TypesHold, PTL DEF Spec

\* What a step does to the round and to where the run is.
LEMMA RoundStep ==
    ASSUME RunTypes, RoundsLeft, [Next]_vars
    PROVE  /\ round' \in {round, round + 1}
           /\ pc' \in {"tools", "executing"} => round' < MaxRounds
           /\ round' = round /\ pc' \in {"round", "try", "stream"} =>
                 pc \in {"round", "try", "stream"}
           /\ pc' = "ended" /\ pc # "ended"
                 /\ status' \in {"ok", "fallback", "empty"} =>
                     pc = "stream" /\ round' = round
           /\ pc' = "ended" /\ pc = "ended" =>
                 status' = status /\ round' = round
<1> USE AgentAssumption DEF RunTypes, RoundsLeft
<1>1. CASE BeginRound \/ ProviderAnswers \/ Prose \/ Held \/ NativeCall
           \/ UsageReport
  BY <1>1 DEF BeginRound, ProviderAnswers, Prose, Held, NativeCall,
     UsageReport, run, seenByUser
<1>2. CASE ProviderFails \/ ProviderBreaksOff
  BY <1>2 DEF ProviderFails, ProviderBreaksOff, RunRaises, run, turn
<1>3. CASE EndTurn
  <2>1. pc = "stream" /\ round' = round /\ pc' \in {"tools", "ended"}
    BY <1>3 DEF EndTurn, EndOfRun
  <2>2. pc' = "tools" => round # MaxRounds
    BY <1>3 DEF EndTurn, EndOfRun, CallsToRun
  <2> QED BY <2>1, <2>2
<1>4. CASE RepeatedCall \/ StartTool \/ EndTool
  BY <1>4 DEF RepeatedCall, StartTool, EndTool, seenByUser
<1>5. CASE EndRound
  BY <1>5 DEF EndRound, EndOfRun, turn
<1>6. CASE ClientLeaves \/ Ended \/ UNCHANGED vars
  BY <1>6 DEF ClientLeaves, Ended, vars, run, seenByUser
<1> QED BY <1>1, <1>2, <1>3, <1>4, <1>5, <1>6 DEF Next, Step

\* The elements of a sequence.
LEMMA Elements ==
    ASSUME NEW S, NEW s \in Seq(S), NEW i \in 1..Len(s)
    PROVE  s[i] \in S
OBVIOUS

\* An answer comes after the last lookup.
THEOREM AnswersLast == Spec => []AnswersFollowTools
<1>1. Init => OrderInv
  BY DEF Init, OrderInv, RoundsLeft, AnswersFollowTools
<1>2. RunTypes /\ OrderInv /\ [Next]_vars => OrderInv'
  <2> SUFFICES ASSUME RunTypes, OrderInv, [Next]_vars PROVE OrderInv'
    OBVIOUS
  <2> USE DEF OrderInv
  <2>1. /\ round \in Nat /\ Len(executed) \in Nat
        /\ \A i \in 1..Len(executed) : executed[i].round \in Nat
    <3>1. \A i \in 1..Len(executed) :
              executed[i] \in [call : Calls, round : 0..MaxRounds]
      BY Elements DEF RunTypes
    <3>2. \A e \in [call : Calls, round : 0..MaxRounds] : e.round \in Nat
      BY AgentAssumption
    <3> QED BY <3>1, <3>2, AgentAssumption DEF RunTypes
  <2>2. /\ \/ Len(executed') = Len(executed)
           \/ /\ Len(executed') = Len(executed) + 1
              /\ executed'[Len(executed) + 1].round = round
              /\ round' = round /\ pc' = "executing"
        /\ \A i \in 1..Len(executed) : executed'[i] = executed[i]
    BY ExecutedStep DEF StartTool
  <2>3. RoundsLeft'
    BY <2>1, <2>2, RoundStep DEF RoundsLeft
  <2>4. AnswersFollowTools'
    BY <2>1, <2>2, RoundStep DEF RoundsLeft, AnswersFollowTools
  <2> QED BY <2>3, <2>4
<1>3. OrderInv => AnswersFollowTools
  BY DEF OrderInv
<1> QED BY <1>1, <1>2, <1>3, TypesHold, PTL DEF Spec

-----------------------------------------------------------------------------
(* The messages and the usage *)

\* Every call is answered before the next turn is sent.
THEOREM EveryCallAnswered == Spec => []CallsAnswered
<1>1. Init => PendingAnswered
  <2> SUFFICES ASSUME Init PROVE Answered(Foreseen(messages, Pending))
    BY DEF PendingAnswered
  <2>1. messages = <<UserMessage>> /\ Pending = <<>>
    BY DEF Init, Pending
  <2>2. <<UserMessage>> \in Seq(Message)
    BY MessageRoles
  <2>3. Foreseen(messages, Pending) = <<UserMessage>>
    BY <2>1, <2>2, NothingPending
  <2>4. CallsIn(UserMessage) = 0
    BY MessageRoles DEF CallsIn
  <2>5. Answered(<<UserMessage>>)
    BY <2>4 DEF Answered, AnsweredAt
  <2> QED BY <2>3, <2>5
<1>2. RunTypes /\ PendingAnswered /\ [Next]_vars => PendingAnswered'
  <2> SUFFICES ASSUME RunTypes, PendingAnswered, [Next]_vars, pc' # "ended"
               PROVE  Answered(Foreseen(messages', Pending'))
    BY DEF PendingAnswered
  <2> USE DEF RunTypes
  <2>1. CASE BeginRound
    <3>1. Pending = <<>> /\ Pending' = <<>> /\ pc # "ended"
      BY <2>1 DEF BeginRound, Pending
    <3>2. Answered(messages)
      BY <3>1, NothingPending DEF PendingAnswered
    <3>3. messages' = messages \/ messages' = Append(messages, UserMessage)
      BY <2>1 DEF BeginRound
    <3>4. Answered(messages') /\ messages' \in Seq(Message)
      <4>1. CASE messages' = messages
        BY <3>2, <4>1
      <4>2. CASE messages' = Append(messages, UserMessage)
        BY <3>2, <4>2, UserAnswered, MessageRoles
      <4> QED BY <3>3, <4>1, <4>2
    <3> QED BY <3>1, <3>4, NothingPending
  <2>2. CASE ProviderFails \/ ProviderBreaksOff
    BY <2>2 DEF ProviderFails, ProviderBreaksOff, RunRaises, run, turn, Pending,
       PendingAnswered
  <2>3. CASE ProviderAnswers \/ Prose \/ Held \/ NativeCall \/ UsageReport
    BY <2>3 DEF ProviderAnswers, Prose, Held, NativeCall, UsageReport, run,
       turn, Pending, PendingAnswered
  <2>4. CASE EndTurn
    <3>1. /\ pc' = "tools" /\ calls' = CallsToRun
          /\ messages' = Append(messages, AssistantMessage(CallsToRun))
      BY <2>4 DEF EndTurn, EndOfRun
    <3>2. Answered(messages)
      BY <2>4, NothingPending DEF EndTurn, Pending, PendingAnswered
    <3> QED BY <3>1, <3>2, CallsToRunTyped, TurnAnswered DEF Pending
  <2>5. CASE RepeatedCall \/ EndTool
    <3>1. /\ pc \in {"tools", "executing"} /\ pc' = "tools" /\ calls # <<>>
          /\ messages' = Append(messages, ToolReply(Head(calls)))
          /\ calls' = Tail(calls)
      BY <2>5 DEF RepeatedCall, EndTool
    <3>2. Foreseen(messages', Pending') = Foreseen(messages, Pending)
      BY <3>1, ReplyForeseen DEF Pending
    <3> QED BY <3>1, <3>2 DEF PendingAnswered
  <2>6. CASE StartTool
    BY <2>6 DEF StartTool, turn, Pending, PendingAnswered
  <2>7. CASE EndRound
    BY <2>7 DEF EndRound, EndOfRun, turn, Pending, PendingAnswered
  <2>8. CASE ClientLeaves \/ Ended
    BY <2>8 DEF ClientLeaves, Ended, vars
  <2>9. CASE UNCHANGED vars
    BY <2>9 DEF vars, run, turn, Pending, PendingAnswered
  <2> QED BY <2>1, <2>2, <2>3, <2>4, <2>5, <2>6, <2>7, <2>8, <2>9 DEF Next, Step
<1>3. RunTypes /\ PendingAnswered => CallsAnswered
  BY NothingPending DEF RunTypes, PendingAnswered, Pending, CallsAnswered
<1> QED BY <1>1, <1>2, <1>3, TypesHold, PTL DEF Spec

-----------------------------------------------------------------------------
(* The tokens of a run: a fold over the reports of its turns *)

\* G adds up the first reports, up to the greatest position of a set.
AddsUp(G, t) ==
    G = [s \in SUBSET (1..Len(t)) |->
            IF s = {} THEN 0 ELSE G[s \ {Max(s)}] + t[Max(s)]]

\* The sum is the value of such a function at all positions.
LEMMA TokensAddUp ==
    ASSUME NEW t \in Seq(Costs)
    PROVE  \E F : AddsUp(F, t) /\ TokensOf(t) = F[1..Len(t)]
<1> DEFINE n == Len(t)
           F == CHOOSE G : G = [s \in SUBSET DOMAIN t |->
                    IF s = {} THEN 0 ELSE LET x == Max(s) IN G[s \ {x}] + t[x]]
           step == [i \in 1..n |-> [sum \in Nat |-> sum + t[i]]]
<1>1. TokensOf(t) = F[DOMAIN t]
  BY DEF TokensOf, FoldLeft, MapThenFoldSet
<1>2. n \in Nat /\ DOMAIN t = 1..n
  OBVIOUS
<1>3. F = CHOOSE G : AddsUp(G, t)
  BY <1>2 DEF AddsUp
<1> HIDE DEF F
<1>4. \A i \in 1..n : t[i] \in Nat
  <2>1. \A i \in 1..n : t[i] \in Costs
    OBVIOUS
  <2> QED BY <2>1, AgentAssumption
<1> HIDE DEF n
<1>5. \E G : IsFold(G, Nat, 0, step, n)
  <2>1. step \in [1..n -> [Nat -> Nat]]
    BY <1>4
  <2> HIDE DEF step
  <2> QED BY <1>2, <2>1, FoldExists
<1>6. \E G : AddsUp(G, t)
  <2>1. PICK G : IsFold(G, Nat, 0, step, n)
    BY <1>5
  <2>2. ASSUME NEW s \in SUBSET (1..n), s # {}
        PROVE  G[s] = G[s \ {Max(s)}] + t[Max(s)]
    <3>1. Max(s) \in 1..n
      BY <1>2, <2>2, MaxOfPositions
    <3>2. G[s \ {Max(s)}] \in Nat
      BY <2>1 DEF IsFold
    <3>3. G[s] = step[Max(s)][G[s \ {Max(s)}]]
      BY <2>1, <2>2 DEF IsFold
    <3> QED BY <3>1, <3>2, <3>3
  <2>3. G = [s \in SUBSET (1..n) |-> G[s]] /\ G[{}] = 0
    BY <2>1 DEF IsFold
  <2>4. AddsUp(G, t)
    BY <2>2, <2>3 DEF AddsUp, n
  <2> QED BY <2>4
<1>7. AddsUp(F, t)
  BY <1>3, <1>6
<1> QED BY <1>1, <1>2, <1>7 DEF n

\* Such a function starts from nothing and adds one report after another.
LEMMA AddsOneByOne ==
    ASSUME NEW t \in Seq(Costs), NEW F, AddsUp(F, t)
    PROVE  /\ F[1..0] = 0
           /\ \A k \in Nat : k + 1 <= Len(t) => F[1..(k + 1)] = F[1..k] + t[k + 1]
<1>1. /\ \A s \in SUBSET (1..Len(t)) :
            F[s] = IF s = {} THEN 0 ELSE F[s \ {Max(s)}] + t[Max(s)]
      /\ Len(t) \in Nat
  <2>1. F = [s \in SUBSET (1..Len(t)) |->
                IF s = {} THEN 0 ELSE F[s \ {Max(s)}] + t[Max(s)]]
    BY DEF AddsUp
  <2>2. ASSUME NEW s \in SUBSET (1..Len(t))
        PROVE  F[s] = IF s = {} THEN 0 ELSE F[s \ {Max(s)}] + t[Max(s)]
    BY <2>1, Zenon
  <2> QED BY <2>2
<1>2. F[1..0] = 0
  <2>1. 1..0 = {} /\ {} \in SUBSET (1..Len(t))
    OBVIOUS
  <2> QED BY <1>1, <2>1
<1>3. ASSUME NEW k \in Nat, k + 1 <= Len(t) PROVE F[1..(k + 1)] = F[1..k] + t[k + 1]
  <2>1. 1..(k + 1) \in SUBSET (1..Len(t)) /\ 1..(k + 1) # {}
        /\ Max(1..(k + 1)) = k + 1 /\ (1..(k + 1)) \ {k + 1} = 1..k
    BY <1>1, <1>3, LastPosition
  <2> QED BY <1>1, <2>1
<1> QED BY <1>2, <1>3

\* No report is no tokens, and one report more adds its tokens.
LEMMA NoTokens == TokensOf(<<>>) = 0
<1>1. <<>> \in Seq(Costs) /\ Len(<<>>) = 0
  OBVIOUS
<1>2. PICK F : AddsUp(F, <<>>) /\ TokensOf(<<>>) = F[1..Len(<<>>)]
  BY <1>1, TokensAddUp
<1>3. F[1..0] = 0
  BY <1>1, <1>2, AddsOneByOne
<1> QED BY <1>1, <1>2, <1>3

LEMMA TokensAdded ==
    ASSUME NEW t \in Seq(Costs), NEW cost \in Costs
    PROVE  TokensOf(Append(t, cost)) = TokensOf(t) + cost
<1> DEFINE u == Append(t, cost)  n == Len(t)
<1>1. /\ u \in Seq(Costs) /\ Len(u) = n + 1 /\ n \in Nat /\ u[n + 1] = cost
      /\ \A i \in 1..n : u[i] = t[i]
  OBVIOUS
<1> HIDE DEF u
<1>2. PICK F : AddsUp(F, t) /\ TokensOf(t) = F[1..n]
  BY TokensAddUp
<1>3. PICK G : AddsUp(G, u) /\ TokensOf(u) = G[1..(n + 1)]
  BY <1>1, TokensAddUp
<1> DEFINE N == {k \in Nat : k <= n => G[1..k] = F[1..k]}
<1>4. 0 \in N
  BY <1>1, <1>2, <1>3, AddsOneByOne
<1>5. ASSUME NEW k \in Nat, k \in N PROVE k + 1 \in N
  <2> SUFFICES ASSUME k + 1 <= n PROVE G[1..(k + 1)] = F[1..(k + 1)]
    OBVIOUS
  <2>1. G[1..k] = F[1..k] /\ u[k + 1] = t[k + 1]
    BY <1>1, <1>5
  <2>2. F[1..(k + 1)] = F[1..k] + t[k + 1]
    BY <1>2, AddsOneByOne
  <2>3. G[1..(k + 1)] = G[1..k] + u[k + 1]
    BY <1>1, <1>3, AddsOneByOne
  <2> QED BY <2>1, <2>2, <2>3
<1>6. n \in N
  <2> HIDE DEF N
  <2> QED BY <1>1, <1>4, <1>5, Induct
<1>7. G[1..n] = F[1..n]
  BY <1>6
<1>8. G[1..(n + 1)] = G[1..n] + u[n + 1]
  BY <1>1, <1>3, AddsOneByOne
<1> QED BY <1>1, <1>2, <1>3, <1>7, <1>8 DEF u

-----------------------------------------------------------------------------
(* The usage of a run *)

\* While a run goes on, AgentRunner.run holds what was reported, and the
\* stream has been handed nothing yet.
UsageHeld ==
    /\ reported \in Seq(Costs) /\ total \in Nat
    /\ pc # "ended" => total = TokensOf(reported) /\ recorded = 0
    /\ ReportedUsageRecorded

\* It stays so with every step.
LEMMA UsageHeldStep ==
    ASSUME UsageHeld, [Next]_vars
    PROVE  UsageHeld'
<1> USE DEF UsageHeld, ReportedUsageRecorded
<1>1. CASE BeginRound \/ RepeatedCall \/ StartTool \/ EndTool
  BY <1>1 DEF BeginRound, RepeatedCall, StartTool, EndTool, seenByUser
<1>2. CASE ProviderAnswers \/ Prose \/ Held \/ NativeCall
  BY <1>2 DEF ProviderAnswers, Prose, Held, NativeCall, seenByUser
<1>3. CASE UsageReport
  <2>1. PICK cost \in Costs : /\ reported' = Append(reported, cost)
                              /\ total' = total + cost
    BY <1>3 DEF UsageReport
  <2>2. TokensOf(reported') = TokensOf(reported) + cost
    BY <2>1, TokensAdded
  <2>3. cost \in Nat /\ reported' \in Seq(Costs)
    BY <2>1, AgentAssumption
  <2>4. pc = "stream" /\ UNCHANGED <<pc, recorded, status>>
    BY <1>3 DEF UsageReport
  <2> QED BY <2>1, <2>2, <2>3, <2>4
<1>4. CASE ProviderFails
  <2>1. pc = "try" /\ UNCHANGED <<reported, total>>
    BY <1>4 DEF ProviderFails
  <2>2. \/ pc' = "try" /\ UNCHANGED recorded
        \/ pc' = "ended" /\ recorded' = IF total # 0 THEN recorded + total ELSE recorded
    BY <1>4, <2>1 DEF ProviderFails, RunRaises
  <2> QED BY <2>1, <2>2
<1>5. CASE ProviderBreaksOff
  <2>1. pc = "stream" /\ UNCHANGED <<reported, total>>
    BY <1>5 DEF ProviderBreaksOff
  <2>2. pc' = "ended" /\ recorded' = IF total # 0 THEN recorded + total ELSE recorded
    BY <1>5 DEF ProviderBreaksOff, RunRaises
  <2> QED BY <2>1, <2>2
<1>6. CASE EndTurn \/ EndRound
  <2>1. pc \in {"stream", "tools"} /\ UNCHANGED <<reported, total>>
    BY <1>6 DEF EndTurn, EndRound
  <2>2. \/ pc' # "ended" /\ UNCHANGED recorded
        \/ pc' = "ended" /\ recorded' = recorded + total
    BY <1>6 DEF EndTurn, EndRound, EndOfRun
  <2> QED BY <2>1, <2>2
<1>7. CASE ClientLeaves \/ Ended \/ UNCHANGED vars
  BY <1>7 DEF ClientLeaves, Ended, vars, seenByUser
<1> QED BY <1>1, <1>2, <1>3, <1>4, <1>5, <1>6, <1>7 DEF Next, Step

\* A run that ends by itself, well or badly and in whichever round, records
\* all that the providers reported for its turns.
THEOREM UsageRecorded == Spec => []ReportedUsageRecorded
<1>1. Init => UsageHeld
  BY NoTokens DEF Init, UsageHeld, ReportedUsageRecorded
<1>2. UsageHeld /\ [Next]_vars => UsageHeld'
  BY UsageHeldStep
<1>3. UsageHeld => ReportedUsageRecorded
  BY DEF UsageHeld
<1> QED BY <1>1, <1>2, <1>3, PTL DEF Spec

-----------------------------------------------------------------------------
(* The fallback chain: a fold over the configured fallbacks, that is, a    *)
(* function on the sets of their positions that is defined by recursion.   *)

\* One step of the fold.
Added(c, name) == IF name \in ToSet(c) \/ name \notin Allowed THEN c ELSE Append(c, name)

\* What chain_for should make of the first k fallbacks: the preferred provider
\* first, then every one of them that the plan allows, once, and nobody else,
\* in the order in which they are first named.
ChainOf(c, p, k) ==
    /\ c \in Seq(Allowed) /\ Len(c) \in 1..(k + 1) /\ c[1] = p
    /\ \A i, j \in 1..Len(c) : c[i] = c[j] => i = j
    /\ \A l \in 1..k :
          Fallbacks[l] \in Allowed => \E i \in 1..Len(c) : c[i] = Fallbacks[l]
    /\ \A i \in 2..Len(c) : \E m \in 1..k :
          /\ Fallbacks[m] = c[i]
          /\ \A j \in 2..Len(c) : i < j => \A l \in 1..m : Fallbacks[l] # c[j]

\* The next fallback is added at the end, unless it is there or not allowed.
LEMMA ChainGrows ==
    ASSUME NEW p \in Allowed, NEW k \in Nat, k + 1 <= Len(Fallbacks),
           NEW c, ChainOf(c, p, k)
    PROVE  ChainOf(Added(c, Fallbacks[k + 1]), p, k + 1)
<1> DEFINE name == Fallbacks[k + 1]
<1>1. c \in Seq(Allowed) /\ Len(c) \in 1..(k + 1) /\ c[1] = p
  BY DEF ChainOf
<1>2. \A i, j \in 1..Len(c) : c[i] = c[j] => i = j
  BY DEF ChainOf
<1>3. \A l \in 1..k :
          Fallbacks[l] \in Allowed => \E i \in 1..Len(c) : c[i] = Fallbacks[l]
  BY DEF ChainOf
<1>4. \A i \in 2..Len(c) : \E m \in 1..k :
          /\ Fallbacks[m] = c[i]
          /\ \A j \in 2..Len(c) : i < j => \A l \in 1..m : Fallbacks[l] # c[j]
  BY DEF ChainOf
<1>5. ToSet(c) = {c[i] : i \in 1..Len(c)}
  BY <1>1 DEF ToSet
<1>6. CASE name \in ToSet(c) \/ name \notin Allowed
  <2>1. Added(c, name) = c
    BY <1>6 DEF Added
  <2>2. \A l \in 1..(k + 1) :
            Fallbacks[l] \in Allowed => \E i \in 1..Len(c) : c[i] = Fallbacks[l]
    <3>1. \A l \in 1..(k + 1) : l \in 1..k \/ l = k + 1
      OBVIOUS
    <3> QED BY <1>3, <1>5, <1>6, <3>1
  <2>3. 1..k \subseteq 1..(k + 1) /\ Len(c) \in 1..((k + 1) + 1)
    BY <1>1
  <2>4. \A i \in 2..Len(c) : \E m \in 1..(k + 1) :
            /\ Fallbacks[m] = c[i]
            /\ \A j \in 2..Len(c) : i < j => \A l \in 1..m : Fallbacks[l] # c[j]
    BY <1>4, <2>3
  <2>5. ChainOf(c, p, k + 1)
    BY <1>1, <1>2, <2>2, <2>3, <2>4 DEF ChainOf
  <2> QED BY <2>1, <2>5
<1>7. CASE name \notin ToSet(c) /\ name \in Allowed
  <2> DEFINE d == Append(c, name)  n == Len(c)
  <2>1. Added(c, name) = d
    BY <1>7 DEF Added
  <2>2. /\ d \in Seq(Allowed) /\ Len(d) = n + 1 /\ d[n + 1] = name
        /\ n \in 1..(k + 1) /\ \A i \in 1..n : d[i] = c[i]
    BY <1>1, <1>7
  <2> HIDE DEF d, n
  <2>3. \A i \in 1..(n + 1) : i \in 1..n \/ i = n + 1
    BY <2>2
  <2>4. \A i \in 1..n : c[i] # name
    BY <1>5, <1>7 DEF n
  <2>5. Len(d) \in 1..((k + 1) + 1) /\ d[1] = p
    BY <1>1, <2>2
  <2>6. \A i, j \in 1..Len(d) : d[i] = d[j] => i = j
    BY <1>2, <2>2, <2>3, <2>4 DEF n
  <2>7. ASSUME NEW l \in 1..(k + 1), Fallbacks[l] \in Allowed
        PROVE  \E i \in 1..Len(d) : d[i] = Fallbacks[l]
    <3>1. CASE l = k + 1
      <4>1. n + 1 \in 1..Len(d)
        BY <2>2
      <4> QED BY <2>2, <3>1, <4>1
    <3>2. CASE l \in 1..k
      <4>1. PICK i \in 1..n : c[i] = Fallbacks[l]
        BY <1>3, <2>7, <3>2 DEF n
      <4>2. i \in 1..Len(d)
        BY <2>2
      <4> QED BY <2>2, <4>1, <4>2
    <3> QED BY <3>1, <3>2
  <2>8. \A l \in 1..k : Fallbacks[l] # name
    BY <1>3, <1>7, <2>4 DEF n
  <2>9. ASSUME NEW i \in 2..Len(d)
        PROVE  \E m \in 1..(k + 1) :
                  /\ Fallbacks[m] = d[i]
                  /\ \A j \in 2..Len(d) : i < j => \A l \in 1..m : Fallbacks[l] # d[j]
    <3>1. CASE i = n + 1
      <4>1. \A j \in 2..Len(d) : ~(i < j)
        BY <2>2, <3>1
      <4>2. k + 1 \in 1..(k + 1)
        OBVIOUS
      <4> QED BY <2>2, <3>1, <4>1, <4>2
    <3>2. CASE i \in 2..n
      <4>1. PICK m \in 1..k :
                /\ Fallbacks[m] = c[i]
                /\ \A j \in 2..n : i < j => \A l \in 1..m : Fallbacks[l] # c[j]
        BY <1>4, <3>2 DEF n
      <4>2. m \in 1..(k + 1) /\ 1..m \subseteq 1..k /\ i \in 1..n
        BY <2>2, <3>2
      <4>3. ASSUME NEW j \in 2..Len(d), i < j, NEW l \in 1..m
            PROVE  Fallbacks[l] # d[j]
        <5>1. CASE j = n + 1
          BY <2>2, <2>8, <4>2, <5>1
        <5>2. CASE j \in 2..n
          <6>1. j \in 1..n
            BY <5>2
          <6> QED BY <2>2, <4>1, <4>3, <5>2, <6>1
        <5> QED BY <2>2, <5>1, <5>2
      <4> QED BY <2>2, <4>1, <4>2, <4>3
    <3> QED BY <2>2, <3>1, <3>2
  <2>10. ChainOf(d, p, k + 1)
    BY <2>2, <2>5, <2>6, <2>7, <2>9 DEF ChainOf
  <2> QED BY <2>1, <2>10
<1> QED BY <1>6, <1>7

\* Whatever the plan and the configured fallbacks are, a chain is the preferred
\* provider and the fallbacks that the plan allows, in order and each once.
THEOREM ChainAsConfigured ==
    ASSUME NEW p \in Allowed
    PROVE  ChainOf(ChainFor(p), p, Len(Fallbacks))
<1> DEFINE n == Len(Fallbacks)
           V == Seq(Allowed) \ {<<>>}
           F == CHOOSE G : G = [s \in SUBSET DOMAIN Fallbacks |->
                    IF s = {} THEN <<p>>
                    ELSE LET x == Max(s) IN Added(G[s \ {x}], Fallbacks[x])]
           step == [i \in 1..n |-> [c \in V |-> Added(c, Fallbacks[i])]]
           folds(G) == G = [s \in SUBSET (1..n) |->
                    IF s = {} THEN <<p>> ELSE Added(G[s \ {Max(s)}], Fallbacks[Max(s)])]
<1>1. ChainFor(p) = F[DOMAIN Fallbacks]
  BY DEF ChainFor, FoldLeft, MapThenFoldSet, Added
<1>2. n \in Nat /\ DOMAIN Fallbacks = 1..n
  BY AgentAssumption
<1>3. F = CHOOSE G : folds(G)
  BY <1>2
<1>4. ASSUME NEW c \in V, NEW name PROVE Added(c, name) \in V
  BY DEF Added
<1>5. <<p>> \in V
  OBVIOUS
<1> HIDE DEF F, n, V
<1>6. \E G : IsFold(G, V, <<p>>, step, n)
  <2>1. step \in [1..n -> [V -> V]]
    BY <1>4
  <2> HIDE DEF step
  <2> QED BY <1>2, <1>5, <2>1, FoldExists
<1>7. \E G : folds(G)
  <2>1. PICK G : IsFold(G, V, <<p>>, step, n)
    BY <1>6
  <2>2. ASSUME NEW s \in SUBSET (1..n), s # {}
        PROVE  G[s] = Added(G[s \ {Max(s)}], Fallbacks[Max(s)])
    <3>1. Max(s) \in 1..n
      BY <1>2, <2>2, MaxOfPositions
    <3>2. G[s \ {Max(s)}] \in V
      BY <2>1 DEF IsFold
    <3>3. G[s] = step[Max(s)][G[s \ {Max(s)}]]
      BY <2>1, <2>2 DEF IsFold
    <3> QED BY <3>1, <3>2, <3>3
  <2>3. G = [s \in SUBSET (1..n) |-> G[s]] /\ G[{}] = <<p>>
    BY <2>1 DEF IsFold
  <2>4. folds(G)
    BY <2>2, <2>3
  <2> QED BY <2>4
<1>8. folds(F)
  BY <1>3, <1>7
<1> DEFINE N == {k \in Nat : k <= n => ChainOf(F[1..k], p, k)}
<1>9. 0 \in N
  <2>1. 1..0 = {} /\ {} \in SUBSET (1..n)
    OBVIOUS
  <2>2. F[1..0] = <<p>>
    BY <1>8, <2>1
  <2>3. ChainOf(<<p>>, p, 0)
    BY DEF ChainOf
  <2> QED BY <2>2, <2>3
<1>10. ASSUME NEW k \in Nat, k \in N PROVE k + 1 \in N
  <2> SUFFICES ASSUME k + 1 <= n PROVE ChainOf(F[1..(k + 1)], p, k + 1)
    OBVIOUS
  <2>1. ChainOf(F[1..k], p, k)
    BY <1>2, <1>10
  <2>2. F[1..(k + 1)] = Added(F[1..k], Fallbacks[k + 1])
    <3>1. 1..(k + 1) \in SUBSET (1..n) /\ 1..(k + 1) # {}
          /\ Max(1..(k + 1)) = k + 1 /\ (1..(k + 1)) \ {k + 1} = 1..k
      BY <1>2, LastPosition
    <3>2. \A s \in SUBSET (1..n) :
              s # {} => F[s] = Added(F[s \ {Max(s)}], Fallbacks[Max(s)])
      BY <1>8
    <3> HIDE DEF folds
    <3> QED BY <3>1, <3>2
  <2> QED BY <2>1, <2>2, ChainGrows DEF n
<1>11. n \in N
  <2> HIDE DEF N
  <2> QED BY <1>2, <1>9, <1>10, Induct
<1> QED BY <1>1, <1>2, <1>11 DEF n

\* Every name of a chain is one that the plan allows.
LEMMA ChainAllowed ==
    ASSUME NEW p \in Allowed
    PROVE  /\ ChainFor(p) \in Seq(Allowed) /\ ChainFor(p) # <<>>
           /\ Len(ChainFor(p)) <= Len(Fallbacks) + 1
<1>1. Len(Fallbacks) \in Nat
  BY AgentAssumption
<1> QED BY <1>1, ChainAsConfigured DEF ChainOf

-----------------------------------------------------------------------------
(* Who is asked *)

\* The provider to ask first, the chain and those asked so far are allowed
\* by the plan, and the position is one in the chain while it is tried.
PlanKept ==
    /\ provider \in Allowed /\ chain \in Seq(Allowed)
    /\ pc = "try" => position \in 1..Len(chain)
    /\ PlanRespected

\* No step leaves the plan.
LEMMA PlanKeptStep ==
    ASSUME RunTypes, PlanKept, [Next]_vars
    PROVE  PlanKept'
<1> USE DEF PlanKept, PlanRespected
<1>1. CASE BeginRound
  <2>1. chain' \in Seq(Allowed) /\ chain' # <<>>
    BY <1>1, ChainAllowed DEF BeginRound
  <2>2. position' = 1 /\ 1 \in 1..Len(chain')
    BY <1>1, <2>1 DEF BeginRound
  <2> QED BY <1>1, <2>1, <2>2 DEF BeginRound, seenByUser
<1>2. CASE ProviderFails \/ ProviderAnswers
  <2>1. chain[position] \in Allowed /\ position \in 1..Len(chain)
    BY <1>2 DEF ProviderFails, ProviderAnswers
  <2>2. CASE ProviderFails
    <3>1. CASE position < Len(chain)
      BY <2>1, <2>2, <3>1 DEF ProviderFails, run
    <3>2. CASE ~(position < Len(chain))
      BY <2>1, <2>2, <3>2 DEF ProviderFails, run, RunRaises
    <3> QED BY <3>1, <3>2
  <2>3. CASE ProviderAnswers
    BY <2>1, <2>3 DEF ProviderAnswers, turn
  <2> QED BY <1>2, <2>2, <2>3
<1>3. CASE ProviderBreaksOff
  BY <1>3 DEF ProviderBreaksOff, RunRaises, run, turn
<1>4. CASE Prose \/ Held \/ NativeCall \/ UsageReport
  BY <1>4 DEF Prose, Held, NativeCall, UsageReport, run, seenByUser
<1>5. CASE EndTurn
  BY <1>5 DEF EndTurn, EndOfRun
<1>6. CASE RepeatedCall \/ StartTool \/ EndTool
  BY <1>6 DEF RepeatedCall, StartTool, EndTool, turn, seenByUser
<1>7. CASE EndRound
  BY <1>7 DEF EndRound, EndOfRun, turn
<1>8. CASE ClientLeaves \/ Ended \/ UNCHANGED vars
  BY <1>8 DEF ClientLeaves, Ended, vars, run, turn, seenByUser
<1> QED BY <1>1, <1>2, <1>3, <1>4, <1>5, <1>6, <1>7, <1>8 DEF Next, Step

\* A run starts within its plan.
LEMMA PlanKeptInit ==
    ASSUME Init
    PROVE  PlanKept
BY AgentAssumption DEF Init, PlanKept, PlanRespected

\* Falling back never reaches a provider outside the user's plan, whatever
\* the plan, the configured chain and the number of rounds are.
THEOREM FallbackWithinPlan == Spec => []PlanRespected
<1>1. Init => PlanKept
  BY PlanKeptInit
<1>2. RunTypes /\ PlanKept /\ [Next]_vars => PlanKept'
  BY PlanKeptStep
<1>3. PlanKept => PlanRespected
  BY DEF PlanKept
<1> QED BY <1>1, <1>2, <1>3, TypesHold, PTL DEF Spec

\* The rest of the types.
Flags == answerNow \in BOOLEAN /\ usedTools \in BOOLEAN /\ metered \in BOOLEAN
OtherTypes ==
    /\ position \in Nat \ {0}
    /\ seen \subseteq Calls
    /\ authors \subseteq Providers
    /\ reported \in Seq(Costs) /\ total \in Nat /\ recorded \in Nat
    /\ status \in {"running", "fallback", "ok", "empty", "error", "cancelled"}

\* The flags and counters of a run keep their types.
LEMMA FlagsStep ==
    ASSUME Flags, [Next]_vars
    PROVE  Flags'
<1> USE DEF Flags
<1>1. CASE BeginRound \/ EndTurn
  BY <1>1 DEF BeginRound, EndTurn
<1>2. CASE ProviderFails \/ ProviderAnswers \/ ProviderBreaksOff
  BY <1>2 DEF ProviderFails, ProviderAnswers, ProviderBreaksOff, run, turn
<1>3. CASE Prose \/ Held \/ NativeCall \/ UsageReport
  BY <1>3 DEF Prose, Held, NativeCall, UsageReport, run
<1>4. CASE RepeatedCall \/ EndTool
  BY <1>4 DEF RepeatedCall, EndTool
<1>5. CASE StartTool \/ EndRound
  BY <1>5 DEF StartTool, EndRound, turn
<1>6. CASE ClientLeaves \/ Ended \/ UNCHANGED vars
  BY <1>6 DEF ClientLeaves, Ended, vars, run, turn
<1> QED BY <1>1, <1>2, <1>3, <1>4, <1>5, <1>6 DEF Next, Step

\* So do its messages and the answer.
LEMMA OtherTypesStep ==
    ASSUME RunTypes, PlanKept, OtherTypes, [Next]_vars
    PROVE  OtherTypes'
<1> USE DEF OtherTypes
<1>1. provider \in Providers
  BY AgentAssumption DEF PlanKept
<1>2. CASE BeginRound
  BY <1>2 DEF BeginRound, seenByUser
<1>3. CASE ProviderFails
  BY <1>3 DEF ProviderFails, run, RunRaises
<1>4. CASE ProviderAnswers
  BY <1>4 DEF ProviderAnswers, turn
<1>5. CASE ProviderBreaksOff
  BY <1>5 DEF ProviderBreaksOff, RunRaises, run, turn
<1>6. CASE Prose \/ Held \/ NativeCall \/ UsageReport
  <2>1. CASE Prose \/ Held \/ NativeCall
    BY <1>1, <2>1 DEF Prose, Held, NativeCall, run, seenByUser
  <2>2. CASE UsageReport
    <3>1. PICK cost \in Costs : /\ reported' = Append(reported, cost)
                                /\ total' = total + cost
      BY <2>2 DEF UsageReport
    <3>2. reported' \in Seq(Costs) /\ total' \in Nat
      BY <3>1, AgentAssumption
    <3> QED BY <2>2, <3>2 DEF UsageReport, run
  <2> QED BY <1>6, <2>1, <2>2
<1>7. CASE EndTurn
  <2>1. authors' \subseteq Providers
    BY <1>1, <1>7 DEF EndTurn
  <2> QED BY <1>7, <2>1 DEF EndTurn, EndOfRun
<1>8. CASE RepeatedCall \/ EndTool
  BY <1>8 DEF RepeatedCall, EndTool, seenByUser
<1>9. CASE StartTool
  <2>1. Head(calls) \in Calls
    BY <1>9, PendingTyped DEF StartTool
  <2> QED BY <1>9, <2>1 DEF StartTool, turn, seenByUser
<1>10. CASE EndRound
  BY <1>10 DEF EndRound, EndOfRun, turn
<1>11. CASE ClientLeaves \/ Ended \/ UNCHANGED vars
  BY <1>11 DEF ClientLeaves, Ended, vars, run, turn, seenByUser
<1> QED BY <1>2, <1>3, <1>4, <1>5, <1>6, <1>7, <1>8, <1>9, <1>10, <1>11 DEF Next, Step

\* The state of a run has its types throughout.
THEOREM RunTypeCorrect == Spec => []TypeOK
<1>1. Init => PlanKept /\ Flags /\ OtherTypes
  <2>1. Init => OtherTypes
    BY DEF Init, OtherTypes
  <2>2. Init => Flags
    BY DEF Init, Flags
  <2> QED BY <2>1, <2>2, PlanKeptInit
<1>2. RunTypes /\ PlanKept /\ Flags /\ OtherTypes /\ [Next]_vars
          => PlanKept' /\ Flags' /\ OtherTypes'
  BY PlanKeptStep, FlagsStep, OtherTypesStep
<1>3. RunTypes /\ PlanKept /\ Flags /\ OtherTypes => TypeOK
  <2> SUFFICES ASSUME RunTypes, PlanKept, Flags, OtherTypes PROVE TypeOK
    OBVIOUS
  <2>1. chain \in Seq(Providers)
    <3>1. Seq(Allowed) \subseteq Seq(Providers)
      BY AgentAssumption
    <3> QED BY <3>1 DEF PlanKept
  <2> QED BY <2>1, AgentAssumption DEF RunTypes, PlanKept, PlanRespected, Flags, OtherTypes, TypeOK
<1> QED BY <1>1, <1>2, <1>3, TypesHold, PTL DEF Spec

-----------------------------------------------------------------------------
(* A run comes to an end *)

\* The most calls a turn can have left to run: the native ones, or one found
\* in its text.
MostCalls == MaxCalls + 1
TurnLength == 3 * MostCalls + 5 + Len(Fallbacks)

\* How many steps are left at most in a round, and in the rounds after it.
StreamLeft ==
    2 * MostCalls + 2 + (IF text = "none" THEN 1 ELSE 0)
        + (MaxCalls - Len(calls)) + (IF metered THEN 0 ELSE 1)
LeftOfRound ==
    CASE pc = "round"     -> TurnLength
      [] pc = "try"       -> 3 * MostCalls + 4 + (Len(chain) - position)
      [] pc = "stream"    -> StreamLeft
      [] pc = "tools"     -> 2 * Len(calls) + 1
      [] pc = "executing" -> 2 * Len(calls)
      [] OTHER            -> 0
LaterRounds(r) == (MaxRounds - r) * TurnLength
Work == IF pc = "ended" THEN 0 ELSE LaterRounds(round) + LeftOfRound

\* What is bounded: the chain of a round and the calls of a turn.
TurnBounded ==
    /\ pc = "try" => calls = <<>> /\ Len(chain) <= Len(Fallbacks) + 1
    /\ pc = "stream" => Len(calls) <= MaxCalls
    /\ pc \in {"tools", "executing"} => Len(calls) <= MostCalls

\* What the later rounds may take is a number, and a round less is a turn less.
LEMMA RoundsWeigh ==
    /\ MostCalls \in Nat /\ TurnLength \in Nat /\ Len(Fallbacks) \in Nat
    /\ \A r \in 0..MaxRounds : LaterRounds(r) \in Nat
    /\ \A r \in 0..MaxRounds :
          r < MaxRounds => LaterRounds(r) = LaterRounds(r + 1) + TurnLength
<1>1. MaxCalls \in Nat /\ Len(Fallbacks) \in Nat /\ MaxRounds \in Nat
  BY AgentAssumption
<1>2. MostCalls \in Nat /\ TurnLength \in Nat
  BY <1>1 DEF MostCalls, TurnLength
<1> HIDE DEF TurnLength
<1>3. \A a, b \in Nat : a * b \in Nat /\ (a + 1) * b = a * b + b
  OBVIOUS
<1>4. ASSUME NEW r \in 0..MaxRounds PROVE LaterRounds(r) \in Nat
  BY <1>1, <1>2, <1>3 DEF LaterRounds
<1>5. ASSUME NEW r \in 0..MaxRounds, r < MaxRounds
      PROVE  LaterRounds(r) = LaterRounds(r + 1) + TurnLength
  <2> DEFINE left == MaxRounds - (r + 1)
  <2>1. left \in Nat /\ MaxRounds - r = left + 1
    BY <1>1, <1>5
  <2> HIDE DEF left
  <2>2. (left + 1) * TurnLength = left * TurnLength + TurnLength
    BY <1>2, <1>3, <2>1
  <2> QED BY <2>1, <2>2 DEF LaterRounds, left
<1> QED BY <1>1, <1>2, <1>4, <1>5

\* Work is a number, and more than none until the run has ended.
LEMMA WorkIsNumber ==
    ASSUME RunTypes, PlanKept, TurnBounded
    PROVE  Work \in Nat /\ (pc # "ended" => Work > 0)
<1>1. /\ round \in 0..MaxRounds /\ Len(calls) \in Nat
      /\ pc \in {"round", "try", "stream", "tools", "executing", "ended"}
      /\ pc = "executing" => Len(calls) > 0
      /\ pc = "try" => position \in 1..Len(chain) /\ Len(chain) \in Nat
  BY DEF RunTypes, PlanKept
<1>2. LaterRounds(round) \in Nat /\ MaxCalls \in Nat
  BY <1>1, RoundsWeigh, AgentAssumption
<1>3. pc # "ended" => LeftOfRound \in Nat /\ LeftOfRound > 0
  <2>1. CASE pc = "round"
    BY <2>1, RoundsWeigh DEF LeftOfRound, TurnLength
  <2>2. CASE pc = "try"
    <3>1. LeftOfRound = 3 * MostCalls + 4 + (Len(chain) - position)
      BY <2>2 DEF LeftOfRound
    <3> QED BY <1>1, <2>2, <3>1, RoundsWeigh
  <2>3. CASE pc = "stream"
    <3>1. LeftOfRound = StreamLeft
      BY <2>3 DEF LeftOfRound
    <3> QED BY <1>1, <1>2, <2>3, <3>1, RoundsWeigh DEF StreamLeft, TurnBounded
  <2>4. CASE pc = "tools"
    <3>1. LeftOfRound = 2 * Len(calls) + 1
      BY <2>4 DEF LeftOfRound
    <3> QED BY <1>1, <3>1
  <2>5. CASE pc = "executing"
    <3>1. LeftOfRound = 2 * Len(calls)
      BY <2>5 DEF LeftOfRound
    <3> QED BY <1>1, <2>5, <3>1
  <2> QED BY <1>1, <2>1, <2>2, <2>3, <2>4, <2>5
<1> QED BY <1>2, <1>3 DEF Work

\* The work left is a number.
LEMMA WorkTyped == RunTypes /\ PlanKept /\ TurnBounded => Work \in Nat
BY WorkIsNumber

\* The chain and the calls of a turn stay bounded.
LEMMA TurnBoundedStep ==
    ASSUME RunTypes, PlanKept, TurnBounded, [Next]_vars
    PROVE  TurnBounded'
<1>0. /\ calls \in Seq(Calls) /\ MaxCalls \in Nat /\ MostCalls = MaxCalls + 1
      /\ Len(calls) \in Nat
  BY AgentAssumption DEF RunTypes, MostCalls
<1>1. CASE BeginRound
  <2>1. /\ pc' = "try" /\ calls' = <<>> /\ chain' = ChainFor(provider)
        /\ provider \in Allowed
    BY <1>1 DEF BeginRound, PlanKept
  <2>2. Len(chain') <= Len(Fallbacks) + 1
    BY <2>1, ChainAllowed
  <2> QED BY <2>1, <2>2 DEF TurnBounded
<1>2. CASE ProviderFails
  BY <1>2 DEF ProviderFails, RunRaises, TurnBounded
<1>3. CASE ProviderAnswers
  BY <1>0, <1>3 DEF ProviderAnswers, turn, TurnBounded
<1>4. CASE NativeCall
  BY <1>0, <1>4 DEF NativeCall, TurnBounded
<1>5. CASE Prose \/ Held \/ UsageReport
  BY <1>5 DEF Prose, Held, UsageReport, TurnBounded
<1>6. CASE EndTurn
  <2>1. CASE CallsToRun = <<>>
    BY <1>6, <2>1 DEF EndTurn, EndOfRun, TurnBounded
  <2>2. CASE CallsToRun # <<>>
    <3>1. pc = "stream" /\ pc' = "tools" /\ calls' = CallsToRun
      BY <1>6, <2>2 DEF EndTurn
    <3>2. Len(CallsToRun) <= MostCalls
      <4>1. CASE Recovered = <<>>
        <5>1. CallsToRun = <<>> \/ CallsToRun = calls
          BY <1>0, <4>1 DEF CallsToRun
        <5> QED BY <1>0, <2>2, <3>1, <5>1 DEF TurnBounded
      <4>2. CASE Recovered # <<>>
        <5>1. calls = <<>> /\ Recovered = <<text>>
          BY <4>2 DEF Recovered
        <5>2. CallsToRun = <<>> \/ CallsToRun = <<text>>
          BY <5>1 DEF CallsToRun
        <5>3. Len(<<text>>) = 1
          OBVIOUS
        <5>4. Len(CallsToRun) = 1
          BY <2>2, <5>2, <5>3
        <5> QED BY <1>0, <5>4
      <4> QED BY <4>1, <4>2
    <3> QED BY <3>1, <3>2 DEF TurnBounded
  <2> QED BY <2>1, <2>2
<1>7. CASE RepeatedCall \/ EndTool
  <2>1. /\ pc \in {"tools", "executing"} /\ pc' = "tools" /\ calls' = Tail(calls)
        /\ calls # <<>>
    BY <1>7 DEF RepeatedCall, EndTool, RunTypes
  <2>2. Len(calls') = Len(calls) - 1
    BY <1>0, <2>1
  <2> QED BY <1>0, <2>1, <2>2 DEF TurnBounded, MostCalls
<1>8. CASE StartTool
  BY <1>8 DEF StartTool, turn, TurnBounded
<1>9. CASE EndRound
  BY <1>9 DEF EndRound, EndOfRun, TurnBounded
<1>10. CASE ProviderBreaksOff \/ ClientLeaves
  BY <1>10 DEF ProviderBreaksOff, RunRaises, ClientLeaves, TurnBounded
<1>11. CASE Ended \/ UNCHANGED vars
  BY <1>11 DEF Ended, vars, turn, TurnBounded
<1> QED BY <1>1, <1>2, <1>3, <1>4, <1>5, <1>6, <1>7, <1>8, <1>9, <1>10, <1>11
     DEF Next, Step

\* Every step of a run leaves less work.
LEMMA WorkStep ==
    ASSUME RunTypes, PlanKept, TurnBounded, Next, vars' # vars
    PROVE  Work' < Work
<1>0. /\ calls \in Seq(Calls) /\ MaxCalls \in Nat /\ MostCalls = MaxCalls + 1
      /\ Len(calls) \in Nat /\ round \in 0..MaxRounds /\ MaxRounds \in Nat
      /\ pc \in {"round", "try", "stream", "tools", "executing", "ended"}
  BY AgentAssumption DEF RunTypes, MostCalls
<1>1. Work \in Nat /\ (pc # "ended" => Work > 0)
  BY WorkIsNumber
<1>2. ASSUME pc # "ended", pc' = "ended" PROVE Work' < Work
  BY <1>1, <1>2 DEF Work
<1>3. ASSUME pc # "ended", pc' # "ended", round' = round, LeftOfRound' < LeftOfRound,
             LeftOfRound \in Int, LeftOfRound' \in Int
      PROVE  Work' < Work
  <2>1. LaterRounds(round) \in Nat /\ LaterRounds(round') = LaterRounds(round)
    BY <1>0, <1>3, RoundsWeigh
  <2>2. Work = LaterRounds(round) + LeftOfRound /\ Work' = LaterRounds(round) + LeftOfRound'
    BY <1>3, <2>1 DEF Work
  <2> QED BY <1>3, <2>1, <2>2
<1>4. CASE BeginRound
  <2>1. /\ pc = "round" /\ pc' = "try" /\ position' = 1 /\ round' = round
        /\ chain' = ChainFor(provider) /\ provider \in Allowed
    BY <1>4 DEF BeginRound, PlanKept
  <2>2. /\ Len(chain') \in Nat /\ Len(chain') <= Len(Fallbacks) + 1
    BY <2>1, ChainAllowed
  <2>3. /\ LeftOfRound = TurnLength
        /\ LeftOfRound' = 3 * MostCalls + 4 + (Len(chain') - 1)
    BY <2>1 DEF LeftOfRound
  <2> QED BY <1>3, <2>1, <2>2, <2>3, RoundsWeigh DEF TurnLength
<1>5. CASE ProviderFails
  <2>1. CASE position < Len(chain)
    <3>1. /\ pc = "try" /\ pc' = "try" /\ position' = position + 1
          /\ UNCHANGED <<round, chain>>
      BY <1>5, <2>1 DEF ProviderFails, run
    <3>2. position \in Nat /\ Len(chain) \in Nat
      BY <3>1 DEF PlanKept
    <3>3. /\ LeftOfRound = 3 * MostCalls + 4 + (Len(chain) - position)
          /\ LeftOfRound' = 3 * MostCalls + 4 + (Len(chain) - (position + 1))
      BY <3>1 DEF LeftOfRound
    <3> QED BY <1>3, <3>1, <3>2, <3>3, RoundsWeigh
  <2>2. CASE ~(position < Len(chain))
    BY <1>2, <1>5, <2>2 DEF ProviderFails, RunRaises
  <2> QED BY <2>1, <2>2
<1>6. CASE ProviderAnswers
  <2>1. /\ pc = "try" /\ pc' = "stream" /\ calls = <<>>
        /\ UNCHANGED <<round, chain, position, calls, text, metered>>
    BY <1>6 DEF ProviderAnswers, turn, TurnBounded
  <2>2. position \in 1..Len(chain) /\ Len(chain) \in Nat
    BY <2>1 DEF PlanKept
  <2>3. /\ LeftOfRound = 3 * MostCalls + 4 + (Len(chain) - position)
        /\ LeftOfRound' = StreamLeft
    BY <2>1 DEF LeftOfRound, StreamLeft
  <2>4. StreamLeft \in Int /\ StreamLeft <= 2 * MostCalls + 4 + MaxCalls
    BY <1>0, <2>1 DEF StreamLeft
  <2> QED BY <1>0, <1>3, <2>1, <2>2, <2>3, <2>4
<1>7. CASE Prose \/ Held \/ NativeCall \/ UsageReport
  <2>1. pc = "stream" /\ pc' = "stream" /\ UNCHANGED round
    BY <1>7 DEF Prose, Held, NativeCall, UsageReport, run
  <2>2. LeftOfRound = StreamLeft /\ LeftOfRound' = StreamLeft'
    BY <2>1 DEF LeftOfRound
  <2>3. StreamLeft \in Int
    BY <1>0 DEF StreamLeft
  <2>4. StreamLeft' \in Int /\ StreamLeft' < StreamLeft
    <3>1. CASE Prose
      BY <1>0, <3>1 DEF Prose, StreamLeft
    <3>2. CASE Held
      <4>1. text' # text
        BY <3>2 DEF Held, vars, run, turn
      <4> QED BY <1>0, <3>2, <4>1 DEF Held, StreamLeft
    <3>3. CASE NativeCall
      <4>1. Len(calls') = Len(calls) + 1 /\ UNCHANGED <<text, metered>>
        BY <1>0, <3>3 DEF NativeCall
      <4> QED BY <1>0, <4>1 DEF StreamLeft
    <3>4. CASE UsageReport
      BY <1>0, <3>4 DEF UsageReport, StreamLeft
    <3> QED BY <1>7, <3>1, <3>2, <3>3, <3>4
  <2> QED BY <1>3, <2>1, <2>2, <2>3, <2>4
<1>8. CASE EndTurn
  <2>1. CASE pc' = "ended"
    BY <1>2, <1>8, <2>1 DEF EndTurn
  <2>2. CASE pc' # "ended"
    <3>1. pc = "stream" /\ pc' = "tools" /\ UNCHANGED round
      BY <1>8, <2>2 DEF EndTurn, EndOfRun
    <3>2. calls' \in Seq(Calls) /\ Len(calls') <= MostCalls
      BY <1>8, <3>1, TypesStep, TurnBoundedStep DEF RunTypes, TurnBounded
    <3>3. LeftOfRound = StreamLeft /\ LeftOfRound' = 2 * Len(calls') + 1
      BY <3>1 DEF LeftOfRound
    <3>4. StreamLeft \in Int /\ StreamLeft >= 2 * MostCalls + 2
      BY <1>0, <3>1 DEF StreamLeft, TurnBounded
    <3> QED BY <1>0, <1>3, <3>1, <3>2, <3>3, <3>4
  <2> QED BY <2>1, <2>2
<1>9. CASE RepeatedCall \/ EndTool
  <2>1. /\ pc \in {"tools", "executing"} /\ pc' = "tools" /\ calls' = Tail(calls)
        /\ calls # <<>> /\ UNCHANGED round
    BY <1>9 DEF RepeatedCall, EndTool, RunTypes
  <2>2. Len(calls') = Len(calls) - 1
    BY <1>0, <2>1
  <2>3. LeftOfRound' = 2 * Len(calls') + 1
    BY <2>1 DEF LeftOfRound
  <2>4. LeftOfRound \in {2 * Len(calls), 2 * Len(calls) + 1}
    BY <2>1 DEF LeftOfRound
  <2> QED BY <1>0, <1>3, <2>1, <2>2, <2>3, <2>4
<1>10. CASE StartTool
  <2>1. pc = "tools" /\ pc' = "executing" /\ UNCHANGED <<round, calls>>
    BY <1>10 DEF StartTool, turn
  <2>2. LeftOfRound = 2 * Len(calls) + 1 /\ LeftOfRound' = 2 * Len(calls)
    BY <2>1 DEF LeftOfRound
  <2> QED BY <1>0, <1>3, <2>1, <2>2
<1>11. CASE EndRound
  <2>1. CASE pc' = "ended"
    BY <1>2, <1>11, <2>1 DEF EndRound
  <2>2. CASE pc' # "ended"
    <3>1. /\ pc = "tools" /\ calls = <<>> /\ pc' = "round"
          /\ round < MaxRounds /\ round' = round + 1
      BY <1>11, <2>2 DEF EndRound, EndOfRun
    <3>2. LeftOfRound = 1 /\ LeftOfRound' = TurnLength
      BY <3>1 DEF LeftOfRound
    <3>3. LaterRounds(round) = LaterRounds(round + 1) + TurnLength
      BY <1>0, <3>1, RoundsWeigh
    <3>4. round + 1 \in 0..MaxRounds
      BY <1>0, <3>1
    <3>5. LaterRounds(round + 1) \in Nat /\ TurnLength \in Nat
      BY <3>4, RoundsWeigh
    <3>6. Work = LaterRounds(round) + 1 /\ Work' = LaterRounds(round + 1) + TurnLength
      BY <3>1, <3>2 DEF Work
    <3> QED BY <3>3, <3>5, <3>6
  <2> QED BY <2>1, <2>2
<1>12. CASE ProviderBreaksOff \/ ClientLeaves
  BY <1>2, <1>12 DEF ProviderBreaksOff, RunRaises, ClientLeaves
<1>13. ~ Ended
  BY DEF Ended
<1> QED BY <1>4, <1>5, <1>6, <1>7, <1>8, <1>9, <1>10, <1>11, <1>12, <1>13 DEF Next, Step

\* A run cannot go on for ever, whatever the model keeps asking for: every
\* step of it takes from a number that the rounds, the fallbacks and the calls
\* of a turn bound from the start.
THEOREM RunsShorten ==
    Spec => [](Work \in 0..((MaxRounds + 1) * TurnLength)) /\ [][Work' < Work]_vars
<1> DEFINE Good == RunTypes /\ PlanKept /\ TurnBounded
           Whole == (MaxRounds + 1) * TurnLength
           Bounded == Work <= Whole
<1>1. Init => PlanKept /\ TurnBounded /\ Bounded
  <2> SUFFICES ASSUME Init PROVE PlanKept /\ TurnBounded /\ Bounded
    OBVIOUS
  <2>1. pc = "round" /\ round = 0
    BY DEF Init
  <2>2. MaxRounds \in Nat /\ TurnLength \in Nat
    BY AgentAssumption, RoundsWeigh
  <2>3. Work = LaterRounds(0) + TurnLength
    BY <2>1 DEF Work, LeftOfRound
  <2>4. LaterRounds(0) = MaxRounds * TurnLength
    BY <2>2 DEF LaterRounds
  <2>5. Whole = MaxRounds * TurnLength + TurnLength /\ Whole \in Nat
    <3> HIDE DEF TurnLength
    <3> QED BY <2>2
  <2> HIDE DEF Whole
  <2> QED BY <2>1, <2>3, <2>4, <2>5, PlanKeptInit DEF TurnBounded
<1>2. Good /\ [Next]_vars => PlanKept' /\ TurnBounded' /\ [Work' < Work]_vars
  BY PlanKeptStep, TurnBoundedStep, WorkStep
<1>3. Good => Work \in Nat
  BY WorkTyped
<1>4. Good /\ Bounded /\ [Next]_vars => Bounded'
  <2> SUFFICES ASSUME Good, Bounded, [Next]_vars PROVE Bounded'
    OBVIOUS
  <2>1. Whole \in Nat
    <3>1. MaxRounds \in Nat /\ TurnLength \in Nat
      BY AgentAssumption, RoundsWeigh
    <3> HIDE DEF TurnLength
    <3> QED BY <3>1
  <2>2. UNCHANGED vars => Work' = Work
    BY DEF vars, run, turn, Work, LaterRounds, LeftOfRound, StreamLeft
  <2>3. Work \in Nat /\ Work' \in Nat
    <3>1. Good'
      BY <1>2, TypesStep
    <3>2. (Work \in Nat)'
      BY <3>1, WorkTyped, PTL
    <3> QED BY <1>3, <3>2
  <2>4. Work' <= Work
    BY <1>2, <2>2, <2>3
  <2> HIDE DEF Whole, Work
  <2> QED BY <2>1, <2>3, <2>4
<1>5. Bounded /\ Work \in Nat => Work \in 0..Whole
  <2> HIDE DEF Work
  <2> QED BY <1>1
<1>6. Spec => []Good
  BY <1>1, <1>2, TypesHold, PTL DEF Spec
<1>7. Good /\ [Next]_vars => [Work' < Work]_vars
  BY <1>2
<1>8. Spec => [][Work' < Work]_vars
  BY <1>6, <1>7, PTL DEF Spec
<1> HIDE DEF Bounded
<1>9. Spec => []Bounded
  BY <1>1, <1>4, <1>6, PTL DEF Spec
<1> QED BY <1>3, <1>5, <1>6, <1>8, <1>9, PTL

-----------------------------------------------------------------------------
(* The plan and the preferred model *)

PlanIds == {"free", "pro"}
Rows == [plan : PlanIds, preferred : Models \cup {NoModel}]
Forms ==
    [stage : {"closed", "open", "sent", "commit", "accepted", "refused"},
     plan : PlanIds, plans : SUBSET PlanIds, can : BOOLEAN,
     tiles : SUBSET Models, epoch : Nat, kind : {"model", "plan"},
     value : Models \cup {NoModel} \cup PlanIds, seen : Rows]

PlanTypes ==
    /\ row \in Rows /\ server \in Servers
    /\ screen \in [Screens -> Forms]
    /\ redeploys \in Nat /\ saves \in Nat /\ raced \in BOOLEAN

\* The plan that counts for a row with this plan_id.
EffectivePlan(id) == IF id \in server.plans THEN PLANS[id] ELSE PLANS["free"]

\* What a page shows is what the server of its time would accept.
PagesHonest ==
    \A s \in Screens :
        /\ screen[s].epoch <= redeploys
        /\ screen[s].stage # "closed" /\ screen[s].epoch = redeploys =>
              /\ screen[s].plans = server.plans
              /\ screen[s].can => EffectivePlan(screen[s].plan).switch
              /\ screen[s].tiles \subseteq server.registered \cap server.keyed
        /\ screen[s].stage = "sent" /\ screen[s].kind = "model" =>
              /\ screen[s].can
              /\ screen[s].value \in screen[s].tiles \cup {NoModel}
        /\ screen[s].stage = "sent" /\ screen[s].kind = "plan" =>
              screen[s].value \in screen[s].plans

\* A request that is about to commit was right about the row it has read.
ChecksMade ==
    \A s \in Screens :
        screen[s].stage = "commit" =>
            /\ screen[s].kind = "model" /\ screen[s].value # NoModel =>
                  screen[s].value \in PLANS[screen[s].seen.plan].allowed
            /\ screen[s].kind = "model" =>
                  screen[s].value \in Models \cup {NoModel}
            /\ screen[s].kind = "plan" => screen[s].value \in PlanIds

\* Unless requests overlapped, the plan of the row includes its model.
PreferenceIncluded ==
    ~ raced => row.preferred \in PLANS[row.plan].allowed \cup {NoModel}

PlanInv ==
    PlanTypes /\ PagesHonest /\ ChecksMade /\ PreferenceIncluded /\ OffersAccepted

-----------------------------------------------------------------------------
(* Plans and servers *)

\* Free has the local model only, Pro has all of them and may choose.
LEMMA ThePlans ==
    /\ PLANS["free"] = [allowed |-> {LocalModel}, switch |-> FALSE]
    /\ PLANS["pro"] = [allowed |-> Models, switch |-> TRUE]
    /\ \A id \in PlanIds : PLANS[id].allowed \subseteq Models
    /\ \A id \in PlanIds : PLANS[id].switch => PLANS[id].allowed = Models
    /\ ~ PLANS["free"].switch
BY PlanAssumption DEF PLANS, PlanIds

\* A server offers and accepts models only.
LEMMA TheServers ==
    ASSUME NEW s \in Servers
    PROVE  /\ s.plans \subseteq PlanIds
           /\ s.registered \subseteq Models /\ s.keyed \subseteq Models
BY DEF Servers, PlanIds

\* A plan that allows a choice is the row's own plan and allows all models.
LEMMA ChoiceOfAll ==
    ASSUME NEW r \in Rows, PlanFor(r).switch
    PROVE  PlanFor(r).allowed = Models /\ PLANS[r.plan].allowed = Models
BY ThePlans DEF PlanFor, Rows

\* A step of one page: what becomes of that page, and the others stay.
LEMMA PageStep ==
    ASSUME PlanTypes, NEW s \in Screens, NEW form \in Forms,
           screen' = [screen EXCEPT ![s] = form]
    PROVE  /\ screen' \in [Screens -> Forms] /\ screen'[s] = form
           /\ \A t \in Screens : t # s => screen'[t] = screen[t]
BY DEF PlanTypes

-----------------------------------------------------------------------------
(* The steps *)

LEMMA LoadKeeps ==
    ASSUME PlanInv, NEW s \in Screens, LoadScreen(s)
    PROVE  PlanInv'
<1> DEFINE form == [screen[s] EXCEPT
          !.stage = "open", !.plan = row.plan, !.plans = server.plans,
          !.can = PlanFor(row).switch, !.tiles = Tiles(row), !.epoch = redeploys]
<1>0. row \in Rows /\ server \in Servers /\ screen[s] \in Forms /\ redeploys \in Nat
  BY DEF PlanInv, PlanTypes
<1>1. /\ PlanFor(row).switch \in BOOLEAN
      /\ Tiles(row) \subseteq Models
      /\ Tiles(row) \subseteq server.registered \cap server.keyed
  <2>1. PlanFor(row) \in {PLANS["free"], PLANS["pro"]}
    BY <1>0 DEF PlanFor, Rows, PlanIds
  <2>2. /\ PLANS["free"].switch = FALSE
        /\ PLANS["pro"].switch = TRUE
    BY DEF PLANS
  <2>3. PlanFor(row).switch \in BOOLEAN
    BY <2>1, <2>2
  <2>4. Tiles(row) \subseteq server.registered \cap server.keyed
    BY DEF Tiles
  <2> QED BY <1>0, <2>3, <2>4, TheServers
<1>2. form \in Forms
  <2>1. server.plans \in SUBSET PlanIds /\ row.plan \in PlanIds
    BY <1>0, TheServers DEF Rows
  <2> HIDE DEF PlanFor, Tiles
  <2> QED BY <1>0, <1>1, <2>1 DEF Forms
<1>3. screen' = [screen EXCEPT ![s] = form]
  BY DEF LoadScreen
<1>4. /\ form.stage = "open" /\ form.plan = row.plan
      /\ form.plans = server.plans /\ form.can = PlanFor(row).switch
      /\ form.tiles = Tiles(row) /\ form.epoch = redeploys
  BY DEF PlanInv, PlanTypes, Forms
<1>5. PlanFor(row) = EffectivePlan(row.plan)
  BY DEF PlanFor, EffectivePlan
<1> HIDE DEF form
<1>6. /\ screen' \in [Screens -> Forms] /\ screen'[s] = form
      /\ \A t \in Screens : t # s => screen'[t] = screen[t]
  BY <1>2, <1>3, PageStep DEF PlanInv
<1>7. row' = row /\ server' = server /\ redeploys' = redeploys
      /\ saves' = saves /\ raced' = raced
  BY DEF LoadScreen
<1>8. PlanTypes' /\ PreferenceIncluded'
  BY <1>6, <1>7 DEF PlanInv, PlanTypes, PreferenceIncluded
<1>9. PagesHonest'
  BY <1>1, <1>4, <1>5, <1>6, <1>7 DEF PlanInv, PlanTypes, PagesHonest, EffectivePlan
<1>10. ChecksMade' /\ OffersAccepted'
  BY <1>4, <1>6, <1>7 DEF PlanInv, ChecksMade, OffersAccepted
<1> QED BY <1>8, <1>9, <1>10 DEF PlanInv

LEMMA SendKeeps ==
    ASSUME PlanInv, NEW s \in Screens, SaveModel(s) \/ ChoosePlan(s)
    PROVE  PlanInv'
<1>1. PICK kind, value :
          /\ kind \in {"model", "plan"}
          /\ SendForm(s, kind, value)
          /\ kind = "model" => /\ screen[s].can
                               /\ value \in screen[s].tiles \cup {NoModel}
          /\ kind = "plan" => value \in screen[s].plans
  <2>1. CASE SaveModel(s)
    BY <2>1 DEF SaveModel
  <2>2. CASE ChoosePlan(s)
    BY <2>2 DEF ChoosePlan
  <2> QED BY <2>1, <2>2
<1> DEFINE form == [screen[s] EXCEPT !.stage = "sent", !.kind = kind,
                                     !.value = value]
<1>2. screen[s] \in Forms
  BY DEF PlanInv, PlanTypes
<1>3. value \in Models \cup {NoModel} \cup PlanIds
  BY <1>1, <1>2 DEF Forms
<1>4. form \in Forms
  BY <1>1, <1>2, <1>3 DEF Forms
<1>5. /\ form.stage = "sent" /\ form.kind = kind /\ form.value = value
      /\ form.plan = screen[s].plan /\ form.plans = screen[s].plans
      /\ form.can = screen[s].can /\ form.tiles = screen[s].tiles
      /\ form.epoch = screen[s].epoch /\ screen[s].stage = "open"
  BY <1>1, <1>2 DEF Forms, SendForm
<1>6. screen' = [screen EXCEPT ![s] = form]
  BY <1>1 DEF SendForm
<1> HIDE DEF form
<1>7. /\ screen' \in [Screens -> Forms] /\ screen'[s] = form
      /\ \A t \in Screens : t # s => screen'[t] = screen[t]
  BY <1>4, <1>6, PageStep DEF PlanInv
<1>8. row' = row /\ server' = server /\ redeploys' = redeploys
      /\ saves' = saves /\ raced' = raced
  BY <1>1 DEF SendForm
<1>9. PlanTypes' /\ PreferenceIncluded'
  BY <1>7, <1>8 DEF PlanInv, PlanTypes, PreferenceIncluded
<1>10. PagesHonest'
  BY <1>1, <1>5, <1>7, <1>8 DEF PlanInv, PagesHonest, EffectivePlan
<1>11. ChecksMade' /\ OffersAccepted'
  BY <1>5, <1>7, <1>8 DEF PlanInv, ChecksMade, OffersAccepted
<1> QED BY <1>9, <1>10, <1>11 DEF PlanInv

LEMMA ReadKeeps ==
    ASSUME PlanInv, NEW s \in Screens, ReadRow(s)
    PROVE  PlanInv'
<1>1. PICK stage \in {"commit", "refused"} :
          /\ screen' = [screen EXCEPT ![s].stage = stage, ![s].seen = row]
          /\ (stage = "commit") <=>
                 IF screen[s].kind = "model" THEN Accepts(row, screen[s].value)
                 ELSE screen[s].value \in server.plans
  BY DEF ReadRow
<1> DEFINE form == [screen[s] EXCEPT !.stage = stage, !.seen = row]
<1>2. screen[s] \in Forms /\ row \in Rows /\ server \in Servers
  BY DEF PlanInv, PlanTypes
<1>3. form \in Forms
  BY <1>2 DEF Forms
<1>4. /\ form.stage = stage /\ form.seen = row
      /\ form.kind = screen[s].kind /\ form.value = screen[s].value
      /\ form.plan = screen[s].plan /\ form.plans = screen[s].plans
      /\ form.can = screen[s].can /\ form.tiles = screen[s].tiles
      /\ form.epoch = screen[s].epoch /\ screen[s].stage = "sent"
      /\ form.kind \in {"model", "plan"}
  BY <1>2 DEF Forms, ReadRow
<1>5. screen' = [screen EXCEPT ![s] = form]
  BY <1>1, <1>2 DEF PlanInv, PlanTypes
<1> HIDE DEF form
<1>6. /\ screen' \in [Screens -> Forms] /\ screen'[s] = form
      /\ \A t \in Screens : t # s => screen'[t] = screen[t]
  BY <1>3, <1>5, PageStep DEF PlanInv
<1>7. row' = row /\ server' = server /\ redeploys' = redeploys
      /\ saves' = saves /\ raced' = raced
  BY DEF ReadRow
<1>8. PlanTypes' /\ PreferenceIncluded'
  BY <1>6, <1>7 DEF PlanInv, PlanTypes, PreferenceIncluded
<1>9. PagesHonest'
  BY <1>4, <1>6, <1>7 DEF PlanInv, PagesHonest, EffectivePlan
<1>10. ChecksMade'
  <2>1. stage = "commit" /\ form.kind = "model" /\ form.value # NoModel =>
            form.value \in Models /\ form.value \in PLANS[row.plan].allowed
    BY <1>1, <1>2, <1>4, ChoiceOfAll DEF Accepts
  <2>2. stage = "commit" /\ form.kind = "plan" => form.value \in PlanIds
    BY <1>1, <1>2, <1>4, TheServers
  <2> QED BY <1>4, <1>6, <2>1, <2>2 DEF PlanInv, ChecksMade
<1>11. OffersAccepted'
  <2>1. ASSUME row.plan = screen[s].plan, redeploys = screen[s].epoch
        PROVE  stage = "commit"
    <3>1. /\ screen[s].plans = server.plans
          /\ screen[s].can => EffectivePlan(screen[s].plan).switch
          /\ screen[s].tiles \subseteq server.registered \cap server.keyed
      BY <1>4, <2>1 DEF PlanInv, PagesHonest
    <3>2. PlanFor(row) = EffectivePlan(screen[s].plan)
      BY <2>1 DEF PlanFor, EffectivePlan
    <3>3. CASE screen[s].kind = "plan"
      BY <1>1, <1>4, <3>1, <3>3 DEF PlanInv, PagesHonest
    <3>4. CASE screen[s].kind = "model"
      <4>1. screen[s].can /\ screen[s].value \in screen[s].tiles \cup {NoModel}
        BY <1>4, <3>4 DEF PlanInv, PagesHonest
      <4>2. PlanFor(row).switch /\ PlanFor(row).allowed = Models
        BY <1>2, <3>1, <3>2, <4>1, ChoiceOfAll
      <4>3. Accepts(row, screen[s].value)
        BY <1>2, <3>1, <4>1, <4>2, TheServers DEF Accepts
      <4> QED BY <1>1, <3>4, <4>3
    <3> QED BY <1>4, <3>3, <3>4
  <2> QED BY <1>1, <1>4, <1>6, <1>7, <2>1 DEF PlanInv, OffersAccepted
<1> QED BY <1>8, <1>9, <1>10, <1>11 DEF PlanInv

LEMMA CommitKeeps ==
    ASSUME PlanInv, NEW s \in Screens, CommitModel(s) \/ CommitPlan(s)
    PROVE  PlanInv'
<1> DEFINE form == [screen[s] EXCEPT !.stage = "accepted"]
<1>1. screen[s] \in Forms /\ row \in Rows /\ screen[s].seen \in Rows
  BY DEF PlanInv, PlanTypes, Forms
<1>2. FormSaved(s) /\ screen[s].stage = "commit" /\ UNCHANGED <<server, redeploys>>
  BY DEF CommitModel, CommitPlan, FormSaved
<1>3. screen' = [screen EXCEPT ![s] = form]
  BY <1>1, <1>2 DEF FormSaved, PlanInv, PlanTypes
<1>4. form \in Forms /\ form.stage = "accepted" /\ form.epoch = screen[s].epoch
      /\ form.plan = screen[s].plan /\ form.plans = screen[s].plans
      /\ form.can = screen[s].can /\ form.tiles = screen[s].tiles
  BY <1>1 DEF Forms
<1> HIDE DEF form
<1>5. /\ screen' \in [Screens -> Forms] /\ screen'[s] = form
      /\ \A t \in Screens : t # s => screen'[t] = screen[t]
  BY <1>3, <1>4, PageStep DEF PlanInv
<1>6. /\ row' \in Rows
      /\ row = screen[s].seen => row'.preferred \in PLANS[row'.plan].allowed \cup {NoModel}
                                 \/ row' = row
  <2>1. CASE CommitModel(s)
    <3> DEFINE value == screen[s].value
    <3>1. /\ value \in Models \cup {NoModel}
          /\ value # NoModel => value \in PLANS[screen[s].seen.plan].allowed
      BY <1>2, <2>1 DEF PlanInv, ChecksMade, CommitModel
    <3>2. row' = row \/ row' = [row EXCEPT !.preferred = value]
      BY <2>1 DEF CommitModel
    <3> HIDE DEF value
    <3> QED BY <1>1, <3>1, <3>2 DEF Rows
  <2>2. CASE CommitPlan(s)
    <3> DEFINE value == screen[s].value
               found == screen[s].seen
               kept == PLANS[value].switch /\ found.preferred \in PLANS[value].allowed
               planned == IF value = found.plan THEN row ELSE [row EXCEPT !.plan = value]
    <3>1. value \in PlanIds
      BY <1>2, <2>2 DEF PlanInv, ChecksMade, CommitPlan
    <3>2. row' = IF found.preferred = NoModel \/ kept THEN planned
                 ELSE [planned EXCEPT !.preferred = NoModel]
      BY <2>2 DEF CommitPlan
    <3>3. /\ planned \in Rows /\ planned.preferred = row.preferred
          /\ row = found => planned.plan = value
      BY <1>1, <3>1 DEF Rows
    <3>6. kept => found.preferred \in PLANS[value].allowed
      OBVIOUS
    <3> HIDE DEF planned, value, found, kept
    <3>4. CASE found.preferred = NoModel \/ kept
      <4>1. row' = planned
        BY <3>2, <3>4
      <4>2. row = found => row'.preferred = found.preferred /\ row'.plan = value
        BY <3>3, <4>1
      <4> QED BY <3>3, <3>4, <3>6, <4>1, <4>2 DEF found
    <3>5. CASE ~ (found.preferred = NoModel \/ kept)
      BY <3>2, <3>3, <3>5 DEF Rows
    <3> QED BY <3>4, <3>5 DEF found
  <2> QED BY <2>1, <2>2
<1>7. PlanTypes'
  <2>1. saves' \in Nat /\ raced' \in BOOLEAN
    BY <1>2 DEF FormSaved, PlanInv, PlanTypes
  <2> QED BY <1>2, <1>5, <1>6, <2>1 DEF PlanInv, PlanTypes
<1>8. PreferenceIncluded'
  <2>1. ~ raced' => ~ raced /\ row = screen[s].seen
    BY <1>2 DEF FormSaved
  <2> QED BY <1>6, <2>1 DEF PlanInv, PreferenceIncluded
<1>9. PagesHonest'
  BY <1>2, <1>4, <1>5 DEF PlanInv, PagesHonest, EffectivePlan
<1>10. ChecksMade' /\ OffersAccepted'
  BY <1>2, <1>4, <1>5 DEF PlanInv, ChecksMade, OffersAccepted
<1> QED BY <1>7, <1>8, <1>9, <1>10 DEF PlanInv

LEMMA RedeployKeeps ==
    ASSUME PlanInv, Redeploy
    PROVE  PlanInv'
<1>1. \A s \in Screens :
          /\ screen'[s] \in Forms
          /\ screen'[s].epoch = screen[s].epoch
          /\ screen'[s].stage \notin {"sent", "commit"}
          /\ screen'[s].stage = "refused" => screen'[s] = screen[s]
  <2> TAKE s \in Screens
  <2>1. screen[s] \in Forms
    BY DEF PlanInv, PlanTypes
  <2>2. screen'[s] = IF screen[s].stage \in {"sent", "commit"}
                     THEN [screen[s] EXCEPT !.stage = "open"] ELSE screen[s]
    BY DEF Redeploy
  <2> QED BY <2>1, <2>2 DEF Forms
<1>2. /\ redeploys \in Nat /\ redeploys' = redeploys + 1 /\ server' \in Servers
      /\ row' = row /\ raced' = raced /\ saves' = saves
  BY DEF Redeploy, PlanInv, PlanTypes
<1>3. screen' \in [Screens -> Forms]
  BY <1>1 DEF Redeploy
<1>4. PlanTypes' /\ PreferenceIncluded'
  BY <1>2, <1>3 DEF PlanInv, PlanTypes, PreferenceIncluded
<1>5. \A s \in Screens : screen[s].epoch \in Nat /\ screen[s].epoch <= redeploys
  BY DEF PlanInv, PlanTypes, PagesHonest, Forms
<1>6. PagesHonest'
  BY <1>1, <1>2, <1>5 DEF PagesHonest
<1>7. ChecksMade' /\ OffersAccepted'
  BY <1>1, <1>2, <1>5 DEF ChecksMade, OffersAccepted
<1> QED BY <1>4, <1>6, <1>7 DEF PlanInv

-----------------------------------------------------------------------------
(* The theorem *)

LEMMA PlanStarts == PlanInit => PlanInv
<1> SUFFICES ASSUME PlanInit PROVE PlanInv
  OBVIOUS
<1>1. row \in Rows /\ row.preferred = NoModel /\ NoRow \in Rows
  BY DEF PlanInit, Rows, PlanIds, NoRow
<1>2. \A s \in Screens : screen[s] \in Forms /\ screen[s].stage = "closed"
                         /\ screen[s].epoch = 0
  <2>1. "free" \in PlanIds /\ NoModel \in Models \cup {NoModel} \cup PlanIds
    BY DEF PlanIds
  <2> DEFINE closed ==
          [stage |-> "closed", plan |-> "free", plans |-> {}, can |-> FALSE,
           tiles |-> {}, epoch |-> 0,
           kind |-> "model", value |-> NoModel, seen |-> NoRow]
  <2>2. closed \in Forms
    BY <1>1, <2>1 DEF Forms
  <2>3. closed.stage = "closed" /\ closed.epoch = 0
    OBVIOUS
  <2>4. \A s \in Screens : screen[s] = closed
    BY DEF PlanInit
  <2> HIDE DEF closed
  <2> QED BY <2>2, <2>3, <2>4
<1>3. PlanTypes
  BY <1>1, <1>2 DEF PlanInit, PlanTypes
<1> QED BY <1>1, <1>2, <1>3 DEF PlanInit, PlanInv, PagesHonest, ChecksMade,
                              PreferenceIncluded, OffersAccepted

LEMMA PlanSteps == PlanInv /\ [PlanNext]_planVars => PlanInv'
<1> SUFFICES ASSUME PlanInv, [PlanNext]_planVars PROVE PlanInv'
  OBVIOUS
<1>1. CASE \E s \in Screens : LoadScreen(s)
  BY <1>1, LoadKeeps
<1>2. CASE \E s \in Screens : SaveModel(s) \/ ChoosePlan(s)
  BY <1>2, SendKeeps
<1>3. CASE \E s \in Screens : ReadRow(s)
  BY <1>3, ReadKeeps
<1>4. CASE \E s \in Screens : CommitModel(s) \/ CommitPlan(s)
  BY <1>4, CommitKeeps
<1>5. CASE Redeploy
  BY <1>5, RedeployKeeps
<1>6. CASE UNCHANGED planVars
  BY <1>6 DEF planVars, PlanInv, PlanTypes, PagesHonest, EffectivePlan,
              ChecksMade, PreferenceIncluded, OffersAccepted
<1> QED BY <1>1, <1>2, <1>3, <1>4, <1>5, <1>6 DEF PlanNext

\* What a row with an included preference asks for is in its plan.
LEMMA IncludedIsServed ==
    ASSUME PlanTypes, PreferenceIncluded, ~ raced, row.plan \in server.plans
    PROVE  TargetOf(row) # Refused
<1> DEFINE plan == PLANS[row.plan]
           asked == IF row.preferred \in server.registered THEN row.preferred
                    ELSE NoModel
<1>1. row \in Rows /\ plan.allowed \subseteq Models /\ LocalModel # Refused
  BY ThePlans, PlanAssumption DEF PlanTypes, Rows, Refused
<1>2. asked \in plan.allowed \cup {NoModel} /\ Refused \notin Models
  BY PlanAssumption DEF PreferenceIncluded, Refused
<1>3. TargetOf(row) = PickProvider(plan, asked)
  BY DEF TargetOf, PlanFor
<1> HIDE DEF plan, asked
<1>4. CASE asked # NoModel
  BY <1>1, <1>2, <1>3, <1>4 DEF PickProvider
<1>5. CASE asked = NoModel
  BY <1>1, <1>2, <1>3, <1>5 DEF PickProvider
<1> QED BY <1>4, <1>5

\* A saved model never locks its user out of reviews, and what a Settings
\* page offers is accepted, for any number of pages, models and releases.
THEOREM ModelNeverLocksOut == PlanSpec => []ReviewsNotLockedOut
<1>1. PlanInv => ReviewsNotLockedOut
  BY IncludedIsServed DEF PlanInv, ReviewsNotLockedOut, NotLockedOut
<1> QED BY PlanStarts, PlanSteps, <1>1, PTL DEF PlanSpec

\* The requests under way, and why the counters stay within their bounds.
Asking == {s \in Screens : screen[s].stage \in {"sent", "commit"}}
WithinBounds ==
    /\ redeploys <= MaxRedeploys
    /\ saves + Cardinality(Asking) <= MaxSaves + Cardinality(Screens)

\* How many requests are under way, when one more is, or one less.
LEMMA AskingCounted ==
    /\ IsFiniteSet(Asking) /\ Cardinality(Asking) \in Nat
    /\ Cardinality(Screens) \in Nat /\ Cardinality(Asking) <= Cardinality(Screens)
<1>1. IsFiniteSet(Screens) /\ Asking \subseteq Screens
  BY PlanAssumption DEF Asking
<1> QED BY <1>1, FS_Subset, FS_CardinalityType

\* A save that ends leaves the saves and the pages that ask within bounds.
LEMMA SaveEnds ==
    ASSUME PlanTypes, NEW s \in Asking, Asking' = Asking \ {s},
           WithinBounds, saves' = saves + 1, UNCHANGED redeploys
    PROVE  WithinBounds'
<1>1. Cardinality(Asking \ {s}) = Cardinality(Asking) - 1
  BY AskingCounted, FS_RemoveElement
<1>2. Cardinality(Asking') = Cardinality(Asking) - 1
  BY <1>1
<1>3. Cardinality(Asking)' = Cardinality(Asking')
  OBVIOUS
<1>4. saves \in Nat
  BY DEF PlanTypes
<1> QED BY <1>2, <1>3, <1>4, AskingCounted DEF WithinBounds

\* Saves, those still asking, and redeployments stay within their bounds.
LEMMA BoundsStep ==
    ASSUME PlanTypes, WithinBounds, [PlanNext]_planVars
    PROVE  WithinBounds'
<1>0. /\ saves \in Nat /\ redeploys \in Nat /\ screen \in [Screens -> Forms]
      /\ MaxSaves \in Nat /\ MaxRedeploys \in Nat
  BY PlanAssumption DEF PlanTypes
<1>1. CASE \E s \in Screens : LoadScreen(s)
  <2>1. Asking' = Asking /\ UNCHANGED <<saves, redeploys>>
    BY <1>0, <1>1 DEF LoadScreen, Asking
  <2> QED BY <2>1 DEF WithinBounds
<1>2. CASE \E s \in Screens : SaveModel(s) \/ ChoosePlan(s)
  <2>1. saves < MaxSaves /\ UNCHANGED <<saves, redeploys>>
    BY <1>2 DEF SaveModel, ChoosePlan, SendForm
  <2>2. Asking' \subseteq Screens
    BY DEF Asking
  <2>3. /\ Cardinality(Asking') \in Nat /\ Cardinality(Screens) \in Nat
        /\ Cardinality(Asking') <= Cardinality(Screens)
    BY <2>2, PlanAssumption, FS_Subset, FS_CardinalityType
  <2> QED BY <1>0, <2>1, <2>3 DEF WithinBounds
<1>3. CASE \E s \in Screens : ReadRow(s)
  <2>1. PICK s \in Screens : ReadRow(s)
    BY <1>3
  <2>2. Asking' \subseteq Asking /\ UNCHANGED <<saves, redeploys>>
    BY <1>0, <2>1 DEF ReadRow, Asking
  <2>3. Cardinality(Asking') <= Cardinality(Asking) /\ Cardinality(Asking') \in Nat
    BY <2>2, AskingCounted, FS_Subset, FS_CardinalityType
  <2> QED BY <1>0, <2>2, <2>3, AskingCounted DEF WithinBounds
<1>4. CASE \E s \in Screens : CommitModel(s) \/ CommitPlan(s)
  <2>1. PICK s \in Screens : CommitModel(s) \/ CommitPlan(s)
    BY <1>4
  <2>2. /\ screen[s].stage = "commit" /\ saves' = saves + 1 /\ UNCHANGED redeploys
        /\ screen' = [screen EXCEPT ![s].stage = "accepted"]
    BY <2>1 DEF CommitModel, CommitPlan, FormSaved
  <2>3. s \in Asking /\ Asking' = Asking \ {s}
    BY <1>0, <2>2 DEF Asking, Forms
  <2> QED BY <2>2, <2>3, SaveEnds
<1>5. CASE Redeploy
  <2>1. /\ redeploys < MaxRedeploys /\ redeploys' = redeploys + 1 /\ UNCHANGED saves
        /\ Asking' \subseteq Asking
    BY <1>0, <1>5 DEF Redeploy, Asking
  <2>2. Cardinality(Asking') <= Cardinality(Asking) /\ Cardinality(Asking') \in Nat
    BY <2>1, AskingCounted, FS_Subset, FS_CardinalityType
  <2> QED BY <1>0, <2>1, <2>2, AskingCounted DEF WithinBounds
<1>6. CASE UNCHANGED planVars
  BY <1>6 DEF planVars, WithinBounds, Asking
<1> QED BY <1>1, <1>2, <1>3, <1>4, <1>5, <1>6 DEF PlanNext

\* The state of the plan and its pages has its types.
LEMMA PlanTyped == PlanInv /\ WithinBounds => PlanTypeOK
<1> SUFFICES ASSUME PlanInv, WithinBounds PROVE PlanTypeOK
  OBVIOUS
<1>1. PlanTypes
  BY DEF PlanInv
<1>2. DOMAIN PLANS = PlanIds
  BY DEF PLANS, PlanIds
<1>3. redeploys \in 0..MaxRedeploys /\ saves \in 0..(MaxSaves + Cardinality(Screens))
  BY <1>1, PlanAssumption, AskingCounted DEF PlanTypes, WithinBounds
<1>4. \A s \in Screens :
          /\ screen[s].stage \in {"closed", "open", "sent", "commit", "accepted", "refused"}
          /\ screen[s].tiles \subseteq Models
          /\ screen[s].seen.plan \in PlanIds
  BY <1>1 DEF PlanTypes, Forms, Rows
<1> QED BY <1>1, <1>2, <1>3, <1>4 DEF PlanTypes, Rows, PlanTypeOK

-----------------------------------------------------------------------------
(* The start of a backend *)

\* Some of the variables, each with one of its texts.
Texted(f) == /\ DOMAIN f \subseteq DOMAIN Texts
             /\ \A k \in DOMAIN f : f[k] \in Texts[k]
LayersTexted == /\ Texted(layers.process) /\ Texted(layers.backend)
                /\ Texted(layers.repo)

\* os.environ after each of the two .env files.
EnvironRead ==
    environ = CASE starting = "backend/.env" -> layers.process
                [] starting = ".env" -> Merge(layers.process, layers.backend)
                [] OTHER -> Merge(Merge(layers.process, layers.backend), layers.repo)

\* The keys that override a setting, the value that is there before, and the
\* settings once they are overridden.
Overriding == (DOMAIN environ \cap Nested) \ {"path"}
Present(k) == IF k \in DOMAIN File THEN File[k] ELSE Str("")
Overridden == Merge([k \in Overriding |-> Coerce(environ[k], Present(k))], File)
Broken(table) == \E k \in DOMAIN table : table[k].type = "ValueError"

DataRead ==
    starting \notin {"backend/.env", ".env", "overrides"} => data = Overridden
SettingsMade ==
    starting \in {"container", "running"} =>
        Objections(Built) = {} /\ settings = [Built EXCEPT !.secret = "strong"]
RefusedFor ==
    starting = "refused" => Broken(data) \/ Objections(Built) # {}
NumbersRead == starting \in {"checks", "container", "running"} => ~ Broken(data)
StartInv == LayersTexted /\ EnvironRead /\ DataRead /\ SettingsMade /\ RefusedFor
                /\ NumbersRead

Steps == {"backend/.env", ".env", "overrides", "checks", "container", "running", "refused"}

\* Merging keeps the first text there is.
LEMMA Merged ==
    ASSUME NEW f, NEW g
    PROVE  /\ DOMAIN Merge(f, g) = DOMAIN f \cup DOMAIN g
           /\ \A k \in DOMAIN f : Merge(f, g)[k] = f[k]
           /\ \A k \in DOMAIN g \ DOMAIN f : Merge(f, g)[k] = g[k]
BY DEF Merge

\* Two layers of settings merged give each setting a text of its own kind.
LEMMA MergedTexted ==
    ASSUME NEW f, NEW g, Texted(f), Texted(g)
    PROVE  Texted(Merge(f, g))
<1> DEFINE both == Merge(f, g)
<1>1. DOMAIN both = DOMAIN f \cup DOMAIN g
  BY Merged
<1>2. ASSUME NEW k \in DOMAIN both PROVE k \in DOMAIN Texts /\ both[k] \in Texts[k]
  <2>1. CASE k \in DOMAIN f
    <3>1. both[k] = f[k]
      BY <2>1, Merged
    <3> QED BY <2>1, <3>1 DEF Texted
  <2>2. CASE k \in DOMAIN g \ DOMAIN f
    <3>1. both[k] = g[k]
      BY <2>2 DEF Merge
    <3> QED BY <2>2, <3>1 DEF Texted
  <2> QED BY <1>1, <2>1, <2>2
<1> QED BY <1>2 DEF Texted

\* What the operator sets has the texts of its variables.
LEMMA LayerTexted ==
    ASSUME NEW set \in Environments, NEW name
    PROVE  Texted(Layer(set, name))
<1> DEFINE here == {v \in set : v.layer = name}
<1>1. DOMAIN Layer(set, name) = {v.key : v \in here}
  BY DEF Layer
<1>2. set \subseteq Variables
  BY StartAssumption
<1>3. \A v \in Variables : v.key \in DOMAIN Texts /\ v.text \in Texts[v.key]
  BY DEF Variables
<1>4. ASSUME NEW k \in DOMAIN Layer(set, name)
      PROVE  k \in DOMAIN Texts /\ Layer(set, name)[k] \in Texts[k]
  <2> DEFINE chosen == CHOOSE v \in here : v.key = k
  <2>1. \E v \in here : v.key = k
    BY <1>1, <1>4
  <2>2. chosen \in here /\ chosen.key = k
    BY <2>1
  <2>3. Layer(set, name)[k] = chosen.text
    BY <1>1, <1>4 DEF Layer
  <2> HIDE DEF chosen
  <2> QED BY <1>2, <1>3, <2>2, <2>3
<1> QED BY <1>4 DEF Texted

\* What a proper deployment has in its .env.
LEMMA ProperTexted ==
    ASSUME NEW f, Texted(f)
    PROVE  Texted(Merge(f, [JWT_SECRET |-> "strong", DATABASE_URL |-> "own",
                            self_serve |-> "false"]))
<1> DEFINE proper == [JWT_SECRET |-> "strong", DATABASE_URL |-> "own",
                      self_serve |-> "false"]
<1>1. DOMAIN proper = {"JWT_SECRET", "DATABASE_URL", "self_serve"}
  OBVIOUS
<1>2. DOMAIN proper \subseteq DOMAIN Texts
  BY <1>1 DEF Texts
<1>3. /\ "strong" \in Texts["JWT_SECRET"] /\ "own" \in Texts["DATABASE_URL"]
      /\ "false" \in Texts["self_serve"]
  BY DEF Texts
<1>4. /\ proper["JWT_SECRET"] = "strong" /\ proper["DATABASE_URL"] = "own"
      /\ proper["self_serve"] = "false"
  OBVIOUS
<1> HIDE DEF proper
<1>5. Texted(proper)
  BY <1>1, <1>2, <1>3, <1>4 DEF Texted
<1>6. Texted(Merge(f, proper))
  BY <1>5, MergedTexted
<1> QED BY <1>6 DEF proper

\* The invariant of the start holds before anything is read.
LEMMA StartStarts == StartInit => StartInv
<1> SUFFICES ASSUME StartInit PROVE StartInv
  OBVIOUS
<1> DEFINE Deployed == [JWT_SECRET |-> "strong", DATABASE_URL |-> "own",
                        self_serve |-> "false"]
<1>1. PICK set \in Environments, proper \in BOOLEAN :
          layers = [process |-> Layer(set, "process"),
                    backend |-> Layer(set, "backend"),
                    repo |-> IF proper THEN Merge(Layer(set, "repo"), Deployed)
                                       ELSE Layer(set, "repo")]
  BY DEF StartInit
<1>2. Texted(Layer(set, "repo")) /\ Texted(Merge(Layer(set, "repo"), Deployed))
  BY LayerTexted, ProperTexted
<1>3. Texted(Layer(set, "process")) /\ Texted(Layer(set, "backend"))
  BY LayerTexted
<1> HIDE DEF Deployed
<1>4. LayersTexted
  BY <1>1, <1>2, <1>3 DEF LayersTexted
<1>5. starting = "backend/.env" /\ environ = layers.process
  BY DEF StartInit
<1> QED BY <1>4, <1>5 DEF StartInv, EnvironRead, DataRead, SettingsMade, RefusedFor,
     NumbersRead

\* Each step of the start keeps it.
LEMMA StartSteps == StartInv /\ [StartNext]_startVars => StartInv'
<1> SUFFICES ASSUME StartInv, [StartNext]_startVars PROVE StartInv'
  OBVIOUS
<1> USE DEF StartInv
<1>1. CASE LoadDotenv
  <2>1. LayersTexted'
    BY <1>1 DEF LoadDotenv, LayersTexted
  <2>2. EnvironRead'
    BY <1>1 DEF LoadDotenv, Dotenv, EnvironRead
  <2>3. starting' \in {".env", "overrides"}
    BY <1>1 DEF LoadDotenv
  <2> QED BY <2>1, <2>2, <2>3 DEF DataRead, SettingsMade, RefusedFor, NumbersRead
<1>2. CASE ApplyOverrides
  <2>1. starting = "overrides" /\ starting' \in {"refused", "checks"}
    BY <1>2 DEF ApplyOverrides
  <2>2. LayersTexted' /\ EnvironRead'
    BY <1>2, <2>1 DEF ApplyOverrides, LayersTexted, EnvironRead
  <2>3. UNCHANGED environ /\ data' = Overridden
    BY <1>2 DEF ApplyOverrides, Overridden, Overriding, Present
  <2>4. data' = Overridden'
    BY <2>3 DEF Overridden, Overriding
  <2>5. starting' = "refused" <=> Broken(data')
    BY <1>2 DEF ApplyOverrides, Broken
  <2>6. RefusedFor' /\ NumbersRead'
    BY <2>1, <2>5 DEF RefusedFor, NumbersRead
  <2> QED BY <2>1, <2>2, <2>4, <2>6 DEF DataRead, SettingsMade
<1>3. CASE BuildSettings
  <2>1. /\ starting = "checks" /\ starting' \in {"refused", "container"}
        /\ UNCHANGED <<layers, environ, data>>
    BY <1>3 DEF BuildSettings
  <2>2. LayersTexted' /\ EnvironRead'
    BY <2>1 DEF LayersTexted, EnvironRead
  <2>3. DataRead'
    BY <2>1 DEF DataRead, Overridden, Overriding
  <2>4. Built' = Built /\ Sections' = Sections
    BY <2>1 DEF Built, Sections, Get
  <2>5. \A s : Objections(s)' = Objections(s)
    BY <2>4 DEF Objections
  <2>6. Objections(Built)' = Objections(Built)
    BY <2>4 DEF Objections
  <2>7. SettingsMade' /\ RefusedFor'
    BY <1>3, <2>1, <2>4, <2>6 DEF BuildSettings, SettingsMade, RefusedFor
  <2>8. NumbersRead'
    BY <2>1 DEF NumbersRead, Broken
  <2> QED BY <2>2, <2>3, <2>7, <2>8
<1>4. CASE BuildContainer \/ StartEnds \/ UNCHANGED startVars
  <2>1. /\ \/ starting = "container" /\ starting' = "running"
           \/ UNCHANGED starting
        /\ UNCHANGED <<layers, environ, data, settings>>
    BY <1>4 DEF BuildContainer, StartEnds, startVars
  <2>2. LayersTexted' /\ EnvironRead'
    BY <2>1 DEF LayersTexted, EnvironRead
  <2>3. DataRead'
    BY <2>1 DEF DataRead, Overridden, Overriding
  <2>4. Built' = Built /\ Sections' = Sections
    BY <2>1 DEF Built, Sections, Get
  <2>5. Objections(Built)' = Objections(Built)
    BY <2>4 DEF Objections
  <2>6. SettingsMade' /\ RefusedFor'
    BY <2>1, <2>4, <2>5 DEF SettingsMade, RefusedFor
  <2>7. NumbersRead'
    BY <2>1 DEF NumbersRead, Broken
  <2> QED BY <2>2, <2>3, <2>6, <2>7
<1> QED BY <1>1, <1>2, <1>3, <1>4 DEF StartNext


-----------------------------------------------------------------------------
(* What the settings are made of *)

\* os.environ has what the operator asked for, and the rest is not asked for.
LEMMA WantedRead ==
    ASSUME EnvironRead, starting \notin {"backend/.env", ".env"}
    PROVE  /\ \A k \in DOMAIN environ : Wanted(k) = environ[k]
           /\ \A k : k \notin DOMAIN environ =>
                 Wanted(k) = IF k \in DOMAIN File THEN File[k].text ELSE ""
<1> DEFINE own == layers.process  back == layers.backend  rest == layers.repo
           two == Merge(own, back)
<1>1. environ = Merge(two, rest)
  BY DEF EnvironRead
<1>2. /\ DOMAIN environ = (DOMAIN own \cup DOMAIN back) \cup DOMAIN rest
      /\ \A k \in DOMAIN own : environ[k] = own[k]
      /\ \A k \in DOMAIN back \ DOMAIN own : environ[k] = back[k]
      /\ \A k \in DOMAIN rest \ (DOMAIN own \cup DOMAIN back) : environ[k] = rest[k]
  BY <1>1 DEF Merge
<1>3. ASSUME NEW k \in DOMAIN environ PROVE Wanted(k) = environ[k]
  <2>1. CASE k \in DOMAIN own
    BY <1>2, <2>1 DEF Wanted
  <2>2. CASE k \notin DOMAIN own /\ k \in DOMAIN back
    BY <1>2, <2>2 DEF Wanted
  <2>3. CASE k \notin DOMAIN own \cup DOMAIN back /\ k \in DOMAIN rest
    BY <1>2, <2>3 DEF Wanted
  <2> QED BY <1>2, <1>3, <2>1, <2>2, <2>3
<1>4. ASSUME NEW k, k \notin DOMAIN environ
      PROVE  Wanted(k) = IF k \in DOMAIN File THEN File[k].text ELSE ""
  BY <1>2, <1>4 DEF Wanted
<1> QED BY <1>3, <1>4

\* The settings that may be overridden, as the file has them.
LEMMA FileRead ==
    /\ DOMAIN File = {"environment", "self_serve", "default_provider",
                      "fallback_provider", "max_tokens", "backend"}
    /\ File["environment"] = Str("development") /\ File["self_serve"] = Bool("true")
    /\ File["default_provider"] = Str("ollama") /\ File["fallback_provider"] = Str("ollama")
    /\ File["max_tokens"] = Number("4096") /\ File["backend"] = Str("ollama")
BY DEF File

\* What an override makes of its text.
LEMMA Coerced ==
    ASSUME NEW raw, NEW words
    PROVE  /\ Coerce(raw, Str(words)) = Str(raw)
           /\ Coerce(raw, Bool(words)) = Bool(IF raw \in Trues THEN "true" ELSE "false")
           /\ raw # "many" => Coerce(raw, Number(words)) = Number(raw)
BY DEF Coerce, Str, Bool, Number

\* What the settings are once the environment has been applied to the file.
LEMMA OverriddenIs ==
    /\ DOMAIN Overridden = Overriding \cup DOMAIN File
    /\ \A k \in Overriding : Overridden[k] = Coerce(environ[k], Present(k))
    /\ \A k \in DOMAIN File \ Overriding : Overridden[k] = File[k]
BY DEF Overridden, Merge

\* The environment is made of the texts of its three layers.
LEMMA EnvironTexted ==
    ASSUME LayersTexted, EnvironRead
    PROVE  Texted(environ)
<1>1. /\ Texted(layers.process) /\ Texted(layers.backend) /\ Texted(layers.repo)
  BY DEF LayersTexted
<1>2. Texted(Merge(layers.process, layers.backend))
  BY <1>1, MergedTexted
<1>3. Texted(Merge(Merge(layers.process, layers.backend), layers.repo))
  BY <1>1, <1>2, MergedTexted
<1> QED BY <1>1, <1>2, <1>3 DEF EnvironRead

AfterOverrides == {"checks", "container", "running", "refused"}

\* The settings that decide have what the operator asked for.
LEMMA SettingsRead ==
    ASSUME StartInv, starting \in AfterOverrides
    PROVE  /\ data["environment"].text = Wanted("environment")
           /\ data["default_provider"].text = Wanted("default_provider")
           /\ data["fallback_provider"].text = Wanted("fallback_provider")
           /\ data["backend"].text = Wanted("backend")
           /\ Truthy(data["self_serve"]) <=> Wanted("self_serve") \in Trues
<1>1. /\ data = Overridden /\ LayersTexted /\ EnvironRead
      /\ starting \notin {"backend/.env", ".env"}
  BY DEF StartInv, DataRead, AfterOverrides
<1>2. /\ \A k \in DOMAIN environ : Wanted(k) = environ[k]
      /\ \A k \in DOMAIN File \ DOMAIN environ : Wanted(k) = File[k].text
  BY <1>1, WantedRead
<1>3. DOMAIN File \subseteq Nested \ {"path"}
  BY FileRead DEF Nested
<1>4. \A k \in DOMAIN File : k \in Overriding <=> k \in DOMAIN environ
  BY <1>3 DEF Overriding
<1>5. ASSUME NEW k \in {"environment", "default_provider", "fallback_provider", "backend"}
      PROVE  data[k].text = Wanted(k)
  <2>1. k \in DOMAIN File /\ \E t : File[k] = Str(t)
    BY FileRead
  <2>2. CASE k \in DOMAIN environ
    <3>1. data[k] = Coerce(environ[k], File[k])
      BY <1>1, <1>4, <2>1, <2>2, OverriddenIs DEF Present
    <3>2. data[k] = Str(environ[k])
      BY <2>1, <3>1, Coerced
    <3> QED BY <1>2, <2>2, <3>2 DEF Str
  <2>3. CASE k \notin DOMAIN environ
    BY <1>1, <1>2, <1>4, <2>1, <2>3, OverriddenIs
  <2> QED BY <2>2, <2>3
<1>6. Truthy(data["self_serve"]) <=> Wanted("self_serve") \in Trues
  <2> DEFINE k == "self_serve"
  <2>1. k \in DOMAIN File /\ File[k] = Bool("true")
    BY FileRead
  <2>2. CASE k \in DOMAIN environ
    <3>1. data[k] = Coerce(environ[k], File[k])
      BY <1>1, <1>4, <2>1, <2>2, OverriddenIs DEF Present
    <3>2. data[k] = Bool(IF environ[k] \in Trues THEN "true" ELSE "false")
      BY <2>1, <3>1, Coerced
    <3>3. Wanted(k) = environ[k]
      BY <1>2, <2>2
    <3> HIDE DEF k
    <3>4. Truthy(data[k]) <=> environ[k] \in Trues
      BY <3>2 DEF Truthy, Bool
    <3> QED BY <3>3, <3>4 DEF k
  <2>3. CASE k \notin DOMAIN environ
    <3>1. data[k] = Bool("true") /\ Wanted(k) = Bool("true").text
      BY <1>1, <1>2, <1>4, <2>1, <2>3, OverriddenIs
    <3> QED BY <3>1 DEF Truthy, Bool, Trues
  <2> QED BY <2>2, <2>3
<1> QED BY <1>5, <1>6

\* So has the number, if it is one.
LEMMA NumberRead ==
    ASSUME StartInv, starting \in AfterOverrides, ~ Broken(data)
    PROVE  data["max_tokens"] = Number(Wanted("max_tokens"))
<1> DEFINE k == "max_tokens"
<1>1. data = Overridden /\ EnvironRead /\ starting \notin {"backend/.env", ".env"}
  BY DEF StartInv, DataRead, AfterOverrides
<1>2. k \in DOMAIN File /\ File[k] = Number("4096") /\ k \in Nested \ {"path"}
  BY FileRead DEF Nested
<1>3. k \in DOMAIN data /\ data[k].type # "ValueError"
  BY <1>1, <1>2, OverriddenIs DEF Broken
<1>4. CASE k \in DOMAIN environ
  <2>1. data[k] = Coerce(environ[k], Number("4096"))
    BY <1>1, <1>2, <1>4, OverriddenIs DEF Overriding, Present
  <2>2. environ[k] # "many"
    <3>1. Coerce("many", Number("4096")).type = "ValueError"
      BY DEF Coerce, Number
    <3> QED BY <1>3, <2>1, <3>1
  <2>3. data[k] = Number(environ[k])
    BY <2>1, <2>2, Coerced
  <2> QED BY <1>1, <1>4, <2>3, WantedRead
<1>5. CASE k \notin DOMAIN environ
  <2>1. data[k] = File[k]
    BY <1>1, <1>2, <1>5, OverriddenIs DEF Overriding
  <2>2. Wanted(k) = File[k].text
    BY <1>1, <1>2, <1>5, WantedRead
  <2> QED BY <1>2, <2>1, <2>2 DEF Number
<1> QED BY <1>4, <1>5

\* The settings are those of the file and what is set beside them in its
\* sections; whatever that is, the provider stays enabled.
LEMMA BesideTheFile ==
    ASSUME StartInv, starting \in AfterOverrides
    PROVE  /\ DOMAIN data = DOMAIN File \cup {k \in {"enabled", "mistral"} : Wanted(k) # ""}
           /\ Built.enabled
<1> DEFINE beside == {"enabled", "mistral"}
<1>1. /\ data = Overridden /\ LayersTexted /\ EnvironRead
      /\ starting \notin {"backend/.env", ".env"}
  BY DEF StartInv, DataRead, AfterOverrides
<1>2. /\ Nested \ {"path"} = DOMAIN File \cup beside
      /\ \A k \in beside : k \notin DOMAIN File
  BY FileRead DEF Nested
<1>3. /\ "" \notin Texts["enabled"] /\ "" \notin Texts["mistral"]
  BY DEF Texts
<1>4. \A k \in DOMAIN environ : environ[k] \in Texts[k] /\ Wanted(k) = environ[k]
  BY <1>1, EnvironTexted, WantedRead DEF Texted
<1>5. \A k \in beside : k \in DOMAIN environ <=> Wanted(k) # ""
  <2> SUFFICES ASSUME NEW k \in beside PROVE k \in DOMAIN environ <=> Wanted(k) # ""
    OBVIOUS
  <2>1. "" \notin Texts[k]
    BY <1>3
  <2>2. k \notin DOMAIN environ => Wanted(k) = ""
    BY <1>1, <1>2, WantedRead
  <2> QED BY <1>4, <2>1, <2>2
<1>6. Overriding \cup DOMAIN File = DOMAIN File \cup {k \in beside : Wanted(k) # ""}
  BY <1>2, <1>5 DEF Overriding
<1>7. DOMAIN data = DOMAIN File \cup {k \in beside : Wanted(k) # ""}
  BY <1>1, <1>6, OverriddenIs
<1>8. Built.enabled
  <2>1. CASE "enabled" \in DOMAIN data
    <3>1. "enabled" \in DOMAIN environ /\ "enabled" \in Overriding
      BY <1>1, <1>2, <1>5, <1>7, <2>1 DEF Overriding
    <3>2. data["enabled"] = Coerce(environ["enabled"], Str(""))
      BY <1>1, <1>2, <3>1, OverriddenIs DEF Present
    <3>3. data["enabled"] = Str(environ["enabled"]) /\ environ["enabled"] # ""
      BY <1>3, <1>4, <3>1, <3>2, Coerced
    <3>4. data["enabled"].type = "str" /\ data["enabled"].text # ""
      <4>1. \A words : Str(words).type = "str" /\ Str(words).text = words
        BY DEF Str
      <4> QED BY <3>3, <4>1
    <3>5. Truthy(data["enabled"])
      BY <3>4 DEF Truthy
    <3> QED BY <3>5 DEF Built
  <2>2. CASE "enabled" \notin DOMAIN data
    BY <2>2 DEF Built
  <2> QED BY <2>1, <2>2
<1> QED BY <1>7, <1>8

\* A model of mistral's is what makes it a provider.
LEMMA MistralNamed ==
    ASSUME StartInv, starting \in AfterOverrides, Wanted("mistral") # ""
    PROVE  "mistral" \in Sections
<1>1. /\ data = Overridden /\ EnvironRead
      /\ starting \notin {"backend/.env", ".env"}
  BY DEF StartInv, DataRead, AfterOverrides
<1>2. "mistral" \notin DOMAIN File
  BY FileRead
<1>3. "mistral" \in DOMAIN environ
  BY <1>1, <1>2, WantedRead
<1>4. "mistral" \in Overriding
  BY <1>3 DEF Overriding, Nested
<1>5. "mistral" \in DOMAIN data
  BY <1>1, <1>4, OverriddenIs
<1> QED BY <1>5 DEF Sections

\* Only a number that is none breaks a setting.
LEMMA BrokenNumber ==
    ASSUME StartInv, starting \in AfterOverrides, Broken(data)
    PROVE  Wanted("max_tokens") = "many"
<1>1. /\ data = Overridden /\ EnvironRead
      /\ starting \notin {"backend/.env", ".env"}
  BY DEF StartInv, DataRead, AfterOverrides
<1>2. PICK k \in DOMAIN data : data[k].type = "ValueError"
  BY DEF Broken
<1>3. \A j \in DOMAIN File : File[j].type # "ValueError"
  BY FileRead DEF Str, Bool, Number
<1>4. k \in Overriding /\ data[k] = Coerce(environ[k], Present(k))
  BY <1>1, <1>2, <1>3, OverriddenIs
<1>5. \A words : Present(k) # Str(words) /\ Present(k) # Bool(words)
  <2> SUFFICES ASSUME NEW words, Present(k) = Str(words) \/ Present(k) = Bool(words)
               PROVE  FALSE
    OBVIOUS
  <2>1. data[k] = Str(environ[k])
        \/ data[k] = Bool(IF environ[k] \in Trues THEN "true" ELSE "false")
    BY <1>4, Coerced
  <2> QED BY <1>2, <2>1 DEF Str, Bool
<1>6. k = "max_tokens"
  BY <1>5, FileRead DEF Present
<1>7. Present(k) = Number("4096")
  BY <1>6, FileRead DEF Present
<1>8. environ[k] = "many"
  <2>1. SUFFICES ASSUME environ[k] # "many" PROVE FALSE
    OBVIOUS
  <2>2. data[k] = Number(environ[k])
    BY <1>4, <1>7, <2>1, Coerced
  <2> QED BY <1>2, <2>2 DEF Number
<1>9. k \in DOMAIN environ
  BY <1>4 DEF Overriding
<1>10. Wanted(k) = environ[k]
  BY <1>1, <1>9, WantedRead
<1> QED BY <1>6, <1>8, <1>10

\* What is asked for is a text of the variable, or what the file has.
LEMMA WantedTexted ==
    ASSUME StartInv, starting \in AfterOverrides
    PROVE  /\ Wanted("fallback_provider") \in DOMAIN Splits
           /\ Wanted("default_provider") \in FileSections \cup {"mistral"}
           /\ Get("JWT_SECRET", "weak") = "weak" <=> Wanted("JWT_SECRET") # "strong"
           /\ Get("DATABASE_URL", "default") = "default" <=>
                 Wanted("DATABASE_URL") # "own"
<1>1. /\ LayersTexted /\ EnvironRead /\ starting \notin {"backend/.env", ".env"}
  BY DEF StartInv, AfterOverrides
<1>2. /\ DOMAIN environ \subseteq DOMAIN Texts
      /\ \A k \in DOMAIN environ : environ[k] \in Texts[k] /\ Wanted(k) = environ[k]
  BY <1>1, EnvironTexted, WantedRead DEF Texted
<1>3. /\ Texts["default_provider"] = {"anthropic", "mistral"}
      /\ Texts["fallback_provider"] = {"anthropic, ollama", ""}
      /\ Texts["JWT_SECRET"] = {"weak", "strong"}
      /\ Texts["DATABASE_URL"] = {"default", "own"}
  BY DEF Texts
<1>4. /\ "default_provider" \notin DOMAIN environ => Wanted("default_provider") = "ollama"
      /\ "fallback_provider" \notin DOMAIN environ => Wanted("fallback_provider") = "ollama"
  <2>1. ASSUME NEW k \in {"default_provider", "fallback_provider"}, k \notin DOMAIN environ
        PROVE  Wanted(k) = "ollama"
    <3>1. k \in DOMAIN File /\ File[k] = Str("ollama")
      BY FileRead
    <3>2. Wanted(k) = File[k].text
      BY <1>1, <2>1, <3>1, WantedRead
    <3> QED BY <3>1, <3>2 DEF Str
  <2> QED BY <2>1
<1>5. ASSUME NEW k \in {"JWT_SECRET", "DATABASE_URL"}, k \notin DOMAIN environ
      PROVE  Wanted(k) = ""
  <2>1. k \notin DOMAIN File
    BY FileRead
  <2> QED BY <1>1, <1>5, <2>1, WantedRead
<1>6. Wanted("fallback_provider") \in DOMAIN Splits
  <2>1. DOMAIN Splits = {"ollama", "anthropic, ollama", ""}
    BY DEF Splits
  <2> QED BY <1>2, <1>3, <1>4, <2>1
<1>7. Wanted("default_provider") \in FileSections \cup {"mistral"}
  BY <1>2, <1>3, <1>4 DEF FileSections
<1>8. Get("JWT_SECRET", "weak") = "weak" <=> Wanted("JWT_SECRET") # "strong"
  <2>1. CASE "JWT_SECRET" \in DOMAIN environ
    BY <1>2, <1>3, <2>1 DEF Get
  <2>2. CASE "JWT_SECRET" \notin DOMAIN environ
    BY <1>5, <2>2 DEF Get
  <2> QED BY <2>1, <2>2
<1>9. Get("DATABASE_URL", "default") = "default" <=> Wanted("DATABASE_URL") # "own"
  <2>1. CASE "DATABASE_URL" \in DOMAIN environ
    BY <1>2, <1>3, <2>1 DEF Get
  <2>2. CASE "DATABASE_URL" \notin DOMAIN environ
    BY <1>5, <2>2 DEF Get
  <2> QED BY <2>1, <2>2
<1> QED BY <1>6, <1>7, <1>8, <1>9

\* The database is the one asked for, or the default.
LEMMA DatabaseRead ==
    ASSUME StartInv, starting \in AfterOverrides
    PROVE  Get("DATABASE_URL", "default")
               = IF Wanted("DATABASE_URL") = "own" THEN "own" ELSE "default"
<1>1. /\ LayersTexted /\ EnvironRead /\ starting \notin {"backend/.env", ".env"}
  BY DEF StartInv, AfterOverrides
<1>2. CASE "DATABASE_URL" \in DOMAIN environ
  <2>1. environ["DATABASE_URL"] \in Texts["DATABASE_URL"]
    BY <1>1, <1>2, EnvironTexted DEF Texted
  <2>2. environ["DATABASE_URL"] \in {"default", "own"}
    BY <2>1 DEF Texts
  <2>3. Wanted("DATABASE_URL") = environ["DATABASE_URL"]
    BY <1>1, <1>2, WantedRead
  <2> QED BY <1>2, <2>2, <2>3 DEF Get
<1>3. CASE "DATABASE_URL" \notin DOMAIN environ
  <2>1. Get("DATABASE_URL", "default") = "default"
    BY <1>3 DEF Get
  <2> QED BY <2>1, WantedTexted
<1> QED BY <1>2, <1>3

\* The fallbacks are sections of the file, whichever are asked for.
LEMMA FallbacksKnown ==
    ASSUME NEW t \in DOMAIN Splits, NEW i \in DOMAIN Splits[t]
    PROVE  Splits[t][i] \in FileSections
<1>1. CASE t = "anthropic, ollama"
  <2>1. Splits[t] = <<"anthropic", "ollama">>
    BY <1>1 DEF Splits
  <2> QED BY <2>1 DEF FileSections
<1>2. CASE t # "anthropic, ollama"
  <2>1. Splits[t] = <<"ollama">>
    BY <1>2 DEF Splits
  <2> QED BY <2>1 DEF FileSections
<1> QED BY <1>1, <1>2

\* Each objection, in terms of what the operator asked for.
LEMMA ObjectionsRead ==
    ASSUME StartInv, starting \in AfterOverrides
    PROVE  LET production == Wanted("environment") \in {"production", "Production"}
           IN  /\ Built.production = production
               /\ Built.self_serve <=> Wanted("self_serve") \in Trues
               /\ Built.default = Wanted("default_provider")
               /\ Objections(Built) \subseteq {"provider", "secret", "database", "self_serve"}
               /\ "provider" \in Objections(Built) =>
                     Wanted("default_provider") = "mistral" /\ Wanted("mistral") = ""
               /\ "secret" \in Objections(Built) <=>
                     production /\ Wanted("JWT_SECRET") # "strong"
               /\ "database" \in Objections(Built) <=>
                     production /\ Wanted("DATABASE_URL") # "own"
               /\ "self_serve" \in Objections(Built) <=>
                     production /\ Wanted("self_serve") \in Trues
<1> DEFINE production == Wanted("environment") \in {"production", "Production"}
<1>1. /\ Built.production = production
      /\ Built.self_serve <=> Wanted("self_serve") \in Trues
      /\ Built.default = Wanted("default_provider")
      /\ Built.fallbacks = Splits[Wanted("fallback_provider")]
      /\ Built.secret = Get("JWT_SECRET", "weak")
      /\ Built.database = Get("DATABASE_URL", "default")
  BY SettingsRead DEF Built
<1>2. Objections(Built) \subseteq {"provider", "secret", "database", "self_serve"}
  BY DEF Objections
<1>3. ASSUME "provider" \in Objections(Built)
      PROVE  Wanted("default_provider") = "mistral" /\ Wanted("mistral") = ""
  <2>1. PICK p \in {Built.default} \cup {Built.fallbacks[i] : i \in DOMAIN Built.fallbacks} :
            p \notin Sections
    BY <1>3 DEF Objections
  <2>2. FileSections \subseteq Sections
    BY DEF Sections
  <2>3. \A i \in DOMAIN Built.fallbacks : Built.fallbacks[i] \in FileSections
    BY <1>1, WantedTexted, FallbacksKnown
  <2>4. p = Wanted("default_provider") /\ p = "mistral"
    BY <1>1, <2>1, <2>2, <2>3, WantedTexted
  <2> QED BY <2>1, <2>4, MistralNamed
<1>4. "secret" \in Objections(Built) <=> production /\ Wanted("JWT_SECRET") # "strong"
  BY <1>1, WantedTexted DEF Objections
<1>5. "database" \in Objections(Built) <=> production /\ Wanted("DATABASE_URL") # "own"
  BY <1>1, WantedTexted DEF Objections
<1>6. "self_serve" \in Objections(Built) <=>
          production /\ Wanted("self_serve") \in Trues
  BY <1>1 DEF Objections
<1> QED BY <1>1, <1>2, <1>3, <1>4, <1>5, <1>6

\* However many variables are set in however many places, a backend runs
\* with what the operator asked for, and refuses only for a reason given.
THEOREM BackendStartsAsConfigured == StartSpec => []StartsAsConfigured
<1>1. StartInv => StartsAsConfigured
  <2> SUFFICES ASSUME StartInv PROVE StartsAsConfigured
    OBVIOUS
  <2>1. ASSUME starting = "running"
        PROVE  /\ \A k \in DOMAIN Meant : settings[k] = Meant[k]
               /\ DOMAIN data = DOMAIN File
                                   \cup {k \in {"enabled", "mistral"} : Wanted(k) # ""}
               /\ Wanted("enabled") # "false" => settings.enabled
               /\ settings.secret = "strong"
               /\ Meant.production => /\ Wanted("JWT_SECRET") = "strong"
                                      /\ Meant.database = "own"
                                      /\ ~ Meant.self_serve
    <3>1. /\ Objections(Built) = {} /\ settings = [Built EXCEPT !.secret = "strong"]
          /\ ~ Broken(data) /\ starting \in AfterOverrides
      BY <2>1 DEF StartInv, SettingsMade, NumbersRead, AfterOverrides
    <3>2. /\ settings.secret = "strong" /\ settings.enabled = Built.enabled
          /\ settings.production = Built.production /\ settings.self_serve = Built.self_serve
          /\ settings.default = Built.default /\ settings.fallbacks = Built.fallbacks
          /\ settings.max_tokens = Built.max_tokens /\ settings.backend = Built.backend
          /\ settings.database = Built.database
      BY <3>1 DEF Built
    <3>3. /\ Built.production = Meant.production /\ Built.default = Meant.default
          /\ Built.self_serve <=> Meant.self_serve
      BY <3>1, ObjectionsRead DEF Meant
    <3>4. Built.self_serve = Meant.self_serve
      <4>1. Built.self_serve \in BOOLEAN
        BY DEF Built, Truthy
      <4>2. Meant.self_serve \in BOOLEAN
        BY DEF Meant
      <4> QED BY <3>3, <4>1, <4>2
    <3>5. /\ Built.fallbacks = Meant.fallbacks /\ Built.backend = Meant.backend
          /\ Built.max_tokens = Meant.max_tokens
      BY <3>1, SettingsRead, NumberRead DEF Built, Meant
    <3>6. Built.database = Meant.database
      BY <3>1, DatabaseRead DEF Built, Meant
    <3>7. DOMAIN Meant = {"production", "self_serve", "default", "fallbacks", "max_tokens",
                          "backend", "database"}
      BY DEF Meant
    <3>8. \A k \in DOMAIN Meant : settings[k] = Meant[k]
      <4> SUFFICES ASSUME NEW k \in {"production", "self_serve", "default", "fallbacks",
                                     "max_tokens", "backend", "database"}
                   PROVE  settings[k] = Meant[k]
        BY <3>7
      <4>1. CASE k \in {"production", "self_serve", "default"}
        BY <3>2, <3>3, <3>4, <4>1
      <4>2. CASE k \in {"fallbacks", "max_tokens", "backend", "database"}
        BY <3>2, <3>5, <3>6, <4>2
      <4> QED BY <4>1, <4>2
    <3>9. Meant.production => /\ Wanted("JWT_SECRET") = "strong"
                             /\ Meant.database = "own" /\ ~ Meant.self_serve
      BY <3>1, ObjectionsRead DEF Meant
    <3> QED BY <3>1, <3>2, <3>8, <3>9, BesideTheFile
  <2>2. ASSUME starting = "refused"
        PROVE  \/ Wanted("max_tokens") = "many"
               \/ Wanted("default_provider") = "mistral" /\ Wanted("mistral") = ""
               \/ Meant.production /\ (\/ Wanted("JWT_SECRET") # "strong"
                                       \/ Meant.database # "own" \/ Meant.self_serve)
    <3>1. Broken(data) \/ Objections(Built) # {}
      BY <2>2 DEF StartInv, RefusedFor
    <3> QED BY <2>2, <3>1, BrokenNumber, ObjectionsRead DEF AfterOverrides, Meant
  <2> QED BY <2>1, <2>2 DEF StartsAsConfigured
<1> QED BY StartStarts, StartSteps, <1>1, PTL DEF StartSpec

\* So it is in every state of a start.
LEMMA EnvironKnown == StartInv => Texted(environ)
BY EnvironTexted DEF StartInv

\* The kinds of values at each step of the start.
LEMMA StartTyped ==
    /\ StartInit => StartTypeOK
    /\ StartInv' /\ StartTypeOK /\ [StartNext]_startVars => StartTypeOK'
<1> DEFINE Types == {"str", "bool", "int", "ValueError"}
<1>1. \A k \in DOMAIN File : File[k].type \in Types
  BY FileRead DEF Str, Bool, Number
<1>2. ASSUME StartInit PROVE StartTypeOK
  <2>1. DOMAIN environ \subseteq DOMAIN Texts
    BY <1>2, StartStarts, EnvironTexted DEF StartInv, Texted
  <2>2. data = File /\ starting = "backend/.env"
    BY <1>2 DEF StartInit
  <2> QED BY <1>1, <2>1, <2>2 DEF StartTypeOK
<1>3. ASSUME StartInv', StartTypeOK, [StartNext]_startVars PROVE StartTypeOK'
  <2>1. DOMAIN environ' \subseteq DOMAIN Texts
    <3>1. Texted(environ)'
      BY <1>3, EnvironKnown, PTL
    <3> QED BY <3>1 DEF Texted
  <2>2. /\ starting' \in {"backend/.env", ".env", "overrides", "checks", "container",
                          "running", "refused"}
        /\ starting' = "running" => container'.usable \subseteq container'.registered
    <3>1. CASE BuildContainer
      <4>1. /\ container'.registered = Registered /\ container'.usable = Usable(settings)
            /\ starting' = "running"
        BY <3>1 DEF BuildContainer
      <4> QED BY <4>1 DEF Usable
    <3>2. CASE LoadDotenv \/ ApplyOverrides \/ BuildSettings
      BY <1>3, <3>2 DEF LoadDotenv, ApplyOverrides, BuildSettings, StartTypeOK
    <3>3. CASE StartEnds \/ UNCHANGED startVars
      BY <1>3, <3>3 DEF StartEnds, startVars, StartTypeOK
    <3> QED BY <1>3, <3>1, <3>2, <3>3 DEF StartNext
  <2>3. \A k \in DOMAIN data' : data'[k].type \in Types
    <3>1. CASE ApplyOverrides
      <4>1. data' = Overridden
        BY <3>1 DEF ApplyOverrides, Overridden, Overriding, Present
      <4>2. \A raw, current : Coerce(raw, current).type \in Types
        BY DEF Coerce, Str, Bool, Number
      <4>3. \A k \in DOMAIN Overridden : Overridden[k].type \in Types
        BY <1>1, <4>2, OverriddenIs
      <4> QED BY <4>1, <4>3
    <3>2. CASE UNCHANGED data
      BY <1>3, <3>2 DEF StartTypeOK
    <3> QED BY <1>3, <3>1, <3>2
          DEF StartNext, LoadDotenv, BuildSettings, BuildContainer, StartEnds, startVars
  <2> QED BY <2>1, <2>2, <2>3 DEF StartTypeOK
<1> QED BY <1>2, <1>3

-----------------------------------------------------------------------------
(* The components together *)

\* The instance that TLC explores is an interleaving of its components: each
\* of them, seen by itself, only does what its own specification allows.
THEOREM PartsOfReview == ReviewSpec => Spec /\ PlanSpec /\ StartSpec
<1>1. ReviewInit => Init /\ PlanInit /\ StartInit
  BY DEF ReviewInit
<1>2. [ReviewNext]_reviewVars
          => [Next]_vars /\ [PlanNext]_planVars /\ [StartNext]_startVars
  BY DEF ReviewNext, reviewVars
<1> QED BY <1>1, <1>2, PTL DEF ReviewSpec, Spec, PlanSpec, StartSpec

\* The variables of a run, of the plan with its pages and of the start have
\* their types throughout.
THEOREM ReviewTyped == ReviewSpec => []ReviewTypeOK
<1>1. PlanInit => WithinBounds
  <2> SUFFICES ASSUME PlanInit PROVE WithinBounds
    OBVIOUS
  <2>1. redeploys = 0 /\ saves = 0
    BY DEF PlanInit
  <2> QED BY <2>1, AskingCounted, PlanAssumption DEF WithinBounds
<1>2. PlanInv /\ WithinBounds /\ [PlanNext]_planVars => WithinBounds'
  BY BoundsStep DEF PlanInv
<1>3. PlanSpec => []PlanTypeOK
  BY <1>1, <1>2, PlanStarts, PlanSteps, PlanTyped, PTL DEF PlanSpec
<1>4. StartSpec => []StartTypeOK
  BY StartTyped, StartStarts, StartSteps, PTL DEF StartSpec
<1>5. TypeOK /\ PlanTypeOK /\ StartTypeOK => ReviewTypeOK
  BY DEF ReviewTypeOK
<1> QED BY <1>3, <1>4, <1>5, PartsOfReview, RunTypeCorrect, PTL

=============================================================================
