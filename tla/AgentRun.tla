------------------------------ MODULE AgentRun ------------------------------
(***************************************************************************)
(* One run of the agent: the rounds of AgentRunner over the fallback chain *)
(* of ProviderRouter, with the part of StreamState they feed.  The model   *)
(* providers and the tools are the environment: a provider may refuse, be  *)
(* silent, write, call tools, break off or end; a tool call succeeds or    *)
(* not (its failure is an answer for the model as well).                   *)
(*                                                                         *)
(* A call stands for a tool name with its arguments.  The text of a turn   *)
(* is either nothing, prose (shown as it comes), or held back because it   *)
(* may be a tool call written as JSON: then it is the call it parses to,   *)
(* or NoCall.                                                              *)
(***************************************************************************)
EXTENDS Naturals, Sequences, SequencesExt, FiniteSets

CONSTANTS
    Providers,
    Preferred,      \* the provider pick_provider chose
    Fallbacks,      \* the configured fallback chain
    Allowed,        \* the providers of the user's plan
    MaxRounds,      \* max_tool_rounds
    Offered,        \* the calls of tools that have data behind them
    Withheld,       \* the calls of the profile's tools that have none
    Unknown,        \* calls of tools that do not exist
    NoCall,         \* held text that turns out to be no known call
    Costs,          \* the tokens one turn may be reported to have taken
    MaxCalls        \* bound: native tool calls in one turn

ASSUME AgentAssumption ==
    /\ Fallbacks \in Seq(Providers) /\ Allowed \subseteq Providers
    /\ Preferred \in Allowed
    /\ MaxRounds \in Nat /\ MaxCalls \in Nat /\ Costs \subseteq Nat
    /\ Offered \cap Withheld = {} /\ Unknown \cap (Offered \cup Withheld) = {}
    /\ NoCall \notin Offered \cup Withheld \cup Unknown

Calls == Offered \cup Withheld \cup Unknown
Known == Offered \cup Withheld

VARIABLES
    pc,         \* round, try, stream, tools, executing, ended
    round,      \* round_no
    provider,   \* who is asked first: whoever answered last
    chain, position,
    answerNow,  \* the tools are withdrawn
    usedTools,
    seen,       \* the calls already answered in this run
    text,       \* the text of this turn
    calls,      \* the calls of this turn, then those still to be run
    metered,    \* this turn's usage report has come
    messages,   \* what the next turn is given
    executed,   \* the calls handed to the executor, each with its round
    contacted,  \* the providers a request was sent to
    authors,    \* the providers whose text the user has seen
    reported,   \* ghost: what the providers reported, one entry per turn
    total,      \* the usage that AgentRunner.run has added up so far
    recorded,   \* StreamState.usage, which the bookkeeping will record
    status      \* StreamState.status; "empty" and "running" besides

run == <<round, provider, answerNow, usedTools, seen, messages, executed>>
turn == <<chain, position, text, calls, metered>>
seenByUser == <<contacted, authors, reported, total, recorded, status>>
vars == <<pc, run, turn, seenByUser>>

-----------------------------------------------------------------------------
(* The provider router *)

\* Mutants of ChainFor: the configured list is taken for one name, or the
\* fallbacks are not held against the plan.
ChainUnsplit(preferred) == <<preferred, Fallbacks>>
ChainIgnoringPlan(preferred) ==
    FoldLeft(LAMBDA c, name :
                IF name \in ToSet(c) THEN c ELSE Append(c, name),
             <<preferred>>, Fallbacks)

\* chain_for: the preferred provider, then the fallbacks the plan allows.
ChainFor(preferred) ==
    FoldLeft(LAMBDA c, name :
                IF name \in ToSet(c) \/ name \notin Allowed
                THEN c ELSE Append(c, name),
             <<preferred>>, Fallbacks)

UserMessage == [role |-> "user"]
AssistantMessage(cs) == [role |-> "assistant", calls |-> cs]
ToolReply(c) == [role |-> "tool", call |-> c]

Init ==
    /\ pc = "round" /\ round = 0
    /\ provider = Preferred
    /\ chain = <<>> /\ position = 1
    /\ answerNow = FALSE /\ usedTools = FALSE
    /\ seen = {}
    /\ text = "none" /\ calls = <<>> /\ metered = FALSE
    /\ messages = <<UserMessage>>
    /\ executed = <<>> /\ contacted = {} /\ authors = {}
    /\ reported = <<>> /\ total = 0 /\ recorded = 0
    /\ status = "running"

\* The top of the round: tools are offered or not, and the model is told to
\* answer when they are gone after having been used.
BeginRound ==
    /\ pc = "round"
    /\ LET tools == IF round < MaxRounds /\ ~answerNow THEN Offered ELSE {}
       IN messages' = IF tools = {} /\ usedTools
                      THEN Append(messages, UserMessage) ELSE messages
    /\ chain' = ChainFor(provider) /\ position' = 1
    /\ text' = "none" /\ calls' = <<>> /\ metered' = FALSE
    /\ pc' = "try"
    /\ UNCHANGED <<round, provider, answerNow, usedTools, seen, executed,
                   seenByUser>>

\* Mutant of RunRaises: the usage is handed over on the way out that went well.
RunRaisesWithoutUsage ==
    /\ pc' = "ended"
    /\ status' = "error"
    /\ UNCHANGED recorded

\* An exception leaves the rounds: AgentRunner.run hands over what it has added
\* up, unless that is nothing, and raises it again into the stream's `except`.
RunRaises ==
    /\ pc' = "ended"
    /\ status' = "error"
    /\ recorded' = IF total # 0 THEN recorded + total ELSE recorded

\* The rounds are over: AgentRunner.run hands over its sum, and the stream's
\* `else` clause finds an answer, or an error if there is no text.
EndOfRun ==
    /\ pc' = "ended"
    /\ recorded' = recorded + total
    /\ status' = IF authors' = {} THEN "empty"
                 ELSE IF status = "fallback" THEN "fallback" ELSE "ok"

\* _provider or the first event fails, or a provider that is not the last
\* of the chain is silent for first_token_timeout.
ProviderFails ==
    /\ pc = "try"
    /\ contacted' = contacted \cup {chain[position]}
    /\ IF position < Len(chain)
       THEN /\ position' = position + 1
            /\ UNCHANGED <<pc, recorded>>
            /\ status' = "fallback"
       ELSE RunRaises /\ UNCHANGED position
    /\ UNCHANGED <<run, chain, text, calls, metered, authors, reported, total>>

\* The first event has come (or the stream ended without one): from here on
\* this turn belongs to this provider.
ProviderAnswers ==
    /\ pc = "try"
    /\ contacted' = contacted \cup {chain[position]}
    /\ provider' = chain[position]
    /\ pc' = "stream"
    /\ UNCHANGED <<round, answerNow, usedTools, seen, messages, executed, turn,
                   authors, reported, total, recorded, status>>

\* A provider that breaks off after its first event: StreamInterrupted.
ProviderBreaksOff ==
    /\ pc = "stream"
    /\ text # "none" \/ calls # <<>> \/ metered
    /\ RunRaises
    /\ UNCHANGED <<run, turn, contacted, authors, reported, total>>

-----------------------------------------------------------------------------
(* The events of a turn *)

Prose ==
    /\ pc = "stream" /\ text = "none"
    /\ text' = "prose"
    /\ authors' = authors \cup {provider}
    /\ UNCHANGED <<pc, run, chain, position, calls, metered, contacted,
                   reported, total, recorded, status>>

\* Text that could be a tool call is held while the profile has any tool.
Held ==
    /\ pc = "stream" /\ text = "none"
    /\ Known # {}
    /\ text' \in Known \cup {NoCall}
    /\ UNCHANGED <<pc, run, chain, position, calls, metered, seenByUser>>

NativeCall ==
    /\ pc = "stream" /\ Len(calls) < MaxCalls
    /\ \E c \in Calls : calls' = Append(calls, c)
    /\ UNCHANGED <<pc, run, chain, position, text, metered, seenByUser>>

\* Mutant of UsageReport: the last round's usage takes the place of the sum.
UsageReportOfLastRound ==
    /\ pc = "stream" /\ ~metered
    /\ metered' = TRUE
    /\ \E cost \in Costs :
          /\ reported' = Append(reported, cost)
          /\ total' = cost
    /\ UNCHANGED <<pc, run, chain, position, text, calls, contacted, authors,
                   recorded, status>>

\* A provider's usage event is added up in AgentRunner.run and goes no further.
UsageReport ==
    /\ pc = "stream" /\ ~metered
    /\ metered' = TRUE
    /\ \E cost \in Costs :
          /\ reported' = Append(reported, cost)
          /\ total' = total + cost
    /\ UNCHANGED <<pc, run, chain, position, text, calls, contacted, authors,
                   recorded, status>>

\* Held text that is the turn's only call is run as one.
Recovered == IF text \in Known /\ calls = <<>> THEN <<text>> ELSE <<>>

\* Mutant of CallsToRun: the last round runs what it is asked to.
CallsOfAnyRound == calls \o Recovered

\* The calls this turn leads to: none in the last round, where there is no
\* turn left to use their results in.
CallsToRun == IF round = MaxRounds THEN <<>> ELSE calls \o Recovered

\* The turn ends.  Held text is shown unless it was a call; without calls to
\* run the answer is complete, and an answer with no text is an error.
EndTurn ==
    /\ pc = "stream"
    /\ authors' = IF text \in Known \cup {NoCall} /\ Recovered = <<>>
                  THEN authors \cup {provider} ELSE authors
    /\ text' = IF Recovered # <<>> THEN "none" ELSE text
    /\ IF CallsToRun = <<>>
       THEN /\ EndOfRun
            /\ UNCHANGED <<usedTools, messages, calls>>
       ELSE /\ pc' = "tools"
            /\ usedTools' = TRUE
            /\ calls' = CallsToRun
            /\ messages' = Append(messages, AssistantMessage(CallsToRun))
            /\ UNCHANGED <<recorded, status>>
    /\ UNCHANGED <<round, provider, answerNow, seen, executed, chain, position,
                   metered, contacted, reported, total>>

-----------------------------------------------------------------------------
(* The tools *)

\* Mutants of RepeatedCall: the call is run again, left without a reply, or
\* not expected once the tools are withdrawn.
RepeatedCallAgain ==
    /\ pc = "tools" /\ calls # <<>> /\ Head(calls) \in seen
    /\ executed' = Append(executed, [call |-> Head(calls), round |-> round])
    /\ pc' = "executing"
    /\ UNCHANGED <<round, provider, answerNow, usedTools, seen, messages, turn,
                   seenByUser>>
RepeatedCallUnanswered ==
    /\ pc = "tools" /\ calls # <<>> /\ Head(calls) \in seen
    /\ answerNow' = TRUE
    /\ calls' = Tail(calls)
    /\ UNCHANGED <<pc, round, provider, usedTools, seen, messages, executed,
                   chain, position, text, metered, seenByUser>>

RepeatedCallOnce ==
    /\ pc = "tools" /\ calls # <<>> /\ Head(calls) \in seen
    /\ ~answerNow
    /\ answerNow' = TRUE
    /\ messages' = Append(messages, ToolReply(Head(calls)))
    /\ calls' = Tail(calls)
    /\ UNCHANGED <<pc, round, provider, usedTools, seen, executed, chain,
                   position, text, metered, seenByUser>>

\* A call already answered is not run again; the tools are withdrawn.
RepeatedCall ==
    /\ pc = "tools" /\ calls # <<>> /\ Head(calls) \in seen
    /\ answerNow' = TRUE
    /\ messages' = Append(messages, ToolReply(Head(calls)))
    /\ calls' = Tail(calls)
    /\ UNCHANGED <<pc, round, provider, usedTools, seen, executed, chain,
                   position, text, metered, seenByUser>>

\* tool_start; a call of a withheld tool withdraws the tools.
StartTool ==
    /\ pc = "tools" /\ calls # <<>> /\ Head(calls) \notin seen
    /\ seen' = seen \cup {Head(calls)}
    /\ answerNow' = (answerNow \/ Head(calls) \in Withheld)
    /\ executed' = Append(executed, [call |-> Head(calls), round |-> round])
    /\ pc' = "executing"
    /\ UNCHANGED <<round, provider, usedTools, messages, turn, seenByUser>>

\* tool_end: whatever execute() answered goes to the model.
EndTool ==
    /\ pc = "executing"
    /\ messages' = Append(messages, ToolReply(Head(calls)))
    /\ calls' = Tail(calls)
    /\ pc' = "tools"
    /\ UNCHANGED <<round, provider, answerNow, usedTools, seen, executed,
                   chain, position, text, metered, seenByUser>>

\* The next round, if there is one.
EndRound ==
    /\ pc = "tools" /\ calls = <<>>
    /\ UNCHANGED authors
    /\ IF round < MaxRounds
       THEN /\ round' = round + 1 /\ pc' = "round"
            /\ UNCHANGED <<recorded, status>>
       ELSE EndOfRun /\ UNCHANGED round
    /\ UNCHANGED <<provider, answerNow, usedTools, seen, messages, executed,
                   turn, contacted, reported, total>>

\* The browser goes away: GeneratorExit passes run() by, so the usage it has
\* added up is lost.
ClientLeaves ==
    /\ pc # "ended"
    /\ pc' = "ended"
    /\ status' = "cancelled"
    /\ UNCHANGED <<run, turn, contacted, authors, reported, total, recorded>>

Ended == pc = "ended" /\ UNCHANGED vars

Step ==
    \/ BeginRound \/ ProviderFails \/ ProviderAnswers \/ ProviderBreaksOff
    \/ Prose \/ Held \/ NativeCall \/ UsageReport \/ EndTurn
    \/ RepeatedCall \/ StartTool \/ EndTool \/ EndRound

Next == Step \/ ClientLeaves \/ Ended

Spec == Init /\ [][Next]_vars

\* The loop goes on by itself; every await of it has a timeout (the first
\* event of the last provider and each read have the provider's own).
FairSpec == Spec /\ WF_vars(Step)

-----------------------------------------------------------------------------
(* Properties *)

TypeOK ==
    /\ pc \in {"round", "try", "stream", "tools", "executing", "ended"}
    /\ round \in 0..MaxRounds
    /\ provider \in Providers
    /\ chain \in Seq(Providers)
    /\ position \in Nat \ {0}
    /\ answerNow \in BOOLEAN /\ usedTools \in BOOLEAN /\ metered \in BOOLEAN
    /\ seen \subseteq Calls
    /\ text \in {"none", "prose", NoCall} \cup Known
    /\ calls \in Seq(Calls)
    /\ executed \in Seq([call : Calls, round : 0..MaxRounds])
    /\ contacted \subseteq Providers /\ authors \subseteq Providers
    /\ reported \in Seq(Costs) /\ total \in Nat /\ recorded \in Nat
    /\ status \in {"running", "fallback", "ok", "empty", "error", "cancelled"}

\* Whatever the model repeats, within a turn or in a later round, natively or
\* as JSON text, a call is run once (runner.py `seen`).
NoCallTwice ==
    \A i, j \in 1..Len(executed) :
        executed[i].call = executed[j].call => i = j

\* How many tool calls a message makes.
CallsIn(m) == IF m.role = "assistant" THEN Len(m.calls) ELSE 0

\* The calls of message i have one reply each, right after it and in order.
AnsweredAt(ms, i) ==
    /\ i + CallsIn(ms[i]) <= Len(ms)
    /\ \A k \in 1..CallsIn(ms[i]) : ms[i + k] = ToolReply(ms[i].calls[k])
    /\ i + CallsIn(ms[i]) < Len(ms) => ms[i + CallsIn(ms[i]) + 1].role # "tool"

Answered(ms) == \A i \in 1..Len(ms) : ms[i].role # "tool" => AnsweredAt(ms, i)

\* When a turn is sent, every tool call the model made in the turns before is
\* answered, as the providers' APIs demand.
CallsAnswered == pc \in {"try", "stream"} => Answered(messages)

\* An answer is never the end of a tool round: what was looked up was given
\* to a later turn (runner.py:163).
AnswersFollowTools ==
    status \in {"ok", "fallback", "empty"} /\ pc = "ended" =>
        \A i \in 1..Len(executed) : executed[i].round < round

\* Falling back, in whichever round, never reaches a provider outside the
\* user's plan (chain_for, runner.allow_provider).
PlanRespected == contacted \subseteq Allowed

\* The tokens of some turns' reports together.
TokensOf(reports) == FoldLeft(LAMBDA sum, cost : sum + cost, 0, reports)

\* Unless the user stopped it, a run that ends records the tokens of all its
\* turns, of the earlier ones too when a later one fails (AgentRunner.run's
\* `except` and its last line; the stream adds up what it is handed).
ReportedUsageRecorded ==
    pc = "ended" /\ status # "cancelled" => recorded = TokensOf(reported)

\* architecture.md, "Providers and fallback": a second model's answer is
\* never spliced onto the first.
OneAuthor == Cardinality(authors) <= 1
=============================================================================
