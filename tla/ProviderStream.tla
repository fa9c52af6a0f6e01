--------------------------- MODULE ProviderStream ---------------------------
(***************************************************************************)
(* One streamed reply of a model: what the service sends, and what the     *)
(* adapter makes of it.  The three dialects differ in how a tool call      *)
(* travels (in fragments that are put together at the end, in blocks that  *)
(* are started and stopped, or whole) and in where the usage is reported.  *)
(* A fragment is a pair of its call and its number; every piece of text    *)
(* and every fragment costs one output token.                              *)
(***************************************************************************)
EXTENDS Integers, Sequences, SequencesExt

CONSTANTS
    Fragments,  \* a sequence: how many fragments the arguments of a call have
    MaxText,    \* bound: pieces of text in a reply
    Dialects    \* the adapters: some of openai, anthropic and ollama

ASSUME StreamAssumption ==
    /\ Fragments \in Seq(Nat) /\ MaxText \in Nat
    /\ Dialects \subseteq {"openai", "anthropic", "ollama"}

VARIABLES
    dialect,    \* the adapter at work
    opened,     \* how many calls the service has begun; they are numbered
    sent,       \* of each call: how many of its fragments have been sent
    stopped,    \* the calls whose block has been stopped (anthropic)
    texts,      \* pieces of text sent
    slots,      \* the parser's _calls or _blocks: call -> [named, raw]
    counted,    \* the parser's _output_tokens (anthropic)
    yielded,    \* the StreamEvents handed to the runner
    reply,      \* streaming, summed (its usage is sent), over or failed
    flaws       \* what went wrong so far: cut, garbled, early

serverVars == <<opened, sent, stopped, texts>>
parserVars == <<slots, counted, yielded>>
streamVars == <<dialect, serverVars, parserVars, reply, flaws>>

CallNumbers == DOMAIN Fragments
Produced ==
    LET total[n \in 0..Len(Fragments)] ==
          IF n = 0 THEN texts ELSE total[n - 1] + sent[n]
    IN  total[Len(Fragments)]

\* The max_tokens limit has not been reached.
MayGoOn == reply = "streaming" /\ "cut" \notin flaws

\* The response has begun; Anthropic's message_start, which counts one output
\* token, has been read.
StreamInit ==
    /\ dialect \in Dialects
    /\ opened = 0
    /\ sent = [i \in CallNumbers |-> 0]
    /\ stopped = {}
    /\ texts = 0
    /\ slots = <<>>
    /\ counted = IF dialect = "anthropic" THEN 1 ELSE 0
    /\ yielded = <<>>
    /\ reply = "streaming"
    /\ flaws = {}

-----------------------------------------------------------------------------
(* What the parsers do with a chunk *)

\* _parse_args: nothing is an empty object; what is no JSON stays raw text.
ParseArgs(i, raw) ==
    CASE raw = <<>>                    -> "empty"
      [] Len(raw) = Fragments[i]       -> "parsed"
      [] OTHER                         -> "_raw"

ToolEvent(i, raw) ==
    [kind |-> "tool", call |-> i, raw |-> raw, args |-> ParseArgs(i, raw)]
TextEvent == [kind |-> "text"]
UsageEvent(n) == [kind |-> "usage", tokens |-> n]

Yield(events) == yielded' = yielded \o events

\* setdefault(index, ...)
SlotAt(i) == IF i \in DOMAIN slots THEN slots[i]
                                   ELSE [named |-> FALSE, raw |-> <<>>]
PutSlot(i, slot) ==
    slots' = [j \in DOMAIN slots \cup {i} |-> IF j = i THEN slot ELSE slots[j]]

\* Mutant of TakeFragment: the index of the chunk is ignored.
TakeFragmentAtLast(i, k) ==
    LET at == IF slots = <<>> THEN i ELSE Max(DOMAIN slots)
    IN  /\ PutSlot(at, [SlotAt(at) EXCEPT !.raw = Append(@, <<i, k>>)])
        /\ UNCHANGED <<counted, yielded>>

\* slot["arguments"] += ...; Anthropic's parser knows only started blocks.
TakeFragment(i, k) ==
    /\ IF dialect = "anthropic" /\ i \notin DOMAIN slots
       THEN UNCHANGED slots
       ELSE PutSlot(i, [SlotAt(i) EXCEPT !.raw = Append(@, <<i, k>>)])
    /\ UNCHANGED <<counted, yielded>>

\* Mutant of TakeCount: the cumulative count is taken for an increment.
TakeCountAsDelta(n) ==
    /\ counted' = counted + n
    /\ UNCHANGED <<slots, yielded>>

\* message_delta: output_tokens is cumulative, message_start's included.
TakeCount(n) ==
    /\ counted' = n
    /\ UNCHANGED <<slots, yielded>>

\* OpenAIStreamParser.finish: the named calls in the order of their index.
Finished ==
    LET calls[i \in 0..Len(Fragments)] ==
          IF i = 0 THEN <<>>
          ELSE IF i \in DOMAIN slots /\ slots[i].named
          THEN Append(calls[i - 1], ToolEvent(i, slots[i].raw)) ELSE calls[i - 1]
    IN  calls[Len(Fragments)]

-----------------------------------------------------------------------------
(* What the service sends *)

\* A chunk reaches the parser.  Once, a proxy may damage one: a payload that
\* is no JSON is skipped without a word.
Arrives(parsed) ==
    \/ parsed /\ UNCHANGED flaws
    \/ /\ "garbled" \notin flaws
       /\ flaws' = flaws \cup {"garbled"}
       /\ UNCHANGED parserVars

SendText ==
    /\ MayGoOn /\ texts < MaxText
    /\ texts' = texts + 1
    /\ Arrives(Yield(<<TextEvent>>) /\ UNCHANGED <<slots, counted>>)
    /\ UNCHANGED <<dialect, opened, sent, stopped, reply>>

\* The first delta of a call, or its content_block_start, with its name.
\* Anthropic's blocks follow one another; OpenAI's calls may overlap.
StartCall ==
    /\ MayGoOn /\ dialect # "ollama"
    /\ opened < Len(Fragments)
    /\ dialect = "anthropic" => stopped = 1..opened
    /\ opened' = opened + 1
    /\ Arrives(/\ PutSlot(opened', [named |-> TRUE, raw |-> <<>>])
               /\ UNCHANGED <<counted, yielded>>)
    /\ UNCHANGED <<dialect, sent, stopped, texts, reply>>

SendFragment ==
    /\ MayGoOn /\ dialect # "ollama"
    /\ \E i \in 1..opened :
          /\ sent[i] < Fragments[i]
          /\ sent' = [sent EXCEPT ![i] = @ + 1]
          /\ Arrives(TakeFragment(i, sent'[i]))
    /\ UNCHANGED <<dialect, opened, stopped, texts, reply>>

\* content_block_stop; a block that was cut off is stopped as well.
StopBlock ==
    /\ reply = "streaming" /\ dialect = "anthropic"
    /\ opened > 0 /\ opened \notin stopped
    /\ sent[opened] = Fragments[opened] \/ "cut" \in flaws
    /\ stopped' = stopped \cup {opened}
    /\ Arrives(IF opened \in DOMAIN slots
               THEN /\ Yield(<<ToolEvent(opened, slots[opened].raw)>>)
                    /\ slots' = Restrict(slots, DOMAIN slots \ {opened})
                    /\ UNCHANGED counted
               ELSE UNCHANGED parserVars)
    /\ UNCHANGED <<dialect, opened, sent, texts, reply>>

\* Ollama sends a call whole; a line may hold several.
SendCalls ==
    /\ MayGoOn /\ dialect = "ollama"
    /\ \E upTo \in (opened + 1)..Len(Fragments) :
          LET all(i) == [k \in 1..Fragments[i] |-> <<i, k>>]
          IN  /\ opened' = upTo
              /\ sent' = [i \in CallNumbers |-> IF i <= upTo THEN Fragments[i]
                                                            ELSE 0]
              /\ Arrives(/\ Yield([n \in 1..(upTo - opened) |->
                                    ToolEvent(opened + n, all(opened + n))])
                         /\ UNCHANGED <<slots, counted>>)
    /\ UNCHANGED <<dialect, stopped, texts, reply>>

\* max_tokens is reached: the reply stops where it is.
CutOff ==
    /\ MayGoOn
    /\ flaws' = flaws \cup {"cut"}
    /\ UNCHANGED <<dialect, serverVars, parserVars, reply>>

\* All that was begun is complete, or cut off.
AllSent ==
    /\ "cut" \in flaws \/ \A i \in 1..opened : sent[i] = Fragments[i]
    /\ dialect = "anthropic" => stopped = 1..opened

\* OpenAI's usage chunk and Ollama's last line report at once; Anthropic's
\* message_delta is reported by message_stop.
SendUsage ==
    /\ reply = "streaming" /\ AllSent
    /\ reply' = "summed"
    /\ Arrives(IF dialect = "anthropic" THEN TakeCount(Produced)
               ELSE /\ Yield(<<UsageEvent(Produced)>>)
                    /\ UNCHANGED <<slots, counted>>)
    /\ UNCHANGED <<dialect, serverVars>>

\* [DONE], message_stop, or the end of the lines.
SendEnd ==
    /\ reply = "summed"
    /\ reply' = "over"
    /\ CASE dialect = "openai"    -> Yield(Finished) /\ slots' = <<>>
                                     /\ UNCHANGED <<counted, flaws>>
         [] dialect = "anthropic" -> Arrives(/\ Yield(<<UsageEvent(counted)>>)
                                             /\ UNCHANGED <<slots, counted>>)
         [] dialect = "ollama"    -> UNCHANGED <<parserVars, flaws>>
    /\ UNCHANGED <<dialect, serverVars>>

\* The body ends before the reply does, without an error.
EndEarly ==
    /\ reply = "streaming"
    /\ reply' = "over"
    /\ flaws' = flaws \cup {"early"}
    /\ IF dialect = "openai" THEN Yield(Finished) /\ slots' = <<>>
                             ELSE UNCHANGED <<slots, yielded>>
    /\ UNCHANGED <<dialect, serverVars, counted>>

\* An HTTP status of 400 or more, an error chunk, a timeout or a broken
\* connection: the adapter raises, and what the parser holds is lost.
Fail ==
    /\ reply \in {"streaming", "summed"}
    /\ reply' = "failed"
    /\ UNCHANGED <<dialect, serverVars, parserVars, flaws>>

\* The reply has ended.
StreamStopped == reply \in {"over", "failed"} /\ UNCHANGED streamVars

StreamNext ==
    \/ SendText \/ StartCall \/ SendFragment \/ StopBlock \/ SendCalls
    \/ CutOff \/ SendUsage \/ SendEnd \/ EndEarly \/ Fail
    \/ StreamStopped

StreamSpec == StreamInit /\ [][StreamNext]_streamVars

-----------------------------------------------------------------------------
(* Properties *)

\* The parsers hold and yield fragments, and count tokens.
StreamTypeOK ==
    /\ dialect \in Dialects
    /\ opened \in 0..Len(Fragments)
    /\ sent \in [CallNumbers -> Nat]
    /\ stopped \subseteq CallNumbers
    /\ texts \in 0..MaxText
    /\ DOMAIN slots \subseteq 1..opened
    /\ counted \in Nat
    /\ \A n \in DOMAIN yielded : yielded[n].kind \in {"text", "tool", "usage"}
    /\ reply \in {"streaming", "summed", "over", "failed"}
    /\ flaws \subseteq {"cut", "garbled", "early"}

YieldedCalls == {n \in DOMAIN yielded : yielded[n].kind = "tool"}
YieldedUsage == {n \in DOMAIN yielded : yielded[n].kind = "usage"}

\* A call the runner gets has fragments of no other call, in their order.
Unmixed(e) ==
    \A k \in DOMAIN e.raw :
        /\ e.raw[k][1] = e.call
        /\ k > 1 => e.raw[k - 1][2] < e.raw[k][2]

\* However the calls of a reply overlap, the runner gets each at most once
\* and in the model's order, and each with its own arguments.  They are
\* whole unless the reply was cut off, damaged or ended early; and once an
\* unharmed reply is over it got every call, and one report of all tokens.
CallsWhole ==
    /\ \A m, n \in YieldedCalls : m < n => yielded[m].call < yielded[n].call
    /\ \A n \in YieldedCalls : Unmixed(yielded[n])
    /\ flaws = {} =>
          \A n \in YieldedCalls :
              Len(yielded[n].raw) = Fragments[yielded[n].call]
    /\ flaws = {} /\ reply = "over" =>
          /\ {yielded[n].call : n \in YieldedCalls} = 1..opened
          /\ \E n \in YieldedUsage :
                YieldedUsage = {n} /\ yielded[n].tokens = Produced
=============================================================================
