--------------------------- MODULE Conversations ---------------------------
(***************************************************************************)
(* The conversations of one user: which rows chats leave in them when they *)
(* overlap, fail, are stopped or lose their conversation, and which        *)
(* context a later chat builds from those rows for its model.  Of a text   *)
(* only matters whether it is blank; titles and timestamps are left out,   *)
(* the rows are in the order of created_at.                                *)
(***************************************************************************)
EXTENDS Integers, Sequences, SequencesExt

CONSTANTS
    Sessions,       \* ids of conversations, each used once
    Chats,          \* requests to POST /chat, each made once
    HistoryMessages \* settings.history_messages

ASSUME ConversationAssumption == HistoryMessages \in Nat \ {0}

VARIABLES
    sessions,   \* the conversations that exist
    used,       \* those that were ever begun
    stored,     \* the chat_messages, oldest first
    stage,      \* of each chat: idle, new, read, asked, running or over
    talk,       \* of each chat: its conversation, if it has one yet
    history,    \* of each chat: the messages its run begins with
    offered,    \* the running chats whose model is offered get_past_reviews
    missed      \* the running chats during which a conversation was deleted

conversationVars ==
    <<sessions, used, stored, stage, talk, history, offered, missed>>

ConversationInit ==
    /\ sessions = {} /\ used = {}
    /\ stored = <<>>
    /\ stage = [c \in Chats |-> "idle"]
    /\ talk = [c \in Chats |-> {}]
    /\ history = [c \in Chats |-> <<>>]
    /\ offered = {} /\ missed = {}

Row(s, role, status, content) ==
    [session |-> s, role |-> role, status |-> status, content |-> content]

\* A Message of the agent; calls says whether it carries tool calls.
Said(role, content, calls) ==
    [role |-> role, content |-> content, calls |-> calls]

Blank(content) == content \in {"", "spaces"}

Running == {c \in Chats : stage[c] = "running"}
Become(c, st) == stage' = [stage EXCEPT ![c] = st]

-----------------------------------------------------------------------------
(* The requests *)

\* The rows of a sequence that are in a set, in their order.
Filter(seq, S) ==
    LET kept[n \in 0..Len(seq)] ==
          IF n = 0 THEN <<>>
          ELSE IF seq[n] \in S THEN Append(kept[n - 1], seq[n]) ELSE kept[n - 1]
    IN  kept[Len(seq)]

\* recent_history: the newest rows that are no errors, less the blank ones.
RecentHistory(s) ==
    LET table == Range(stored)
        kept == Filter(stored, {r \in table : r.session = s /\ r.status # "error"})
        first == Max({1, Len(kept) - HistoryMessages + 1})
        said == Filter(SubSeq(kept, first, Len(kept)),
                       {r \in table : ~ Blank(r.content)})
    IN  [n \in DOMAIN said |-> Said(said[n].role, said[n].content, FALSE)]

\* The rows that /reviews/recent returns for another conversation than s.
PastReviews(s) ==
    {r \in Range(stored) : /\ r.session # s /\ r.role = "assistant"
                           /\ r.status # "error" /\ r.content # ""}

\* POST /sessions
CreateSession(s) ==
    /\ s \notin used
    /\ sessions' = sessions \cup {s}
    /\ used' = used \cup {s}
    /\ UNCHANGED <<stored, stage, talk, history, offered, missed>>

\* get_or_create_session, and the history of what it found.
OpenChat(c, s) ==
    /\ stage[c] = "idle"
    /\ s \in sessions \/ s \notin used
    /\ Become(c, IF s \in used THEN "read" ELSE "new")
    /\ used' = used \cup {s}
    /\ talk' = [talk EXCEPT ![c] = {s}]
    /\ history' = [history EXCEPT ![c] = RecentHistory(s)]
    /\ UNCHANGED <<sessions, stored, offered, missed>>

\* The question is committed, together with a new conversation; a
\* conversation that was deleted meanwhile makes the commit fail.
CommitQuestion(c) ==
    \E s \in talk[c] :
        /\ stage[c] = "new" \/ (stage[c] = "read" /\ s \in sessions)
        /\ sessions' = sessions \cup {s}
        /\ stored' = Append(stored, Row(s, "user", "ok", "words"))
        /\ history' = [history EXCEPT ![c] =
                           Append(@, Said("user", "words", FALSE))]
        /\ Become(c, "asked")
        /\ UNCHANGED <<used, talk, offered, missed>>

\* Mutant of ToolsWithData: the rows of this conversation count as well.
ToolsWithDataAnywhere(c) == \E s \in Sessions : PastReviews(s) # {}

\* tools_with_data: get_past_reviews is kept when it has something to return.
ToolsWithData(c) == \E s \in talk[c] : PastReviews(s) # {}

\* The tools are looked up and the run starts.
StartRun(c) ==
    /\ stage[c] = "asked"
    /\ offered' = IF ToolsWithData(c) THEN offered \cup {c} ELSE offered
    /\ Become(c, "running")
    /\ UNCHANGED <<sessions, used, stored, talk, history, missed>>

\* A request that fails before its run, or a run whose worker dies: nothing
\* more is stored, a committed question stays.
FailChat(c) ==
    /\ stage[c] \in {"new", "read", "asked", "running"}
    /\ Become(c, "over")
    /\ UNCHANGED <<sessions, used, stored, talk, history, offered, missed>>

\* How a run may end: its status, and the text it leaves.
Endings ==
    {<<"ok", "words">>, <<"error", "words">>, <<"cancelled", "words">>,
     <<"cancelled", "spaces">>, <<"cancelled", "">>}

\* _persist: the reply row, unless the conversation is gone.
PersistReply(c) ==
    /\ stage[c] = "running"
    /\ \E e \in Endings, s \in talk[c] :
          stored' = IF s \in sessions
                    THEN Append(stored, Row(s, "assistant", e[1], e[2]))
                    ELSE stored
    /\ Become(c, "over")
    /\ UNCHANGED <<sessions, used, talk, history, offered, missed>>

DeleteSession(s) ==
    /\ s \in sessions
    /\ sessions' = sessions \ {s}
    /\ stored' = Filter(stored, {r \in Range(stored) : r.session # s})
    /\ missed' = missed \cup Running
    /\ UNCHANGED <<used, stage, talk, history, offered>>

\* Every chat was made, or there are no ids left to begin one with.
ConversationsStopped ==
    /\ \A c \in Chats : stage[c] \in {"idle", "over"}
    /\ \/ sessions = {} /\ used = Sessions
       \/ \A c \in Chats : stage[c] = "over"
    /\ UNCHANGED conversationVars

ConversationNext ==
    \/ \E s \in Sessions : CreateSession(s) \/ DeleteSession(s)
    \/ \E c \in Chats, s \in Sessions : OpenChat(c, s)
    \/ \E c \in Chats : \/ CommitQuestion(c) \/ StartRun(c)
                        \/ FailChat(c) \/ PersistReply(c)
    \/ ConversationsStopped

ConversationSpec == ConversationInit /\ [][ConversationNext]_conversationVars

-----------------------------------------------------------------------------
(* What the adapters send: the messages in each wire format *)

\* openai_messages: one entry for each message, behind the system prompt.
OpenAIMessages(messages) ==
    <<Said("system", "words", FALSE)>> \o messages

Turn(role, blocks) == [role |-> role, blocks |-> blocks]

\* The content blocks of one message; a blank text is left out.
Blocks(message) ==
    LET text == IF Blank(message.content) THEN <<>> ELSE <<"text">>
    IN  CASE message.role = "tool"      -> <<"tool_result">>
          [] message.role = "assistant" ->
                 text \o (IF message.calls THEN <<"tool_use">> ELSE <<>>)
          [] OTHER                      -> text
Side(message) == IF message.role = "assistant" THEN "assistant" ELSE "user"

\* Mutant of Push: every message becomes a turn of its own.
PushUnmerged(turns, message) ==
    IF Blocks(message) = <<>> THEN turns
    ELSE Append(turns, Turn(Side(message), Blocks(message)))

\* push: neighbours of the same role are merged, empty turns are skipped.
Push(turns, message) ==
    IF Blocks(message) = <<>> THEN turns
    ELSE IF turns # <<>> /\ Last(turns).role = Side(message)
    THEN [turns EXCEPT ![Len(turns)].blocks = @ \o Blocks(message)]
    ELSE Append(turns, Turn(Side(message), Blocks(message)))

\* Mutant of Trim: what the window was cut in front of stays.
TrimNothing(turns) == turns

\* The first turn must be the user's, and more than tool results.
Trim(turns) ==
    LET starts == {n \in DOMAIN turns : turns[n].role = "user"
                                        /\ "text" \in Range(turns[n].blocks)}
    IN  IF starts = {} THEN <<>>
        ELSE SubSeq(turns, Min(starts), Len(turns))

AnthropicMessages(messages) == Trim(FoldLeft(Push, <<>>, messages))

-----------------------------------------------------------------------------
(* Properties *)

\* Conversations, rows and chats are what the tables and requests hold.
ConversationTypeOK ==
    /\ sessions \subseteq used /\ used \subseteq Sessions
    /\ \A n \in DOMAIN stored :
          /\ stored[n].session \in sessions
          /\ stored[n].role \in {"user", "assistant"}
          /\ stored[n].status \in {"ok", "error", "cancelled"}
    /\ stage \in [Chats -> {"idle", "new", "read", "asked", "running", "over"}]
    /\ \A c \in Chats : talk[c] \subseteq used
    /\ offered \subseteq Chats /\ missed \subseteq Chats

\* What a run adds to its history: rounds of calls and results, the second
\* with some text, and at the end perhaps the demand to answer now.
Round(content) ==
    <<Said("assistant", content, TRUE), Said("tool", "words", FALSE)>>
AnswerNow == <<Said("user", "words", FALSE)>>
Continuations ==
    {<<>>, Round(""), Round("") \o Round("words"), Round("words") \o AnswerNow}

\* Anthropic answers 400 to anything else: turns alternate, begin and end
\* with the user and hold no empty text; calls get their results next.
AnthropicAccepts(turns) ==
    /\ turns # <<>> /\ turns[1].role = "user" /\ Last(turns).role = "user"
    /\ Head(turns[1].blocks) = "text"
    /\ \A n \in DOMAIN turns :
          /\ turns[n].blocks # <<>>
          /\ n > 1 => turns[n].role # turns[n - 1].role
          /\ n > 1 => ("tool_use" \in Range(turns[n - 1].blocks)
                       <=> Head(turns[n].blocks) = "tool_result")

\* A run starts on a context its provider accepts, now and in its later
\* rounds, with the new question at its end, whatever failed, stopped or
\* overlapping chats left in the conversation and wherever the window cuts
\* it; and while no conversation is deleted, a lookup it is offered finds
\* something.
ContextUsable ==
    \A c \in Running :
        /\ \A more \in Continuations :
              AnthropicAccepts(AnthropicMessages(history[c] \o more))
        /\ Last(OpenAIMessages(history[c])) = Said("user", "words", FALSE)
        /\ c \in offered \ missed => \E s \in talk[c] : PastReviews(s) # {}
=============================================================================
