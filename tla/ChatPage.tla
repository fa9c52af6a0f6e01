------------------------------ MODULE ChatPage ------------------------------
(***************************************************************************)
(* The Chat page of the browser: the thread it shows, the conversation in  *)
(* its address, and the one reply it may be streaming, from the pieces the *)
(* network delivers through the SSE parser to the thread.                  *)
(***************************************************************************)
EXTENDS Integers, Sequences, SequencesExt

CONSTANTS
    Pages,      \* ids of conversations
    Begun,      \* those that exist when the page opens
    Nowhere,    \* the address /chat, which names no conversation
    Tokens,     \* how many tokens a reply has
    MaxPiece,   \* bound: symbols that arrive in one piece
    MaxSends    \* bound: how often the user sends

ASSUME PageAssumption ==
    /\ Begun \subseteq Pages /\ Nowhere \notin Pages
    /\ Tokens \in Nat /\ MaxPiece \in Nat \ {0} /\ MaxSends \in Nat

VARIABLES
    exists,     \* the conversations the server knows
    address,    \* the conversation in the address bar
    shown,      \* sessionId as last rendered, for which the effect has run
    loading,    \* the conversation whose load is live, or Nowhere
    loadFailed, \* loadError is set
    thread,     \* the messages on the page
    sends,      \* how many replies were asked for; the last may be running
    request,    \* its request: none, posted, refreshing, reposted or reading
    target,     \* the sessionId it was sent with
    attached,   \* abortRef.current is its controller
    aborted,    \* its controller has aborted
    streamOf,   \* streamSessionRef.current, or Nowhere
    wire,       \* what the network has yet to deliver
    buffer,     \* the parser's buffer
    hurt        \* the replies that a load or a split line break has hurt

requestVars == <<sends, request, target, aborted, wire, buffer>>
pageVars == <<exists, address, shown, loading, loadFailed, thread,
              requestVars, attached, streamOf, hurt>>

\* A stored message belongs to no reply of this page: reply 0.  One that came
\* over an attached reply is taken for its own by that reply.
Message(page, reply, status) ==
    [of |-> page, reply |-> reply, text |-> <<>>, status |-> status]

PageInit ==
    /\ exists = Begun
    /\ address = Nowhere /\ shown = Nowhere /\ loading = Nowhere
    /\ loadFailed = FALSE
    /\ thread = <<>>
    /\ sends = 0 /\ request = "none" /\ target = Nowhere
    /\ attached = FALSE /\ aborted = FALSE /\ streamOf = Nowhere
    /\ wire = <<>> /\ buffer = <<>>
    /\ hurt = {}

-----------------------------------------------------------------------------
(* The event stream.  An event is one symbol, a line break is LF or CR LF. *)

CR == <<"CR">>
LF == <<"LF">>
Event(name, k) == <<name, k>>

Encode(events, break) ==
    FoldLeft(LAMBDA text, e : text \o (<<e>> \o break \o break), <<>>, events)

\* A reply: its tokens, and done or error at the end.
Answer(id, last) ==
    <<Event("meta", id)>> \o [k \in 1..Tokens |-> Event("token", k)]
                         \o <<Event(last, 0)>>

EndsIn(text, c) == text # <<>> /\ Last(text) = c

-----------------------------------------------------------------------------
(* What an event does to the page *)

\* Mutant of PatchLast: a detached reply goes on writing.
PatchLastAlways(messages, message) ==
    IF messages = <<>> THEN messages ELSE Append(Front(messages), message)

\* patchLast: what the last message becomes, while the reply is attached.
PatchLast(messages, message) ==
    IF ~ attached \/ messages = <<>> THEN messages
    ELSE Append(Front(messages), message)

WithStatus(messages, status) ==
    PatchLast(messages, [Last(messages) EXCEPT !.status = status])

WithToken(messages, token) ==
    PatchLast(messages, [Last(messages) EXCEPT !.text = Append(@, token)])

\* onEvent; the conversation of the reply was new when it had no target.
OnEvent(page, e) ==
    CASE e[1] = "meta" /\ target = Nowhere ->
           [page EXCEPT !.streamOf = e[2], !.address = e[2]]
      [] e[1] = "token" ->
           [page EXCEPT !.thread = WithToken(@, <<sends, e[2]>>)]
      [] e[1] \in {"done", "error"} ->
           [page EXCEPT !.thread = WithStatus(@, e[1])]
      [] OTHER -> page

\* flushBlock: of several events in one block the last gives the name, and
\* their data together are no JSON.
FlushBlock(page, block) ==
    LET events == {i \in DOMAIN block : block[i] \notin {CR, LF}}
        last == block[Max(events)]
    IN  IF events = {} THEN page
        ELSE OnEvent(page, IF events = {Max(events)} THEN last
                                                     ELSE Event(last[1], 0))

-----------------------------------------------------------------------------
(* The parser *)

\* text.replace(/\r\n/g, "\n")
Unify(sofar, c) == IF c = LF /\ EndsIn(sofar, CR)
                   THEN Append(Front(sofar), LF)
                   ELSE Append(sofar, c)
Unified(text) == FoldLeft(Unify, <<>>, text)

\* The loop of push: an empty line ends a block.
Take(sofar, c) ==
    IF c = LF /\ EndsIn(sofar.rest, LF)
    THEN [page |-> FlushBlock(sofar.page, sofar.rest), rest |-> <<>>]
    ELSE [sofar EXCEPT !.rest = Append(@, c)]
PushText(page, text) == FoldLeft(Take, [page |-> page, rest |-> <<>>], text)

\* What a reply changes on the page.
Page == [thread |-> thread, address |-> address, streamOf |-> streamOf]

-----------------------------------------------------------------------------
(* The end of a request *)

\* The finally of send.
EndRequest ==
    /\ request' = "none" /\ target' = Nowhere
    /\ attached' = FALSE /\ aborted' = FALSE
    /\ streamOf' = Nowhere
    /\ wire' = <<>> /\ buffer' = <<>>

\* send ends over the messages that are left.
EndSend(messages) ==
    /\ thread' = messages
    /\ EndRequest
    /\ UNCHANGED <<exists, shown, loading, loadFailed, sends>>

-----------------------------------------------------------------------------
(* The user and the effect *)

\* The effect aborts the reply and forgets it.  A fetch or a read rejects at
\* once; the refresh inside authFetch knows nothing of the abort.
Detach ==
    IF attached /\ request # "refreshing" THEN EndRequest
    ELSE /\ aborted' = (aborted \/ attached)
         /\ attached' = FALSE
         /\ UNCHANGED <<request, target, streamOf, wire, buffer>>

\* A new sessionId is rendered and its effect runs: unless the reply streams
\* into it, the reply is detached and the conversation loaded.
Show(to) ==
    /\ shown' = to /\ address' = to
    /\ loadFailed' = FALSE
    /\ IF to # Nowhere /\ to = streamOf
       THEN /\ loading' = Nowhere
            /\ UNCHANGED <<thread, request, target, attached, aborted, streamOf,
                           wire, buffer>>
       ELSE /\ loading' = to
            /\ thread' = IF to = Nowhere THEN <<>> ELSE thread
            /\ Detach
    /\ UNCHANGED <<exists, sends, hurt>>

\* The user follows a link to a conversation, or New review, which a reply
\* without a conversation disables; React renders a click at once.
Navigate(to) ==
    /\ to \in exists \/ (to = Nowhere /\ ~ (request # "none" /\ shown = Nowhere))
    /\ to # address
    /\ Show(to)

\* The address that meta set is rendered some time later.
Render ==
    /\ address # shown
    /\ Show(address)

\* The conversation arrives; whatever is on the page is replaced.
LoadLands ==
    /\ loading # Nowhere
    /\ loading' = Nowhere
    /\ thread' = <<Message(loading, IF attached THEN sends ELSE 0, "stored")>>
    /\ hurt' = IF attached THEN hurt \cup {sends} ELSE hurt
    /\ UNCHANGED <<exists, address, shown, loadFailed, requestVars, attached,
                   streamOf>>

LoadFails ==
    /\ loading # Nowhere
    /\ loading' = Nowhere /\ loadFailed' = TRUE
    /\ UNCHANGED <<exists, address, shown, thread, requestVars, attached,
                   streamOf, hurt>>

Send ==
    /\ request = "none" /\ sends < MaxSends /\ address = shown
    /\ sends' = sends + 1
    /\ request' = "posted"
    /\ target' = shown /\ streamOf' = shown
    /\ attached' = TRUE
    /\ thread' = thread \o <<Message(shown, sends', "question"),
                             Message(shown, sends', "streaming")>>
    /\ UNCHANGED <<exists, address, shown, loading, loadFailed, aborted, wire,
                   buffer, hurt>>

\* The Stop button: as Detach, but the reply stays attached.
Stop ==
    /\ attached /\ ~ aborted
    /\ IF request = "refreshing"
       THEN /\ aborted' = TRUE
            /\ UNCHANGED <<exists, shown, loading, loadFailed, thread, sends,
                           request, target, wire, buffer, attached, streamOf>>
       ELSE EndSend(WithStatus(thread, "cancelled"))
    /\ UNCHANGED <<address, hurt>>

-----------------------------------------------------------------------------
(* The request *)

\* 401: authFetch refreshes the access token, once.
Unauthorized ==
    /\ request = "posted"
    /\ request' = "refreshing"
    /\ UNCHANGED <<exists, address, shown, loading, loadFailed, thread, sends,
                   target, aborted, wire, buffer, attached, streamOf, hurt>>

\* It posts again; that rejects when the reply was aborted meanwhile.
Refreshed ==
    /\ request = "refreshing"
    /\ IF aborted THEN EndSend(WithStatus(thread, "cancelled"))
       ELSE /\ request' = "reposted"
            /\ UNCHANGED <<exists, shown, loading, loadFailed, thread, sends,
                           target, aborted, wire, buffer, attached, streamOf>>
    /\ UNCHANGED <<address, hurt>>

Posted == request \in {"posted", "reposted"}

\* A status of 400 or more: both messages are taken out again.
Refused ==
    /\ Posted
    /\ EndSend(IF attached THEN SubSeq(thread, 1, Len(thread) - 2) ELSE thread)
    /\ UNCHANGED <<address, hurt>>

\* The server is out of reach, or the connection breaks in the reply.
NetworkError ==
    /\ Posted \/ request = "reading"
    /\ EndSend(WithStatus(thread, "error"))
    /\ UNCHANGED <<address, hurt>>

\* The reply starts; a new conversation gets its id.
Accepted ==
    /\ Posted
    /\ \E id \in Pages, last \in {"done", "error"}, break \in {<<LF>>, <<CR, LF>>} :
          /\ IF target = Nowhere THEN id \notin exists ELSE id = target
          /\ exists' = exists \cup {id}
          /\ wire' = Encode(Answer(id, last), break)
    /\ request' = "reading"
    /\ UNCHANGED <<address, shown, loading, loadFailed, thread, sends, target,
                   aborted, buffer, attached, streamOf, hurt>>

\* The network has split the line break that ends an event.
SplitBreak(rest) == EndsIn(rest, CR) /\ EndsIn(Front(rest), LF)

\* A piece of the reply arrives, cut anywhere.
Read ==
    /\ request = "reading"
    /\ \E n \in 1..Min({MaxPiece, Len(wire)}) :
          LET read == PushText(Page, buffer \o Unified(SubSeq(wire, 1, n)))
          IN  /\ wire' = SubSeq(wire, n + 1, Len(wire))
              /\ buffer' = read.rest
              /\ thread' = read.page.thread
              /\ address' = read.page.address /\ streamOf' = read.page.streamOf
              /\ hurt' = IF SplitBreak(read.rest) THEN hurt \cup {sends} ELSE hurt
    /\ UNCHANGED <<exists, shown, loading, loadFailed, sends, request, target,
                   aborted, attached>>

\* The body ends, too early perhaps; the parser flushes what it holds.
EndOfBody ==
    /\ request = "reading"
    /\ LET page == FlushBlock(Page, buffer)
           open == page.thread # <<>> /\ Last(page.thread).status = "streaming"
       IN  /\ EndSend(IF open THEN WithStatus(page.thread, "early")
                              ELSE page.thread)
           /\ address' = page.address
    /\ UNCHANGED hurt

PageNext ==
    \/ \E to \in Pages \cup {Nowhere} : Navigate(to)
    \/ Render \/ LoadLands \/ LoadFails \/ Send \/ Stop
    \/ Unauthorized \/ Refreshed \/ Refused \/ NetworkError
    \/ Accepted \/ Read \/ EndOfBody

PageSpec == PageInit /\ [][PageNext]_pageVars

-----------------------------------------------------------------------------
(* Properties *)

\* The page's state and its references.
PageTypeOK ==
    /\ exists \subseteq Pages
    /\ {address, shown, loading, target, streamOf} \subseteq Pages \cup {Nowhere}
    /\ loadFailed \in BOOLEAN /\ attached \in BOOLEAN /\ aborted \in BOOLEAN
    /\ sends \in 0..MaxSends
    /\ request \in {"none", "posted", "refreshing", "reposted",
                   "reading"}
    /\ \A i \in DOMAIN thread :
          thread[i].status \in {"stored", "question", "streaming", "done",
                                "error", "cancelled", "early"}
    /\ hurt \subseteq 1..sends

\* The first k tokens of a reply.
FirstTokens(reply, k) == [n \in 1..k |-> <<reply, n>>]

\* However the network cuts a reply and wherever the user goes meanwhile,
\* its tokens get into its own message and no other, in their order; a reply
\* shown as done has them all, and a stored message stays as it was loaded.
\* Not so for a reply that was hurt, one whose conversation was still loading
\* when it was asked for, or that a proxy sent with CR LF and the network split
\* in the wrong place: it may lose tokens, or write them under the conversation
\* that came over it.  It does no harm to other messages, earlier or later.
RepliesIntact ==
    \A i \in DOMAIN thread :
        LET m == thread[i]
        IN  /\ \A n \in DOMAIN m.text : m.text[n][1] = m.reply
            /\ m.reply = 0 => m.status = "stored"
            /\ m.reply \notin hurt \cup {0} =>
                  /\ m.text = FirstTokens(m.reply, Len(m.text))
                  /\ m.status = "question" => m.text = <<>>
                  /\ m.status # "stored"
                  /\ m.status = "done" => Len(m.text) = Tokens

\* Chat.jsx: "load the conversation from the URL, unless it's the one we're
\* streaming into".  When the load is over and no reply is attached, the page
\* shows the conversation of its address.
AddressShown ==
    address = shown /\ shown # Nowhere /\ loading = Nowhere
        /\ ~ loadFailed /\ ~ attached
    => \A i \in DOMAIN thread : thread[i].of \in {shown, Nowhere}
=============================================================================
