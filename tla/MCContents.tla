----------------------------- MODULE MCContents -----------------------------
(***************************************************************************)
(* What users store and read, in one instance for TLC: the guidelines (in  *)
(* their stores, their collection and their chunks), the conversations and *)
(* the reply on its way from the provider to the page.  These components   *)
(* share no state, so the instance explores them one at a time: each       *)
(* behaviour is one of a single component.                                 *)
(***************************************************************************)
EXTENDS GuidelineStore, VectorCollection, Chunking, Conversations,
        ProviderStream, ChatPage, TLC

CONSTANTS style, naming, once, again, w1, w2, s1, s2, c1, c2, c3,
          p1, p2

VARIABLE part   \* the component at work

TwoDocuments == {style, naming}
TwoDeletes == {once, again}
EveryFault == {"refused", "timeout", "commit", "unsure", "crash"}
TwoWorkers == {w1, w2}
AnyLength == {1, 2, 3, 4, 5, 9}
TwoSessions == {s1, s2}
ThreeChats == {c1, c2, c3}
TwoCalls == <<2, 1>>
EveryDialect == {"openai", "anthropic", "ollama"}
TwoPages == {p1, p2}
FirstPage == {p1}

Parts == {"guidelines", "collection", "chunks", "conversations", "stream",
          "page"}

ContentsInit ==
    /\ part \in Parts
    /\ Init /\ CollectionInit /\ ChunkInit /\ ConversationInit /\ PageInit
    /\ StreamInit
    /\ part # "stream" => dialect = "openai"

contentsVars == <<part, vars, collectionVars, chunkVars, conversationVars,
                  streamVars, pageVars>>

ContentsNext ==
    /\ UNCHANGED part
    /\ \/ /\ part = "guidelines" /\ Next
          /\ UNCHANGED <<collectionVars, chunkVars, conversationVars,
                         streamVars, pageVars>>
       \/ /\ part = "collection" /\ CollectionNext
          /\ UNCHANGED <<vars, chunkVars, conversationVars, streamVars,
                         pageVars>>
       \/ /\ part = "chunks" /\ ChunkNext
          /\ UNCHANGED <<vars, collectionVars, conversationVars, streamVars,
                         pageVars>>
       \/ /\ part = "conversations" /\ ConversationNext
          /\ UNCHANGED <<vars, collectionVars, chunkVars, streamVars,
                         pageVars>>
       \/ /\ part = "stream" /\ StreamNext
          /\ UNCHANGED <<vars, collectionVars, chunkVars, conversationVars,
                         pageVars>>
       \/ /\ part = "page" /\ PageNext
          /\ UNCHANGED <<vars, collectionVars, chunkVars, conversationVars,
                         streamVars>>

ContentsSpec == ContentsInit /\ [][ContentsNext]_contentsVars

\* The type invariants: a component at rest keeps the state of its own start.
ContentsTypeOK ==
    /\ part = "guidelines" => TypeOK
    /\ part = "collection" => CollectionTypeOK
    /\ part = "chunks" => ChunkTypeOK
    /\ part = "conversations" => ConversationTypeOK
    /\ part = "stream" => StreamTypeOK
    /\ part = "page" => PageTypeOK
=============================================================================
