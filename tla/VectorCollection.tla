-------------------------- MODULE VectorCollection --------------------------
(***************************************************************************)
(* QdrantStore.ensure_ready: the first call of each worker looks for the   *)
(* collection, and creates it and then its index when there is none.  The  *)
(* workers share the collection, not the _ready flag.  Any call may be     *)
(* refused, may time out after it was carried out, and a worker may die.   *)
(***************************************************************************)
CONSTANT Workers    \* the worker processes

VARIABLES
    collection, \* absent, bare (without its index) or indexed
    progress,   \* of each worker: unready, missing, created or ready
    broken      \* the call after a creation failed, or was never made

collectionVars == <<collection, progress, broken>>

CollectionInit ==
    /\ collection = "absent"
    /\ progress = [w \in Workers |-> "unready"]
    /\ broken = FALSE

Proceed(w, step) == progress' = [progress EXCEPT ![w] = step]

\* Mutant of FindCollection: the flag is set before the work is done.
FindCollectionTooSoon(w) ==
    /\ progress[w] = "unready"
    /\ Proceed(w, "ready")
    /\ UNCHANGED <<collection, broken>>

\* The GET: a collection of the right size is taken as ready.
FindCollection(w) ==
    /\ progress[w] = "unready"
    /\ Proceed(w, IF collection = "absent" THEN "missing" ELSE "ready")
    /\ UNCHANGED <<collection, broken>>

\* The first PUT.  A second worker gets a 409, which fails its request.
CreateCollection(w) ==
    /\ progress[w] = "missing"
    /\ \/ /\ collection = "absent"
          /\ collection' = "bare"
          /\ Proceed(w, "created")
          /\ UNCHANGED broken
       \/ /\ collection = "absent"      \* done, and the answer is lost
          /\ collection' = "bare"
          /\ Proceed(w, "unready")
          /\ broken' = TRUE
       \/ /\ Proceed(w, "unready")      \* refused
          /\ UNCHANGED <<collection, broken>>

\* The second PUT, for the index on user_id.
CreateIndex(w) ==
    /\ progress[w] = "created"
    /\ \/ collection' = "indexed" /\ Proceed(w, "ready") /\ UNCHANGED broken
       \/ collection' = "indexed" /\ Proceed(w, "unready") /\ UNCHANGED broken
       \/ UNCHANGED collection /\ Proceed(w, "unready") /\ broken' = TRUE

\* The worker restarts with a new store.
Restart(w) ==
    /\ Proceed(w, "unready")
    /\ broken' = (broken \/ progress[w] = "created")
    /\ UNCHANGED collection

CollectionNext ==
    \E w \in Workers : \/ FindCollection(w) \/ CreateCollection(w)
                       \/ CreateIndex(w) \/ Restart(w)

CollectionSpec == CollectionInit /\ [][CollectionNext]_collectionVars

-----------------------------------------------------------------------------
(* Properties *)

\* The collection and the workers' progress.
CollectionTypeOK ==
    /\ collection \in {"absent", "bare", "indexed"}
    /\ progress \in [Workers -> {"unready", "missing", "created", "ready"}]
    /\ broken \in BOOLEAN

\* "filtering by user on every search, so index it": a worker that takes the
\* collection as ready has its index, or another worker is about to create
\* it; only a creation that failed half-way leaves the collection without.
CollectionIndexed ==
    (\E w \in Workers : progress[w] = "ready") /\ ~ broken
    => collection = "indexed" \/ \E w \in Workers : progress[w] = "created"
=============================================================================
