--------------------------- MODULE GuidelineStore ---------------------------
(***************************************************************************)
(* The guidelines of one user in their two stores: the documents rows in   *)
(* Postgres and the points in Qdrant.  There is no transaction over both:  *)
(* upload_document flushes the row, upserts the points, then commits, and  *)
(* takes the points out again when the commit fails; delete_document       *)
(* deletes the points, then the row.  Each await may fail, and a worker    *)
(* may die at any of them.  A document stands for all its chunks: Qdrant   *)
(* takes or deletes them in one request.                                   *)
(***************************************************************************)
EXTENDS FiniteSets

CONSTANTS
    Documents,  \* one per upload: a new uuid each time
    Deletes,    \* requests to delete a document
    Faults      \* what may fail; see below

ASSUME FaultsAssumption ==
    Faults \subseteq
        {"refused",     \* Qdrant rejects a call or cannot be reached
         "timeout",     \* Qdrant does what it is asked, the answer is lost
         "commit",      \* Postgres rejects a commit
         "unsure",      \* Postgres commits, the answer is lost
         "crash"}       \* the worker dies in the middle of a request

VARIABLES
    rows,       \* the committed documents rows
    points,     \* the documents that have points in the collection
    upload,     \* how far each upload is
    deletion    \* of each delete request: its document and how far it is

vars == <<rows, points, upload, deletion>>

Idle == [step |-> "none"]
Deletion(d, step) == [step |-> step, document |-> d]

Init ==
    /\ rows = {} /\ points = {}
    /\ upload = [d \in Documents |-> "none"]
    /\ deletion = [q \in Deletes |-> Idle]

Uploading(d, step) == upload' = [upload EXCEPT ![d] = step]
Deleting(q, step) == deletion' = [deletion EXCEPT ![q].step = step]

\* QdrantStore._call that turns points into `after`: it worked, it had no
\* effect, or it had and its answer timed out.
Called(after) == points' = after
CallFails(after) ==
    \/ "refused" \in Faults /\ points' = points
    \/ "timeout" \in Faults /\ points' = after

Committed(after) == rows' = after
CommitFails(after) ==
    \/ "commit" \in Faults /\ rows' = rows
    \/ "unsure" \in Faults /\ rows' = after

-----------------------------------------------------------------------------
(* upload_document *)

\* Mutant of StartUpload: a commit where the flush is.
StartUploadVisibly(d) ==
    /\ upload[d] = "none"
    /\ Uploading(d, "flushed")
    /\ rows' = rows \cup {d}
    /\ UNCHANGED <<points, deletion>>

\* Chunked, embedded, the row flushed: nobody else sees it yet.
StartUpload(d) ==
    /\ upload[d] = "none"
    /\ Uploading(d, "flushed")
    /\ UNCHANGED <<rows, points, deletion>>

\* Mutant of UpsertPoints: a VectorStoreError goes unnoticed.
UpsertPointsUnchecked(d) ==
    /\ upload[d] = "flushed"
    /\ Called(points \cup {d}) \/ CallFails(points \cup {d})
    /\ Uploading(d, "upserted")
    /\ UNCHANGED <<rows, deletion>>

UpsertPoints(d) ==
    /\ upload[d] = "flushed"
    /\ \/ Called(points \cup {d}) /\ Uploading(d, "upserted")
       \/ CallFails(points \cup {d}) /\ Uploading(d, "not_indexed")
    /\ UNCHANGED <<rows, deletion>>

\* Mutant of CommitRow: nothing is taken out when the commit fails.
CommitRowWithoutCleanup(d) ==
    /\ upload[d] = "upserted"
    /\ \/ Committed(rows \cup {d}) /\ Uploading(d, "stored")
       \/ CommitFails(rows \cup {d}) /\ Uploading(d, "cleaned")
    /\ UNCHANGED <<points, deletion>>

CommitRow(d) ==
    /\ upload[d] = "upserted"
    /\ \/ Committed(rows \cup {d}) /\ Uploading(d, "stored")
       \/ CommitFails(rows \cup {d}) /\ Uploading(d, "cleanup")
    /\ UNCHANGED <<points, deletion>>

\* The points of an uncommitted document; failing at this is only logged.
Cleanup(d) ==
    /\ upload[d] = "cleanup"
    /\ \/ Called(points \ {d}) /\ Uploading(d, "cleaned")
       \/ CallFails(points \ {d}) /\ Uploading(d, "not_cleaned")
    /\ UNCHANGED <<rows, deletion>>

CrashUpload(d) ==
    /\ "crash" \in Faults /\ upload[d] \in {"flushed", "upserted", "cleanup"}
    /\ Uploading(d, "crashed")
    /\ UNCHANGED <<rows, points, deletion>>

-----------------------------------------------------------------------------
(* delete_document *)

FindDocument(q, d) ==
    /\ deletion[q] = Idle /\ d \in rows
    /\ deletion' = [deletion EXCEPT ![q] = Deletion(d, "found")]
    /\ UNCHANGED <<rows, points, upload>>

\* Mutant of DeletePoints: the row is deleted even if the points were not.
DeletePointsUnchecked(q) ==
    /\ deletion[q].step = "found"
    /\ LET rest == points \ {deletion[q].document}
       IN Called(rest) \/ CallFails(rest)
    /\ Deleting(q, "points_gone")
    /\ UNCHANGED <<rows, upload>>

DeletePoints(q) ==
    /\ deletion[q].step = "found"
    /\ LET rest == points \ {deletion[q].document}
       IN \/ Called(rest) /\ Deleting(q, "points_gone")
          \/ CallFails(rest) /\ Deleting(q, "failed")
    /\ UNCHANGED <<rows, upload>>

\* Another request may have deleted the row meanwhile: that is no error.
DeleteRow(q) ==
    /\ deletion[q].step = "points_gone"
    /\ LET rest == rows \ {deletion[q].document}
       IN \/ Committed(rest) /\ Deleting(q, "answered")
          \/ CommitFails(rest) /\ Deleting(q, "failed")
    /\ UNCHANGED <<points, upload>>

CrashDelete(q) ==
    /\ "crash" \in Faults /\ deletion[q].step \in {"found", "points_gone"}
    /\ Deleting(q, "crashed")
    /\ UNCHANGED <<rows, points, upload>>

\* Every upload and every delete request has been made.
Idling ==
    /\ \A d \in Documents : upload[d] \in
          {"stored", "not_indexed", "cleaned", "not_cleaned", "crashed"}
    /\ \A q \in Deletes : deletion[q].step \in
          {"none", "answered", "failed", "crashed"}
    /\ UNCHANGED vars

Next ==
    \/ \E d \in Documents :
          \/ StartUpload(d) \/ UpsertPoints(d) \/ CommitRow(d) \/ Cleanup(d)
          \/ CrashUpload(d)
          \/ \E q \in Deletes : FindDocument(q, d)
    \/ \E q \in Deletes : DeletePoints(q) \/ DeleteRow(q) \/ CrashDelete(q)
    \/ Idling

Spec == Init /\ [][Next]_vars

-----------------------------------------------------------------------------
(* Properties *)

\* Rows and points belong to uploads that got so far.
TypeOK ==
    /\ rows \subseteq Documents /\ points \subseteq Documents
    /\ upload \in [Documents -> {"none", "flushed", "upserted", "cleanup",
                                 "stored", "not_indexed", "cleaned",
                                 "not_cleaned", "crashed"}]
    /\ deletion \in [Deletes ->
          {Idle} \cup [step : {"found", "points_gone", "answered", "failed",
                               "crashed"},
                       document : Documents]]
    /\ \A d \in Documents :
          upload[d] \in {"none", "flushed"} => d \notin rows \cup points

\* architecture.md, "Guidelines": search never returns chunks of a file that
\* isn't listed.  Only an upload still under way, or one whose cleanup failed
\* as the log says, has points without a row.
SearchNeverUnlisted ==
    \A d \in points :
        d \in rows \/ upload[d] \in {"upserted", "cleanup", "not_cleaned"}

\* What holds whatever fails: the two further ways to points without a row
\* are an upsert that was answered with an error and a worker that died.  An
\* upload that ended in any other way, and every deletion at any of its
\* steps, leaves nothing behind that search finds and the list does not.
OrphansOnlyAfterFailures ==
    \A d \in points :
        d \in rows \/ upload[d] \in {"upserted", "cleanup", "not_cleaned",
                                      "not_indexed", "crashed"}

Touched(d) == \E q \in Deletes : deletion[q] # Idle /\ deletion[q].document = d

\* A file whose upload was confirmed, and that nobody has asked to delete,
\* is listed and can be found by the agent.
StoredIsSearchable ==
    \A d \in Documents :
        upload[d] = "stored" /\ ~Touched(d) => d \in rows \cap points

\* A file whose deletion was confirmed is neither listed nor found again,
\* whatever failed before and whichever requests overlap.
DeletedIsGone ==
    \A q \in Deletes :
        deletion[q].step = "answered" =>
            deletion[q].document \notin rows \cup points
=============================================================================
