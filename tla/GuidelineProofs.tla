-------------------------- MODULE GuidelineProofs ---------------------------
(***************************************************************************)
(* Proofs about GuidelineStore, VectorCollection and Chunking, for every   *)
(* set of documents, of delete requests, of faults and of workers, every   *)
(* size and overlap of the chunks and every file; and about the components *)
(* that MCContents puts side by side.                                      *)
(***************************************************************************)
EXTENDS MCContents, ContentProofs, ChatPageProofs, DataLemmas, TLAPS

\* The steps of an upload before its commit.
BeforeCommit == {"none", "flushed", "upserted"}

\* An upload has its points before its row.
PointsFirst ==
    \A d \in Documents :
        /\ upload[d] = "upserted" => d \in points
        /\ upload[d] \in BeforeCommit => d \notin rows

\* Only a document that had its row is deleted; its points go first, and no
\* upload brings them back.
DeletionOrder ==
    \A q \in Deletes :
        /\ deletion[q] # Idle => upload[deletion[q].document] \notin BeforeCommit
        /\ deletion[q].step \in {"points_gone", "answered"} =>
              deletion[q].document \notin points
        /\ deletion[q].step = "answered" => deletion[q].document \notin rows

StoreInv == TypeOK /\ PointsFirst /\ DeletionOrder

\* The steps that the delete requests go through.
LEMMA DeletionTyped ==
    ASSUME TypeOK, NEW q \in Deletes
    PROVE  /\ deletion[q] = Idle <=> deletion[q].step = "none"
           /\ deletion[q] # Idle => deletion[q].document \in Documents
BY DEF TypeOK, Idle

-----------------------------------------------------------------------------
(* The two stores *)

\* The invariant holds initially and is kept by every step.
LEMMA StoreInvHolds == Spec => []StoreInv
<1>1. Init => StoreInv
  BY DEF Init, StoreInv, TypeOK, PointsFirst, DeletionOrder, BeforeCommit, Idle
<1>2. StoreInv /\ [Next]_vars => StoreInv'
  <2> SUFFICES ASSUME StoreInv, [Next]_vars PROVE StoreInv'
    OBVIOUS
  <2> USE DEF StoreInv, TypeOK, PointsFirst, DeletionOrder, BeforeCommit, Idle
  <2>1. ASSUME NEW d \in Documents, StartUpload(d) PROVE StoreInv'
    BY <2>1 DEF StartUpload, Uploading
  <2>2. ASSUME NEW d \in Documents, UpsertPoints(d) PROVE StoreInv'
    BY <2>2 DEF UpsertPoints, Uploading, Called, CallFails
  <2>3. ASSUME NEW d \in Documents, CommitRow(d) PROVE StoreInv'
    BY <2>3 DEF CommitRow, Uploading, Committed, CommitFails
  <2>4. ASSUME NEW d \in Documents, Cleanup(d) PROVE StoreInv'
    BY <2>4 DEF Cleanup, Uploading, Called, CallFails
  <2>5. ASSUME NEW d \in Documents, CrashUpload(d) PROVE StoreInv'
    BY <2>5 DEF CrashUpload, Uploading
  <2>6. ASSUME NEW d \in Documents, NEW q \in Deletes, FindDocument(q, d)
        PROVE  StoreInv'
    BY <2>6 DEF FindDocument, Deletion
  <2>7. ASSUME NEW q \in Deletes, DeletePoints(q) PROVE StoreInv'
    BY <2>7 DEF DeletePoints, Deleting, Called, CallFails
  <2>8. ASSUME NEW q \in Deletes, DeleteRow(q) PROVE StoreInv'
    BY <2>8 DEF DeleteRow, Deleting, Committed, CommitFails
  <2>9. ASSUME NEW q \in Deletes, CrashDelete(q) PROVE StoreInv'
    BY <2>9 DEF CrashDelete, Deleting
  <2>10. CASE Idling \/ UNCHANGED vars
    BY <2>10 DEF Idling, vars
  <2> QED BY <2>1, <2>2, <2>3, <2>4, <2>5, <2>6, <2>7, <2>8, <2>9, <2>10 DEF Next
<1> QED BY <1>1, <1>2, PTL DEF Spec

\* What was confirmed as deleted is neither listed nor found again.
THEOREM DeletionsLast == Spec => []DeletedIsGone
<1>1. StoreInv => DeletedIsGone
  BY DeletionTyped DEF StoreInv, DeletionOrder, DeletedIsGone
<1> QED BY <1>1, StoreInvHolds, PTL

\* What search finds and the list does not show was left by an upload that
\* failed or still goes on, and by no deletion.
THEOREM OrphansAreExplained == Spec => []OrphansOnlyAfterFailures
<1>1. Init => OrphansOnlyAfterFailures
  BY DEF Init, OrphansOnlyAfterFailures
<1>2. StoreInv /\ OrphansOnlyAfterFailures /\ [Next]_vars
          => OrphansOnlyAfterFailures'
  <2> SUFFICES ASSUME StoreInv, OrphansOnlyAfterFailures, [Next]_vars
               PROVE  OrphansOnlyAfterFailures'
    OBVIOUS
  <2> USE DEF OrphansOnlyAfterFailures
  <2>1. ASSUME NEW d \in Documents,
               StartUpload(d) \/ UpsertPoints(d) \/ CommitRow(d) \/ Cleanup(d)
                   \/ CrashUpload(d)
        PROVE  OrphansOnlyAfterFailures'
    BY <2>1 DEF StoreInv, TypeOK, StartUpload, UpsertPoints, CommitRow, Cleanup,
       CrashUpload, Uploading, Called, CallFails, Committed, CommitFails
  <2>2. ASSUME NEW q \in Deletes, NEW d \in Documents, FindDocument(q, d)
        PROVE  OrphansOnlyAfterFailures'
    BY <2>2 DEF FindDocument
  <2>3. ASSUME NEW q \in Deletes, DeletePoints(q) \/ CrashDelete(q)
        PROVE  OrphansOnlyAfterFailures'
    BY <2>3 DEF DeletePoints, CrashDelete, Called, CallFails
  <2>4. ASSUME NEW q \in Deletes, DeleteRow(q)
        PROVE  OrphansOnlyAfterFailures'
    <3>1. deletion[q].document \notin points
      BY <2>4 DEF DeleteRow, StoreInv, DeletionOrder
    <3> QED BY <2>4, <3>1 DEF DeleteRow, Committed, CommitFails
  <2>5. CASE Idling \/ UNCHANGED vars
    BY <2>5 DEF Idling, vars
  <2> QED BY <2>1, <2>2, <2>3, <2>4, <2>5 DEF Next
<1> QED BY <1>1, <1>2, StoreInvHolds, PTL DEF Spec

\* What was confirmed as uploaded and is not being deleted is in both stores.
THEOREM UploadsAreFound == Spec => []StoredIsSearchable
<1>1. Init => StoredIsSearchable
  BY DEF Init, StoredIsSearchable
<1>2. StoreInv /\ StoredIsSearchable /\ [Next]_vars => StoredIsSearchable'
  <2> SUFFICES ASSUME StoreInv, StoredIsSearchable, [Next]_vars
               PROVE  StoredIsSearchable'
    OBVIOUS
  <2> USE DEF StoredIsSearchable, Touched
  <2>1. ASSUME NEW d \in Documents,
               StartUpload(d) \/ UpsertPoints(d) \/ Cleanup(d) \/ CrashUpload(d)
        PROVE  StoredIsSearchable'
    BY <2>1 DEF StoreInv, TypeOK, StartUpload, UpsertPoints, Cleanup,
       CrashUpload, Uploading, Called, CallFails
  <2>2. ASSUME NEW d \in Documents, CommitRow(d)
        PROVE  StoredIsSearchable'
    BY <2>2 DEF StoreInv, TypeOK, PointsFirst, CommitRow, Uploading, Committed,
       CommitFails
  <2>3. ASSUME NEW q \in Deletes, NEW d \in Documents, FindDocument(q, d)
        PROVE  StoredIsSearchable'
    <3>1. /\ deletion'[q] # Idle /\ deletion'[q].document = d
          /\ \A p \in Deletes : p # q => deletion'[p] = deletion[p]
          /\ deletion[q] = Idle
          /\ upload' = upload /\ rows' = rows /\ points' = points
      BY <2>3 DEF FindDocument, Deletion, Idle, StoreInv, TypeOK
    <3> QED BY <3>1
  <2>4. ASSUME NEW q \in Deletes,
               DeletePoints(q) \/ DeleteRow(q) \/ CrashDelete(q)
        PROVE  StoredIsSearchable'
    <3>1. /\ deletion[q] # Idle /\ deletion'[q] # Idle
          /\ deletion'[q].document = deletion[q].document
          /\ \A p \in Deletes : p # q => deletion'[p] = deletion[p]
          /\ upload' = upload
      BY <2>4 DEF DeletePoints, DeleteRow, CrashDelete, Deleting, Idle, StoreInv,
         TypeOK
    <3>2. /\ points \ {deletion[q].document} \subseteq points'
          /\ rows \ {deletion[q].document} \subseteq rows'
      BY <2>4 DEF DeletePoints, DeleteRow, CrashDelete, Called, CallFails,
         Committed, CommitFails
    <3> QED BY <3>1, <3>2
  <2>5. CASE Idling \/ UNCHANGED vars
    BY <2>5 DEF Idling, vars
  <2> QED BY <2>1, <2>2, <2>3, <2>4, <2>5 DEF Next
<1> QED BY <1>1, <1>2, StoreInvHolds, PTL DEF Spec

-----------------------------------------------------------------------------
(* The collection *)

\* Only the worker that created the collection knows it without its index,
\* unless the creation broke.
IndexOwed ==
    /\ CollectionTypeOK
    /\ \A w \in Workers : progress[w] \in {"created", "ready"} =>
                             collection # "absent"
    /\ collection = "bare" /\ ~broken => \E w \in Workers : progress[w] = "created"

\* That holds throughout.
LEMMA IndexOwedHolds == CollectionSpec => []IndexOwed
<1>1. CollectionInit => IndexOwed
  BY DEF CollectionInit, IndexOwed, CollectionTypeOK
<1>2. IndexOwed /\ [CollectionNext]_collectionVars => IndexOwed'
  <2> SUFFICES ASSUME IndexOwed, [CollectionNext]_collectionVars
               PROVE  IndexOwed'
    OBVIOUS
  <2> USE DEF IndexOwed, CollectionTypeOK, Proceed
  <2>1. ASSUME NEW w \in Workers, FindCollection(w) PROVE IndexOwed'
    BY <2>1 DEF FindCollection
  <2>2. ASSUME NEW w \in Workers, CreateCollection(w) PROVE IndexOwed'
    BY <2>2 DEF CreateCollection
  <2>3. ASSUME NEW w \in Workers, CreateIndex(w) PROVE IndexOwed'
    BY <2>3 DEF CreateIndex
  <2>4. ASSUME NEW w \in Workers, Restart(w) PROVE IndexOwed'
    BY <2>4 DEF Restart
  <2>5. CASE UNCHANGED collectionVars
    BY <2>5 DEF collectionVars
  <2> QED BY <2>1, <2>2, <2>3, <2>4, <2>5 DEF CollectionNext
<1> QED BY <1>1, <1>2, PTL DEF CollectionSpec

\* Ready means indexed, or about to be.
THEOREM ReadyIsIndexed == CollectionSpec => []CollectionIndexed
<1>1. IndexOwed => CollectionIndexed
  BY DEF IndexOwed, CollectionTypeOK, CollectionIndexed
<1> QED BY <1>1, IndexOwedHolds, PTL

-----------------------------------------------------------------------------
(* The chunks: no rule is cut apart *)

\* The first character that is not in a chunk yet, but for the overlap.
Next1 == length - Len(line) + 1

\* No line of its own chunks begins within first..last, nor is it blank.
Plain(first, last) ==
    /\ \A s \in seams : s \in first..last => s = first
    /\ first..last \cap blanks = {}

\* Some chunk has the rule that begins at first.
Whole(first) ==
    \/ first..(first + Overlap) \subseteq Range(current)
    \/ \E i \in 1..Len(chunks) : first..(first + Overlap) \subseteq Range(chunks[i])

\* The chunk at hand ends with first..last.
EndsWith(text, first, last) ==
    /\ last - first + 1 <= Len(text)
    /\ \A x \in first..last : text[Len(text) - (last - x)] = x

\* Characters are positions; the line at hand is the last of them.
ChunkTypes ==
    /\ length \in Nat /\ lines \in 0..MaxLines
    /\ blanks \subseteq 1..length /\ seams \subseteq 1..length
    /\ line \in Seq(Nat) /\ current \in Seq(Nat)
    /\ chunks \in Seq(Seq(Nat))
    /\ Len(line) <= length
    /\ \A i \in 1..Len(line) : line[i] = length - Len(line) + i
    /\ Len(current) <= Size + Overlap
    /\ \A i \in 1..Len(chunks) : Len(chunks[i]) <= Size + Overlap

\* A rule that ends before the line at hand is in a chunk; one that ends in
\* it as well, or else the chunk at hand ends with its beginning and the line
\* will be added to it.
Covered ==
    \A first \in 1..length :
        first < Next1 /\ first + Overlap <= length /\ Plain(first, first + Overlap)
        => \/ Whole(first)
           \/ /\ Next1 <= first + Overlap /\ Len(line) <= Size
              /\ EndsWith(current, first, Next1 - 1)

\* When less than an overlap is at hand, the chunk at hand ends with the
\* beginnings of the rules to come.
Ready ==
    Len(line) <= Overlap =>
        \A first \in 1..length :
            first < Next1 /\ Next1 - first <= Overlap /\ Plain(first, Next1 - 1)
            => EndsWith(current, first, Next1 - 1)

ChunkInv == ChunkTypes /\ Covered /\ Ready

-----------------------------------------------------------------------------
(* Texts and their ends *)

\* What is left of a text when its first n positions are dropped.
LEMMA FromIs ==
    ASSUME NEW S, NEW t \in Seq(S), NEW n \in 0..Len(t)
    PROVE  /\ From(t, n) \in Seq(S) /\ Len(From(t, n)) = Len(t) - n
           /\ \A i \in 1..(Len(t) - n) : From(t, n)[i] = t[n + i]
BY DEF From

\* A sequence over a set is one over every larger set.
LEMMA WiderSeq ==
    ASSUME NEW S, NEW T, S \subseteq T
    PROVE  Seq(S) \subseteq Seq(T)
OBVIOUS

\* A text contains what it ends with.
LEMMA EndInRange ==
    ASSUME NEW S, NEW t \in Seq(S), NEW first \in Int, NEW last \in Int,
           EndsWith(t, first, last)
    PROVE  first..last \subseteq Range(t)
<1> SUFFICES ASSUME NEW x \in first..last PROVE x \in Range(t)
  OBVIOUS
<1>1. Len(t) - (last - x) \in 1..Len(t) /\ t[Len(t) - (last - x)] = x
  BY DEF EndsWith
<1> QED BY <1>1, RangeHas

\* A text that ends with the beginning and is joined by the rest.
LEMMA EndJoined ==
    ASSUME NEW S, NEW t \in Seq(S), NEW u \in Seq(S),
           NEW first \in Int, NEW mid \in Int, NEW last \in Int,
           first <= mid, mid <= last,
           EndsWith(t, first, mid), Len(u) = last - mid,
           \A i \in 1..Len(u) : u[i] = mid + i
    PROVE  EndsWith(t \o u, first, last)
<1>0. /\ Len(t \o u) = Len(t) + Len(u)
      /\ \A i \in 1..Len(t) : (t \o u)[i] = t[i]
      /\ \A i \in 1..Len(u) : (t \o u)[Len(t) + i] = u[i]
  <2>1. Len(t \o u) = Len(t) + Len(u)
    OBVIOUS
  <2>2. ASSUME NEW i \in 1..Len(t) PROVE (t \o u)[i] = t[i]
    OBVIOUS
  <2>3. ASSUME NEW i \in 1..Len(u) PROVE (t \o u)[Len(t) + i] = u[i]
    OBVIOUS
  <2> QED BY <2>1, <2>2, <2>3
<1>1. Len(t \o u) = Len(t) + (last - mid)
  BY <1>0
<1>2. ASSUME NEW x \in first..last
      PROVE  (t \o u)[Len(t \o u) - (last - x)] = x
  <2>0. x \in Int /\ (x <= mid \/ x > mid)
    OBVIOUS
  <2>1. CASE x <= mid
    <3>1. Len(t) - (mid - x) \in 1..Len(t) /\ t[Len(t) - (mid - x)] = x
      BY <2>1 DEF EndsWith
    <3>2. Len(t \o u) - (last - x) = Len(t) - (mid - x)
      BY <1>1
    <3>3. (t \o u)[Len(t) - (mid - x)] = t[Len(t) - (mid - x)]
      BY <1>0, <3>1
    <3> QED BY <3>1, <3>2, <3>3
  <2>2. CASE x > mid
    <3>1. x - mid \in 1..Len(u) /\ u[x - mid] = x
      BY <2>2
    <3>2. Len(t \o u) - (last - x) = Len(t) + (x - mid)
      BY <1>1
    <3>3. (t \o u)[Len(t) + (x - mid)] = u[x - mid]
      BY <1>0, <3>1
    <3> QED BY <3>1, <3>2, <3>3
  <2> QED BY <2>0, <2>1, <2>2
<1>3. last - first + 1 <= Len(t \o u)
  BY <1>1 DEF EndsWith
<1> QED BY <1>2, <1>3 DEF EndsWith

\* A text that is joined by what contains it all.
LEMMA EndReplaced ==
    ASSUME NEW S, NEW t \in Seq(S), NEW u \in Seq(S),
           NEW first \in Int, NEW last \in Int, last - first < Len(u),
           \A i \in 1..Len(u) : u[i] = last - Len(u) + i
    PROVE  EndsWith(t \o u, first, last)
<1>1. /\ Len(t \o u) = Len(t) + Len(u)
      /\ \A i \in 1..Len(u) : (t \o u)[Len(t) + i] = u[i]
  BY JoinIs
<1>2. ASSUME NEW x \in first..last
      PROVE  (t \o u)[Len(t \o u) - (last - x)] = x
  <2>1. Len(u) - (last - x) \in 1..Len(u) /\ u[Len(u) - (last - x)] = x
    OBVIOUS
  <2>2. Len(t \o u) - (last - x) = Len(t) + (Len(u) - (last - x))
    BY <1>1
  <2>3. (t \o u)[Len(t) + (Len(u) - (last - x))] = u[Len(u) - (last - x)]
    BY <1>1, <2>1
  <2> QED BY <2>1, <2>2, <2>3
<1> QED BY <1>1, <1>2 DEF EndsWith

\* The tail of a text has its end.
LEMMA EndOfTail ==
    ASSUME NEW S, NEW t \in Seq(S), NEW n \in 0..Len(t),
           NEW first \in Int, NEW last \in Int, last - first + 1 <= Len(t) - n,
           EndsWith(t, first, last)
    PROVE  EndsWith(From(t, n), first, last)
<1>1. Len(From(t, n)) = Len(t) - n
  BY FromIs
<1>2. ASSUME NEW x \in first..last
      PROVE  From(t, n)[Len(From(t, n)) - (last - x)] = x
  <2>1. Len(t) - n - (last - x) \in 1..(Len(t) - n)
    OBVIOUS
  <2>2. From(t, n)[Len(t) - n - (last - x)] = t[n + (Len(t) - n - (last - x))]
    BY <2>1, FromIs
  <2>3. n + (Len(t) - n - (last - x)) = Len(t) - (last - x)
    OBVIOUS
  <2> QED BY <1>1, <2>2, <2>3 DEF EndsWith
<1> QED BY <1>1, <1>2 DEF EndsWith

\* What AddLine keeps of the chunk at hand.
LEMMA TailStart ==
    ASSUME NEW n \in Nat
    PROVE  Max({0, n - Overlap}) = IF n > Overlap THEN n - Overlap ELSE 0
<1>0. Overlap \in Nat
  BY ChunkAssumption
<1> DEFINE m == IF n > Overlap THEN n - Overlap ELSE 0
<1>1. m \in {0, n - Overlap} /\ \A y \in {0, n - Overlap} : m >= y
  BY <1>0
<1>2. Max({0, n - Overlap}) \in {0, n - Overlap}
      /\ \A y \in {0, n - Overlap} : Max({0, n - Overlap}) >= y
  BY <1>1 DEF Max
<1> QED BY <1>0, <1>2

-----------------------------------------------------------------------------
(* The steps *)

\* What is assumed of the sizes.
LEMMA SizesKnown ==
    Size \in Nat /\ Overlap \in Nat /\ Overlap < Size /\ LineLengths \subseteq Nat \ {0}
BY ChunkAssumption

\* More may become blank or a seam, but only beyond the text there was.
LEMMA PlainBefore ==
    ASSUME NEW first, NEW last, NEW end \in Int, last <= end, last \in Int, first \in Int,
           blanks \subseteq blanks', seams \subseteq seams', Plain(first, end)'
    PROVE  Plain(first, last)
<1>1. first..last \subseteq first..end
  OBVIOUS
<1> QED BY <1>1 DEF Plain

\* A chunk that is finished is a chunk still, and so is one that grows.
LEMMA WholeStays ==
    ASSUME ChunkTypes, NEW first, Whole(first),
           \/ chunks' = Append(chunks, current)
           \/ chunks' = chunks /\ Range(current) \subseteq Range(current')
           \/ \E piece \in Seq(Nat) : chunks' = Append(chunks, piece) /\ current' = current
    PROVE  Whole(first)'
<1> DEFINE rule == first..(first + Overlap)
<1>0. chunks \in Seq(Seq(Nat)) /\ Len(chunks) \in Nat
  BY DEF ChunkTypes
<1>1. CASE \E x : chunks' = Append(chunks, x)
  <2>1. PICK x : chunks' = Append(chunks, x)
    BY <1>1
  <2>2. /\ Len(chunks') = Len(chunks) + 1 /\ chunks'[Len(chunks) + 1] = x
        /\ \A i \in 1..Len(chunks) : chunks'[i] = chunks[i] /\ i \in 1..Len(chunks')
    BY <1>0, <2>1
  <2>3. CASE \E i \in 1..Len(chunks) : rule \subseteq Range(chunks[i])
    BY <2>2, <2>3 DEF Whole
  <2>4. CASE rule \subseteq Range(current) /\ current' = current
    BY <2>4 DEF Whole
  <2>5. CASE rule \subseteq Range(current) /\ chunks' = Append(chunks, current)
    <3>1. chunks'[Len(chunks) + 1] = current /\ Len(chunks) + 1 \in 1..Len(chunks')
      BY <1>0, <2>2, <2>5
    <3> QED BY <2>5, <3>1 DEF Whole
  <2>6. CASE rule \subseteq Range(current) /\ chunks' = chunks
    <3>1. Len(chunks') = Len(chunks)
      BY <2>6
    <3> QED BY <1>0, <2>2, <3>1
  <2> QED BY <2>3, <2>4, <2>5, <2>6 DEF Whole
<1>2. CASE chunks' = chunks /\ Range(current) \subseteq Range(current')
  BY <1>2 DEF Whole
<1> QED BY <1>1, <1>2

\* The chunks stay short enough when one of that length is added.
LEMMA ChunksGrow ==
    ASSUME ChunkTypes, NEW piece \in Seq(Nat), Len(piece) <= Size + Overlap,
           chunks' = Append(chunks, piece) \/ chunks' = chunks
    PROVE  /\ chunks' \in Seq(Seq(Nat))
           /\ \A i \in 1..Len(chunks') : Len(chunks'[i]) <= Size + Overlap
<1>1. CASE chunks' = chunks
  BY <1>1 DEF ChunkTypes
<1>2. CASE chunks' = Append(chunks, piece)
  <2>1. chunks \in Seq(Seq(Nat))
    BY DEF ChunkTypes
  <2>2. ASSUME NEW i \in 1..Len(chunks')
        PROVE  \/ i = Len(chunks) + 1 /\ chunks'[i] = piece
               \/ i \in 1..Len(chunks) /\ chunks'[i] = chunks[i]
    <3>1. Len(chunks') = Len(chunks) + 1 /\ Len(chunks) \in Nat
      BY <1>2, <2>1
    <3>2. i = Len(chunks) + 1 \/ i \in 1..Len(chunks)
      BY <3>1
    <3> QED BY <1>2, <2>1, <3>1, <3>2
  <2> QED BY <1>2, <2>1, <2>2 DEF ChunkTypes
<1> QED BY <1>1, <1>2

\* The next line is at hand; what was read before it stays where it is.
LEMMA ReadKeeps ==
    ASSUME ChunkInv, NEW n \in LineLengths, NEW blank \in BOOLEAN, ReadLine(n, blank)
    PROVE  ChunkInv'
<1> DEFINE text == [i \in 1..n |-> length + i]
<1>0. /\ line = <<>> /\ lines < MaxLines /\ lines' = lines + 1
      /\ length' = length + n
      /\ blanks' = IF blank THEN blanks \cup Range(text) ELSE blanks
      /\ seams' = IF n > Size THEN seams \cup {length + 1} ELSE seams
      /\ line' = text
      /\ \/ chunks' = Append(chunks, current) /\ current' = <<>> /\ n > Size
         \/ chunks' = chunks /\ current' = current
  BY DEF ReadLine
<1>1. n \in Nat /\ n > 0 /\ length \in Nat /\ lines \in Nat /\ MaxLines \in Nat
  BY SizesKnown, ChunkAssumption DEF ChunkInv, ChunkTypes
<1>2. /\ text \in Seq(Nat) /\ Len(text) = n
      /\ \A i \in 1..n : text[i] = length + i
  BY <1>1
<1>3. Range(text) \subseteq (length + 1)..(length + n)
  BY <1>1 DEF Range
<1> HIDE DEF text
<1>4. Next1 = length + 1 /\ Next1' = length + 1
  BY <1>0, <1>1, <1>2 DEF Next1
<1>5. blanks \subseteq blanks' /\ seams \subseteq seams'
  BY <1>0
<1>6. ChunkTypes'
  <2>1. length' \in Nat /\ lines' \in 0..MaxLines
    BY <1>0, <1>1
  <2>2. blanks' \subseteq 1..length' /\ seams' \subseteq 1..length'
    <3>1. blanks \subseteq 1..length' /\ seams \subseteq 1..length'
      BY <1>0, <1>1 DEF ChunkInv, ChunkTypes
    <3>2. Range(text) \subseteq 1..length' /\ {length + 1} \subseteq 1..length'
      BY <1>0, <1>1, <1>3
    <3> QED BY <1>0, <3>1, <3>2
  <2>3. current' \in Seq(Nat) /\ Len(current') <= Size + Overlap
    <3>1. CASE current' = current
      BY <3>1 DEF ChunkInv, ChunkTypes
    <3>2. CASE current' = <<>>
      BY <3>2, SizesKnown
    <3> QED BY <1>0, <3>1, <3>2
  <2>4. /\ chunks' \in Seq(Seq(Nat))
        /\ \A i \in 1..Len(chunks') : Len(chunks'[i]) <= Size + Overlap
    BY <1>0, ChunksGrow DEF ChunkInv, ChunkTypes
  <2>5. line' \in Seq(Nat) /\ Len(line') <= length'
        /\ \A i \in 1..Len(line') : line'[i] = length' - Len(line') + i
    BY <1>0, <1>1, <1>2
  <2> QED BY <2>1, <2>2, <2>3, <2>4, <2>5 DEF ChunkTypes
<1>7. ASSUME NEW first \in 1..length, first < Next1, Next1 - first <= Overlap,
             Plain(first, Next1 - 1)
      PROVE  EndsWith(current, first, Next1 - 1)
  BY <1>0, <1>7, SizesKnown DEF ChunkInv, Ready
<1>8. ASSUME NEW first \in 1..length', first < Next1', first + Overlap <= length',
             Plain(first, first + Overlap)'
      PROVE  \/ Whole(first)'
             \/ /\ Next1' <= first + Overlap /\ Len(line') <= Size
                /\ EndsWith(current', first, Next1' - 1)
  <2>1. first \in 1..length /\ first \in Int /\ Overlap \in Nat
    BY <1>0, <1>1, <1>4, <1>8, SizesKnown
  <2>2. CASE first + Overlap <= length
    <3>1. Plain(first, first + Overlap)
      BY <1>5, <1>8, <2>1 DEF Plain
    <3>2. Whole(first)
      BY <1>1, <1>4, <2>1, <2>2, <3>1 DEF ChunkInv, Covered
    <3> QED BY <1>0, <3>2, WholeStays DEF ChunkInv
  <2>3. CASE first + Overlap > length
    <3>1. length + 1 \in first..(first + Overlap)
      BY <1>1, <2>1, <2>3
    <3>2. ~(n > Size)
      <4>1. n > Size => length + 1 \in seams'
        BY <1>0
      <4> QED BY <1>1, <1>8, <2>1, <3>1, <4>1 DEF Plain
    <3>3. Plain(first, length)
      <4>1. length <= first + Overlap /\ first + Overlap \in Int /\ length \in Int
        BY <1>1, <2>1, <2>3
      <4>2. Plain(first, first + Overlap)'
        BY <1>8
      <4> QED BY <1>5, <2>1, <4>1, <4>2, PlainBefore
    <3>4. EndsWith(current, first, Next1 - 1)
      <4>1. Next1 - 1 = length /\ first < Next1 /\ Next1 - first <= Overlap
        BY <1>1, <1>4, <2>1, <2>3
      <4> QED BY <1>7, <2>1, <3>3, <4>1
    <3>5. current' = current /\ Len(line') <= Size /\ Next1' <= first + Overlap
      BY <1>0, <1>1, <1>2, <1>4, <2>1, <2>3, <3>2, SizesKnown
    <3> QED BY <1>4, <3>4, <3>5
  <2> QED BY <1>1, <2>1, <2>2, <2>3
<1>9. Covered'
  BY <1>8 DEF Covered
<1>10. ASSUME Len(line') <= Overlap,
              NEW first \in 1..length', first < Next1', Next1' - first <= Overlap,
              Plain(first, Next1 - 1)'
       PROVE  EndsWith(current', first, Next1' - 1)
  <2>1. current' = current
    BY <1>0, <1>1, <1>2, <1>10, SizesKnown
  <2>2. first \in 1..length
    BY <1>0, <1>1, <1>4, <1>10
  <2>3. Plain(first, Next1 - 1)
    <3>1. Next1 - 1 = length /\ (Next1 - 1)' = length
      BY <1>1, <1>4
    <3> QED BY <1>5, <1>10, <3>1 DEF Plain
  <2> QED BY <1>4, <1>7, <1>10, <2>1, <2>2, <2>3
<1>11. Ready'
  BY <1>10 DEF Ready
<1> QED BY <1>6, <1>9, <1>11 DEF ChunkInv

\* A long line gives its first Size positions to a chunk of its own, and keeps
\* the last Overlap of them.
LEMMA SplitKeeps ==
    ASSUME ChunkInv, SplitLine
    PROVE  ChunkInv'
<1> DEFINE k == Size - Overlap
           piece == SubSeq(line, 1, Size)
<1>0. /\ Len(line) > Size /\ chunks' = Append(chunks, piece)
      /\ line' = From(line, k) /\ lines' = lines /\ length' = length
      /\ blanks' = blanks /\ seams' = seams /\ current' = current
  BY DEF SplitLine
<1>1. /\ line \in Seq(Nat) /\ Len(line) <= length /\ length \in Nat
      /\ \A i \in 1..Len(line) : line[i] = length - Len(line) + i
  BY DEF ChunkInv, ChunkTypes
<1>2. k \in 1..Size /\ k \in 0..Len(line) /\ Len(line) \in Nat
  BY <1>0, <1>1, SizesKnown
<1>3. /\ line' \in Seq(Nat) /\ Len(line') = Len(line) - k
      /\ \A i \in 1..Len(line') : line'[i] = length' - Len(line') + i
  <2>1. /\ From(line, k) \in Seq(Nat) /\ Len(From(line, k)) = Len(line) - k
        /\ \A i \in 1..(Len(line) - k) : From(line, k)[i] = line[k + i]
    BY <1>1, <1>2, FromIs
  <2>2. ASSUME NEW i \in 1..(Len(line) - k)
        PROVE  line[k + i] = length - (Len(line) - k) + i
    <3>1. k + i \in 1..Len(line)
      BY <1>2
    <3>2. line[k + i] = length - Len(line) + (k + i)
      BY <1>1, <3>1
    <3> QED BY <1>1, <1>2, <3>2
  <2> QED BY <1>0, <2>1, <2>2
<1>4. /\ piece \in Seq(Nat) /\ Len(piece) = Size
      /\ \A i \in 1..Size : piece[i] = line[i]
  BY <1>0, <1>1, SizesKnown
<1>5. Next1 = length - Len(line) + 1 /\ Next1' = Next1 + k
  <2>1. Len(line') = Len(line) - k /\ length' = length /\ k \in Int
    BY <1>0, <1>2, <1>3
  <2>2. length - (Len(line) - k) + 1 = length - Len(line) + 1 + k
    BY <1>1, <1>2, <2>1
  <2> QED BY <2>1, <2>2 DEF Next1
<1> HIDE DEF k, piece, Next1
<1>6. ChunkTypes'
  <2>1. /\ chunks' \in Seq(Seq(Nat))
        /\ \A i \in 1..Len(chunks') : Len(chunks'[i]) <= Size + Overlap
    BY <1>0, <1>4, SizesKnown, ChunksGrow DEF ChunkInv
  <2>2. Len(line') <= length'
    BY <1>0, <1>1, <1>2, <1>3
  <2> QED BY <1>0, <1>3, <2>1, <2>2 DEF ChunkInv, ChunkTypes
<1>7. ASSUME NEW first \in 1..length', first < Next1', first + Overlap <= length',
             Plain(first, first + Overlap)'
      PROVE  Whole(first)'
  <2>1. first \in 1..length /\ first \in Int /\ Next1 \in Int
    BY <1>0, <1>1, <1>2, <1>5
  <2>2. CASE first < Next1
    <3>1. Plain(first, first + Overlap)
      BY <1>0, <1>7 DEF Plain
    <3>2. Whole(first)
      BY <1>0, <1>7, <2>1, <2>2, <3>1, SizesKnown DEF ChunkInv, Covered
    <3> QED BY <1>0, <1>4, <3>2, WholeStays DEF ChunkInv
  <2>3. CASE first >= Next1
    <3>1. first..(first + Overlap) \subseteq Range(piece)
      <4> SUFFICES ASSUME NEW x \in first..(first + Overlap) PROVE x \in Range(piece)
        OBVIOUS
      <4>1. x - Next1 + 1 \in 1..Size
        BY <1>2, <1>5, <1>7, <2>1, <2>3, SizesKnown DEF k
      <4>2. piece[x - Next1 + 1] = x
        <5>1. x - Next1 + 1 \in 1..Len(line)
          BY <1>0, <1>1, <4>1, SizesKnown
        <5>2. line[x - Next1 + 1] = length - Len(line) + (x - Next1 + 1)
          BY <1>1, <5>1
        <5>3. length - Len(line) + (x - Next1 + 1) = x
          BY <1>1, <1>2, <1>5, <2>1
        <5> QED BY <1>4, <4>1, <5>2, <5>3
      <4> QED BY <1>4, <4>1, <4>2, RangeHas
    <3>2. Len(chunks) + 1 \in 1..Len(chunks') /\ chunks'[Len(chunks) + 1] = piece
      BY <1>0, <1>4 DEF ChunkInv, ChunkTypes
    <3> QED BY <3>1, <3>2 DEF Whole
  <2> QED BY <2>1, <2>2, <2>3
<1>8. Covered'
  BY <1>7 DEF Covered
<1>9. Ready'
  <2>1. ~(Len(line') <= Overlap')
    BY <1>0, <1>1, <1>2, <1>3, SizesKnown DEF k
  <2> QED BY <2>1 DEF Ready
<1> QED BY <1>6, <1>8, <1>9 DEF ChunkInv

\* AddLine joins the line to the chunk at hand or to the overlap of it.
LEMMA AddKeepsEnd ==
    ASSUME ChunkInv, AddLine
    PROVE  \E kept \in Seq(Nat) :
              /\ current' = kept \o line
              /\ Len(kept) + Len(line) <= Size + Overlap
              /\ \A first \in Int, last \in Int :
                    EndsWith(current, first, last) /\ last - first + 1 <= Overlap
                    => EndsWith(kept, first, last)
<1>0. /\ Len(line) <= Size
      /\ IF Len(current) + Len(line) > Size /\ current # <<>>
         THEN current' = From(current, Max({0, Len(current) - Overlap})) \o line
         ELSE current' = current \o line
  BY DEF AddLine
<1>1. /\ line \in Seq(Nat) /\ current \in Seq(Nat)
      /\ Len(line) \in Nat /\ Len(current) \in Nat
  BY DEF ChunkInv, ChunkTypes
<1>2. CASE Len(current) + Len(line) > Size /\ current # <<>>
  <2> DEFINE start == IF Len(current) > Overlap THEN Len(current) - Overlap ELSE 0
             kept == From(current, start)
  <2>1. Max({0, Len(current) - Overlap}) = start
    BY <1>1, TailStart
  <2>2. start \in 0..Len(current) /\ Len(current) - start <= Overlap
        /\ \A n \in Int : n <= Len(current) /\ n <= Overlap => n <= Len(current) - start
    BY <1>1, SizesKnown
  <2> HIDE DEF start
  <2>3. kept \in Seq(Nat) /\ Len(kept) = Len(current) - start
    BY <1>1, <2>2, FromIs
  <2>4. current' = kept \o line
    BY <1>0, <1>2, <2>1
  <2>5. Len(kept) + Len(line) <= Size + Overlap
    BY <1>0, <1>1, <2>2, <2>3, SizesKnown
  <2>6. ASSUME NEW first \in Int, NEW last \in Int,
               EndsWith(current, first, last), last - first + 1 <= Overlap
        PROVE  EndsWith(kept, first, last)
    <3>1. last - first + 1 <= Len(current) - start
      BY <2>2, <2>6 DEF EndsWith
    <3> QED BY <1>1, <2>2, <2>6, <3>1, EndOfTail
  <2> QED BY <2>3, <2>4, <2>5, <2>6
<1>3. CASE ~(Len(current) + Len(line) > Size /\ current # <<>>)
  <2>1. current' = current \o line
    BY <1>0, <1>3
  <2>2. Len(current) + Len(line) <= Size + Overlap
    <3>1. CASE current = <<>>
      BY <1>0, <1>1, <3>1, SizesKnown
    <3> QED BY <1>1, <1>3, <3>1, SizesKnown
  <2> QED BY <1>1, <2>1, <2>2
<1> QED BY <1>2, <1>3

\* The line at hand joins the chunk, or closes it and starts the next one.
LEMMA AddKeeps ==
    ASSUME ChunkInv, AddLine
    PROVE  ChunkInv'
<1>0. /\ line # <<>> /\ Len(line) <= Size /\ line' = <<>>
      /\ lines' = lines /\ length' = length /\ blanks' = blanks /\ seams' = seams
      /\ \/ chunks' = Append(chunks, current)
         \/ chunks' = chunks /\ current' = current \o line
  BY DEF AddLine
<1>1. /\ line \in Seq(Nat) /\ Len(line) <= length /\ length \in Nat /\ Len(line) \in Nat
      /\ current \in Seq(Nat) /\ Len(current) <= Size + Overlap
      /\ \A i \in 1..Len(line) : line[i] = length - Len(line) + i
  BY DEF ChunkInv, ChunkTypes
<1>2. PICK kept \in Seq(Nat) :
          /\ current' = kept \o line
          /\ Len(kept) + Len(line) <= Size + Overlap
          /\ \A first \in Int, last \in Int :
                EndsWith(current, first, last) /\ last - first + 1 <= Overlap
                => EndsWith(kept, first, last)
  BY AddKeepsEnd
<1>3. current' \in Seq(Nat) /\ Len(current') <= Size + Overlap
  BY <1>1, <1>2, JoinIs
<1>4. ChunkTypes'
  <2>1. /\ chunks' \in Seq(Seq(Nat))
        /\ \A i \in 1..Len(chunks') : Len(chunks'[i]) <= Size + Overlap
    BY <1>0, <1>1, ChunksGrow DEF ChunkInv
  <2>2. line' \in Seq(Nat) /\ Len(line') = 0
    BY <1>0
  <2> QED BY <1>0, <1>1, <1>3, <2>1, <2>2 DEF ChunkInv, ChunkTypes
<1>5. Next1 = length - Len(line) + 1 /\ Next1' = length + 1
  BY <1>0, <1>1 DEF Next1
<1> HIDE DEF Next1
<1>6. ASSUME NEW first \in 1..length,
             first >= Next1
             \/ /\ EndsWith(current, first, Next1 - 1)
                /\ Next1 - first <= Overlap
      PROVE  EndsWith(current', first, length)
  <2>0. first \in Int /\ Next1 \in Int /\ length \in Int
    BY <1>1, <1>5
  <2>1. CASE first >= Next1
    <3>1. length - first < Len(line) /\ \A i \in 1..Len(line) : line[i] = length - Len(line) + i
      BY <1>1, <1>5, <2>0, <2>1
    <3>2. EndsWith(kept \o line, first, length)
      BY <1>1, <2>0, <3>1, EndReplaced
    <3> QED BY <1>2, <3>2
  <2>2. CASE first < Next1 /\ EndsWith(current, first, Next1 - 1) /\ Next1 - first <= Overlap
    <3> DEFINE mid == Next1 - 1
    <3>1. mid \in Int /\ first <= mid /\ mid <= length /\ mid - first + 1 <= Overlap
          /\ Len(line) = length - mid
      BY <1>1, <1>5, <2>0, <2>2
    <3>2. EndsWith(kept, first, mid)
      BY <1>2, <2>0, <2>2, <3>1
    <3>3. \A i \in 1..Len(line) : line[i] = mid + i
      BY <1>1, <1>5
    <3> HIDE DEF mid
    <3>4. EndsWith(kept \o line, first, length)
      BY <1>1, <2>0, <3>1, <3>2, <3>3, EndJoined
    <3> QED BY <1>2, <3>4
  <2> QED BY <1>6, <2>0, <2>1, <2>2
<1>7. ASSUME NEW first \in 1..length', first < Next1', first + Overlap <= length',
             Plain(first, first + Overlap)'
      PROVE  Whole(first)'
  <2>1. first \in 1..length /\ first \in Int /\ Next1 \in Int /\ Overlap \in Nat
    BY <1>0, <1>1, <1>5, <1>7, SizesKnown
  <2>2. CASE Whole(first)
    <3>1. CASE chunks' = Append(chunks, current)
      BY <2>2, <3>1, WholeStays DEF ChunkInv
    <3>2. CASE chunks' = chunks /\ current' = current \o line
      <4>1. Range(current) \subseteq Range(current')
        BY <1>1, <3>2, JoinRange
      <4> QED BY <2>2, <3>2, <4>1, WholeStays DEF ChunkInv
    <3> QED BY <1>0, <3>1, <3>2
  <2>3. CASE EndsWith(current', first, length)
    <3>1. first..length \subseteq Range(current')
      BY <1>1, <1>3, <2>1, <2>3, EndInRange
    <3>2. first..(first + Overlap) \subseteq first..length
      BY <1>0, <1>1, <1>7, <2>1
    <3>3. first..(first + Overlap) \subseteq Range(current')
      BY <3>1, <3>2
    <3> QED BY <3>3 DEF Whole
  <2>4. CASE first < Next1
    <3>1. Plain(first, first + Overlap)
      BY <1>0, <1>7 DEF Plain
    <3>2. \/ Whole(first)
          \/ Next1 <= first + Overlap /\ EndsWith(current, first, Next1 - 1)
      BY <1>0, <1>7, <2>1, <2>4, <3>1 DEF ChunkInv, Covered
    <3>3. Next1 <= first + Overlap => Next1 - first <= Overlap
      BY <2>1
    <3> QED BY <1>6, <2>1, <2>2, <2>3, <3>2, <3>3
  <2>5. CASE first >= Next1
    BY <1>6, <2>1, <2>3, <2>5
  <2> QED BY <2>1, <2>4, <2>5
<1>8. Covered'
  BY <1>7 DEF Covered
<1>9. ASSUME NEW first \in 1..length', first < Next1', Next1' - first <= Overlap,
             Plain(first, Next1 - 1)'
      PROVE  EndsWith(current', first, Next1' - 1)
  <2>0. first \in 1..length /\ first \in Int /\ Next1 \in Int /\ Overlap \in Nat
        /\ Next1' - 1 = length
    BY <1>0, <1>1, <1>5, <1>9, SizesKnown
  <2>1. CASE first >= Next1
    BY <1>6, <2>0, <2>1
  <2>2. CASE first < Next1
    <3>1. Len(line) <= Overlap /\ Next1 - first <= Overlap
      BY <1>1, <1>5, <1>9, <2>0, <2>2
    <3>2. Plain(first, Next1 - 1)
      <4>1. Plain(first, length)
        BY <1>0, <1>9, <2>0 DEF Plain
      <4>2. first..(Next1 - 1) \subseteq first..length
        BY <1>1, <1>5, <2>0
      <4> QED BY <4>1, <4>2 DEF Plain
    <3>3. EndsWith(current, first, Next1 - 1)
      BY <2>0, <2>2, <3>1, <3>2 DEF ChunkInv, Ready
    <3> QED BY <1>6, <2>0, <3>1, <3>3
  <2> QED BY <2>0, <2>1, <2>2
<1>10. Ready'
  BY <1>9 DEF Ready
<1> QED BY <1>4, <1>8, <1>10 DEF ChunkInv

\* Nothing is read yet.
LEMMA ChunkBegins == ChunkInit => ChunkInv
<1> SUFFICES ASSUME ChunkInit PROVE ChunkInv
  OBVIOUS
<1>1. /\ lines = 0 /\ length = 0 /\ blanks = {} /\ seams = {}
      /\ line = <<>> /\ current = <<>> /\ chunks = <<>>
  BY DEF ChunkInit
<1>2. MaxLines \in Nat
  BY ChunkAssumption
<1>3. ChunkTypes
  BY <1>1, <1>2, SizesKnown DEF ChunkTypes
<1>4. 1..length = {}
  BY <1>1
<1> QED BY <1>3, <1>4 DEF ChunkInv, Covered, Ready

\* What the invariant says between lines.
LEMMA ChunksHoldRules ==
    ASSUME ChunkInv
    PROVE  RulesWhole
<1>1. /\ length \in Nat /\ chunks \in Seq(Seq(Nat)) /\ current \in Seq(Nat)
      /\ Len(current) <= Size + Overlap
      /\ \A i \in 1..Len(chunks) : Len(chunks[i]) <= Size + Overlap
  BY DEF ChunkInv, ChunkTypes
<1> DEFINE all == Append(chunks, current)
<1>2. /\ Len(all) = Len(chunks) + 1 /\ Len(chunks) \in Nat /\ all \in Seq(Seq(Nat))
      /\ all[Len(chunks) + 1] = current
      /\ \A i \in 1..Len(chunks) : all[i] = chunks[i]
  BY <1>1
<1>3. /\ \A i \in 1..Len(all) : all[i] = current \/ \E j \in 1..Len(chunks) : all[i] = chunks[j]
      /\ \A i \in 1..Len(chunks) : chunks[i] \in Range(all)
      /\ current \in Range(all)
  <2>1. ASSUME NEW i \in 1..Len(all)
        PROVE  all[i] = current \/ \E j \in 1..Len(chunks) : all[i] = chunks[j]
    <3>1. i = Len(chunks) + 1 \/ i \in 1..Len(chunks)
      BY <1>2
    <3> QED BY <1>2, <3>1
  <2>2. ASSUME NEW i \in 1..Len(chunks) PROVE chunks[i] \in Range(all)
    <3>1. i \in 1..Len(all) /\ all[i] = chunks[i]
      BY <1>2
    <3> QED BY <1>2, <3>1, RangeHas
  <2>3. current \in Range(all)
    <3>1. Len(chunks) + 1 \in 1..Len(all)
      BY <1>2
    <3> QED BY <1>2, <3>1, RangeHas
  <2> QED BY <2>1, <2>2, <2>3
<1>4. ASSUME NEW text \in Chunks PROVE Len(text) <= Size + Overlap
  <2>1. text \in Range(all)
    BY DEF Chunks
  <2>2. PICK i \in 1..Len(all) : text = all[i]
    BY <1>2, <2>1 DEF Range
  <2> QED BY <1>1, <1>3, <2>2
<1> HIDE DEF all
<1>5. ASSUME line = <<>>, NEW first \in 1..length, first + Overlap <= length,
             \A s \in seams : s \in first..(first + Overlap) => s = first,
             first..(first + Overlap) \cap blanks = {}
      PROVE  \E text \in Chunks : first..(first + Overlap) \subseteq Range(text)
  <2>0. first \in Int /\ Overlap \in Nat
    BY SizesKnown
  <2>1. Plain(first, first + Overlap)
    BY <1>5 DEF Plain
  <2>2. Next1 = length + 1
    BY <1>1, <1>5 DEF Next1
  <2>3. Whole(first)
    BY <1>1, <1>5, <2>0, <2>1, <2>2 DEF ChunkInv, Covered
  <2>4. PICK text \in Range(all) : first..(first + Overlap) \subseteq Range(text)
    BY <1>3, <2>3 DEF Whole
  <2>5. first \in first..(first + Overlap)
    BY <2>0
  <2>6. ~ IsBlank(text)
    BY <1>5, <2>4, <2>5 DEF IsBlank
  <2> QED BY <2>4, <2>6 DEF Chunks, all
<1>6. ASSUME NEW first \in 1..length
      PROVE  first + Overlap <= length \/ first + Overlap > length
  BY <1>1, SizesKnown
<1> QED BY <1>4, <1>5, <1>6 DEF RulesWhole

\* Whatever the size of the chunks, their overlap and the lines of the file:
\* a rule no longer than the overlap and one character is whole in a chunk,
\* and no chunk is longer than the size and the overlap together.
THEOREM RulesStayWhole == ChunkSpec => []RulesWhole
<1>1. ChunkInv /\ [ChunkNext]_chunkVars => ChunkInv'
  <2> SUFFICES ASSUME ChunkInv, [ChunkNext]_chunkVars PROVE ChunkInv'
    OBVIOUS
  <2>1. CASE \E n \in LineLengths, blank \in BOOLEAN : ReadLine(n, blank)
    BY <2>1, ReadKeeps
  <2>2. CASE SplitLine
    BY <2>2, SplitKeeps
  <2>3. CASE AddLine
    BY <2>3, AddKeeps
  <2>4. CASE UNCHANGED chunkVars
    BY <2>4 DEF chunkVars, ChunkInv, ChunkTypes, Covered, Ready, Next1, Plain, Whole
  <2> QED BY <2>1, <2>2, <2>3, <2>4 DEF ChunkNext, ChunkStopped
<1> QED BY <1>1, ChunkBegins, ChunksHoldRules, PTL DEF ChunkSpec

-----------------------------------------------------------------------------
(* The chunks: what they are made of *)

\* The line at hand and the chunks consist of characters that were read.
Positions ==
    /\ length \in Nat /\ lines \in 0..MaxLines
    /\ blanks \subseteq 1..length /\ seams \subseteq 1..length
    /\ line \in Seq(1..length) /\ current \in Seq(1..length)
    /\ chunks \in Seq(Seq(1..length))

\* No step brings in a character of its own.
LEMMA PositionsKeep == Positions /\ [ChunkNext]_chunkVars => Positions'
<1> SUFFICES ASSUME Positions, [ChunkNext]_chunkVars PROVE Positions'
  OBVIOUS
<1>0. /\ Size \in Nat /\ Overlap \in Nat /\ Overlap < Size /\ MaxLines \in Nat
      /\ LineLengths \subseteq Nat \ {0}
  BY ChunkAssumption
<1>1. ASSUME NEW n \in LineLengths, NEW blank \in BOOLEAN, ReadLine(n, blank)
      PROVE  Positions'
  <2> DEFINE new == [i \in 1..n |-> length + i]
  <2>1. /\ lines < MaxLines /\ lines' = lines + 1 /\ length' = length + n
        /\ blanks' \in {blanks, blanks \cup Range(new)}
        /\ seams' \in {seams, seams \cup {length + 1}} /\ line' = new
        /\ \/ chunks' = Append(chunks, current) /\ current' = <<>>
           \/ chunks' = chunks /\ current' = current
    BY <1>1 DEF ReadLine
  <2>2. length' \in Nat /\ 1..length \subseteq 1..length' /\ length + 1 \in 1..length'
        /\ n \in Nat
    BY <1>0, <2>1 DEF Positions
  <2>3. new \in Seq(1..length') /\ Range(new) \subseteq 1..length'
    <3>1. \A i \in 1..n : length + i \in 1..length'
      BY <2>1, <2>2 DEF Positions
    <3>2. new \in Seq(1..length')
      BY <2>2, <3>1
    <3> QED BY <3>2, SeqHolds
  <2> HIDE DEF new
  <2>4. current \in Seq(1..length') /\ chunks \in Seq(Seq(1..length'))
    <3>1. Seq(1..length) \subseteq Seq(1..length')
      BY <2>2, WiderSeq
    <3>2. Seq(Seq(1..length)) \subseteq Seq(Seq(1..length'))
      BY <3>1, WiderSeq
    <3> QED BY <3>1, <3>2 DEF Positions
  <2>5. Append(chunks, current) \in Seq(Seq(1..length')) /\ <<>> \in Seq(1..length')
    BY <2>4
  <2>6. current' \in Seq(1..length') /\ chunks' \in Seq(Seq(1..length'))
    BY <2>1, <2>4, <2>5
  <2>7. blanks' \subseteq 1..length' /\ seams' \subseteq 1..length'
    BY <2>1, <2>2, <2>3 DEF Positions
  <2>8. lines' \in 0..MaxLines
    BY <1>0, <2>1 DEF Positions
  <2> QED BY <2>1, <2>2, <2>3, <2>6, <2>7, <2>8 DEF Positions
<1> DEFINE S == 1..length
<1>s. /\ line \in Seq(S) /\ current \in Seq(S) /\ chunks \in Seq(Seq(S))
      /\ Len(line) \in Nat /\ Len(current) \in Nat
  BY DEF Positions
<1>2. CASE SplitLine
  <2>1. /\ Len(line) > Size /\ chunks' = Append(chunks, SubSeq(line, 1, Size))
        /\ line' = From(line, Size - Overlap)
        /\ UNCHANGED <<lines, length, blanks, seams, current>>
    BY <1>2 DEF SplitLine
  <2> HIDE DEF S
  <2>2. SubSeq(line, 1, Size) \in Seq(S)
    <3>1. Size \in 0..Len(line)
      BY <1>0, <1>s, <2>1
    <3> QED BY <1>s, <3>1, PartIs
  <2>3. From(line, Size - Overlap) \in Seq(S)
    <3>1. Size - Overlap \in 0..Len(line)
      BY <1>0, <1>s, <2>1
    <3> QED BY <1>s, <3>1, FromIs
  <2>4. chunks' \in Seq(Seq(S))
    BY <1>s, <2>1, <2>2
  <2> QED BY <1>s, <2>1, <2>3, <2>4 DEF Positions, S
<1>3. CASE AddLine
  <2> DEFINE n == Max({0, Len(current) - Overlap})
  <2>1. /\ line' = <<>> /\ UNCHANGED <<lines, length, blanks, seams>>
        /\ \/ chunks' = Append(chunks, current) /\ current' = From(current, n) \o line
           \/ chunks' = chunks /\ current' = current \o line
    BY <1>3 DEF AddLine
  <2>2. n \in 0..Len(current)
    <3>1. n = IF Len(current) > Overlap THEN Len(current) - Overlap ELSE 0
      BY <1>s, TailStart
    <3> QED BY <1>0, <1>s, <3>1
  <2> HIDE DEF n, S
  <2>3. From(current, n) \in Seq(S)
    BY <1>s, <2>2, FromIs
  <2>5. From(current, n) \o line \in Seq(S) /\ current \o line \in Seq(S)
    BY <1>s, <2>3
  <2>6. Append(chunks, current) \in Seq(Seq(S)) /\ <<>> \in Seq(S)
    BY <1>s
  <2>4. current' \in Seq(S) /\ chunks' \in Seq(Seq(S)) /\ line' \in Seq(S)
    BY <1>s, <2>1, <2>5, <2>6
  <2> QED BY <2>1, <2>4 DEF Positions, S
<1>4. CASE ChunkStopped \/ UNCHANGED chunkVars
  BY <1>4 DEF ChunkStopped, chunkVars, Positions
<1> QED BY <1>1, <1>2, <1>3, <1>4 DEF ChunkNext

\* Whatever the file: its chunks hold only characters of its own.
THEOREM ChunksTyped == ChunkSpec => []ChunkTypeOK
<1>1. ChunkInit => Positions
  BY ChunkAssumption DEF ChunkInit, Positions
<1>2. Positions => ChunkTypeOK
  <2> SUFFICES ASSUME Positions PROVE ChunkTypeOK
    OBVIOUS
  <2>1. Range(line) \subseteq 1..length /\ Range(current) \subseteq 1..length
    BY SeqHolds DEF Positions
  <2>2. \A i \in DOMAIN chunks : chunks[i] \in Seq(1..length)
    BY DEF Positions
  <2>3. \A i \in DOMAIN chunks : Range(chunks[i]) \subseteq 1..length
    BY <2>2, SeqHolds
  <2> QED BY <2>1, <2>3 DEF Positions, ChunkTypeOK
<1> QED BY <1>1, <1>2, PositionsKeep, PTL DEF ChunkSpec

-----------------------------------------------------------------------------
(***************************************************************************)
(* The components side by side, as MCContents composes them                *)
(***************************************************************************)

\* The components share no state: each of them, seen by itself, only does what
\* its own specification allows, so what is proved of it holds there too.
THEOREM PartsOfContents ==
    ContentsSpec => /\ Spec /\ CollectionSpec /\ ChunkSpec
                    /\ ConversationSpec /\ StreamSpec /\ PageSpec
<1>1. ContentsInit => /\ Init /\ CollectionInit /\ ChunkInit
                      /\ ConversationInit /\ StreamInit /\ PageInit
  BY DEF ContentsInit
<1>2. [ContentsNext]_contentsVars
          => /\ [Next]_vars /\ [CollectionNext]_collectionVars /\ [ChunkNext]_chunkVars
             /\ [ConversationNext]_conversationVars /\ [StreamNext]_streamVars
             /\ [PageNext]_pageVars
  BY DEF ContentsNext, contentsVars
<1> QED BY <1>1, <1>2, PTL
        DEF ContentsSpec, Spec, CollectionSpec, ChunkSpec, ConversationSpec,
            StreamSpec, PageSpec

\* Guidelines, their index and their chunks, conversations, replies and the
\* page have their types throughout, whichever component is at work.
THEOREM ContentsTyped == ContentsSpec => []ContentsTypeOK
<1>1. /\ StoreInv /\ IndexOwed /\ ChunkTypeOK
      /\ ConversationTypeOK /\ StreamTypeOK /\ PageTypeOK
      => ContentsTypeOK
  BY DEF ContentsTypeOK, StoreInv, IndexOwed
<1> QED BY <1>1, PartsOfContents, StoreInvHolds, IndexOwedHolds, ChunksTyped,
           ConversationsTyped, StreamTyped, PageTyped, PTL

=============================================================================
