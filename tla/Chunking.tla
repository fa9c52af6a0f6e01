------------------------------ MODULE Chunking ------------------------------
(***************************************************************************)
(* chunk_text: a guideline is cut into chunks, line by line.  A character  *)
(* is its position in the file; of a line matter its length and whether it *)
(* is blank.  Lines arrive one by one, so every file up to the bound is    *)
(* tried.                                                                  *)
(***************************************************************************)
EXTENDS Integers, Sequences, SequencesExt

CONSTANTS
    Size,       \* size: the length of a chunk
    Overlap,    \* overlap: what neighbouring chunks share
    LineLengths,\* bound: the lengths of the lines
    MaxLines    \* bound: the lines of a file

ASSUME ChunkAssumption ==
    /\ Size \in Nat /\ Overlap \in Nat /\ Overlap < Size
    /\ LineLengths \subseteq Nat \ {0} /\ MaxLines \in Nat

VARIABLES
    lines,      \* how many lines have been read
    length,     \* how many characters they have
    blanks,     \* the characters of blank lines
    seams,      \* the characters that a line longer than Size begins with
    line,       \* what is left of the line at hand
    current,    \* the chunk at hand
    chunks      \* the finished chunks

chunkVars == <<lines, length, blanks, seams, line, current, chunks>>

ChunkInit ==
    /\ lines = 0 /\ length = 0
    /\ blanks = {} /\ seams = {}
    /\ line = <<>> /\ current = <<>> /\ chunks = <<>>

IsBlank(text) == Range(text) \subseteq blanks
From(text, n) == SubSeq(text, n + 1, Len(text))

\* The next line; a long one ends the chunk at hand.
ReadLine(n, blank) ==
    LET text == [i \in 1..n |-> length + i]
        long == n > Size
    IN  /\ line = <<>> /\ lines < MaxLines
        /\ lines' = lines + 1
        /\ length' = length + n
        /\ blanks' = IF blank THEN blanks \cup Range(text) ELSE blanks
        /\ seams' = IF long THEN seams \cup {length + 1} ELSE seams
        /\ line' = text
        /\ IF long /\ ~ IsBlank(current)
           THEN chunks' = Append(chunks, current) /\ current' = <<>>
           ELSE UNCHANGED <<chunks, current>>

\* Mutant of SplitLine: the pieces of a long line do not overlap.
SplitLineApart ==
    /\ Len(line) > Size
    /\ chunks' = Append(chunks, SubSeq(line, 1, Size))
    /\ line' = From(line, Size)
    /\ UNCHANGED <<lines, length, blanks, seams, current>>

\* A piece of a line that is too long.
SplitLine ==
    /\ Len(line) > Size
    /\ chunks' = Append(chunks, SubSeq(line, 1, Size))
    /\ line' = From(line, Size - Overlap)
    /\ UNCHANGED <<lines, length, blanks, seams, current>>

\* The line joins the chunk at hand, or the tail of that chunk.
AddLine ==
    /\ line # <<>> /\ Len(line) <= Size
    /\ IF Len(current) + Len(line) > Size /\ current # <<>>
       THEN /\ chunks' = Append(chunks, current)
            /\ current' = From(current, Max({0, Len(current) - Overlap})) \o line
       ELSE /\ current' = current \o line
            /\ UNCHANGED chunks
    /\ line' = <<>>
    /\ UNCHANGED <<lines, length, blanks, seams>>

\* The bound is reached.
ChunkStopped == lines = MaxLines /\ line = <<>> /\ UNCHANGED chunkVars

ChunkNext ==
    \/ \E n \in LineLengths, blank \in BOOLEAN : ReadLine(n, blank)
    \/ SplitLine \/ AddLine \/ ChunkStopped

ChunkSpec == ChunkInit /\ [][ChunkNext]_chunkVars

\* What chunk_text returns for the lines read so far, in any order.
Chunks == {text \in Range(Append(chunks, current)) : ~ IsBlank(text)}

-----------------------------------------------------------------------------
(* Properties *)

\* Characters are positions; chunks are made of them.
ChunkTypeOK ==
    /\ lines \in 0..MaxLines /\ length \in Nat
    /\ blanks \cup seams \subseteq 1..length
    /\ Range(line) \cup Range(current) \subseteq 1..length
    /\ \A i \in DOMAIN chunks : Range(chunks[i]) \subseteq 1..length

\* The docstring: "so a rule that straddles two chunks still shows up whole
\* in one of them".  A rule no longer than the overlap and the character
\* after it is whole in a chunk, unless it runs into a line longer than a
\* chunk, or its chunk would hold nothing but blank lines; and no chunk is
\* longer than Size and Overlap.
RulesWhole ==
    /\ \A text \in Chunks : Len(text) <= Size + Overlap
    /\ line = <<>> =>
          \A first \in 1..length :
              LET rule == first..(first + Overlap)
              IN  \/ first + Overlap > length
                  \/ \E s \in seams : s \in rule /\ s # first
                  \/ rule \cap blanks # {}
                  \/ \E text \in Chunks : rule \subseteq Range(text)
=============================================================================
