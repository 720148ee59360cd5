------------------------------- MODULE Store --------------------------------
(***************************************************************************)
(* The bytes of one file on their way from the seeder's disk to the         *)
(* downloader's: the hashes ShareFile announces (piece_verification.go),    *)
(* the chunks the seeder reads when it is asked (store.go) and the output   *)
(* file (writeAndVerifyChunk in server.go).                                 *)
(*                                                                          *)
(* The seeder works on its user's file, not on a copy: ShareFile reads it   *)
(* several times, every request reads it again, and the user may edit it in *)
(* between.  A byte is a pair of the edit that wrote it and the position it *)
(* was written at, so a byte that ends up elsewhere shows.  A hash is the   *)
(* content it was taken of.  An edit changes the file in place, at once, and   *)
(* a read sees it before or after the edit.                                 *)
(***************************************************************************)
EXTENDS Naturals, Sequences, FiniteSets

CONSTANTS
    ChunkSize,  \* bytes of a chunk (16 MB)
    MaxSize,    \* bound: bytes of the file
    MaxEdits,   \* bound: edits in a behaviour
    MaxFlight,  \* bound: requests being served and answers under way
    ZERO        \* the byte of a gap that nobody wrote

ASSUME ChunkSizeAssumption == ChunkSize \in Nat \ {0}
ASSUME BoundsAssumption    == {MaxSize, MaxEdits, MaxFlight} \subseteq Nat
ASSUME ZeroAssumption      == ZERO \notin (0 .. MaxEdits) \X (1 .. MaxSize)

VARIABLES
    file,     \* the seeder's file
    edits,    \* edits so far
    shrunk,   \* an edit has made the file shorter
    at,       \* progress of ShareFile
    meta,     \* the metadata it collects, then announces
    reading,  \* the chunks that handleChunkRequest is reading
    answers,  \* chunks on their way to the downloader
    output,   \* the downloader's output file
    have      \* pieces it has written

seederVars == <<at, meta, reading>>
vars       == <<file, edits, shrunk, seederVars, answers, output, have>>

Byte == {ZERO} \cup ((0 .. MaxEdits) \X (1 .. MaxSize))

IsContent(f) == f \in Seq(Byte) /\ Len(f) <= MaxSize

\* Mutation: the short last chunk is not counted.
WholeChunks(size) == size \div ChunkSize

numChunks(size) == (size + ChunkSize - 1) \div ChunkSize

Pieces == 0 .. numChunks(meta.TotalSize) - 1

\* A file of length n written by edit v.
Written(v, n) == [p \in 1 .. n |-> <<v, p>>]

TypeOK ==
    /\ IsContent(file)
    /\ edits   \in 0 .. MaxEdits
    /\ shrunk  \in BOOLEAN
    /\ at      \in {"id", "stat", "total", "chunks", "shared"}
    /\ IsContent(meta.FileID) /\ IsContent(meta.TotalHash)
    /\ meta.TotalSize \in 0 .. MaxSize
    /\ \A i \in 1 .. Len(meta.ChunkHashes) : IsContent(meta.ChunkHashes[i])
    /\ meta.offset \in 0 .. MaxSize
    /\ reading \subseteq [chunk : Pieces, size : 1 .. MaxSize]
    /\ \A a \in answers : /\ a.chunk \in Pieces
                          /\ IsContent(a.data)
                          /\ Len(a.data) \in 1 .. ChunkSize
    /\ IsContent(output)
    /\ have    \subseteq Pieces

\* A user shares a file of any size.
Init ==
    /\ \E n \in 0 .. MaxSize : file = Written(0, n)
    /\ edits   = 0
    /\ shrunk  = FALSE
    /\ at      = "id"
    /\ meta    = [FileID |-> <<>>, TotalHash |-> <<>>, TotalSize |-> 0,
                  ChunkHashes |-> <<>>, offset |-> 0]
    /\ reading = {}
    /\ answers = {}
    /\ output  = <<>>
    /\ have    = {}

\* The user overwrites the file, with any length, or cuts it off.
Edit(new) ==
    /\ edits < MaxEdits
    /\ edits'  = edits + 1
    /\ file'   = new
    /\ shrunk' = (shrunk \/ Len(new) < Len(file))
    /\ UNCHANGED <<seederVars, answers, output, have>>

Overwrite(n) == Edit(Written(edits + 1, n))
Truncate(n)  == n < Len(file) /\ Edit(SubSeq(file, 1, n))

-----------------------------------------------------------------------------
(***************************************************************************)
(* ShareFile: generateFileID, then generateFileHashes.                      *)
(***************************************************************************)

\* One read of the file, the next one.
ShareStep(from, to, newMeta) ==
    /\ at = from
    /\ at' = to
    /\ meta' = newMeta
    /\ UNCHANGED <<file, edits, shrunk, reading, answers, output, have>>

generateFileID == ShareStep("id", "stat", [meta EXCEPT !.FileID = file])
StatFile       == ShareStep("stat", "total", [meta EXCEPT !.TotalSize = Len(file)])
HashTotal      == ShareStep("total", "chunks", [meta EXCEPT !.TotalHash = file])

\* os.File.Read at the file's own offset: as much as there is.
Read(offset) ==
    SubSeq(file, offset + 1,
           IF offset + ChunkSize < Len(file) THEN offset + ChunkSize ELSE Len(file))

\* The next chunk hash.  The end of the file is no error here.
HashChunk ==
    LET data == Read(meta.offset)
    IN  /\ Len(meta.ChunkHashes) < numChunks(meta.TotalSize)
        /\ ShareStep("chunks", "chunks",
              [meta EXCEPT !.ChunkHashes = Append(@, data),
                           !.offset = @ + Len(data)])

\* The file enters activeFiles and is announced.
AddActiveFile ==
    /\ Len(meta.ChunkHashes) = numChunks(meta.TotalSize)
    /\ ShareStep("chunks", "shared", meta)

-----------------------------------------------------------------------------
(***************************************************************************)
(* The seeder's ReadChunk: the size first, then the bytes.                  *)
(***************************************************************************)

\* A request for a chunk that the metadata does not know is refused, and so is
\* one that starts behind the end of the file as it is now.
StatChunk(i) ==
    /\ at = "shared"
    /\ Cardinality(reading) + Cardinality(answers) < MaxFlight
    /\ i \in Pieces
    /\ i * ChunkSize < Len(file)
    /\ reading' = reading \cup {[chunk |-> i, size |-> Len(file)]}
    /\ UNCHANGED <<file, edits, shrunk, at, meta, answers, output, have>>

\* Mutation: the end of the last chunk is not clipped to the file.
UnclippedChunkAt(i, size) ==
    [p \in 1 .. ChunkSize |->
        IF i * ChunkSize + p <= Len(file) THEN file[i * ChunkSize + p] ELSE ZERO]

\* The bytes of chunk i of a file that was `size' long a moment ago: the
\* buffer keeps its zeros where the file has become shorter.
ChunkAt(i, size) ==
    LET start == i * ChunkSize
        end   == IF start + ChunkSize > size THEN size ELSE start + ChunkSize
    IN  [p \in 1 .. end - start |->
            IF start + p <= Len(file) THEN file[start + p] ELSE ZERO]

ReadChunk(r) ==
    /\ r \in reading
    /\ reading' = reading \ {r}
    /\ answers' = answers \cup {[chunk |-> r.chunk, data |-> ChunkAt(r.chunk, r.size)]}
    /\ UNCHANGED <<file, edits, shrunk, at, meta, output, have>>

-----------------------------------------------------------------------------
(***************************************************************************)
(* The downloader's writeAndVerifyChunk.                                    *)
(***************************************************************************)

\* WriteAt: the file grows as far as needed; a gap reads as zeros.
WriteAt(f, start, data) ==
    [p \in 1 .. IF start + Len(data) > Len(f) THEN start + Len(data) ELSE Len(f) |->
        IF p \in start + 1 .. start + Len(data) THEN data[p - start]
        ELSE IF p <= Len(f) THEN f[p] ELSE ZERO]

\* Mutation: chunks are counted from 1.
writeNextChunk(a) ==
    /\ a \in answers
    /\ output'  = WriteAt(output, (a.chunk + 1) * ChunkSize, a.data)
    /\ have'    = have \cup {a.chunk}
    /\ answers' = answers \ {a}
    /\ UNCHANGED <<file, edits, shrunk, seederVars>>

\* Mutation: chunks are appended as they come.
appendChunk(a) ==
    /\ a \in answers
    /\ output'  = IF Len(output) + Len(a.data) > MaxSize THEN output ELSE output \o a.data
    /\ have'    = have \cup {a.chunk}
    /\ answers' = answers \ {a}
    /\ UNCHANGED <<file, edits, shrunk, seederVars>>

\* Only the length of the data is checked.  Chunks arrive in any order.
writeAndVerifyChunk(a) ==
    /\ a \in answers
    /\ Len(a.data) <= ChunkSize
    /\ output'  = WriteAt(output, a.chunk * ChunkSize, a.data)
    /\ have'    = have \cup {a.chunk}
    /\ answers' = answers \ {a}
    /\ UNCHANGED <<file, edits, shrunk, seederVars>>

\* The answer is lost, or every try to write it fails, the last one after n
\* bytes.  The piece will be asked for again.
ChunkFails(a, n) ==
    /\ a \in answers
    /\ output'  = IF n = 0 THEN output
                 ELSE WriteAt(output, a.chunk * ChunkSize, SubSeq(a.data, 1, n))
    /\ answers' = answers \ {a}
    /\ UNCHANGED <<file, edits, shrunk, seederVars, have>>

-----------------------------------------------------------------------------
Next ==
    \/ \E n \in 0 .. MaxSize : Overwrite(n) \/ Truncate(n)
    \/ generateFileID
    \/ StatFile
    \/ HashTotal
    \/ HashChunk
    \/ AddActiveFile
    \/ \E i \in Pieces : StatChunk(i)
    \/ \E r \in reading : ReadChunk(r)
    \/ \E a \in answers :
          \/ writeAndVerifyChunk(a)
          \/ \E n \in 0 .. Len(a.data) - 1 : ChunkFails(a, n)

Spec == Init /\ [][Next]_vars

-----------------------------------------------------------------------------
(***************************************************************************)
(* Properties.                                                              *)
(***************************************************************************)
Complete == at = "shared" /\ have = Pieces

\* Whether the output is still there once DownloadFile has returned: its
\* deferred function removes a file of length 0, whatever the result is.
OutputKept == output # <<>>

\* The two checks of the repository that no code calls. The second opens the
\* file, so it fails for an output that was removed.
verifyChunk(data, expectedHash)    == data = expectedHash
verifyDownloadedFile(expectedHash) == OutputKept /\ output = expectedHash

\* A file that nobody edits arrives as it was: every chunk would pass
\* verifyChunk, the file ID is the announced hash, and a complete download
\* keeps its output, which would pass verifyDownloadedFile, for every size but
\* 0 (less than a chunk, whole chunks, a short last chunk) and in whatever
\* order and however often chunks arrive. Of an empty file nothing arrives:
\* the download succeeds and DownloadFile removes its output.
HonestTransferVerifies ==
    edits = 0 =>
        /\ at = "shared" => meta.FileID = meta.TotalHash
        /\ \A a \in answers : verifyChunk(a.data, meta.ChunkHashes[a.chunk + 1])
        /\ Complete => IF meta.TotalSize = 0 THEN ~OutputKept
                       ELSE verifyDownloadedFile(meta.TotalHash)

\* Edits mix versions, but never places: a byte of the output is a gap or was
\* at this very position of the seeder's file at some time.
BytesKeepTheirPlace ==
    \A p \in 1 .. Len(output) : output[p] = ZERO \/ output[p][2] = p

\* A complete download has a gap only where the seeder's file had an end: if
\* no edit made the file shorter, all the announced bytes are there, also when
\* the file was edited while it was hashed.
GapsMeanShrunk ==
    Complete /\ ~shrunk =>
        /\ Len(output) >= meta.TotalSize
        /\ \A p \in 1 .. Len(output) : output[p] # ZERO
=============================================================================
