---------------------------- MODULE StoreProofs -----------------------------
(***************************************************************************)
(* Proofs about Store, for any chunk size and any bounds: files of every    *)
(* size, edited at any time, sent in any order and any number of times.     *)
(***************************************************************************)
EXTENDS Store, SequenceTheorems, TLAPS

(***************************************************************************)
(* The inductive invariant has three layers.  The first is about types and  *)
(* places: what is under way starts and ends where its chunk does.          *)
(***************************************************************************)
Metadata == [FileID : Seq(Byte), TotalHash : Seq(Byte), TotalSize : 0 .. MaxSize,
             ChunkHashes : Seq(Seq(Byte)), offset : 0 .. MaxSize]

Start(i) == i * ChunkSize

\* No byte of d, which belongs at `start', is out of its place.
Placed(d, start) == \A p \in 1 .. Len(d) : d[p] = ZERO \/ d[p][2] = start + p

NothingBeforeShared ==
    at # "shared" => reading = {} /\ answers = {} /\ output = <<>> /\ have = {}

FileInPlace == Placed(file, 0) /\ \A p \in 1 .. Len(file) : file[p] # ZERO

RequestsInFile == \A r \in reading : Start(r.chunk) < r.size

AnswersInPlace ==
    \A a \in answers :
        /\ a \in [chunk : Pieces, data : Seq(Byte)]
        /\ Placed(a.data, Start(a.chunk))
        /\ Start(a.chunk) + Len(a.data) <= MaxSize

PlaceInv ==
    /\ TypeOK
    /\ meta \in Metadata
    /\ NothingBeforeShared
    /\ FileInPlace
    /\ RequestsInFile
    /\ AnswersInPlace
    /\ BytesKeepTheirPlace

(***************************************************************************)
(* The second is about gaps while no edit makes the file shorter: a chunk   *)
(* is full or reaches the announced end, and what was written of the last   *)
(* piece has no gap.                                                        *)
(***************************************************************************)
Solid(d) == \A p \in 1 .. Len(d) : d[p] # ZERO

\* Data of length n for piece i is as long as it has to be.
Covers(i, n) == n >= ChunkSize \/ Start(i) + n >= meta.TotalSize

SeederHasBytes ==
    /\ at \in {"total", "chunks", "shared"} => meta.TotalSize <= Len(file)
    /\ \A r \in reading : meta.TotalSize <= r.size /\ r.size <= Len(file)
    /\ \A a \in answers : Solid(a.data) /\ Covers(a.chunk, Len(a.data))

LastPieceSolid ==
    \A i \in Pieces : meta.TotalSize <= Start(i) + ChunkSize =>
        \A p \in 1 .. Len(output) : p > Start(i) => output[p] # ZERO

PiecesWritten ==
    \A i \in have :
        /\ Start(i) + ChunkSize <= Len(output) \/ meta.TotalSize <= Len(output)
        /\ \A p \in 1 .. Len(output) :
              Start(i) < p /\ p <= Start(i) + ChunkSize => output[p] # ZERO

GapInv ==
    /\ Pieces = {} => output = <<>>
    /\ ~shrunk => SeederHasBytes /\ LastPieceSolid /\ PiecesWritten

(***************************************************************************)
(* The third is about a file that nobody edits: what was hashed, is under   *)
(* way or is written equals the file.                                       *)
(***************************************************************************)
Clip(n) == IF n <= Len(file) THEN n ELSE Len(file)

\* d is piece i of the file.
IsPiece(d, i) ==
    /\ Start(i) + Len(d) = Clip(Start(i) + ChunkSize)
    /\ \A p \in 1 .. Len(d) : d[p] = file[Start(i) + p]

HashesMatch ==
    /\ at # "id" => meta.FileID = file
    /\ at \in {"total", "chunks", "shared"} => meta.TotalSize = Len(file)
    /\ at \in {"chunks", "shared"} => meta.TotalHash = file
    /\ at \notin {"chunks", "shared"} => meta.ChunkHashes = <<>>
    /\ at = "shared" => Len(meta.ChunkHashes) = numChunks(meta.TotalSize)
    /\ \A k \in 1 .. Len(meta.ChunkHashes) : IsPiece(meta.ChunkHashes[k], k - 1)
    /\ meta.offset = Clip(Start(Len(meta.ChunkHashes)))

BytesMatch ==
    /\ \A r \in reading : r.size = Len(file)
    /\ \A a \in answers : IsPiece(a.data, a.chunk)
    /\ Len(output) <= Len(file)
    /\ \A p \in 1 .. Len(output) : output[p] = ZERO \/ output[p] = file[p]

HonestInv == edits = 0 => ~shrunk /\ HashesMatch /\ BytesMatch

Inv == PlaceInv /\ GapInv /\ HonestInv

-----------------------------------------------------------------------------
(***************************************************************************)
(* Pieces, and the operators on byte sequences.                             *)
(***************************************************************************)

\* Pieces start at multiples of ChunkSize and do not overlap.
LEMMA Starts ==
    /\ ChunkSize \in Nat /\ ChunkSize >= 1
    /\ Start(0) = 0
    /\ \A i \in Nat : Start(i) \in Nat /\ Start(i + 1) = Start(i) + ChunkSize
    /\ \A i, j \in Nat : i < j => Start(i) + ChunkSize <= Start(j)
  BY ChunkSizeAssumption DEF Start

\* Piece i exists if it starts before the end of the file.
LEMMA Chunks ==
    ASSUME NEW n \in Nat
    PROVE  /\ numChunks(n) \in Nat
           /\ \A i \in Nat : i < numChunks(n) <=> Start(i) < n
  <1> DEFINE q == numChunks(n)
  <1>1. /\ q \in Nat
        /\ ChunkSize * q <= n + ChunkSize - 1
        /\ n + ChunkSize - 1 < ChunkSize * q + ChunkSize
    BY ChunkSizeAssumption DEF numChunks
  <1> HIDE DEF q
  <1>2. ASSUME NEW i \in Nat, i < q
        PROVE  i * ChunkSize < n
    <2>1. i * ChunkSize + ChunkSize <= q * ChunkSize
      BY <1>1, <1>2, ChunkSizeAssumption
    <2>2. QED
      BY <1>1, <2>1, ChunkSizeAssumption
  <1>3. ASSUME NEW i \in Nat, ~(i < q)
        PROVE  ~(i * ChunkSize < n)
    <2>1. q * ChunkSize <= i * ChunkSize
      BY <1>1, <1>3, ChunkSizeAssumption
    <2>2. QED
      BY <1>1, <2>1, ChunkSizeAssumption
  <1>4. QED
    BY <1>1, <1>2, <1>3 DEF q, Start

\* The pieces are the multiples of ChunkSize below the announced size.
LEMMA PieceStarts ==
    ASSUME meta \in Metadata
    PROVE  \A i : i \in Pieces <=> i \in Nat /\ Start(i) < meta.TotalSize
  <1>1. meta.TotalSize \in Nat
    BY BoundsAssumption DEF Metadata
  <1>2. QED
    BY <1>1, Chunks DEF Pieces

\* Every byte belongs to a piece.
LEMMA PieceOfByte ==
    ASSUME NEW p \in Nat \ {0}
    PROVE  \E i \in Nat : Start(i) < p /\ p <= Start(i) + ChunkSize
  <1> DEFINE i == (p - 1) \div ChunkSize
  <1>1. /\ i \in Nat
        /\ ChunkSize * i <= p - 1
        /\ p - 1 < ChunkSize * i + ChunkSize
    BY ChunkSizeAssumption
  <1> HIDE DEF i
  <1>2. Start(i) = ChunkSize * i
    BY <1>1, ChunkSizeAssumption DEF Start
  <1>3. QED
    BY <1>1, <1>2, ChunkSizeAssumption

\* The first n bytes of d.
LEMMA Prefix ==
    ASSUME NEW S, NEW d \in Seq(S), NEW n \in 0 .. Len(d)
    PROVE  /\ SubSeq(d, 1, n) \in Seq(S)
           /\ Len(SubSeq(d, 1, n)) = n
           /\ \A p \in 1 .. n : SubSeq(d, 1, n)[p] = d[p]
  <1>1. \A p \in 1 .. n : d[p] \in S
    BY ElementOfSeq
  <1>2. /\ SubSeq(d, 1, n) \in Seq(S)
        /\ Len(SubSeq(d, 1, n)) = IF 1 <= n THEN n - 1 + 1 ELSE 0
        /\ \A i \in 1 .. n - 1 + 1 : SubSeq(d, 1, n)[i] = d[1 + i - 1]
    <2>1. 1 \in Int /\ n \in Int
      OBVIOUS
    <2>2. QED
      BY <1>1, <2>1, SubSeqProperties
  <1>3. QED
    BY <1>2

\* A function on 1 .. n is a sequence.
LEMMA Sequence ==
    ASSUME NEW S, NEW n \in Nat, NEW f \in [1 .. n -> S]
    PROVE  f \in Seq(S) /\ Len(f) = n
  BY SeqDef

\* What WriteAt makes of a file.
LEMMA WriteAtIs ==
    ASSUME NEW f \in Seq(Byte), NEW d \in Seq(Byte), NEW start \in Nat
    PROVE  LET g   == WriteAt(f, start, d)
               end == start + Len(d)
           IN  /\ g \in Seq(Byte)
               /\ Len(g) = IF end > Len(f) THEN end ELSE Len(f)
               /\ \A p \in 1 .. Len(g) :
                     g[p] = IF start < p /\ p <= end THEN d[p - start]
                            ELSE IF p <= Len(f) THEN f[p] ELSE ZERO
  <1> DEFINE end == start + Len(d)
             n == IF end > Len(f) THEN end ELSE Len(f)
             g == WriteAt(f, start, d)
  <1>1. Len(d) \in Nat /\ Len(f) \in Nat /\ n \in Nat /\ end \in Nat
    BY LenProperties
  <1>2. g = [p \in 1 .. n |-> IF p \in start + 1 .. start + Len(d) THEN d[p - start]
                             ELSE IF p <= Len(f) THEN f[p] ELSE ZERO]
    BY DEF WriteAt
  <1>3. ASSUME NEW p \in 1 .. n
        PROVE  /\ g[p] = IF start < p /\ p <= end THEN d[p - start]
                         ELSE IF p <= Len(f) THEN f[p] ELSE ZERO
               /\ g[p] \in Byte
    <2>1. g[p] = IF p \in start + 1 .. start + Len(d) THEN d[p - start]
                 ELSE IF p <= Len(f) THEN f[p] ELSE ZERO
      BY <1>2
    <2>2. p \in start + 1 .. start + Len(d) <=> start < p /\ p <= end
      BY <1>1
    <2>3. start < p /\ p <= end => d[p - start] \in Byte
      BY <1>1, ElementOfSeq
    <2>4. p <= Len(f) => f[p] \in Byte
      BY <1>1, ElementOfSeq
    <2>5. ZERO \in Byte
      BY DEF Byte
    <2>6. QED
      BY <2>1, <2>2, <2>3, <2>4, <2>5
  <1>4. g \in [1 .. n -> Byte]
    BY <1>2, <1>3
  <1> HIDE DEF g, n, end
  <1>5. g \in Seq(Byte) /\ Len(g) = n
    BY <1>1, <1>4, Sequence
  <1>6. QED
    BY <1>3, <1>5 DEF g, n, end

-----------------------------------------------------------------------------
(***************************************************************************)
(* Steps of the seeder's user and of ShareFile.                             *)
(***************************************************************************)

\* What the user writes has its bytes in place.
LEMMA NewContent ==
    ASSUME PlaceInv, NEW n \in 0 .. MaxSize, NEW new,
           \/ Overwrite(n) /\ new = Written(edits + 1, n)
           \/ Truncate(n) /\ new = SubSeq(file, 1, n)
    PROVE  /\ Edit(new)
           /\ new \in Seq(Byte) /\ Len(new) = n
           /\ Placed(new, 0) /\ Solid(new)
  <1>1. file \in Seq(Byte) /\ edits \in 0 .. MaxEdits
    BY DEF PlaceInv, TypeOK, IsContent
  <1>2. CASE Overwrite(n) /\ new = Written(edits + 1, n)
    <2>1. Edit(new) /\ edits < MaxEdits
      BY <1>2 DEF Overwrite, Edit
    <2>2. edits + 1 \in 0 .. MaxEdits /\ n \in Nat
      BY <1>1, <2>1, BoundsAssumption
    <2>3. \A p \in 1 .. n : /\ new[p] = <<edits + 1, p>>
                            /\ <<edits + 1, p>> \in (0 .. MaxEdits) \X (1 .. MaxSize)
      BY <1>2, <2>2, BoundsAssumption DEF Written
    <2>4. new \in [1 .. n -> Byte]
      BY <1>2, <2>3 DEF Written, Byte
    <2>5. new \in Seq(Byte) /\ Len(new) = n
      BY <2>2, <2>4, Sequence
    <2>6. ASSUME NEW p \in 1 .. Len(new)
          PROVE  new[p][2] = 0 + p /\ new[p] # ZERO
      <3>1. p \in Nat /\ p \in 1 .. n
        BY <2>2, <2>5
      <3>2. new[p] = <<edits + 1, p>> /\ new[p] # ZERO
        BY <2>3, <3>1, ZeroAssumption
      <3>3. new[p][2] = p
        BY <3>2
      <3>4. QED
        BY <3>1, <3>2, <3>3
    <2>7. QED
      BY <2>1, <2>5, <2>6 DEF Placed, Solid
  <1>3. CASE Truncate(n) /\ new = SubSeq(file, 1, n)
    <2>1. Edit(new) /\ n < Len(file)
      BY <1>3 DEF Truncate
    <2>2. n \in 0 .. Len(file)
      BY <1>1, <2>1, LenProperties, BoundsAssumption
    <2>3. /\ new \in Seq(Byte) /\ Len(new) = n
          /\ \A p \in 1 .. n : new[p] = file[p]
      BY <1>1, <1>3, <2>2, Prefix
    <2>4. Placed(new, 0) /\ Solid(new)
      BY <2>2, <2>3 DEF PlaceInv, FileInPlace, Placed, Solid
    <2>5. QED
      BY <2>1, <2>3, <2>4
  <1>4. QED
    BY <1>2, <1>3

\* An edit in place writes bytes at their places.
LEMMA EditPlaces ==
    ASSUME PlaceInv, NEW new, Edit(new), new \in Seq(Byte), Len(new) \in 0 .. MaxSize,
           Placed(new, 0), Solid(new)
    PROVE  PlaceInv'
  <1>1. /\ edits < MaxEdits /\ edits' = edits + 1
        /\ file' = new
        /\ shrunk' = (shrunk \/ Len(new) < Len(file))
        /\ UNCHANGED <<at, meta, reading, answers, output, have>>
    BY DEF Edit, seederVars
  <1>2. edits' \in 0 .. MaxEdits
    BY <1>1, BoundsAssumption DEF PlaceInv, TypeOK
  <1>3. shrunk' \in BOOLEAN
    BY <1>1
  <1>4. IsContent(file)'
    BY <1>1 DEF IsContent
  <1>5. Pieces' = Pieces
    BY <1>1 DEF Pieces
  <1>6. TypeOK'
    BY <1>1, <1>2, <1>3, <1>4, <1>5 DEF PlaceInv, TypeOK, IsContent
  <1>7. FileInPlace'
    BY <1>1 DEF FileInPlace, Placed, Solid
  <1>8. QED
    BY <1>1, <1>5, <1>6, <1>7 DEF PlaceInv, NothingBeforeShared, RequestsInFile,
                                  AnswersInPlace, BytesKeepTheirPlace, Placed

\* Metadata as ShareFile collects it.
MetaContent(m) ==
    /\ m \in Metadata
    /\ IsContent(m.FileID) /\ IsContent(m.TotalHash)
    /\ \A i \in 1 .. Len(m.ChunkHashes) : IsContent(m.ChunkHashes[i])

\* A step of ShareFile stores what it read and sends nothing yet.
LEMMA SharePlaces ==
    ASSUME PlaceInv, NEW from, NEW to \in {"stat", "total", "chunks", "shared"},
           NEW m, from # "shared", ShareStep(from, to, m), MetaContent(m)
    PROVE  /\ PlaceInv' /\ at = from /\ at' = to /\ meta' = m
           /\ UNCHANGED <<file, edits, shrunk>>
           /\ reading' = {} /\ answers' = {} /\ output' = <<>> /\ have' = {}
  <1>1. /\ at = from /\ at' = to /\ meta' = m
        /\ UNCHANGED <<file, edits, shrunk, reading, answers, output, have>>
    BY DEF ShareStep
  <1>2. reading' = {} /\ answers' = {} /\ output' = <<>> /\ have' = {}
    BY <1>1 DEF PlaceInv, NothingBeforeShared
  <1>3. TypeOK'
    <2>1. IsContent(file)' /\ IsContent(output)'
      BY <1>1 DEF PlaceInv, TypeOK, IsContent
    <2>2. /\ edits' \in 0 .. MaxEdits /\ shrunk' \in BOOLEAN
          /\ at' \in {"id", "stat", "total", "chunks", "shared"}
      BY <1>1 DEF PlaceInv, TypeOK
    <2>3. meta'.TotalSize \in 0 .. MaxSize /\ meta'.offset \in 0 .. MaxSize
      BY <1>1 DEF MetaContent, Metadata
    <2>4. QED
      BY <1>1, <1>2, <2>1, <2>2, <2>3 DEF TypeOK, MetaContent, IsContent
  <1>4. BytesKeepTheirPlace'
    BY <1>2, EmptySeq DEF BytesKeepTheirPlace
  <1>5. FileInPlace'
    BY <1>1 DEF PlaceInv, FileInPlace, Placed
  <1>6. QED
    BY <1>1, <1>2, <1>3, <1>4, <1>5 DEF PlaceInv, NothingBeforeShared, RequestsInFile,
                                        AnswersInPlace, MetaContent

\* Changing one field of the metadata.
LEMMA NowContent ==
    ASSUME PlaceInv
    PROVE  /\ MetaContent(meta)
           /\ file \in Seq(Byte) /\ Len(file) \in 0 .. MaxSize /\ IsContent(file)
  <1>1. file \in Seq(Byte) /\ Len(file) <= MaxSize
    BY DEF PlaceInv, TypeOK, IsContent
  <1>2. Len(file) \in 0 .. MaxSize
    BY <1>1, LenProperties, BoundsAssumption
  <1>3. QED
    BY <1>1, <1>2 DEF PlaceInv, TypeOK, MetaContent, IsContent

\* What ShareFile reads of the file is made of bytes in their places.
LEMMA FieldContent ==
    ASSUME PlaceInv
    PROVE  /\ MetaContent([meta EXCEPT !.FileID = file])
           /\ MetaContent([meta EXCEPT !.TotalSize = Len(file)])
           /\ MetaContent([meta EXCEPT !.TotalHash = file])
  BY NowContent DEF MetaContent, Metadata

\* The chunk that the hasher reads.
LEMMA ReadIs ==
    ASSUME PlaceInv, NEW o \in 0 .. MaxSize
    PROVE  LET n == IF o + ChunkSize < Len(file) THEN ChunkSize
                    ELSE IF o < Len(file) THEN Len(file) - o ELSE 0
           IN  /\ Read(o) \in Seq(Byte) /\ Len(Read(o)) = n
               /\ \A p \in 1 .. n : Read(o)[p] = file[o + p]
  <1> DEFINE e == IF o + ChunkSize < Len(file) THEN o + ChunkSize ELSE Len(file)
             n == IF o + ChunkSize < Len(file) THEN ChunkSize
                  ELSE IF o < Len(file) THEN Len(file) - o ELSE 0
  <1>1. /\ file \in Seq(Byte) /\ Len(file) \in Nat
        /\ ChunkSize \in Nat /\ ChunkSize >= 1 /\ o \in Nat
    BY NowContent, ChunkSizeAssumption, BoundsAssumption
  <1>2. o + 1 \in Int /\ e \in Int
    BY <1>1
  <1>3. \A i \in o + 1 .. e : file[i] \in Byte
    BY <1>1, ElementOfSeq
  <1>4. Read(o) = SubSeq(file, o + 1, e)
    BY DEF Read
  <1> HIDE DEF e
  <1>5. /\ SubSeq(file, o + 1, e) \in Seq(Byte)
        /\ Len(SubSeq(file, o + 1, e)) = IF o + 1 <= e THEN e - (o + 1) + 1 ELSE 0
        /\ \A i \in 1 .. e - (o + 1) + 1 : SubSeq(file, o + 1, e)[i] = file[o + 1 + i - 1]
    BY <1>2, <1>3, SubSeqProperties
  <1>6. \A i \in 1 .. e - (o + 1) + 1 : file[o + 1 + i - 1] = file[o + i]
    BY <1>1, <1>2
  <1>7. n = IF o + 1 <= e THEN e - (o + 1) + 1 ELSE 0
    BY <1>1 DEF e
  <1>8. QED
    BY <1>1, <1>2, <1>4, <1>5, <1>6, <1>7

\* The next chunk hash: the metadata after it.
LEMMA HashChunkIs ==
    ASSUME PlaceInv, HashChunk
    PROVE  LET data == Read(meta.offset)
               m    == [meta EXCEPT !.ChunkHashes = Append(@, data),
                                    !.offset = @ + Len(data)]
           IN  /\ ShareStep("chunks", "chunks", m) /\ MetaContent(m)
               /\ Len(meta.ChunkHashes) < numChunks(meta.TotalSize)
               /\ m.FileID = meta.FileID /\ m.TotalHash = meta.TotalHash
               /\ m.TotalSize = meta.TotalSize
               /\ m.offset = meta.offset + Len(data)
               /\ m.ChunkHashes = Append(meta.ChunkHashes, data)
  <1> DEFINE data == Read(meta.offset)
             hs   == Append(meta.ChunkHashes, data)
             o    == meta.offset + Len(data)
             m    == [meta EXCEPT !.ChunkHashes = hs, !.offset = o]
  <1>1. ShareStep("chunks", "chunks", m) /\ Len(meta.ChunkHashes) < numChunks(meta.TotalSize)
    BY DEF HashChunk
  <1>2. /\ meta \in Metadata /\ MetaContent(meta)
        /\ meta.offset \in 0 .. MaxSize /\ meta.ChunkHashes \in Seq(Seq(Byte))
    BY NowContent DEF PlaceInv, Metadata
  <1>3. /\ Len(file) \in Nat /\ Len(file) <= MaxSize /\ MaxSize \in Nat
        /\ ChunkSize \in Nat /\ ChunkSize >= 1
    BY NowContent, ChunkSizeAssumption, BoundsAssumption
  <1>4. /\ data \in Seq(Byte)
        /\ Len(data) = IF meta.offset + ChunkSize < Len(file) THEN ChunkSize
                       ELSE IF meta.offset < Len(file) THEN Len(file) - meta.offset ELSE 0
    BY <1>2, ReadIs
  <1> HIDE DEF data
  <1>5. o \in 0 .. MaxSize /\ Len(data) <= MaxSize
    BY <1>2, <1>3, <1>4
  <1>6. /\ hs \in Seq(Seq(Byte)) /\ Len(hs) = Len(meta.ChunkHashes) + 1
        /\ \A i \in 1 .. Len(meta.ChunkHashes) : hs[i] = meta.ChunkHashes[i]
        /\ hs[Len(meta.ChunkHashes) + 1] = data
    BY <1>2, <1>4, AppendProperties
  <1>7. \A i \in 1 .. Len(hs) : IsContent(hs[i])
    BY <1>2, <1>4, <1>5, <1>6, LenProperties DEF MetaContent, IsContent
  <1> HIDE DEF hs, o
  <1>8. /\ m \in Metadata /\ m.FileID = meta.FileID /\ m.TotalHash = meta.TotalHash
        /\ m.TotalSize = meta.TotalSize /\ m.offset = o /\ m.ChunkHashes = hs
    BY <1>2, <1>5, <1>6 DEF Metadata
  <1>9. MetaContent(m)
    BY <1>2, <1>7, <1>8 DEF MetaContent
  <1>10. QED
    BY <1>1, <1>8, <1>9 DEF hs, o, data

-----------------------------------------------------------------------------
(***************************************************************************)
(* Steps of the seeder and of the downloader.                               *)
(***************************************************************************)

\* What is under way is well typed.
LEMMA UnderWay ==
    ASSUME PlaceInv
    PROVE  /\ \A r \in reading :
                 /\ r \in [chunk : Pieces, size : 1 .. MaxSize]
                 /\ r.chunk \in Pieces /\ r.chunk \in Nat /\ Start(r.chunk) \in Nat
                 /\ r.size \in Nat /\ r.size <= MaxSize
                 /\ Start(r.chunk) < r.size
           /\ \A a \in answers :
                 /\ a.chunk \in Pieces /\ a.chunk \in Nat /\ Start(a.chunk) \in Nat
                 /\ a.data \in Seq(Byte) /\ Len(a.data) \in Nat
                 /\ Len(a.data) >= 1 /\ Len(a.data) <= ChunkSize
                 /\ Start(a.chunk) + Len(a.data) <= MaxSize
           /\ meta \in Metadata /\ meta.TotalSize \in Nat
           /\ output \in Seq(Byte) /\ Len(output) \in Nat /\ Len(output) <= MaxSize
  <1>1. meta \in Metadata /\ meta.TotalSize \in Nat
    BY BoundsAssumption DEF PlaceInv, Metadata
  <1>2. \A i \in Pieces : i \in Nat /\ Start(i) \in Nat
    BY <1>1, PieceStarts, Starts
  <1>3. output \in Seq(Byte) /\ Len(output) \in Nat /\ Len(output) <= MaxSize
    BY LenProperties DEF PlaceInv, TypeOK, IsContent
  <1>4. ASSUME NEW r \in reading
        PROVE  /\ r \in [chunk : Pieces, size : 1 .. MaxSize]
               /\ r.chunk \in Pieces /\ r.size \in Nat /\ r.size <= MaxSize
               /\ Start(r.chunk) < r.size
    BY <1>4, BoundsAssumption DEF PlaceInv, TypeOK, RequestsInFile
  <1>5. ASSUME NEW a \in answers
        PROVE  /\ a.chunk \in Pieces /\ a.data \in Seq(Byte) /\ Len(a.data) \in Nat
               /\ Len(a.data) >= 1 /\ Len(a.data) <= ChunkSize
               /\ Start(a.chunk) + Len(a.data) <= MaxSize
    BY <1>5, ChunkSizeAssumption DEF PlaceInv, TypeOK, AnswersInPlace
  <1>6. QED
    BY <1>1, <1>2, <1>3, <1>4, <1>5

\* A request reads the size and is refused behind the end.
LEMMA StatPlaces ==
    ASSUME PlaceInv, NEW i \in Pieces, StatChunk(i)
    PROVE  PlaceInv'
  <1> DEFINE r == [chunk |-> i, size |-> Len(file)]
  <1>1. /\ at = "shared" /\ i * ChunkSize < Len(file)
        /\ reading' = reading \cup {r}
        /\ UNCHANGED <<file, edits, shrunk, at, meta, answers, output, have>>
    BY DEF StatChunk
  <1>2. Len(file) \in 1 .. MaxSize /\ i \in Nat /\ Start(i) \in Nat /\ Start(i) < Len(file)
    <2>1. i \in Nat /\ Start(i) \in Nat
      BY PieceStarts, Starts DEF PlaceInv
    <2>2. Len(file) \in 0 .. MaxSize
      BY NowContent
    <2>3. QED
      BY <1>1, <2>1, <2>2, BoundsAssumption DEF Start
  <1>3. r \in [chunk : Pieces, size : 1 .. MaxSize] /\ r.chunk = i /\ r.size = Len(file)
    BY <1>2
  <1> HIDE DEF r
  <1>4. Pieces' = Pieces
    BY <1>1 DEF Pieces
  <1>5. reading' \subseteq [chunk : Pieces, size : 1 .. MaxSize]
    BY <1>1, <1>3 DEF PlaceInv, TypeOK
  <1>6. TypeOK'
    BY <1>1, <1>4, <1>5 DEF PlaceInv, TypeOK, IsContent
  <1>7. RequestsInFile'
    BY <1>1, <1>2, <1>3 DEF PlaceInv, RequestsInFile
  <1>8. QED
    BY <1>1, <1>4, <1>6, <1>7 DEF PlaceInv, NothingBeforeShared, FileInPlace, Placed,
                                  AnswersInPlace, BytesKeepTheirPlace

\* The bytes that ReadChunk makes an answer of.
LEMMA ChunkAtIs ==
    ASSUME PlaceInv, NEW r \in reading
    PROVE  LET d     == ChunkAt(r.chunk, r.size)
               start == Start(r.chunk)
               end   == IF start + ChunkSize > r.size THEN r.size ELSE start + ChunkSize
           IN  /\ d \in Seq(Byte) /\ Len(d) = end - start
               /\ Len(d) \in 1 .. ChunkSize
               /\ start + Len(d) <= MaxSize
               /\ \A p \in 1 .. Len(d) :
                     d[p] = IF start + p <= Len(file) THEN file[start + p] ELSE ZERO
  <1> DEFINE d     == ChunkAt(r.chunk, r.size)
             start == Start(r.chunk)
             end   == IF start + ChunkSize > r.size THEN r.size ELSE start + ChunkSize
  <1>1. /\ start \in Nat /\ r.size \in Nat /\ r.size <= MaxSize /\ start < r.size
        /\ ChunkSize \in Nat /\ ChunkSize >= 1 /\ MaxSize \in Nat
        /\ file \in Seq(Byte) /\ Len(file) \in Nat
    BY UnderWay, NowContent, ChunkSizeAssumption, BoundsAssumption
  <1>2. d = [p \in 1 .. end - start |->
                IF start + p <= Len(file) THEN file[start + p] ELSE ZERO]
    BY DEF ChunkAt, Start
  <1>3. end - start \in 1 .. ChunkSize /\ end - start \in Nat /\ end <= MaxSize
        /\ start + (end - start) = end
    BY <1>1
  <1> HIDE DEF d, end, start
  <1>4. ASSUME NEW p \in 1 .. end - start
        PROVE  (IF start + p <= Len(file) THEN file[start + p] ELSE ZERO) \in Byte
    <2>1. p \in Nat /\ p >= 1
      BY <1>3
    <2>2. start + p <= Len(file) => file[start + p] \in Byte
      BY <1>1, <2>1, ElementOfSeq
    <2>3. QED
      BY <2>2 DEF Byte
  <1>5. d \in [1 .. end - start -> Byte]
    BY <1>2, <1>4
  <1>6. d \in Seq(Byte) /\ Len(d) = end - start
    BY <1>3, <1>5, Sequence
  <1>7. QED
    BY <1>2, <1>3, <1>6 DEF d, end, start

\* The bytes of an answer belong at the start of its chunk.
LEMMA ReadPlaces ==
    ASSUME PlaceInv, NEW r \in reading, ReadChunk(r)
    PROVE  PlaceInv'
  <1> DEFINE d == ChunkAt(r.chunk, r.size)
             a == [chunk |-> r.chunk, data |-> d]
  <1>1. /\ reading' = reading \ {r} /\ answers' = answers \cup {a}
        /\ UNCHANGED <<file, edits, shrunk, at, meta, output, have>>
    BY DEF ReadChunk
  <1>2. r.chunk \in Pieces /\ Start(r.chunk) \in Nat
    BY UnderWay
  <1>3. /\ d \in Seq(Byte) /\ Len(d) \in 1 .. ChunkSize
        /\ Start(r.chunk) + Len(d) <= MaxSize
        /\ \A p \in 1 .. Len(d) :
              d[p] = IF Start(r.chunk) + p <= Len(file) THEN file[Start(r.chunk) + p]
                     ELSE ZERO
    BY ChunkAtIs
  <1> HIDE DEF d
  <1>4. Placed(d, Start(r.chunk))
    <2>1. ASSUME NEW p \in 1 .. Len(d)
          PROVE  d[p] = ZERO \/ d[p][2] = Start(r.chunk) + p
      <3>1. CASE Start(r.chunk) + p <= Len(file)
        <4>1. PICK q \in 1 .. Len(file) : q = Start(r.chunk) + p
          BY <1>2, <1>3, <3>1, NowContent
        <4>2. file[q][2] = 0 + q /\ q \in Nat
          BY <4>1, NowContent DEF PlaceInv, FileInPlace, Placed
        <4>3. d[p] = file[q]
          BY <1>3, <3>1, <4>1
        <4>4. QED
          BY <4>1, <4>2, <4>3
      <3>2. CASE ~(Start(r.chunk) + p <= Len(file))
        BY <1>3, <3>2
      <3>3. QED
        BY <3>1, <3>2
    <2>2. QED
      BY <2>1 DEF Placed
  <1>5. /\ a \in [chunk : Pieces, data : Seq(Byte)] /\ a.chunk = r.chunk /\ a.data = d
        /\ Len(d) <= MaxSize
    BY <1>2, <1>3, ChunkSizeAssumption, BoundsAssumption
  <1> HIDE DEF a
  <1>6. Pieces' = Pieces
    BY <1>1 DEF Pieces
  <1>7. AnswersInPlace'
    <2>1. ASSUME NEW b \in answers'
          PROVE  /\ b \in [chunk : Pieces', data : Seq(Byte)]
                 /\ Placed(b.data, Start(b.chunk))
                 /\ Start(b.chunk) + Len(b.data) <= MaxSize
      BY <1>1, <1>3, <1>4, <1>5, <1>6, <2>1 DEF PlaceInv, AnswersInPlace
    <2>2. QED
      BY <2>1 DEF AnswersInPlace, Placed
  <1>8. TypeOK'
    <2>1. \A b \in answers' : /\ b.chunk \in Pieces' /\ IsContent(b.data)
                              /\ Len(b.data) \in 1 .. ChunkSize
      BY <1>1, <1>3, <1>5, <1>6 DEF PlaceInv, TypeOK, IsContent
    <2>2. QED
      BY <1>1, <1>6, <2>1 DEF PlaceInv, TypeOK, IsContent
  <1>9. QED
    BY <1>1, <1>7, <1>8 DEF PlaceInv, NothingBeforeShared, FileInPlace, Placed,
                            RequestsInFile, BytesKeepTheirPlace

\* The first bytes d of answer a are written to the output.
Put(a, d) ==
    /\ a \in answers
    /\ d \in Seq(Byte) /\ Len(d) \in 0 .. Len(a.data)
    /\ \A p \in 1 .. Len(d) : d[p] = a.data[p]
    /\ output' = WriteAt(output, Start(a.chunk), d)
    /\ answers' = answers \ {a}
    /\ UNCHANGED <<file, edits, shrunk, at, meta, reading>>

\* What a write at an offset leaves at each position of the output.
LEMMA PutIs ==
    ASSUME PlaceInv, NEW a, NEW d, Put(a, d)
    PROVE  LET start == Start(a.chunk)
               end   == start + Len(d)
           IN  /\ output' \in Seq(Byte)
               /\ Len(output') = IF end > Len(output) THEN end ELSE Len(output)
               /\ \A p \in 1 .. Len(output') :
                     output'[p] = IF start < p /\ p <= end THEN a.data[p - start]
                                  ELSE IF p <= Len(output) THEN output[p] ELSE ZERO
               /\ Len(d) \in Nat /\ Len(d) <= Len(a.data)
               /\ Len(output') \in Nat /\ Len(output') <= MaxSize
  <1> DEFINE start == Start(a.chunk)
             end   == start + Len(d)
  <1>1. /\ a \in answers /\ d \in Seq(Byte) /\ Len(d) \in 0 .. Len(a.data)
        /\ \A p \in 1 .. Len(d) : d[p] = a.data[p]
        /\ output' = WriteAt(output, start, d)
    BY DEF Put
  <1>2. /\ start \in Nat /\ output \in Seq(Byte) /\ Len(output) \in Nat
        /\ Len(output) <= MaxSize /\ start + Len(a.data) <= MaxSize /\ Len(a.data) \in Nat
    BY <1>1, UnderWay
  <1>3. Len(d) \in Nat /\ Len(d) <= Len(a.data)
    BY <1>1, <1>2
  <1>4. /\ output' \in Seq(Byte)
        /\ Len(output') = IF end > Len(output) THEN end ELSE Len(output)
        /\ \A p \in 1 .. Len(output') :
              output'[p] = IF start < p /\ p <= end THEN d[p - start]
                           ELSE IF p <= Len(output) THEN output[p] ELSE ZERO
    BY <1>1, <1>2, WriteAtIs
  <1> HIDE DEF start
  <1>5. Len(output') \in Nat /\ Len(output') <= MaxSize
    BY <1>2, <1>3, <1>4, BoundsAssumption
  <1>6. ASSUME NEW p \in 1 .. Len(output'), start < p, p <= end
        PROVE  d[p - start] = a.data[p - start]
    <2>1. p - start \in 1 .. Len(d)
      BY <1>2, <1>3, <1>5, <1>6
    <2>2. QED
      BY <1>1, <2>1
  <1>7. QED
    BY <1>3, <1>4, <1>5, <1>6 DEF start

\* Bytes written at the offset of their chunk are in their places.
LEMMA PutPlaces ==
    ASSUME PlaceInv, NEW a, NEW d, Put(a, d), have' \in {have, have \cup {a.chunk}}
    PROVE  PlaceInv'
  <1>1. /\ a \in answers /\ answers' = answers \ {a}
        /\ UNCHANGED <<file, edits, shrunk, at, meta, reading>>
    BY DEF Put
  <1>2. /\ a.chunk \in Pieces /\ Start(a.chunk) \in Nat /\ Len(a.data) \in Nat
        /\ Len(output) \in Nat
    BY <1>1, UnderWay
  <1>3. Pieces' = Pieces
    BY <1>1 DEF Pieces
  <1>4. IsContent(output)'
    BY PutIs DEF IsContent
  <1>5. TypeOK'
    BY <1>1, <1>2, <1>3, <1>4 DEF PlaceInv, TypeOK, IsContent
  <1>6. ASSUME NEW p \in 1 .. Len(output')
        PROVE  output'[p] = ZERO \/ output'[p][2] = p
    <2> DEFINE start == Start(a.chunk)
    <2>1. /\ Len(d) \in Nat /\ Len(d) <= Len(a.data) /\ Len(output') \in Nat
          /\ output'[p] = IF start < p /\ p <= start + Len(d) THEN a.data[p - start]
                          ELSE IF p <= Len(output) THEN output[p] ELSE ZERO
      BY <1>6, PutIs
    <2>2. CASE start < p /\ p <= start + Len(d)
      <3>1. PICK q \in 1 .. Len(a.data) : q = p - start
        BY <1>2, <2>1, <2>2
      <3>2. a.data[q] = ZERO \/ a.data[q][2] = start + q
        BY <1>1 DEF PlaceInv, AnswersInPlace, Placed
      <3>3. start + q = p /\ output'[p] = a.data[q]
        BY <1>2, <2>1, <2>2, <3>1
      <3>4. QED
        BY <3>2, <3>3
    <2>3. CASE ~(start < p /\ p <= start + Len(d)) /\ p <= Len(output)
      <3>1. p \in 1 .. Len(output) /\ output'[p] = output[p]
        BY <1>2, <2>1, <2>3
      <3>2. QED
        BY <3>1 DEF PlaceInv, BytesKeepTheirPlace
    <2>4. QED
      BY <2>1, <2>2, <2>3
  <1>7. BytesKeepTheirPlace'
    BY <1>6 DEF BytesKeepTheirPlace
  <1>8. at = "shared"
    BY <1>1 DEF PlaceInv, NothingBeforeShared
  <1>9. QED
    BY <1>1, <1>3, <1>5, <1>7, <1>8 DEF PlaceInv, NothingBeforeShared, FileInPlace,
                                        Placed, RequestsInFile, AnswersInPlace

\* Answer a is lost before anything of it is written.
Lose(a) ==
    /\ answers' = answers \ {a}
    /\ UNCHANGED <<file, edits, shrunk, at, meta, reading, output, have>>

\* A lost answer moves nothing.
LEMMA LosePlaces ==
    ASSUME PlaceInv, NEW a, Lose(a)
    PROVE  PlaceInv'
  <1>1. Pieces' = Pieces
    BY DEF Lose, Pieces
  <1>2. TypeOK'
    BY <1>1 DEF PlaceInv, TypeOK, IsContent, Lose
  <1>3. QED
    BY <1>1, <1>2 DEF PlaceInv, Lose, NothingBeforeShared, FileInPlace, Placed,
                      RequestsInFile, AnswersInPlace, BytesKeepTheirPlace

-----------------------------------------------------------------------------
(***************************************************************************)
(* Gaps.                                                                    *)
(***************************************************************************)
LEMMA EditGaps ==
    ASSUME PlaceInv, GapInv, NEW new, Edit(new), Len(new) \in 0 .. MaxSize
    PROVE  GapInv'
  <1>1. /\ file' = new /\ shrunk' = (shrunk \/ Len(new) < Len(file))
        /\ UNCHANGED <<at, meta, reading, answers, output, have>>
    BY DEF Edit, seederVars
  <1>2. Pieces' = Pieces
    BY <1>1 DEF Pieces
  <1>3. SUFFICES ASSUME ~shrunk'
                 PROVE  SeederHasBytes' /\ LastPieceSolid' /\ PiecesWritten'
    BY <1>1, <1>2 DEF GapInv
  <1>4. Len(file) \in Nat /\ Len(new) \in Nat /\ Len(file') \in Nat
    BY <1>1, NowContent, BoundsAssumption
  <1>5. ~shrunk /\ Len(file) <= Len(file')
    <2>1. ~shrunk /\ ~(Len(new) < Len(file))
      BY <1>1, <1>3, Zenon
    <2>2. QED
      BY <1>1, <1>4, <2>1
  <1>6. SeederHasBytes'
    BY <1>1, <1>5, <1>4, UnderWay DEF GapInv, SeederHasBytes, Solid, Covers
  <1>7. LastPieceSolid' /\ PiecesWritten'
    BY <1>1, <1>2, <1>5 DEF GapInv, LastPieceSolid, PiecesWritten
  <1>8. QED
    BY <1>6, <1>7

\* While the file is being shared nothing has been written.
LEMMA ShareGaps ==
    ASSUME output' = <<>>, reading' = {}, answers' = {}, have' = {},
           (~shrunk /\ at \in {"total", "chunks", "shared"} =>
               meta.TotalSize <= Len(file))'
    PROVE  GapInv'
  <1>1. Len(output') = 0
    BY EmptySeq
  <1>2. QED
    BY <1>1 DEF GapInv, SeederHasBytes, LastPieceSolid, PiecesWritten

\* A request sees a size that the file still has, unless it became shorter.
LEMMA StatGaps ==
    ASSUME PlaceInv, GapInv, NEW i \in Pieces, StatChunk(i)
    PROVE  GapInv'
  <1> DEFINE r == [chunk |-> i, size |-> Len(file)]
  <1>1. /\ at = "shared" /\ reading' = reading \cup {r}
        /\ UNCHANGED <<file, shrunk, at, meta, answers, output, have>>
    BY DEF StatChunk
  <1>2. r.size = Len(file) /\ Len(file) \in Nat
    BY NowContent, BoundsAssumption
  <1> HIDE DEF r
  <1>3. Pieces' = Pieces
    BY <1>1 DEF Pieces
  <1>4. ~shrunk => SeederHasBytes'
    BY <1>1, <1>2 DEF GapInv, SeederHasBytes, Solid, Covers
  <1>5. QED
    BY <1>1, <1>3, <1>4 DEF GapInv, LastPieceSolid, PiecesWritten

\* An answer is as long as its chunk, unless the file became shorter.
LEMMA ReadGaps ==
    ASSUME PlaceInv, GapInv, NEW r \in reading, ReadChunk(r)
    PROVE  GapInv'
  <1> DEFINE d == ChunkAt(r.chunk, r.size)
             a == [chunk |-> r.chunk, data |-> d]
  <1>1. /\ reading' = reading \ {r} /\ answers' = answers \cup {a}
        /\ UNCHANGED <<file, shrunk, at, meta, output, have>>
    BY DEF ReadChunk
  <1>2. a.chunk = r.chunk /\ a.data = d
    OBVIOUS
  <1> HIDE DEF a
  <1>3. Pieces' = Pieces
    BY <1>1 DEF Pieces
  <1>4. ASSUME ~shrunk
        PROVE  Solid(d) /\ Covers(r.chunk, Len(d))
    <2> DEFINE start == Start(r.chunk)
               end   == IF start + ChunkSize > r.size THEN r.size ELSE start + ChunkSize
    <2>1. /\ meta.TotalSize <= r.size /\ r.size <= Len(file) /\ meta.TotalSize \in Nat
          /\ r.size \in Nat /\ start \in Nat /\ start < r.size /\ Len(file) \in Nat
          /\ ChunkSize \in Nat /\ ChunkSize >= 1
      BY <1>4, UnderWay, NowContent, ChunkSizeAssumption, BoundsAssumption
         DEF GapInv, SeederHasBytes
    <2>2. /\ Len(d) = end - start
          /\ \A p \in 1 .. Len(d) :
                d[p] = IF start + p <= Len(file) THEN file[start + p] ELSE ZERO
      BY ChunkAtIs
    <2> HIDE DEF d, start
    <2>3. Len(d) >= ChunkSize \/ start + Len(d) >= meta.TotalSize
      BY <2>1, <2>2
    <2>4. ASSUME NEW p \in 1 .. Len(d)
          PROVE  d[p] # ZERO
      <3>1. start + p <= Len(file) /\ start + p \in 1 .. Len(file)
        BY <2>1, <2>2, <2>4
      <3>2. d[p] = file[start + p]
        BY <2>2, <2>4, <3>1
      <3>3. QED
        BY <3>1, <3>2 DEF PlaceInv, FileInPlace
    <2>5. QED
      BY <2>3, <2>4 DEF Solid, Covers, start
  <1> HIDE DEF d
  <1>5. ~shrunk => SeederHasBytes'
    BY <1>1, <1>2, <1>4 DEF GapInv, SeederHasBytes, Solid, Covers
  <1>6. QED
    BY <1>1, <1>3, <1>5 DEF GapInv, LastPieceSolid, PiecesWritten

\* A lost answer marks no chunk as written.
LEMMA LoseGaps ==
    ASSUME GapInv, NEW a, Lose(a)
    PROVE  GapInv'
  BY DEF GapInv, Lose, SeederHasBytes, LastPieceSolid, PiecesWritten, Pieces, Solid, Covers

\* Writing a chunk, or its first bytes, makes no gap in a piece that is there
\* nor in the last piece.
LEMMA PutGaps ==
    ASSUME PlaceInv, GapInv, NEW a, NEW d, Put(a, d), Len(d) >= 1,
           \/ have' = have
           \/ have' = have \cup {a.chunk} /\ Len(d) = Len(a.data)
    PROVE  GapInv'
  <1> DEFINE start == Start(a.chunk)
             end   == start + Len(d)
  <1>1. /\ a \in answers /\ answers' = answers \ {a}
        /\ UNCHANGED <<file, shrunk, at, meta, reading>>
    BY DEF Put
  <1>2. /\ a.chunk \in Pieces /\ a.chunk \in Nat /\ start \in Nat /\ Len(a.data) \in Nat
        /\ Len(a.data) <= ChunkSize /\ Len(output) \in Nat /\ meta.TotalSize \in Nat
        /\ ChunkSize \in Nat /\ ChunkSize >= 1 /\ start < meta.TotalSize
    BY <1>1, UnderWay, ChunkSizeAssumption, PieceStarts
  <1>3. Pieces' = Pieces
    BY <1>1 DEF Pieces
  <1>4. SUFFICES ASSUME ~shrunk
                 PROVE  SeederHasBytes' /\ LastPieceSolid' /\ PiecesWritten'
    BY <1>1, <1>2, <1>3 DEF GapInv
  <1>5. SeederHasBytes'
    BY <1>1, <1>4 DEF GapInv, SeederHasBytes, Solid, Covers
  <1>6. /\ Len(d) \in Nat /\ Len(d) <= Len(a.data) /\ Len(output') \in Nat
        /\ Len(output') = IF end > Len(output) THEN end ELSE Len(output)
        /\ \A p \in 1 .. Len(output') :
              output'[p] = IF start < p /\ p <= end THEN a.data[p - start]
                           ELSE IF p <= Len(output) THEN output[p] ELSE ZERO
    BY PutIs
  <1>7. Solid(a.data) /\ Covers(a.chunk, Len(a.data)) /\ LastPieceSolid /\ PiecesWritten
    BY <1>1, <1>4 DEF GapInv, SeederHasBytes
  <1>8. \A i \in Pieces : i \in Nat /\ Start(i) \in Nat /\ Start(i) < meta.TotalSize
    BY PieceStarts, Starts DEF PlaceInv
  <1>9. \A i \in Pieces : \/ i = a.chunk
                          \/ Start(i) + ChunkSize <= start
                          \/ start + ChunkSize <= Start(i)
    <2>1. ASSUME NEW i \in Pieces
          PROVE  \/ i = a.chunk
                 \/ Start(i) + ChunkSize <= start
                 \/ start + ChunkSize <= Start(i)
      <3>1. i \in Nat
        BY <1>8
      <3>2. i < a.chunk \/ i = a.chunk \/ a.chunk < i
        BY <1>2, <3>1
      <3>3. QED
        BY <1>2, <3>1, <3>2, Starts
    <2>2. QED
      BY <2>1
  <1>10. have \subseteq Pieces
    BY DEF PlaceInv, TypeOK
  <1> HIDE DEF start
  \* A written byte is not a gap, and an old one stays.
  <1>11. ASSUME NEW p \in 1 .. Len(output'), start < p, p <= end
         PROVE  output'[p] # ZERO
    <2>1. p - start \in 1 .. Len(a.data)
      BY <1>2, <1>6, <1>11
    <2>2. QED
      BY <1>6, <1>7, <1>11, <2>1 DEF Solid
  <1>12. ASSUME NEW p \in 1 .. Len(output'), p <= Len(output), output[p] # ZERO
         PROVE  output'[p] # ZERO
    <2>1. CASE start < p /\ p <= end
      BY <1>11, <2>1
    <2>2. CASE ~(start < p /\ p <= end)
      BY <1>6, <1>12, <2>2
    <2>3. QED
      BY <2>1, <2>2
  <1>13. ASSUME NEW i \in Pieces, meta.TotalSize <= Start(i) + ChunkSize,
                NEW p \in 1 .. Len(output'), p > Start(i)
         PROVE  output'[p] # ZERO
    <2>1. i = a.chunk \/ Start(i) >= start + ChunkSize
      BY <1>2, <1>8, <1>9, <1>13
    <2>2. CASE p <= Len(output)
      <3>1. output[p] # ZERO
        BY <1>2, <1>6, <1>7, <1>13, <2>2 DEF LastPieceSolid
      <3>2. QED
        BY <1>12, <2>2, <3>1
    <2>3. CASE p > Len(output)
      <3>1. p <= end /\ start < p
        BY <1>2, <1>6, <1>8, <1>13, <2>1, <2>3 DEF start
      <3>2. QED
        BY <1>11, <3>1
    <2>4. QED
      BY <1>2, <1>6, <2>2, <2>3
  <1>14. LastPieceSolid'
    BY <1>1, <1>3, <1>13 DEF LastPieceSolid
  <1>15. ASSUME NEW i \in have
         PROVE  /\ Start(i) + ChunkSize <= Len(output') \/ meta.TotalSize <= Len(output')
                /\ \A p \in 1 .. Len(output') :
                      Start(i) < p /\ p <= Start(i) + ChunkSize => output'[p] # ZERO
    <2>1. i \in Pieces /\ i \in Nat /\ Start(i) \in Nat
      BY <1>8, <1>10
    <2>2. Start(i) + ChunkSize <= Len(output) \/ meta.TotalSize <= Len(output)
      BY <1>7 DEF PiecesWritten
    <2>3. Len(output) <= Len(output')
      BY <1>2, <1>6
    <2>4. ASSUME NEW p \in 1 .. Len(output'), Start(i) < p, p <= Start(i) + ChunkSize
          PROVE  output'[p] # ZERO
      <3>1. CASE p <= Len(output)
        <4>1. output[p] # ZERO
          BY <1>2, <1>6, <1>7, <2>4, <3>1 DEF PiecesWritten
        <4>2. QED
          BY <1>12, <3>1, <4>1
      <3>2. CASE p > Len(output)
        <4>1. meta.TotalSize <= Start(i) + ChunkSize
          BY <1>2, <1>6, <2>1, <2>2, <2>4, <3>2
        <4>2. QED
          BY <1>13, <2>1, <2>4, <4>1
      <3>3. QED
        BY <1>2, <1>6, <3>1, <3>2
    <2>5. QED
      BY <1>2, <1>6, <2>1, <2>2, <2>3, <2>4
  <1>16. ASSUME Len(d) = Len(a.data)
         PROVE  /\ start + ChunkSize <= Len(output') \/ meta.TotalSize <= Len(output')
                /\ \A p \in 1 .. Len(output') :
                      start < p /\ p <= start + ChunkSize => output'[p] # ZERO
    <2>1. Len(a.data) >= ChunkSize \/ start + Len(a.data) >= meta.TotalSize
      BY <1>7 DEF Covers, start
    <2>2. end <= Len(output')
      BY <1>2, <1>6
    <2>3. start + ChunkSize <= Len(output') \/ meta.TotalSize <= Len(output')
      BY <1>2, <1>6, <1>16, <2>1, <2>2
    <2>4. ASSUME NEW p \in 1 .. Len(output'), start < p, p <= start + ChunkSize
          PROVE  output'[p] # ZERO
      <3>1. CASE p <= end
        BY <1>11, <2>4, <3>1
      <3>2. CASE p > end
        <4>1. meta.TotalSize <= start + ChunkSize
          BY <1>2, <1>6, <1>16, <2>1, <2>4, <3>2
        <4>2. QED
          BY <1>2, <1>13, <2>4, <4>1 DEF start
      <3>3. QED
        BY <1>2, <1>6, <3>1, <3>2
    <2>5. QED
      BY <2>3, <2>4
  <1>17. PiecesWritten'
    BY <1>1, <1>15, <1>16 DEF PiecesWritten, start
  <1>18. QED
    BY <1>5, <1>14, <1>17

\* A complete download of a file that was never cut off has no gap.
LEMMA NoGaps == PlaceInv /\ GapInv => GapsMeanShrunk
  <1> SUFFICES ASSUME PlaceInv, GapInv, Complete, ~shrunk
               PROVE  /\ Len(output) >= meta.TotalSize
                      /\ \A p \in 1 .. Len(output) : output[p] # ZERO
    BY DEF GapsMeanShrunk
  <1>1. /\ meta \in Metadata /\ meta.TotalSize \in Nat /\ Len(output) \in Nat
        /\ have = Pieces /\ LastPieceSolid /\ PiecesWritten
        /\ ChunkSize \in Nat /\ ChunkSize >= 1
    BY UnderWay, ChunkSizeAssumption DEF Complete, GapInv
  <1>2. CASE meta.TotalSize = 0
    <2>1. Pieces = {}
      <3>1. \A i \in Nat : ~(Start(i) < meta.TotalSize)
        <4>1. \A i \in Nat : Start(i) \in Nat
          BY Starts
        <4>2. QED
          BY <1>2, <4>1
      <3>2. QED
        BY <1>1, <3>1, PieceStarts
    <2>2. Len(output) = 0
      BY <2>1, EmptySeq DEF GapInv
    <2>3. QED
      BY <1>2, <2>2
  <1>3. CASE meta.TotalSize > 0
    <2>1. PICK l \in Nat : Start(l) < meta.TotalSize /\ meta.TotalSize <= Start(l) + ChunkSize
      BY <1>1, <1>3, PieceOfByte
    <2>2. l \in Pieces /\ Start(l) \in Nat
      BY <1>1, <2>1, PieceStarts, Starts
    <2>3. Len(output) >= meta.TotalSize
      BY <1>1, <2>1, <2>2 DEF PiecesWritten
    <2>4. ASSUME NEW p \in 1 .. Len(output)
          PROVE  output[p] # ZERO
      <3>1. CASE p > Start(l)
        BY <1>1, <2>1, <2>2, <3>1 DEF LastPieceSolid
      <3>2. CASE p <= Start(l)
        <4>1. p \in Nat \ {0}
          BY <1>1
        <4>2. PICK i \in Nat : Start(i) < p /\ p <= Start(i) + ChunkSize
          BY <4>1, PieceOfByte
        <4>3. Start(i) \in Nat /\ Start(i) < meta.TotalSize
          <5>1. Start(i) \in Nat
            BY <4>2, Starts
          <5>2. QED
            BY <1>1, <2>1, <2>2, <3>2, <4>1, <4>2, <5>1
        <4>4. i \in Pieces
          BY <1>1, <4>3, PieceStarts
        <4>5. QED
          BY <1>1, <4>2, <4>4 DEF PiecesWritten
      <3>3. QED
        BY <1>1, <2>2, <3>1, <3>2
    <2>5. QED
      BY <2>3, <2>4
  <1>4. QED
    BY <1>1, <1>2, <1>3

-----------------------------------------------------------------------------
(***************************************************************************)
(* A file that nobody edits.                                                *)
(***************************************************************************)
LEMMA EditHonest ==
    ASSUME PlaceInv, NEW new, Edit(new)
    PROVE  HonestInv'
  <1>1. edits \in Nat /\ edits' = edits + 1
    BY BoundsAssumption DEF PlaceInv, TypeOK, Edit
  <1>2. edits' # 0
    BY <1>1
  <1>3. QED
    BY <1>2 DEF HonestInv

\* ShareFile changes nothing but the metadata, so only its hashes matter.
LEMMA ShareHonest ==
    ASSUME HonestInv, UNCHANGED <<file, edits, shrunk>>,
           reading' = {}, answers' = {}, output' = <<>>, Len(file) \in Nat,
           edits = 0 /\ HashesMatch => HashesMatch'
    PROVE  HonestInv'
  <1>1. Len(output') = 0
    BY EmptySeq
  <1>2. BytesMatch'
    BY <1>1 DEF BytesMatch
  <1>3. QED
    BY <1>2 DEF HonestInv

\* What the steps before the chunk hashes do to the metadata.
LEMMA FieldHonest ==
    ASSUME PlaceInv, HashesMatch, UNCHANGED file,
           \/ at = "id" /\ at' = "stat" /\ meta' = [meta EXCEPT !.FileID = file]
           \/ at = "stat" /\ at' = "total" /\ meta' = [meta EXCEPT !.TotalSize = Len(file)]
           \/ at = "total" /\ at' = "chunks" /\ meta' = [meta EXCEPT !.TotalHash = file]
           \/ /\ at = "chunks" /\ at' = "shared" /\ meta' = meta
              /\ Len(meta.ChunkHashes) = numChunks(meta.TotalSize)
    PROVE  HashesMatch'
  <1>1. /\ meta'.ChunkHashes = meta.ChunkHashes /\ meta'.offset = meta.offset
        /\ at' # "id" => meta'.FileID = file
        /\ at' \in {"total", "chunks", "shared"} => meta'.TotalSize = Len(file)
        /\ at' \in {"chunks", "shared"} => meta'.TotalHash = file
        /\ at' = "shared" => meta' = meta /\ Len(meta.ChunkHashes) = numChunks(meta.TotalSize)
    BY DEF PlaceInv, Metadata, HashesMatch
  <1>2. at' \notin {"chunks", "shared"} => meta'.ChunkHashes = <<>>
    BY <1>1 DEF HashesMatch
  <1>3. /\ (\A k \in 1 .. Len(meta.ChunkHashes) : IsPiece(meta.ChunkHashes[k], k - 1))'
        /\ (meta.offset = Clip(Start(Len(meta.ChunkHashes))))'
    BY <1>1 DEF HashesMatch, IsPiece, Clip
  <1>4. QED
    BY <1>1, <1>2, <1>3 DEF HashesMatch

\* The offset is at the next piece, and the next hash is of that piece.
LEMMA ChunkHonest ==
    ASSUME PlaceInv, HashesMatch, HashChunk
    PROVE  HashesMatch'
  <1> DEFINE k    == Len(meta.ChunkHashes)
             data == Read(meta.offset)
             hs   == Append(meta.ChunkHashes, data)
  <1>1. /\ at = "chunks" /\ at' = "chunks" /\ file' = file
        /\ k < numChunks(meta.TotalSize)
        /\ meta'.FileID = meta.FileID /\ meta'.TotalHash = meta.TotalHash
        /\ meta'.TotalSize = meta.TotalSize
        /\ meta'.offset = meta.offset + Len(data)
        /\ meta'.ChunkHashes = hs
    BY HashChunkIs DEF ShareStep
  <1>2. /\ meta.FileID = file /\ meta.TotalSize = Len(file) /\ meta.TotalHash = file
        /\ \A j \in 1 .. k : IsPiece(meta.ChunkHashes[j], j - 1)
        /\ meta.offset = Clip(Start(k))
    BY <1>1 DEF HashesMatch
  <1>3. /\ Len(file) \in Nat /\ k \in Nat /\ meta.offset \in 0 .. MaxSize
        /\ meta.ChunkHashes \in Seq(Seq(Byte))
    BY NowContent, LenProperties, BoundsAssumption DEF PlaceInv, Metadata
  <1>4. /\ Start(k) < Len(file) /\ Start(k) \in Nat /\ Start(k + 1) = Start(k) + ChunkSize
        /\ ChunkSize \in Nat /\ ChunkSize >= 1
    BY <1>1, <1>2, <1>3, Chunks, Starts
  <1>5. meta.offset = Start(k)
    BY <1>2, <1>3, <1>4 DEF Clip
  <1>6. /\ data \in Seq(Byte)
        /\ Len(data) = IF Start(k) + ChunkSize < Len(file) THEN ChunkSize
                       ELSE Len(file) - Start(k)
        /\ \A p \in 1 .. Len(data) : data[p] = file[Start(k) + p]
    <2>1. /\ data \in Seq(Byte)
          /\ Len(data) = IF meta.offset + ChunkSize < Len(file) THEN ChunkSize
                         ELSE IF meta.offset < Len(file) THEN Len(file) - meta.offset ELSE 0
          /\ \A p \in 1 .. Len(data) : data[p] = file[meta.offset + p]
      BY <1>3, ReadIs
    <2>2. QED
      BY <1>4, <1>5, <2>1
  <1> HIDE DEF data
  <1>7. Start(k) + Len(data) = Clip(Start(k) + ChunkSize)
    BY <1>3, <1>4, <1>6 DEF Clip
  <1>8. IsPiece(data, k)
    BY <1>6, <1>7 DEF IsPiece
  <1>9. /\ hs \in Seq(Seq(Byte)) /\ Len(hs) = k + 1
        /\ \A j \in 1 .. k : hs[j] = meta.ChunkHashes[j]
        /\ hs[k + 1] = data
    BY <1>3, <1>6, AppendProperties
  <1> HIDE DEF k, hs
  <1>10. ASSUME NEW j \in 1 .. Len(hs)
         PROVE  IsPiece(hs[j], j - 1)
    <2>1. CASE j \in 1 .. k
      BY <1>2, <1>9, <2>1
    <2>2. CASE j = k + 1
      <3>1. j - 1 = k
        BY <1>3, <2>2
      <3>2. QED
        BY <1>8, <1>9, <2>2, <3>1
    <2>3. QED
      BY <1>3, <1>9, <2>1, <2>2
  <1>11. /\ (\A j \in 1 .. Len(meta.ChunkHashes) : IsPiece(meta.ChunkHashes[j], j - 1))'
         /\ (meta.offset = Clip(Start(Len(meta.ChunkHashes))))'
    BY <1>1, <1>4, <1>5, <1>7, <1>9, <1>10 DEF IsPiece, Clip
  <1>12. QED
    BY <1>1, <1>2, <1>11 DEF HashesMatch

\* A request of an unedited file sees the announced size.
LEMMA StatHonest ==
    ASSUME PlaceInv, HonestInv, NEW i \in Pieces, StatChunk(i)
    PROVE  HonestInv'
  <1> DEFINE r == [chunk |-> i, size |-> Len(file)]
  <1>1. /\ reading' = reading \cup {r} /\ r.size = Len(file)
        /\ UNCHANGED <<file, edits, shrunk, at, meta, answers, output, have>>
    BY DEF StatChunk
  <1> HIDE DEF r
  <1>2. HashesMatch => HashesMatch'
    BY <1>1 DEF HashesMatch, IsPiece, Clip
  <1>3. BytesMatch => BytesMatch'
    BY <1>1 DEF BytesMatch, IsPiece, Clip
  <1>4. QED
    BY <1>1, <1>2, <1>3 DEF HonestInv

\* An answer of an unedited file is the chunk.
LEMMA ReadHonest ==
    ASSUME PlaceInv, HonestInv, NEW r \in reading, ReadChunk(r)
    PROVE  HonestInv'
  <1> DEFINE d == ChunkAt(r.chunk, r.size)
             a == [chunk |-> r.chunk, data |-> d]
             start == Start(r.chunk)
  <1>1. /\ reading' = reading \ {r} /\ answers' = answers \cup {a}
        /\ UNCHANGED <<file, edits, shrunk, at, meta, output, have>>
    BY DEF ReadChunk
  <1>2. a.chunk = r.chunk /\ a.data = d
    OBVIOUS
  <1> HIDE DEF a
  <1>3. ASSUME BytesMatch
        PROVE  IsPiece(d, r.chunk)
    <2>1. /\ r.size = Len(file) /\ start \in Nat /\ start < Len(file) /\ Len(file) \in Nat
          /\ ChunkSize \in Nat /\ ChunkSize >= 1
      BY <1>3, UnderWay, NowContent, ChunkSizeAssumption, BoundsAssumption DEF BytesMatch
    <2>2. /\ Len(d) = (IF start + ChunkSize > r.size THEN r.size ELSE start + ChunkSize)
                      - start
          /\ \A p \in 1 .. Len(d) :
                d[p] = IF start + p <= Len(file) THEN file[start + p] ELSE ZERO
      BY ChunkAtIs
    <2> HIDE DEF d, start
    <2>3. start + Len(d) = Clip(start + ChunkSize) /\ start + Len(d) <= Len(file)
          /\ Len(d) \in Nat
      BY <2>1, <2>2 DEF Clip
    <2>4. \A p \in 1 .. Len(d) : d[p] = file[start + p]
      BY <2>1, <2>2, <2>3
    <2>5. QED
      BY <2>3, <2>4 DEF IsPiece, start
  <1> HIDE DEF d
  <1>4. HashesMatch => HashesMatch'
    BY <1>1 DEF HashesMatch, IsPiece, Clip
  <1>5. BytesMatch => BytesMatch'
    BY <1>1, <1>2, <1>3 DEF BytesMatch, IsPiece, Clip
  <1>6. QED
    BY <1>1, <1>4, <1>5 DEF HonestInv

\* A lost answer leaves the rest as it was.
LEMMA LoseHonest ==
    ASSUME HonestInv, NEW a, Lose(a)
    PROVE  HonestInv'
  BY DEF HonestInv, Lose, HashesMatch, BytesMatch, IsPiece, Clip

\* A chunk of an unedited file is written where the file has it.
LEMMA PutHonest ==
    ASSUME PlaceInv, HonestInv, NEW a, NEW d, Put(a, d)
    PROVE  HonestInv'
  <1> DEFINE start == Start(a.chunk)
             end   == start + Len(d)
  <1>1. /\ a \in answers /\ answers' = answers \ {a}
        /\ UNCHANGED <<file, edits, shrunk, at, meta, reading>>
    BY DEF Put
  <1>2. /\ start \in Nat /\ Len(a.data) \in Nat /\ Len(output) \in Nat
        /\ Len(file) \in Nat /\ ChunkSize \in Nat
    BY <1>1, UnderWay, NowContent, ChunkSizeAssumption, BoundsAssumption
  <1>3. /\ Len(d) \in Nat /\ Len(d) <= Len(a.data) /\ Len(output') \in Nat
        /\ Len(output') = IF end > Len(output) THEN end ELSE Len(output)
        /\ \A p \in 1 .. Len(output') :
              output'[p] = IF start < p /\ p <= end THEN a.data[p - start]
                           ELSE IF p <= Len(output) THEN output[p] ELSE ZERO
    BY PutIs
  <1>4. ASSUME BytesMatch
        PROVE  /\ Len(output') <= Len(file)
               /\ \A p \in 1 .. Len(output') : output'[p] = ZERO \/ output'[p] = file[p]
    <2>1. /\ start + Len(a.data) = Clip(start + ChunkSize)
          /\ \A p \in 1 .. Len(a.data) : a.data[p] = file[start + p]
          /\ Len(output) <= Len(file)
          /\ \A p \in 1 .. Len(output) : output[p] = ZERO \/ output[p] = file[p]
      BY <1>1, <1>4 DEF BytesMatch, IsPiece
    <2> HIDE DEF start
    <2>2. start + Len(a.data) <= Len(file)
      BY <1>2, <2>1 DEF Clip
    <2>3. Len(output') <= Len(file)
      BY <1>2, <1>3, <2>1, <2>2
    <2>4. ASSUME NEW p \in 1 .. Len(output')
          PROVE  output'[p] = ZERO \/ output'[p] = file[p]
      <3>1. CASE start < p /\ p <= end
        <4>1. PICK q \in 1 .. Len(a.data) : q = p - start
          BY <1>2, <1>3, <3>1
        <4>2. start + q = p
          BY <1>2, <1>3, <4>1
        <4>3. QED
          BY <1>3, <2>1, <3>1, <4>1, <4>2
      <3>2. CASE ~(start < p /\ p <= end)
        <4>1. output'[p] = IF p <= Len(output) THEN output[p] ELSE ZERO
          BY <1>3, <3>2
        <4>2. p <= Len(output) => p \in 1 .. Len(output)
          BY <1>2, <1>3
        <4>3. QED
          BY <2>1, <4>1, <4>2
      <3>3. QED
        BY <3>1, <3>2
    <2>5. QED
      BY <2>3, <2>4
  <1>5. HashesMatch => HashesMatch'
    BY <1>1 DEF HashesMatch, IsPiece, Clip
  <1>6. BytesMatch => BytesMatch'
    BY <1>1, <1>4 DEF BytesMatch, IsPiece, Clip
  <1>7. QED
    BY <1>1, <1>5, <1>6 DEF HonestInv

\* There is one piece i of the file.
LEMMA SamePiece ==
    ASSUME NEW d \in Seq(Byte), NEW e \in Seq(Byte), NEW i \in Nat,
           IsPiece(d, i), IsPiece(e, i)
    PROVE  d = e
  <1>1. Len(d) \in Nat /\ Len(e) \in Nat /\ Start(i) \in Nat
    BY LenProperties, Starts
  <1>2. Start(i) + Len(d) = Start(i) + Len(e)
    BY DEF IsPiece
  <1>3. Len(d) = Len(e)
    BY <1>1, <1>2
  <1>4. \A p \in 1 .. Len(d) : d[p] = e[p]
    BY <1>3 DEF IsPiece
  <1>5. QED
    BY <1>3, <1>4, SeqEqual

\* What the invariant says of an unedited file is that its copy verifies.
LEMMA Verifies == Inv => HonestTransferVerifies
  <1> SUFFICES ASSUME Inv, edits = 0
               PROVE  /\ at = "shared" => meta.FileID = meta.TotalHash
                      /\ \A a \in answers :
                            verifyChunk(a.data, meta.ChunkHashes[a.chunk + 1])
                      /\ Complete => IF meta.TotalSize = 0 THEN ~OutputKept
                                     ELSE verifyDownloadedFile(meta.TotalHash)
    BY DEF HonestTransferVerifies
  <1>1. PlaceInv /\ GapInv /\ ~shrunk /\ HashesMatch /\ BytesMatch
    BY DEF Inv, HonestInv
  <1>2. at = "shared" => meta.FileID = file /\ meta.TotalHash = file
    BY <1>1 DEF HashesMatch
  <1>3. ASSUME NEW a \in answers
        PROVE  a.data = meta.ChunkHashes[a.chunk + 1]
    <2>1. at = "shared"
      BY <1>1 DEF PlaceInv, NothingBeforeShared
    <2>2. /\ a.chunk \in Pieces /\ a.chunk \in Nat /\ a.data \in Seq(Byte)
          /\ meta \in Metadata /\ meta.TotalSize \in Nat
      BY <1>1, UnderWay
    <2>3. a.chunk < numChunks(meta.TotalSize) /\ numChunks(meta.TotalSize) \in Nat
      BY <2>2, PieceStarts, Chunks
    <2>4. Len(meta.ChunkHashes) = numChunks(meta.TotalSize)
      BY <1>1, <2>1 DEF HashesMatch
    <2>5. PICK k \in 1 .. Len(meta.ChunkHashes) : k = a.chunk + 1
      BY <2>2, <2>3, <2>4
    <2>6. k - 1 = a.chunk
      BY <2>2, <2>5
    <2>7. IsPiece(meta.ChunkHashes[k], a.chunk)
      BY <1>1, <2>6 DEF HashesMatch
    <2>8. meta.ChunkHashes[k] \in Seq(Byte)
      <3>1. meta.ChunkHashes \in Seq(Seq(Byte))
        BY <2>2 DEF Metadata
      <3>2. QED
        BY <3>1, ElementOfSeq
    <2>9. IsPiece(a.data, a.chunk)
      BY <1>1 DEF BytesMatch
    <2>10. QED
      BY <2>2, <2>5, <2>7, <2>8, <2>9, SamePiece
  <1>4. ASSUME Complete
        PROVE  /\ output = meta.TotalHash
               /\ meta.TotalSize = 0 <=> output = <<>>
    <2>1. at = "shared" /\ meta.TotalSize = Len(file)
      BY <1>1, <1>4 DEF Complete, HashesMatch
    <2>2. Len(output) >= Len(file) /\ \A p \in 1 .. Len(output) : output[p] # ZERO
      BY <1>1, <1>4, <2>1, NoGaps DEF GapsMeanShrunk
    <2>3. /\ file \in Seq(Byte) /\ output \in Seq(Byte)
          /\ Len(file) \in Nat /\ Len(output) \in Nat
      BY <1>1, NowContent, UnderWay, BoundsAssumption
    <2>4. Len(output) = Len(file)
      BY <1>1, <2>2, <2>3 DEF BytesMatch
    <2>5. \A p \in 1 .. Len(output) : output[p] = file[p]
      BY <1>1, <2>2 DEF BytesMatch
    <2>6. output = file
      BY <2>3, <2>4, <2>5, SeqEqual
    <2>7. meta.TotalSize = Len(output)
      BY <2>1, <2>4
    <2>8. Len(output) = 0 <=> output = <<>>
      BY <2>3, EmptySeq
    <2>9. QED
      BY <1>2, <2>1, <2>6, <2>7, <2>8
  <1>5. QED
    BY <1>2, <1>3, <1>4 DEF verifyChunk, verifyDownloadedFile, OutputKept

-----------------------------------------------------------------------------
(***************************************************************************)
(* The invariant holds, and what follows from it.                           *)
(***************************************************************************)

\* The file that the user shares.
LEMMA FirstContent ==
    ASSUME NEW n \in 0 .. MaxSize, file = Written(0, n)
    PROVE  /\ file \in Seq(Byte) /\ Len(file) = n
           /\ FileInPlace
  <1>1. n \in Nat /\ 0 \in 0 .. MaxEdits
    BY BoundsAssumption
  <1>2. \A p \in 1 .. n : /\ file[p] = <<0, p>>
                          /\ <<0, p>> \in (0 .. MaxEdits) \X (1 .. MaxSize)
    BY <1>1, BoundsAssumption DEF Written
  <1>3. file \in [1 .. n -> Byte]
    BY <1>2 DEF Written, Byte
  <1>4. file \in Seq(Byte) /\ Len(file) = n
    BY <1>1, <1>3, Sequence
  <1>5. ASSUME NEW p \in 1 .. Len(file)
        PROVE  file[p][2] = 0 + p /\ file[p] # ZERO
    <2>1. p \in Nat /\ p \in 1 .. n
      BY <1>1, <1>4
    <2>2. file[p] = <<0, p>> /\ file[p] # ZERO
      BY <1>2, <2>1, ZeroAssumption
    <2>3. file[p][2] = p
      BY <2>2
    <2>4. QED
      BY <2>1, <2>2, <2>3
  <1>6. QED
    BY <1>4, <1>5 DEF FileInPlace, Placed

\* The invariant holds when a node starts to share a file.
LEMMA InitInv == Init => Inv
  <1> SUFFICES ASSUME Init PROVE Inv
    OBVIOUS
  <1>1. PICK n \in 0 .. MaxSize : file = Written(0, n)
    BY DEF Init
  <1>2. file \in Seq(Byte) /\ Len(file) = n /\ FileInPlace
    BY <1>1, FirstContent
  <1>3. /\ MaxSize \in Nat /\ MaxEdits \in Nat
        /\ <<>> \in Seq(Byte) /\ Len(<<>>) = 0 /\ <<>> \in Seq(Seq(Byte))
    BY BoundsAssumption, EmptySeq
  <1>4. /\ meta \in Metadata /\ meta.FileID = <<>> /\ meta.TotalHash = <<>>
        /\ meta.ChunkHashes = <<>> /\ meta.TotalSize = 0 /\ meta.offset = 0
    BY <1>3 DEF Init, Metadata
  <1>5. TypeOK
    <2>1. edits \in 0 .. MaxEdits /\ at \in {"id", "stat", "total", "chunks", "shared"}
      BY <1>3 DEF Init
    <2>2. shrunk \in BOOLEAN
      BY DEF Init
    <2>3. IsContent(file) /\ IsContent(output)
      BY <1>2, <1>3 DEF Init, IsContent
    <2>4. /\ IsContent(meta.FileID) /\ IsContent(meta.TotalHash)
          /\ meta.TotalSize \in 0 .. MaxSize /\ meta.offset \in 0 .. MaxSize
          /\ \A i \in 1 .. Len(meta.ChunkHashes) : IsContent(meta.ChunkHashes[i])
      BY <1>3, <1>4 DEF IsContent
    <2>5. QED
      BY <2>1, <2>2, <2>3, <2>4 DEF Init, TypeOK
  <1>6. PlaceInv
    BY <1>2, <1>3, <1>4, <1>5 DEF Init, PlaceInv, NothingBeforeShared, RequestsInFile,
                                  AnswersInPlace, BytesKeepTheirPlace
  <1>7. GapInv
    BY <1>3 DEF Init, GapInv, SeederHasBytes, LastPieceSolid, PiecesWritten
  <1>8. HashesMatch
    <2>1. meta.offset = Clip(Start(Len(meta.ChunkHashes)))
      BY <1>2, <1>3, <1>4, Starts DEF Clip
    <2>2. QED
      BY <1>3, <1>4, <2>1 DEF Init, HashesMatch
  <1>9. BytesMatch
    BY <1>2, <1>3 DEF Init, BytesMatch
  <1>10. QED
    BY <1>6, <1>7, <1>8, <1>9 DEF Init, Inv, HonestInv

\* Edits keep the invariant.
LEMMA EditInv ==
    ASSUME Inv, NEW n \in 0 .. MaxSize, Overwrite(n) \/ Truncate(n)
    PROVE  Inv'
  <1>1. PICK new : \/ Overwrite(n) /\ new = Written(edits + 1, n)
                   \/ Truncate(n) /\ new = SubSeq(file, 1, n)
    OBVIOUS
  <1>2. /\ Edit(new) /\ new \in Seq(Byte) /\ Len(new) = n
        /\ Placed(new, 0) /\ Solid(new)
    <2>1. PlaceInv
      BY DEF Inv
    <2>2. QED
      BY <1>1, <2>1, NewContent, Zenon
  <1>3. QED
    BY <1>2, EditPlaces, EditGaps, EditHonest DEF Inv

\* The reads of ShareFile for ID, size and total hash keep the invariant.
LEMMA FieldInv ==
    ASSUME Inv, generateFileID \/ StatFile \/ HashTotal \/ AddActiveFile
    PROVE  Inv'
  <1>1. PICK from, to, m :
             /\ from # "shared" /\ to \in {"stat", "total", "chunks", "shared"}
             /\ ShareStep(from, to, m) /\ MetaContent(m)
             /\ \/ from = "id" /\ to = "stat" /\ m = [meta EXCEPT !.FileID = file]
                \/ from = "stat" /\ to = "total" /\ m = [meta EXCEPT !.TotalSize = Len(file)]
                \/ from = "total" /\ to = "chunks" /\ m = [meta EXCEPT !.TotalHash = file]
                \/ /\ from = "chunks" /\ to = "shared" /\ m = meta
                   /\ Len(meta.ChunkHashes) = numChunks(meta.TotalSize)
    <2>1. PlaceInv
      BY DEF Inv
    <2>2. /\ MetaContent([meta EXCEPT !.FileID = file])
          /\ MetaContent([meta EXCEPT !.TotalSize = Len(file)])
          /\ MetaContent([meta EXCEPT !.TotalHash = file])
          /\ MetaContent(meta)
      BY <2>1, FieldContent, NowContent
    <2>3. CASE generateFileID
      BY <2>2, <2>3 DEF generateFileID
    <2>4. CASE StatFile
      BY <2>2, <2>4 DEF StatFile
    <2>5. CASE HashTotal
      BY <2>2, <2>5 DEF HashTotal
    <2>6. CASE AddActiveFile
      BY <2>2, <2>6 DEF AddActiveFile
    <2>7. QED
      BY <2>3, <2>4, <2>5, <2>6
  <1>2. /\ PlaceInv' /\ at = from /\ at' = to /\ meta' = m
        /\ UNCHANGED <<file, edits, shrunk>>
        /\ reading' = {} /\ answers' = {} /\ output' = <<>> /\ have' = {}
    BY <1>1, SharePlaces DEF Inv
  <1>3. Len(file) \in Nat
    BY NowContent, BoundsAssumption DEF Inv
  <1>4. (~shrunk /\ at \in {"total", "chunks", "shared"} => meta.TotalSize <= Len(file))'
    <2>1. CASE to = "total"
      BY <1>1, <1>2, <1>3, <2>1 DEF Inv, PlaceInv, Metadata
    <2>2. CASE to # "total"
      BY <1>1, <1>2, <2>2 DEF Inv, PlaceInv, Metadata, GapInv, SeederHasBytes
    <2>3. QED
      BY <2>1, <2>2
  <1>5. GapInv'
    BY <1>2, <1>4, ShareGaps
  <1>6. HashesMatch => HashesMatch'
    BY <1>1, <1>2, FieldHonest DEF Inv
  <1>7. QED
    BY <1>2, <1>3, <1>5, <1>6, ShareHonest DEF Inv

\* The reads of ShareFile for the chunk hashes keep the invariant.
LEMMA HashChunkInv ==
    ASSUME Inv, HashChunk
    PROVE  Inv'
  <1> DEFINE data == Read(meta.offset)
             new  == [meta EXCEPT !.ChunkHashes = Append(@, data), !.offset = @ + Len(data)]
  <1>1. PICK m : /\ ShareStep("chunks", "chunks", m) /\ MetaContent(m)
                 /\ m.TotalSize = meta.TotalSize
    <2>1. /\ ShareStep("chunks", "chunks", new) /\ MetaContent(new)
          /\ new.TotalSize = meta.TotalSize
      BY HashChunkIs DEF Inv
    <2> HIDE DEF new
    <2>2. QED
      BY <2>1
  <1>2. /\ PlaceInv' /\ at = "chunks" /\ at' = "chunks" /\ meta' = m
        /\ UNCHANGED <<file, edits, shrunk>>
        /\ reading' = {} /\ answers' = {} /\ output' = <<>> /\ have' = {}
    <2>1. PlaceInv /\ "chunks" # "shared" /\ "chunks" \in {"stat", "total", "chunks", "shared"}
      BY DEF Inv
    <2>2. QED
      BY <1>1, <2>1, SharePlaces, Zenon
  <1>3. Len(file) \in Nat
    BY NowContent, BoundsAssumption DEF Inv
  <1>4. (~shrunk /\ at \in {"total", "chunks", "shared"} => meta.TotalSize <= Len(file))'
    BY <1>1, <1>2 DEF Inv, GapInv, SeederHasBytes
  <1>5. GapInv'
    BY <1>2, <1>4, ShareGaps
  <1>6. HashesMatch => HashesMatch'
    BY ChunkHonest DEF Inv
  <1>7. QED
    BY <1>2, <1>3, <1>5, <1>6, ShareHonest DEF Inv

\* A chunk that is written keeps the invariant.
LEMMA WriteInv ==
    ASSUME Inv, NEW a \in answers, writeAndVerifyChunk(a)
    PROVE  Inv'
  <1>1. a.data \in Seq(Byte) /\ Len(a.data) \in Nat /\ Len(a.data) >= 1
    BY UnderWay DEF Inv
  <1>2. Put(a, a.data) /\ have' = have \cup {a.chunk}
    BY <1>1 DEF writeAndVerifyChunk, Put, Start, seederVars
  <1>3. QED
    BY <1>1, <1>2, PutPlaces, PutGaps, PutHonest DEF Inv

\* A chunk that is lost, or written in part, keeps the invariant.
LEMMA FailInv ==
    ASSUME Inv, NEW a \in answers, NEW n \in 0 .. Len(a.data) - 1, ChunkFails(a, n)
    PROVE  Inv'
  <1>1. CASE n = 0
    <2>1. Lose(a)
      BY <1>1 DEF ChunkFails, Lose, seederVars
    <2>2. QED
      BY <2>1, LosePlaces, LoseGaps, LoseHonest DEF Inv
  <1>2. CASE n # 0
    <2> DEFINE d == SubSeq(a.data, 1, n)
    <2>1. a.data \in Seq(Byte) /\ Len(a.data) \in Nat
      BY UnderWay DEF Inv
    <2>2. n \in 0 .. Len(a.data) /\ n \in Nat /\ n >= 1
      BY <1>2, <2>1
    <2>3. /\ d \in Seq(Byte) /\ Len(d) = n
          /\ \A p \in 1 .. n : d[p] = a.data[p]
      BY <2>1, <2>2, Prefix
    <2>4. output' = WriteAt(output, Start(a.chunk), d) /\ have' = have
      BY <1>2 DEF ChunkFails, Start
    <2> HIDE DEF d
    <2>5. Put(a, d) /\ Len(d) >= 1
      BY <2>2, <2>3, <2>4 DEF ChunkFails, Put, seederVars
    <2>6. QED
      BY <2>4, <2>5, PutPlaces, PutGaps, PutHonest DEF Inv
  <1>3. QED
    BY <1>1, <1>2

\* The invariant is inductive.
LEMMA NextInv == Inv /\ [Next]_vars => Inv'
  <1> SUFFICES ASSUME Inv, [Next]_vars PROVE Inv'
    OBVIOUS
  <1>1. CASE \E n \in 0 .. MaxSize : Overwrite(n) \/ Truncate(n)
    BY <1>1, EditInv
  <1>2. CASE generateFileID \/ StatFile \/ HashTotal \/ AddActiveFile
    BY <1>2, FieldInv
  <1>3. CASE HashChunk
    BY <1>3, HashChunkInv
  <1>4. CASE \E i \in Pieces : StatChunk(i)
    BY <1>4, StatPlaces, StatGaps, StatHonest DEF Inv
  <1>5. CASE \E r \in reading : ReadChunk(r)
    BY <1>5, ReadPlaces, ReadGaps, ReadHonest DEF Inv
  <1>6. CASE \E a \in answers : writeAndVerifyChunk(a)
    BY <1>6, WriteInv
  <1>7. CASE \E a \in answers : \E n \in 0 .. Len(a.data) - 1 : ChunkFails(a, n)
    BY <1>7, FailInv
  <1>8. CASE UNCHANGED vars
    <2>1. UNCHANGED <<file, edits, shrunk, at, meta, reading, answers, output, have>>
      BY <1>8 DEF vars, seederVars
    <2>2. Pieces' = Pieces
      BY <2>1 DEF Pieces
    <2>3. PlaceInv'
      BY <2>1, <2>2 DEF Inv, PlaceInv, TypeOK, IsContent, NothingBeforeShared, FileInPlace,
                        Placed, RequestsInFile, AnswersInPlace, BytesKeepTheirPlace
    <2>4. GapInv'
      BY <2>1, <2>2 DEF Inv, GapInv, SeederHasBytes, Solid, Covers, LastPieceSolid,
                        PiecesWritten
    <2>5. HonestInv'
      BY <2>1 DEF Inv, HonestInv, HashesMatch, BytesMatch, IsPiece, Clip
    <2>6. QED
      BY <2>3, <2>4, <2>5 DEF Inv
  <1>9. QED
    BY <1>1, <1>2, <1>3, <1>4, <1>5, <1>6, <1>7, <1>8 DEF Next

\* The invariant holds in every reachable state.
LEMMA InvHolds == Spec => []Inv
  BY InitInv, NextInv, PTL DEF Spec

\* Every variable of the transfer keeps its type: the offsets, sizes and
\* chunks stay within the file's bounds, whatever is edited while ShareFile
\* hashes and ReadChunk reads.
THEOREM TypeCorrect == Spec => []TypeOK
  <1>1. Inv => TypeOK
    BY DEF Inv, PlaceInv
  <1>2. QED
    BY <1>1, InvHolds, PTL

\* A byte of the output is a gap or was at this very position of the seeder's
\* file: ReadChunk and WriteAt agree on where a chunk starts.
THEOREM PlacesKept == Spec => []BytesKeepTheirPlace
  <1>1. Inv => BytesKeepTheirPlace
    BY DEF Inv, PlaceInv
  <1>2. QED
    BY <1>1, InvHolds, PTL

\* A complete download has all the announced bytes and no gap unless an edit
\* made the seeder's file shorter.
THEOREM GapsOnlyIfShrunk == Spec => []GapsMeanShrunk
  <1>1. Inv => GapsMeanShrunk
    BY NoGaps DEF Inv
  <1>2. QED
    BY <1>1, InvHolds, PTL

\* A file that nobody edits passes verifyChunk for every chunk under way; when
\* the download is complete, its output is kept and passes verifyDownloadedFile,
\* for every chunk size and every file size but 0, and is removed for size 0.
THEOREM HonestVerifies == Spec => []HonestTransferVerifies
  BY Verifies, InvHolds, PTL
=============================================================================
