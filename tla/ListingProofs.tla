--------------------------- MODULE ListingProofs ----------------------------
(***************************************************************************)
(* Proofs about Listing, for any number of files and any page length.  A    *)
(* file without an equal has the same position in every order that the sort *)
(* may leave: one behind the files with more peers.  The pages cut the      *)
(* positions into intervals, so the position decides the page.              *)
(***************************************************************************)
EXTENDS Listing, TrackerProofs, SequenceTheorems, FunctionTheorems

NumPeers(f) == fileIndex[f].NumPeers

\* The files that every sort puts before f.
Ahead(files, f) == {g \in files : NumPeers(g) > NumPeers(f)}

\* Files that a listing shows have a count.
LEMMA ShownAreCounted ==
    ASSUME TypeOK, NEW filter \in SUBSET Files
    PROVE  /\ Filtered(filter) \subseteq Files
           /\ IsFiniteSet(Filtered(filter))
           /\ \A g \in Filtered(filter) : NumPeers(g) \in Nat
  <1>1. Filtered(filter) \subseteq Files
    BY DEF Filtered
  <1>2. IsFiniteSet(Filtered(filter))
    BY <1>1, FilesAssumption, FS_Subset
  <1>3. ASSUME NEW g \in Filtered(filter)
        PROVE  NumPeers(g) \in Nat
    <2>1. fileIndex[g] \in FileInfo
      BY <1>1 DEF Filtered, TypeOK
    <2>2. QED
      BY <2>1 DEF FileInfo, NumPeers
  <1>4. QED
    BY <1>1, <1>2, <1>3

-----------------------------------------------------------------------------
(***************************************************************************)
(* The position of a file.                                                  *)
(***************************************************************************)

\* An order lists every file exactly once.
LEMMA OrderIsBijection ==
    ASSUME NEW files, IsFiniteSet(files), NEW o \in Sorted(files)
    PROVE  /\ Cardinality(files) \in Nat
           /\ o \in [1 .. Cardinality(files) -> files]
           /\ \A i, j \in 1 .. Cardinality(files) : o[i] = o[j] => i = j
           /\ \A g \in files : \E i \in 1 .. Cardinality(files) : o[i] = g
  <1> DEFINE n == Cardinality(files)
  <1>1. n \in Nat
    BY FS_CardinalityType
  <1>2. /\ o \in [1 .. n -> files]
        /\ \A i, j \in 1 .. n : i < j => o[i] # o[j]
    BY DEF Sorted
  <1>3. \A i, j \in 1 .. n : o[i] = o[j] => i = j
    <2>1. ASSUME NEW i \in 1 .. n, NEW j \in 1 .. n, i # j
          PROVE  o[i] # o[j]
      <3>1. i < j \/ j < i
        BY <1>1, <2>1
      <3>2. QED
        BY <1>2, <3>1
    <2>2. QED
      BY <2>1
  <1>4. o \in Injection(1 .. n, files)
    BY <1>2, <1>3, Fun_IsInj
  <1>5. Cardinality(1 .. n) = n
    <2>1. Cardinality(1 .. n) = IF 1 > n THEN 0 ELSE n - 1 + 1
      BY <1>1, FS_Interval
    <2>2. QED
      BY <1>1, <2>1
  <1>6. o \in Surjection(1 .. n, files)
    BY <1>4, <1>5, FS_Injection
  <1>7. \A g \in files : \E i \in 1 .. n : o[i] = g
    BY <1>6 DEF Surjection
  <1>8. QED
    BY <1>1, <1>2, <1>3, <1>7

\* A file without an equal stands right behind the files with more peers.
LEMMA UntiedPosition ==
    ASSUME NEW files, IsFiniteSet(files), \A g \in files : NumPeers(g) \in Nat,
           NEW o \in Sorted(files), NEW f \in files, Untied(files, f),
           NEW p \in 1 .. Cardinality(files), o[p] = f
    PROVE  p = Cardinality(Ahead(files, f)) + 1
  <1> DEFINE n == Cardinality(files)
             before == 1 .. p - 1
             h == [i \in before |-> o[i]]
  <1>1. /\ n \in Nat
        /\ o \in [1 .. n -> files]
        /\ \A i, j \in 1 .. n : o[i] = o[j] => i = j
        /\ \A g \in files : \E i \in 1 .. n : o[i] = g
    BY OrderIsBijection
  <1>2. \A i, j \in 1 .. n : i < j => NumPeers(o[i]) >= NumPeers(o[j])
    BY <1>1 DEF Sorted, NumPeers
  <1>3. \A g \in files : g # f => NumPeers(g) # NumPeers(f)
    BY DEF Untied, NumPeers
  <1>4. before \subseteq 1 .. n /\ \A i \in before : i < p
    BY <1>1
  <1> HIDE DEF n
  <1>5. ASSUME NEW i \in before
        PROVE  o[i] \in Ahead(files, f)
    <2>1. i \in 1 .. n /\ i < p /\ p \in 1 .. n
      BY <1>4 DEF n
    <2>2. o[i] \in files /\ o[i] # f
      BY <1>1, <2>1
    <2>3. NumPeers(o[i]) >= NumPeers(f)
      BY <1>2, <2>1
    <2>4. NumPeers(o[i]) > NumPeers(f)
      BY <1>3, <2>2, <2>3
    <2>5. QED
      BY <2>2, <2>4 DEF Ahead
  <1>6. ASSUME NEW g \in Ahead(files, f)
        PROVE  \E i \in before : o[i] = g
    <2>1. g \in files /\ NumPeers(g) > NumPeers(f)
      BY DEF Ahead
    <2>2. PICK i \in 1 .. n : o[i] = g
      BY <1>1, <2>1
    <2>3. p \in 1 .. n
      BY DEF n
    <2>4. i # p
      BY <2>1, <2>2
    <2>5. ~(p < i)
      BY <1>2, <2>1, <2>2, <2>3
    <2>6. i \in before
      BY <1>1, <2>2, <2>3, <2>4, <2>5
    <2>7. QED
      BY <2>2, <2>6
  <1>7. h \in [before -> Ahead(files, f)] /\ \A i \in before : h[i] = o[i]
    BY <1>5
  <1>8. \A i, j \in before : h[i] = h[j] => i = j
    BY <1>1, <1>4, <1>7
  <1>9. \A g \in Ahead(files, f) : \E i \in before : h[i] = g
    BY <1>6, <1>7
  <1> HIDE DEF h
  <1>10. h \in Bijection(before, Ahead(files, f))
    BY <1>7, <1>8, <1>9, Fun_IsBij
  <1>11. ExistsBijection(before, Ahead(files, f))
    BY <1>10 DEF ExistsBijection
  <1>12. /\ p \in Nat /\ p >= 1
         /\ IsFiniteSet(before)
         /\ Cardinality(before) = IF 1 > p - 1 THEN 0 ELSE p - 1 - 1 + 1
    <2>1. p \in Nat /\ p >= 1
      OBVIOUS
    <2>2. 1 \in Int /\ p - 1 \in Int
      BY <2>1
    <2>3. QED
      BY <2>1, <2>2, FS_Interval
  <1>13. Cardinality(Ahead(files, f)) = Cardinality(before)
    BY <1>11, <1>12, FS_Bijection
  <1>14. QED
    BY <1>12, <1>13

-----------------------------------------------------------------------------
(***************************************************************************)
(* The page of a position.                                                  *)
(***************************************************************************)
OnPage(i, page) == (page - 1) * PerPage < i /\ i <= page * PerPage

\* The first page is long enough for the first file and later ones go on where
\* the one before stops: every position has one page, not behind the position.
LEMMA OnePage ==
    ASSUME NEW p \in Nat \ {0}
    PROVE  \E m \in 1 .. p : \A page \in Nat \ {0} : OnPage(p, page) <=> page = m
  <1> DEFINE q == (p - 1) \div PerPage
  <1>1. PerPage \in Nat /\ PerPage > 0
    BY PerPageAssumption
  <1>2. q \in Nat /\ q * PerPage <= p - 1 /\ p - 1 < (q + 1) * PerPage
    BY <1>1, Z3
  <1> HIDE DEF q
  <1>3. q <= p - 1
    <2>1. q <= q * PerPage
      BY <1>1, <1>2
    <2>2. q * PerPage \in Nat
      BY <1>1, <1>2
    <2>3. QED
      BY <1>2, <2>1, <2>2
  <1>4. q + 1 \in 1 .. p
    BY <1>2, <1>3
  <1>5. ASSUME NEW page \in Nat \ {0}
        PROVE  OnPage(p, page) <=> page = q + 1
    <2>1. CASE page = q + 1
      BY <1>1, <1>2, <2>1 DEF OnPage
    <2>2. CASE page < q + 1
      <3>1. page * PerPage <= q * PerPage
        BY <1>1, <1>2, <2>2
      <3>2. page * PerPage \in Nat /\ q * PerPage \in Nat
        BY <1>1, <1>2
      <3>3. QED
        BY <1>2, <2>2, <3>1, <3>2 DEF OnPage
    <2>3. CASE page > q + 1
      <3>1. (page - 1) * PerPage >= (q + 1) * PerPage
        BY <1>1, <1>2, <2>3
      <3>2. (page - 1) * PerPage \in Nat /\ (q + 1) * PerPage \in Nat
        BY <1>1, <1>2
      <3>3. QED
        BY <1>2, <2>3, <3>1, <3>2 DEF OnPage
    <2>4. QED
      BY <1>2, <2>1, <2>2, <2>3
  <1>6. QED
    BY <1>4, <1>5

Shown(o, page) == {Page(o, page)[i] : i \in DOMAIN Page(o, page)}

AtPositions(o, n, page) == {o[i] : i \in {j \in 1 .. n : OnPage(j, page)}}

\* A page shows the files at its positions and no others.
LEMMA PageShows ==
    ASSUME NEW files, NEW n \in Nat, NEW o \in [1 .. n -> files],
           NEW page \in Nat \ {0}
    PROVE  Shown(o, page) = AtPositions(o, n, page)
  <1> DEFINE start == (page - 1) * PerPage
             end == IF start + PerPage > n THEN n ELSE start + PerPage
  <1>1. PerPage \in Nat /\ PerPage > 0
    BY PerPageAssumption
  <1>2. start \in Nat /\ page * PerPage = start + PerPage
    BY <1>1
  <1>3. o \in Seq(files) /\ Len(o) = n
    <2>1. o \in Seq(files)
      BY SMT
    <2>2. Len(o) \in Nat /\ DOMAIN o = 1 .. Len(o) /\ DOMAIN o = 1 .. n
      BY <2>1
    <2>3. QED
      BY <2>1, <2>2
  <1>4. ~(page < 1)
    OBVIOUS
  <1>5. Page(o, page) = SubSeq(o, start + 1, end)
    BY <1>3, <1>4 DEF Page
  <1>6. \A i : OnPage(i, page) <=> start < i /\ i <= start + PerPage
    BY <1>2 DEF OnPage
  <1> HIDE DEF start
  <1>7. end \in Nat /\ end <= n /\ start + 1 \in Int
        /\ \A i \in Nat : i <= end <=> i <= n /\ i <= start + PerPage
    BY <1>1, <1>2
  <1> HIDE DEF end
  <1>8. \A i \in start + 1 .. end : o[i] \in files
    BY <1>2, <1>7
  <1> DEFINE s == SubSeq(o, start + 1, end)
  <1>9. /\ s \in Seq(files)
        /\ Len(s) = IF start + 1 <= end THEN end - (start + 1) + 1 ELSE 0
        /\ \A i \in 1 .. end - (start + 1) + 1 : s[i] = o[start + 1 + i - 1]
    BY <1>2, <1>7, <1>8, SubSeqProperties
  <1>10. DOMAIN s = 1 .. Len(s)
    BY <1>9
  <1> HIDE DEF s
  <1>11. \A i \in DOMAIN s : i \in Nat /\ start + i \in 1 .. n /\ start + i <= end
                             /\ i > 0 /\ s[i] = o[start + i]
    BY <1>2, <1>7, <1>9, <1>10
  <1>12. ASSUME NEW i \in DOMAIN s
         PROVE  \E j \in 1 .. n : OnPage(j, page) /\ o[j] = s[i]
    <2>1. start + i \in 1 .. n /\ OnPage(start + i, page) /\ o[start + i] = s[i]
      BY <1>2, <1>6, <1>7, <1>11, <1>12
    <2>2. QED
      BY <2>1
  <1>13. ASSUME NEW j \in 1 .. n, OnPage(j, page)
         PROVE  \E i \in DOMAIN s : s[i] = o[j]
    <2>1. start < j /\ j <= end
      BY <1>6, <1>7, <1>13
    <2>2. j - start \in 1 .. Len(s)
      BY <1>2, <1>7, <1>9, <2>1
    <2>3. start + (j - start) = j
      BY <1>2
    <2>4. s[j - start] = o[j]
      BY <1>10, <1>11, <1>13, <2>2, <2>3
    <2>5. QED
      BY <1>10, <2>2, <2>4
  <1>14. Shown(o, page) = {s[i] : i \in DOMAIN s}
    BY <1>5 DEF s, Shown
  <1>15. QED
    BY <1>12, <1>13, <1>14 DEF AtPositions

-----------------------------------------------------------------------------
\* In any state that has its type the property of the pages holds.
LEMMA TypedListing ==
    ASSUME TypeOK
    PROVE  UntiedFileOnOnePage
  <1>1. SUFFICES ASSUME NEW filter \in SUBSET Files, NEW f \in Filtered(filter),
                        Untied(Filtered(filter), f)
        PROVE  \E m \in 1 .. Cardinality(Filtered(filter)) :
                 \A page \in 1 .. Cardinality(Filtered(filter)) :
                   \A shown \in HandleListFiles(filter, page) :
                     f \in shown <=> page = m
    BY DEF UntiedFileOnOnePage
  <1> DEFINE files == Filtered(filter)
             n == Cardinality(files)
             ahead == Ahead(files, f)
             p == Cardinality(ahead) + 1
  <1>2. IsFiniteSet(files) /\ \A g \in files : NumPeers(g) \in Nat
    BY ShownAreCounted
  <1>3. p \in Nat \ {0} /\ p <= n /\ n \in Nat
    <2>1. ahead \subseteq files \ {f}
      BY <1>2 DEF Ahead
    <2>2. IsFiniteSet(files \ {f}) /\ Cardinality(files \ {f}) = n - 1 /\ n \in Nat
      BY <1>2, FS_RemoveElement, FS_CardinalityType
    <2>3. IsFiniteSet(ahead) /\ Cardinality(ahead) <= n - 1
      BY <2>1, <2>2, FS_Subset
    <2>4. Cardinality(ahead) \in Nat
      BY <2>3, FS_CardinalityType
    <2>5. QED
      BY <2>2, <2>3, <2>4
  <1> HIDE DEF p, n
  <1>4. PICK m \in 1 .. p : \A page \in Nat \ {0} : OnPage(p, page) <=> page = m
    BY <1>3, OnePage
  <1>5. m \in 1 .. n
    BY <1>3, <1>4
  <1>6. ASSUME NEW page \in 1 .. n, NEW shown \in HandleListFiles(filter, page)
        PROVE  f \in shown <=> page = m
    <2>1. page \in Nat \ {0}
      BY <1>3
    <2>2. PICK o \in Sorted(files) :
              shown = {Page(o, page)[i] : i \in DOMAIN Page(o, page)}
      BY DEF HandleListFiles
    <2>3. /\ o \in [1 .. n -> files]
          /\ \A g \in files : \E i \in 1 .. n : o[i] = g
      BY <1>2, OrderIsBijection DEF n
    <2>4. f \in shown <=> \E i \in 1 .. n : OnPage(i, page) /\ o[i] = f
      <3>1. n \in Nat /\ shown = Shown(o, page)
        BY <1>3, <2>2 DEF Shown
      <3>2. Shown(o, page) = AtPositions(o, n, page)
        BY <2>1, <2>3, <3>1, PageShows
      <3>3. QED
        BY <3>1, <3>2 DEF AtPositions
    <2>5. \A i \in 1 .. n : o[i] = f => i = p
      BY <1>1, <1>2, UntiedPosition DEF n, p
    <2>6. \E i \in 1 .. n : o[i] = f /\ i = p
      BY <2>3, <2>5
    <2>7. f \in shown <=> OnPage(p, page)
      BY <2>4, <2>5, <2>6
    <2>8. QED
      BY <1>4, <2>1, <2>7
  <1>7. QED
    BY <1>5, <1>6 DEF n

\* A client that pages through /files meets every file without an equal in
\* popularity on exactly one page, the same in every answer, for any number of
\* files and any page length, although HandleListFiles sorts a map anew for
\* every request.
THEOREM UntiedFilesStay == Spec => []UntiedFileOnOnePage
  BY TypeCorrect, TypedListing, PTL
=============================================================================
