------------------------------ MODULE Listing -------------------------------
(***************************************************************************)
(* What HandleListFiles (p2p/tracker.go) shows of the tracker's files.  It  *)
(* only reads, under t.mu, so it is an operator on the state of Tracker.    *)
(*                                                                          *)
(* The files come out of a Go map in a random order and sort.Slice is not   *)
(* stable: every request may order files with equally many peers anew.      *)
(***************************************************************************)
EXTENDS Tracker, Sequences

CONSTANT PerPage  \* files on a page (50)

ASSUME PerPageAssumption == PerPage \in Nat \ {0}
ASSUME FilesAssumption   == IsFiniteSet(Files)

\* The files that pass the filters: which of the known files do depends on
\* descriptions that the model leaves out.
Filtered(filter) == {f \in filter : fileIndex[f] # NULL}

\* The orders that the sort may leave the files in: most peers first.
Sorted(files) ==
    {o \in [1 .. Cardinality(files) -> files] :
        \A i, j \in DOMAIN o : i < j =>
            /\ o[i] # o[j]
            /\ fileIndex[o[i]].NumPeers >= fileIndex[o[j]].NumPeers}

\* Mutation: pages are counted from 0.
PageFromZero(order, page) ==
    LET start == page * PerPage
    IN  SubSeq(order, start + 1,
               IF start + PerPage > Len(order) THEN Len(order) ELSE start + PerPage)

\* A page number below 1 is taken for 1; a page behind the end is empty.
Page(order, page) ==
    LET start == (IF page < 1 THEN 0 ELSE page - 1) * PerPage
    IN  SubSeq(order, start + 1,
               IF start + PerPage > Len(order) THEN Len(order) ELSE start + PerPage)

\* The sets of files that a request for a page may be answered with.
HandleListFiles(filter, page) ==
    {{Page(o, page)[i] : i \in DOMAIN Page(o, page)} : o \in Sorted(Filtered(filter))}

-----------------------------------------------------------------------------
Untied(files, f) ==
    \A g \in files \ {f} : fileIndex[g].NumPeers # fileIndex[f].NumPeers

\* A client that pages through an unchanged list meets every file that has
\* no equal in popularity on exactly one page, the same in every answer,
\* however the ties of other files fall from request to request.  (Of tied
\* files it may miss one and see another twice.)  It rests on NumPeers being
\* the same for all the requests and on the bounds of the pages.
UntiedFileOnOnePage ==
    \A filter \in SUBSET Files :
        LET files == Filtered(filter)
        IN  \A f \in files : Untied(files, f) =>
                \E n \in 1 .. Cardinality(files) : \A page \in 1 .. Cardinality(files) :
                    \A shown \in HandleListFiles(filter, page) :
                        f \in shown <=> page = n
=============================================================================
