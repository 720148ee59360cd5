----------------------------- MODULE MCDownload -----------------------------
(***************************************************************************)
(* Instances of Download for TLC.                                           *)
(***************************************************************************)
EXTENDS Download, TLC

\* Seeders are interchangeable, and so are the slots of the semaphore.
Symmetry == Permutations(Peers) \cup Permutations(Workers)
=============================================================================
