----------------------------- MODULE MCTracker ------------------------------
(***************************************************************************)
(* Instances of Tracker for TLC.                                           *)
(***************************************************************************)
EXTENDS Listing
=============================================================================
