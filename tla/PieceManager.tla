---------------------------- MODULE PieceManager ----------------------------
(***************************************************************************)
(* The piece table of a download (piece_manager.go).  Every method takes    *)
(* pm.mu, so each is one operator on the two variables.                     *)
(*                                                                          *)
(* Priority only feeds a sort whose comparison is random, so GetNextPieces  *)
(* may return its candidates in any order: it chooses any of them.          *)
(* PieceReceived is never assigned; PieceManager.RemovePeer is never        *)
(* called.                                                                  *)
(***************************************************************************)
EXTENDS Naturals, FiniteSets

CONSTANTS
    NumChunks,  \* pieces of the file, from the tracker's metadata
    Peers       \* addresses of seeders

ASSUME NumChunksAssumption == NumChunks \in Nat
ASSUME PeersAssumption     == IsFiniteSet(Peers)

VARIABLES
    status,     \* piece -> PieceInfo.Status
    holders     \* piece -> PieceInfo.Peers

pieceVars == <<status, holders>>

Pieces == 0 .. NumChunks - 1

PieceStatus == {"Missing", "Requested", "Verified"}

PieceTypeOK ==
    /\ status  \in [Pieces -> PieceStatus]
    /\ holders \in [Pieces -> SUBSET Peers]

NewPieceManager ==
    /\ status  = [i \in Pieces |-> "Missing"]
    /\ holders = [i \in Pieces |-> {}]

\* UpdatePeerPieces for every peer of `connected', each with all the pieces.
UpdatePeerPieces(connected) ==
    holders' = [i \in Pieces |-> holders[i] \cup connected]

Held(s) == {i \in Pieces : status[i] = s /\ holders[i] # {}}

\* Mutation: requested pieces are not handed out again.
OnlyMissing == Held("Missing")

\* Missing pieces first; requested ones only when none is missing.
Candidates == IF Held("Missing") # {} THEN Held("Missing") ELSE Held("Requested")

\* `next' is the list returned for a request of n pieces.
GetNextPieces(n, next) ==
    /\ next \subseteq Candidates
    /\ Cardinality(next) = IF Cardinality(Candidates) > n
                           THEN n ELSE Cardinality(Candidates)
    /\ status' = [i \in Pieces |-> IF i \in next THEN "Requested" ELSE status[i]]

MarkPieceStatus(i, s) == status' = [status EXCEPT ![i] = s]

IsComplete == \A i \in Pieces : status[i] = "Verified"
=============================================================================
