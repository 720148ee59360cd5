--------------------------- MODULE DownloadProofs ---------------------------
(***************************************************************************)
(* Proofs about Download, for any number of pieces, seeders, slots and      *)
(* attempts and any number of faults: its invariants, and that it           *)
(* implements Transfer.                                                     *)
(***************************************************************************)
EXTENDS Download, FiniteSetTheorems, TLAPS

(***************************************************************************)
(* The inductive invariant.  That a success has written every piece rests   *)
(* on Verified pieces being written, and that on a worker being past its    *)
(* write when it marks; the attempt counter stays typed because only a      *)
(* worker with attempts left goes on trying.  That "incomplete" leaves no   *)
(* held piece unwritten rests on what the loop knew when it found nothing   *)
(* to hand out, which no later step of a worker undoes.                     *)
(***************************************************************************)
VerifiedIsWritten ==
    \A i \in Pieces : status[i] = "Verified" => written[i] = "good"

SucceededHasWritten ==
    \A w \in Workers : worker[w] # NULL =>
        (worker[w].at = "succeeded" => written[worker[w].piece] = "good")

Trying == {"refresh", "asking", "waiting", "writing"}

TryingHasAttempts ==
    \A w \in Workers : worker[w] # NULL =>
        (worker[w].at \in Trying => worker[w].attempt < MaxRetries)

VerdictIsLast == result # "running" => pc \in {"returned", "done"}

\* The verdict on the pieces is given when no worker is left.
NoWorkerAfterVerdict ==
    result \in {"ok", "incomplete"} => \A w \in Workers : worker[w] = NULL

BatchIsForDispatch == pc # "dispatch" => batch = {}

HeldIsWritten == \A i \in Pieces : written[i] = "good" \/ holders[i] = {}

\* A loop that found no piece to hand out, or all of them verified, has them.
IdleHasAll == pc \in {"idle", "wait"} => HeldIsWritten

\* The conjuncts about the main loop.
LoopInv ==
    /\ VerdictIsLast
    /\ BatchIsForDispatch
    /\ SuccessMeansWritten
    /\ NoWorkerAfterVerdict
    /\ IdleHasAll
    /\ GivesUpOnlyUnheld

Inv ==
    /\ TypeOK
    /\ VerifiedIsWritten
    /\ SucceededHasWritten
    /\ TryingHasAttempts
    /\ RequestedHasWorker
    /\ LoopInv

-----------------------------------------------------------------------------
(***************************************************************************)
(* Steps of one worker.                                                     *)
(***************************************************************************)

\* Worker w goes to `a' in attempt n with its piece; the others stay.
Moves(w, a, n) ==
    /\ worker' \in [Workers -> {NULL} \cup Worker]
    /\ worker'[w] # NULL
    /\ worker'[w].piece = worker[w].piece
    /\ worker'[w].at = a
    /\ worker'[w].attempt = n
    /\ \A v \in Workers \ {w} : worker'[v] = worker[v]

\* A slot that is in use holds a well-typed worker.
LEMMA BusyType ==
    ASSUME TypeOK, NEW w \in Workers, worker[w] # NULL
    PROVE  /\ worker[w] \in Worker
           /\ worker[w].at \in WorkerPC
           /\ worker[w].piece \in Pieces
           /\ worker[w].attempt \in 0 .. MaxRetries
           /\ worker[w].todo \in SUBSET Peers
           /\ worker[w].peer \in {NULL} \cup Peers
           /\ worker[w].got \in SUBSET Replies
  <1>1. worker[w] \in Worker
    BY DEF TypeOK
  <1>2. QED
    BY <1>1 DEF Worker

\* Replacing the state of a busy worker by a well-typed one moves it.
LEMMA ReplaceMoves ==
    ASSUME TypeOK, NEW w \in Workers, NEW r \in Worker,
           worker' = [worker EXCEPT ![w] = r],
           r.piece = worker[w].piece
    PROVE  Moves(w, r.at, r.attempt)
  BY NullAssumption DEF TypeOK, Moves

\* A worker that leaves a peer goes back to choosing one.
LEMMA NextPeerMoves ==
    ASSUME TypeOK, NEW w \in Workers, NEW p, worker[w] # NULL, NextPeer(w, p)
    PROVE  Moves(w, "asking", worker[w].attempt)
  <1> DEFINE r == [worker[w] EXCEPT !.at = "asking", !.todo = @ \ {p},
                                    !.peer = NULL, !.got = {}]
  <1>1. worker' = [worker EXCEPT ![w] = r]
    BY DEF NextPeer, TypeOK
  <1>2. /\ r \in Worker
        /\ r.piece = worker[w].piece
        /\ r.at = "asking"
        /\ r.attempt = worker[w].attempt
    BY BusyType DEF Worker, WorkerPC
  <1> HIDE DEF r
  <1>3. QED
    BY <1>1, <1>2, ReplaceMoves

\* While a worker is there, no verdict on the pieces has been given, and what
\* the loop knows stays true because nothing unwrites a piece.
LEMMA WorkerLoopInv ==
    ASSUME LoopInv, NEW w \in Workers, worker[w] # NULL,
           UNCHANGED <<holders, mainVars>>,
           \A i \in Pieces : written[i] = "good" => written'[i] = "good"
    PROVE  LoopInv'
  <1>1. result \notin {"ok", "incomplete"}
    BY DEF LoopInv, NoWorkerAfterVerdict
  <1>2. QED
    BY <1>1 DEF LoopInv, VerdictIsLast, BatchIsForDispatch, SuccessMeansWritten,
       NoWorkerAfterVerdict, IdleHasAll, HeldIsWritten, GivesUpOnlyUnheld, mainVars

\* A worker's move keeps the invariant if it does not end the work on its
\* piece, has an attempt for what it goes on to try, and has written its
\* piece if it claims so.
LEMMA MoveInv ==
    ASSUME Inv, NEW w \in Workers, worker[w] # NULL, pc # "done",
           NEW a \in WorkerPC \ {"releasing"}, NEW n \in 0 .. MaxRetries,
           Moves(w, a, n),
           a \in Trying => n < MaxRetries,
           a = "succeeded" => written'[worker[w].piece] = "good",
           written' \in [Pieces -> {"none", "part", "good"}],
           \A i \in Pieces : written[i] = "good" => written'[i] = "good",
           UNCHANGED <<pieceVars, mainVars, active>>,
           peers' \in SUBSET Peers, alive' \in SUBSET Peers,
           inflight' \in [Peers \X Pieces -> 0 .. MaxInFlight],
           calm' \in BOOLEAN
    PROVE  Inv'
  <1> USE DEF Inv
  <1>1. TypeOK'
    BY DEF TypeOK, PieceTypeOK, pieceVars, mainVars, Moves
  <1>2. VerifiedIsWritten'
    BY DEF VerifiedIsWritten, pieceVars
  <1>3. SucceededHasWritten'
    <2> SUFFICES ASSUME NEW v \in Workers, worker'[v] # NULL,
                        worker'[v].at = "succeeded"
                 PROVE  written'[worker'[v].piece] = "good"
      BY DEF SucceededHasWritten
    <2>1. CASE v = w
      BY <2>1 DEF Moves
    <2>2. CASE v # w
      <3>1. worker'[v] = worker[v] /\ worker[v].piece \in Pieces
        BY <2>2, BusyType DEF Moves
      <3>2. QED
        BY <3>1 DEF SucceededHasWritten
    <2>3. QED
      BY <2>1, <2>2
  <1>4. TryingHasAttempts'
    BY DEF TryingHasAttempts, Moves
  <1>5. pc' = pc /\ status' = status /\ batch' = batch
    BY DEF mainVars, pieceVars
  <1>6. LoopInv'
    <2>1. UNCHANGED <<holders, mainVars>>
      BY DEF pieceVars
    <2>2. QED
      BY <2>1, WorkerLoopInv
  <1>7. RequestedHasWorker'
    BY <1>5 DEF RequestedHasWorker, Moves
  <1>8. QED
    BY <1>1, <1>2, <1>3, <1>4, <1>6, <1>7

\* A worker's step that touches neither the file nor the network.
LEMMA QuietMoveInv ==
    ASSUME Inv, NEW w \in Workers, worker[w] # NULL, pc # "done",
           NEW a \in WorkerPC \ {"releasing", "succeeded"},
           NEW n \in 0 .. MaxRetries,
           Moves(w, a, n), a \in Trying => n < MaxRetries,
           UNCHANGED <<pieceVars, mainVars, written, active>>,
           peers' \in SUBSET Peers, alive' \in SUBSET Peers,
           inflight' \in [Peers \X Pieces -> 0 .. MaxInFlight],
           calm' \in BOOLEAN
    PROVE  Inv'
  <1>1. written' \in [Pieces -> {"none", "part", "good"}]
    BY DEF Inv, TypeOK
  <1>2. QED
    BY <1>1, MoveInv
\* The network variables are typed again after any step that only shrinks or
\* keeps them.
LEMMA NetType ==
    ASSUME TypeOK
    PROVE  /\ peers \in SUBSET Peers
           /\ alive \in SUBSET Peers
           /\ inflight \in [Peers \X Pieces -> 0 .. MaxInFlight]
           /\ calm \in BOOLEAN
  BY DEF TypeOK

\* BeginAttempt: out of attempts it fails, otherwise it tries.
LEMMA BeginAttemptInv ==
    ASSUME Inv, NEW w \in Workers, BeginAttempt(w)
    PROVE  Inv'
  <1> DEFINE last == worker[w].attempt = MaxRetries
             a == IF last THEN "failed" ELSE IF peers = {} THEN "refresh" ELSE "asking"
             r == [worker[w] EXCEPT !.at = a, !.todo = IF last THEN {} ELSE peers]
  <1>1. worker[w] # NULL /\ pc # "done" /\ TypeOK
    BY DEF BeginAttempt, At, Inv
  <1>2. worker' = [worker EXCEPT ![w] = r]
    BY <1>1 DEF BeginAttempt, TypeOK
  <1>3. a \in WorkerPC \ {"releasing", "succeeded"}
    BY DEF WorkerPC
  <1>4. a \in Trying => worker[w].attempt < MaxRetries
    BY <1>1, BusyType, RetriesAssumption DEF Trying
  <1> HIDE DEF a
  <1>5. /\ r \in Worker /\ r.piece = worker[w].piece
        /\ r.at = a /\ r.attempt = worker[w].attempt
    BY <1>1, <1>3, BusyType, NetType DEF Worker
  <1> HIDE DEF r
  <1>6. Moves(w, a, worker[w].attempt)
    BY <1>1, <1>2, <1>5, ReplaceMoves
  <1>7. UNCHANGED <<pieceVars, mainVars, written, active, netVars>>
    BY DEF BeginAttempt
  <1>8. QED
    BY <1>1, <1>3, <1>4, <1>6, <1>7, BusyType, NetType, QuietMoveInv DEF netVars

\* An attempt that found no peer, or none that answered, is counted.
LEMMA CountAttemptInv ==
    ASSUME Inv, NEW w \in Workers, worker[w] # NULL, pc # "done",
           worker[w].at \in Trying,
           worker' = [worker EXCEPT ![w].at = "attempt", ![w].attempt = @ + 1],
           UNCHANGED <<pieceVars, mainVars, written, active, inflight, calm>>,
           peers' \in SUBSET Peers, alive' \in SUBSET Peers
    PROVE  Inv'
  <1> DEFINE n == worker[w].attempt + 1
             r == [worker[w] EXCEPT !.at = "attempt", !.attempt = n]
  <1>1. TypeOK
    BY DEF Inv
  <1>2. n \in 0 .. MaxRetries
    BY <1>1, BusyType, RetriesAssumption DEF Inv, TryingHasAttempts
  <1>3. worker' = [worker EXCEPT ![w] = r]
    BY <1>1 DEF TypeOK
  <1> HIDE DEF n
  <1>4. /\ r \in Worker /\ r.piece = worker[w].piece
        /\ r.at = "attempt" /\ r.attempt = n
    BY <1>1, <1>2, BusyType DEF Worker, WorkerPC
  <1> HIDE DEF r
  <1>5. Moves(w, "attempt", n)
    BY <1>1, <1>3, <1>4, ReplaceMoves
  <1>6. "attempt" \in WorkerPC \ {"releasing", "succeeded"} /\ "attempt" \notin Trying
    BY DEF WorkerPC, Trying
  <1>7. QED
    BY <1>1, <1>2, <1>5, <1>6, NetType, QuietMoveInv

\* refreshPeers: a failure costs an attempt, a success gives peers to ask.
LEMMA RefreshPeersInv ==
    ASSUME Inv, NEW w \in Workers, NEW new \in SUBSET Peers, NEW ok \in BOOLEAN,
           refreshPeers(w, new, ok)
    PROVE  Inv'
  <1>1. worker[w] # NULL /\ pc # "done" /\ TypeOK /\ worker[w].at = "refresh"
    BY DEF refreshPeers, At, Inv
  <1>2. peers' \in SUBSET Peers /\ alive' \in SUBSET Peers
    BY <1>1, NetType DEF refreshPeers, connectToAllPeers
  <1>3. UNCHANGED <<pieceVars, mainVars, written, active, inflight, calm>>
    BY DEF refreshPeers
  <1>4. "refresh" \in Trying
    BY DEF Trying
  <1>5. CASE ~ok
    BY <1>1, <1>2, <1>3, <1>4, <1>5, CountAttemptInv DEF refreshPeers
  <1>6. CASE ok
    <2> DEFINE r == [worker[w] EXCEPT !.at = "asking", !.todo = peers']
    <2>1. worker' = [worker EXCEPT ![w] = r]
      BY <1>1, <1>6 DEF refreshPeers, TypeOK
    <2>2. /\ r \in Worker /\ r.piece = worker[w].piece
          /\ r.at = "asking" /\ r.attempt = worker[w].attempt
      BY <1>1, <1>2, BusyType DEF Worker, WorkerPC
    <2> HIDE DEF r
    <2>3. Moves(w, "asking", worker[w].attempt)
      BY <1>1, <2>1, <2>2, ReplaceMoves
    <2>4. /\ "asking" \in WorkerPC \ {"releasing", "succeeded"}
          /\ worker[w].attempt < MaxRetries
      BY <1>1, <1>4 DEF WorkerPC, Inv, TryingHasAttempts
    <2>5. QED
      BY <1>1, <1>2, <1>3, <2>3, <2>4, BusyType, NetType, QuietMoveInv
  <1>7. QED
    BY <1>5, <1>6

\* SendRequest: a request joins those under way, up to the bound.
LEMMA SendRequestInv ==
    ASSUME Inv, NEW w \in Workers, NEW p \in Peers, SendRequest(w, p)
    PROVE  Inv'
  <1> DEFINE r == [worker[w] EXCEPT !.at = "waiting", !.peer = p]
             m == <<p, worker[w].piece>>
  <1>1. worker[w] # NULL /\ pc # "done" /\ TypeOK /\ worker[w].at = "asking"
    BY DEF SendRequest, At, Inv
  <1>2. worker' = [worker EXCEPT ![w] = r]
    BY <1>1 DEF SendRequest, TypeOK
  <1>3. /\ r \in Worker /\ r.piece = worker[w].piece
        /\ r.at = "waiting" /\ r.attempt = worker[w].attempt
    BY <1>1, BusyType DEF Worker, WorkerPC
  <1> HIDE DEF r
  <1>4. Moves(w, "waiting", worker[w].attempt)
    BY <1>1, <1>2, <1>3, ReplaceMoves
  <1>5. inflight' \in [Peers \X Pieces -> 0 .. MaxInFlight]
    <2>1. m \in Peers \X Pieces
      BY <1>1, BusyType
    <2> DEFINE k == IF inflight[m] < MaxInFlight THEN inflight[m] + 1 ELSE inflight[m]
    <2>2. inflight' = [inflight EXCEPT ![m] = k]
      BY DEF SendRequest
    <2> HIDE DEF m
    <2>3. inflight[m] \in 0 .. MaxInFlight
      BY <1>1, <2>1, NetType
    <2>4. k \in 0 .. MaxInFlight
      BY <2>3, BoundsAssumption
    <2> HIDE DEF k
    <2>5. QED
      BY <1>1, <2>2, <2>4, NetType
  <1>6. /\ "waiting" \in WorkerPC \ {"releasing", "succeeded"}
        /\ worker[w].attempt < MaxRetries
    BY <1>1 DEF WorkerPC, Trying, Inv, TryingHasAttempts
  <1>7. UNCHANGED <<pieceVars, mainVars, written, active, peers, alive, calm>>
    BY DEF SendRequest
  <1>8. QED
    BY <1>1, <1>4, <1>5, <1>6, <1>7, BusyType, NetType, QuietMoveInv

\* Leaving a peer, for whichever reason, costs no attempt.
LEMMA NextPeerInv ==
    ASSUME Inv, NEW w \in Workers, worker[w] # NULL, pc # "done",
           worker[w].at \in Trying, NEW p, NextPeer(w, p),
           UNCHANGED <<pieceVars, mainVars, written, active, alive, inflight>>,
           peers' \in SUBSET Peers, calm' \in BOOLEAN
    PROVE  Inv'
  <1>1. TypeOK
    BY DEF Inv
  <1>2. Moves(w, "asking", worker[w].attempt)
    BY <1>1, NextPeerMoves
  <1>3. /\ "asking" \in WorkerPC \ {"releasing", "succeeded"}
        /\ worker[w].attempt < MaxRetries
    BY <1>1 DEF WorkerPC, Inv, TryingHasAttempts
  <1>4. QED
    BY <1>1, <1>2, <1>3, BusyType, NetType, QuietMoveInv

\* ReceiveChunk: the worker begins to write, or finds the file closed.
LEMMA ReceiveChunkInv ==
    ASSUME Inv, NEW w \in Workers, ReceiveChunk(w)
    PROVE  Inv'
  <1>1. /\ worker[w] # NULL /\ pc # "done" /\ TypeOK
        /\ worker[w].at \in Trying
        /\ UNCHANGED <<pieceVars, mainVars, written, active, netVars>>
    BY DEF ReceiveChunk, At, Inv, Trying
  <1>2. CASE output = "open"
    <2> DEFINE r == [worker[w] EXCEPT !.at = "writing", !.got = {}]
    <2>1. worker' = [worker EXCEPT ![w] = r]
      BY <1>1, <1>2 DEF ReceiveChunk, TypeOK
    <2>2. /\ r \in Worker /\ r.piece = worker[w].piece
          /\ r.at = "writing" /\ r.attempt = worker[w].attempt
      BY <1>1, BusyType DEF Worker, WorkerPC
    <2> HIDE DEF r
    <2>3. Moves(w, "writing", worker[w].attempt)
      BY <1>1, <2>1, <2>2, ReplaceMoves
    <2>4. /\ "writing" \in WorkerPC \ {"releasing", "succeeded"}
          /\ worker[w].attempt < MaxRetries
      BY <1>1 DEF WorkerPC, Inv, TryingHasAttempts
    <2>5. QED
      BY <1>1, <2>3, <2>4, BusyType, NetType, QuietMoveInv DEF netVars
  <1>3. CASE output # "open"
    <2>1. NextPeer(w, worker[w].peer)
      BY <1>3 DEF ReceiveChunk
    <2>2. QED
      BY <1>1, <2>1, NetType, NextPeerInv DEF netVars
  <1>4. QED
    BY <1>2, <1>3

\* WriteSome: some bytes of a piece that had none do not undo a written one.
LEMMA WriteSomeInv ==
    ASSUME Inv, NEW w \in Workers, WriteSome(w)
    PROVE  Inv'
  <1> DEFINE i == worker[w].piece
  <1>1. /\ worker[w] # NULL /\ pc # "done" /\ TypeOK /\ worker[w].at = "writing"
        /\ written[i] = "none"
        /\ written' = [written EXCEPT ![i] = "part"]
        /\ UNCHANGED <<pieceVars, mainVars, active, worker, netVars>>
    BY DEF WriteSome, At, Inv
  <1>2. i \in Pieces /\ worker[w].attempt < MaxRetries
    BY <1>1, BusyType DEF Inv, TryingHasAttempts, Trying
  <1>3. Moves(w, "writing", worker[w].attempt)
    BY <1>1 DEF Moves, TypeOK
  <1> HIDE DEF i
  <1>4. /\ written' \in [Pieces -> {"none", "part", "good"}]
        /\ \A j \in Pieces : written[j] = "good" => written'[j] = "good"
    BY <1>1, <1>2 DEF TypeOK
  <1>5. "writing" \in WorkerPC \ {"releasing"} /\ "writing" # "succeeded"
    BY DEF WorkerPC
  <1>6. QED
    BY <1>1, <1>2, <1>3, <1>4, <1>5, BusyType, NetType, MoveInv DEF netVars

\* WriteChunk: the piece is on disk before the worker claims success.
LEMMA WriteChunkInv ==
    ASSUME Inv, NEW w \in Workers, WriteChunk(w)
    PROVE  Inv'
  <1> DEFINE r == [worker[w] EXCEPT !.at = "succeeded", !.todo = {}, !.peer = NULL]
             i == worker[w].piece
  <1>1. worker[w] # NULL /\ pc # "done" /\ TypeOK
    BY DEF WriteChunk, At, Inv
  <1>2. worker' = [worker EXCEPT ![w] = r]
    BY <1>1 DEF WriteChunk, TypeOK
  <1>3. /\ r \in Worker /\ r.piece = i
        /\ r.at = "succeeded" /\ r.attempt = worker[w].attempt
    BY <1>1, BusyType DEF Worker, WorkerPC
  <1> HIDE DEF r
  <1>4. Moves(w, "succeeded", worker[w].attempt)
    BY <1>1, <1>2, <1>3, ReplaceMoves
  <1>5. i \in Pieces
    BY <1>1, BusyType
  <1>6. written' = [written EXCEPT ![i] = "good"]
    BY DEF WriteChunk
  <1>7. /\ written' \in [Pieces -> {"none", "part", "good"}]
        /\ written'[i] = "good"
        /\ \A j \in Pieces : written[j] = "good" => written'[j] = "good"
    BY <1>1, <1>5, <1>6 DEF TypeOK
  <1>8. UNCHANGED <<pieceVars, mainVars, active, netVars>>
    BY DEF WriteChunk
  <1>9. "succeeded" \in WorkerPC \ {"releasing"} /\ "succeeded" \notin Trying
    BY DEF WorkerPC, Trying
  <1> HIDE DEF i
  <1>10. written'[worker[w].piece] = "good"
    BY <1>7 DEF i
  <1>11. QED
    BY <1>1, <1>4, <1>7, <1>8, <1>9, <1>10, BusyType, NetType, MoveInv DEF netVars

\* Marking the piece ends the work on it: it is Requested no more.
LEMMA MarkInv ==
    ASSUME Inv, NEW w \in Workers, worker[w] # NULL, pc # "done",
           NEW s \in {"Verified", "Missing"},
           MarkPieceStatus(worker[w].piece, s),
           s = "Verified" => worker[w].at = "succeeded",
           worker' = [worker EXCEPT ![w].at = "releasing"],
           UNCHANGED <<holders, mainVars, written, active, netVars>>
    PROVE  Inv'
  <1> USE DEF Inv
  <1> DEFINE r == [worker[w] EXCEPT !.at = "releasing"]
             i == worker[w].piece
  <1>1. worker' = [worker EXCEPT ![w] = r]
    BY DEF TypeOK
  <1>2. /\ r \in Worker /\ r.piece = i
        /\ r.at = "releasing" /\ r.attempt = worker[w].attempt
    BY BusyType DEF Worker, WorkerPC
  <1> HIDE DEF r
  <1>3. Moves(w, "releasing", worker[w].attempt)
    BY <1>1, <1>2, ReplaceMoves
  <1>4. i \in Pieces /\ status' = [status EXCEPT ![i] = s]
    BY BusyType DEF MarkPieceStatus
  <1>5. TypeOK'
    BY <1>3, <1>4 DEF TypeOK, PieceTypeOK, PieceStatus, Moves, mainVars, netVars
  <1>6. s = "Verified" => written[i] = "good"
    BY DEF SucceededHasWritten
  <1>7. VerifiedIsWritten'
    BY <1>4, <1>6 DEF VerifiedIsWritten, TypeOK, PieceTypeOK
  <1>8. SucceededHasWritten' /\ TryingHasAttempts'
    BY <1>3 DEF SucceededHasWritten, TryingHasAttempts, Moves, Trying
  <1>9. batch' = batch
    BY DEF mainVars
  <1>10. LoopInv'
    BY WorkerLoopInv DEF TypeOK
  <1>11. RequestedHasWorker'
    <2> SUFFICES ASSUME NEW j \in Pieces, status'[j] = "Requested", j \notin batch
                 PROVE  \E v \in Workers : /\ worker'[v] # NULL
                                           /\ worker'[v].piece = j
                                           /\ worker'[v].at # "releasing"
      BY <1>9 DEF RequestedHasWorker
    <2>1. j # i /\ status[j] = "Requested"
      BY <1>4 DEF TypeOK, PieceTypeOK
    <2>2. PICK v \in Workers : /\ worker[v] # NULL
                               /\ worker[v].piece = j
                               /\ worker[v].at # "releasing"
      BY <2>1 DEF RequestedHasWorker
    <2>3. v # w
      BY <2>1, <2>2
    <2>4. QED
      BY <1>3, <2>2, <2>3 DEF Moves
  <1>12. QED
    BY <1>5, <1>7, <1>8, <1>10, <1>11

\* Release empties a slot that no Requested piece relies on.
LEMMA ReleaseInv ==
    ASSUME Inv, NEW w \in Workers, Release(w)
    PROVE  Inv'
  <1> USE DEF Inv
  <1>1. /\ worker[w] # NULL /\ worker[w].at = "releasing" /\ pc # "done"
        /\ worker' = [worker EXCEPT ![w] = NULL]
        /\ UNCHANGED <<pieceVars, mainVars, written, netVars>>
        /\ active' = active \ {worker[w].piece}
    BY DEF Release, At
  <1>2. TypeOK'
    BY <1>1 DEF TypeOK, PieceTypeOK, pieceVars, mainVars, netVars
  <1>3. VerifiedIsWritten' /\ SucceededHasWritten' /\ TryingHasAttempts'
    BY <1>1 DEF VerifiedIsWritten, SucceededHasWritten, TryingHasAttempts,
                TypeOK, pieceVars
  <1>5. LoopInv'
    BY <1>1, WorkerLoopInv DEF pieceVars
  <1>6. RequestedHasWorker'
    BY <1>1 DEF RequestedHasWorker, TypeOK, pieceVars, mainVars
  <1>7. QED
    BY <1>2, <1>3, <1>5, <1>6

\* An answer only fills channels of requests that are waiting.
LEMMA AnswerInv ==
    ASSUME Inv, NEW p \in Peers, NEW i \in Pieces, NEW d \in Replies,
           handleRPCMessage(p, i, d)
    PROVE  Inv'
  <1> USE DEF Inv
  <1> DEFINE m == <<p, i>>
  <1>1. /\ pc # "done"
        /\ inflight[m] > 0
        /\ inflight' = [inflight EXCEPT ![m] = inflight[m] - 1]
        /\ UNCHANGED <<pieceVars, mainVars, written, active, peers, alive, calm>>
    BY DEF handleRPCMessage
  <1>2. m \in Peers \X Pieces
    OBVIOUS
  <1> HIDE DEF m
  <1>3. /\ inflight' \in [Peers \X Pieces -> 0 .. MaxInFlight]
        /\ calm' \in BOOLEAN
    <2>1. inflight[m] - 1 \in 0 .. MaxInFlight
      BY <1>1, <1>2, NetType, BoundsAssumption
    <2>2. inflight' \in [Peers \X Pieces -> 0 .. MaxInFlight]
      BY <1>1, <2>1, NetType
    <2>3. QED
      BY <1>1, <2>2, NetType
  <1>4. ASSUME NEW v \in Workers
        PROVE  \/ worker'[v] = worker[v]
               \/ /\ worker[v] # NULL
                  /\ worker'[v] = [worker[v] EXCEPT !.got = @ \cup {d}]
    BY DEF handleRPCMessage
  <1>5. ASSUME NEW v \in Workers
        PROVE  /\ worker'[v] \in {NULL} \cup Worker
               /\ (worker'[v] = NULL) <=> (worker[v] = NULL)
               /\ worker[v] # NULL => /\ worker'[v].at = worker[v].at
                                      /\ worker'[v].piece = worker[v].piece
                                      /\ worker'[v].attempt = worker[v].attempt
    <2>1. CASE worker'[v] = worker[v]
      BY <2>1 DEF TypeOK
    <2>2. CASE /\ worker[v] # NULL
               /\ worker'[v] = [worker[v] EXCEPT !.got = @ \cup {d}]
      <3>1. /\ worker'[v] \in Worker
            /\ worker'[v].at = worker[v].at
            /\ worker'[v].piece = worker[v].piece
            /\ worker'[v].attempt = worker[v].attempt
        BY <2>2, BusyType DEF Worker
      <3>2. QED
        BY <2>2, <3>1, NullAssumption
    <2>3. QED
      BY <1>4, <2>1, <2>2
  <1>6. worker' \in [Workers -> {NULL} \cup Worker]
    BY <1>5 DEF handleRPCMessage
  <1>7. TypeOK'
    BY <1>1, <1>3, <1>6 DEF TypeOK, PieceTypeOK, pieceVars, mainVars
  <1>8. VerifiedIsWritten' /\ SucceededHasWritten' /\ TryingHasAttempts'
    BY <1>1, <1>5 DEF VerifiedIsWritten, SucceededHasWritten, TryingHasAttempts,
                      pieceVars
  <1>10. LoopInv'
    BY <1>1, <1>5 DEF LoopInv, VerdictIsLast, BatchIsForDispatch, SuccessMeansWritten,
       NoWorkerAfterVerdict, IdleHasAll, HeldIsWritten, GivesUpOnlyUnheld, mainVars, pieceVars
  <1>11. RequestedHasWorker'
    BY <1>1, <1>5 DEF RequestedHasWorker, pieceVars, mainVars
  <1>12. QED
    BY <1>7, <1>8, <1>10, <1>11

-----------------------------------------------------------------------------
(***************************************************************************)
(* Steps that leave the workers alone.                                      *)
(***************************************************************************)

\* A change of the network alone keeps the invariant.
LEMMA NetInv ==
    ASSUME Inv, UNCHANGED <<pieceVars, mainVars, written, active, worker>>,
           peers' \in SUBSET Peers, alive' \in SUBSET Peers,
           inflight' \in [Peers \X Pieces -> 0 .. MaxInFlight],
           calm' \in BOOLEAN
    PROVE  Inv'
  BY DEF Inv, TypeOK, PieceTypeOK, pieceVars, mainVars, VerifiedIsWritten,
         SucceededHasWritten, TryingHasAttempts, RequestedHasWorker, LoopInv,
         VerdictIsLast, BatchIsForDispatch, SuccessMeansWritten, NoWorkerAfterVerdict,
         IdleHasAll, HeldIsWritten, GivesUpOnlyUnheld

\* The main loop moving on, without a verdict, keeps the invariant.
LEMMA MainInv ==
    ASSUME Inv, pc \notin {"dispatch", "returned", "done"}, result' = result,
           UNCHANGED <<status, batch, written, active, worker, inflight, calm>>,
           pc' \in {"loop", "select", "connect", "dispatch", "idle", "wait"},
           pc' \in {"idle", "wait"} => HeldIsWritten /\ UNCHANGED holders,
           holders' \in [Pieces -> SUBSET Peers],
           output' \in {"none", "open", "kept", "removed"},
           peers' \in SUBSET Peers, alive' \in SUBSET Peers
    PROVE  Inv'
  <1>1. result = "running" /\ result' = "running"
    BY DEF Inv, LoopInv, VerdictIsLast
  <1>2. LoopInv'
    BY <1>1 DEF Inv, LoopInv, VerdictIsLast, BatchIsForDispatch, SuccessMeansWritten,
       NoWorkerAfterVerdict, IdleHasAll, HeldIsWritten, GivesUpOnlyUnheld
  <1>3. QED
    BY <1>2 DEF Inv, TypeOK, PieceTypeOK, VerifiedIsWritten, SucceededHasWritten,
         TryingHasAttempts, RequestedHasWorker

\* A return keeps the invariant if the verdict is justified.
LEMMA ReturnInv ==
    ASSUME Inv, NEW r \in {"unavailable", "nopeers", "incomplete", "ok"},
           pc # "dispatch", result' = r, pc' \in {"returned", "done"},
           output' \in {"none", "open", "kept", "removed"},
           r = "ok" => \A i \in Pieces : status[i] = "Verified",
           r \in {"ok", "incomplete"} => \A w \in Workers : worker[w] = NULL,
           r = "incomplete" => HeldIsWritten,
           UNCHANGED <<pieceVars, batch, written, active, worker, inflight, calm>>,
           peers' \in SUBSET Peers, alive' \in SUBSET Peers
    PROVE  Inv'
  <1>1. LoopInv'
    BY DEF Inv, LoopInv, VerdictIsLast, BatchIsForDispatch, SuccessMeansWritten,
       NoWorkerAfterVerdict, IdleHasAll, HeldIsWritten, GivesUpOnlyUnheld,
       VerifiedIsWritten, pieceVars
  <1>2. QED
    BY <1>1 DEF Inv, TypeOK, PieceTypeOK, pieceVars, VerifiedIsWritten,
         SucceededHasWritten, TryingHasAttempts, RequestedHasWorker

\* The loop always asks for some pieces.
LEMMA SomeRequested ==
    ASSUME TypeOK
    PROVE  RequestSize \in Nat /\ RequestSize # 0
  <1>1. IsFiniteSet(peers) /\ Cardinality(peers) \in Nat
    BY PeersAssumption, FS_Subset, FS_CardinalityType DEF TypeOK
  <1>2. Cardinality(Workers) \in Nat /\ Cardinality(Workers) # 0
    BY WorkersAssumption, FS_CardinalityType, FS_EmptySet
  <1> DEFINE k == Cardinality(peers)
             n == Cardinality(Workers)
             f == IF k > 1 THEN k * 2 ELSE 2
  <1>3. f \in Nat \ {0}
    BY <1>1
  <1>4. RequestSize = n * f
    BY DEF RequestSize
  <1> HIDE DEF f, n, k
  <1>5. \A a, b \in Nat \ {0} : a * b \in Nat \ {0}
    OBVIOUS
  <1>6. QED
    BY <1>2, <1>3, <1>4, <1>5 DEF n

\* If GetNextPieces is asked for some pieces and returns none, then every
\* piece that somebody holds is Verified, and so written.
LEMMA NoneLeft ==
    ASSUME Inv, NEW next \in SUBSET Pieces, next = {}, peers # {},
           GetNextPieces(RequestSize, next)
    PROVE  HeldIsWritten
  <1>1. IsFiniteSet(Pieces) /\ IsFiniteSet(Candidates)
    <2>1. IsFiniteSet(Pieces)
      BY FS_Interval, NumChunksAssumption DEF Pieces
    <2>2. Candidates \subseteq Pieces
      BY DEF Candidates, Held
    <2>3. QED
      BY <2>1, <2>2, FS_Subset
  <1>2. Cardinality(Candidates) = 0
    <2>1. Cardinality({}) = 0
      BY FS_EmptySet
    <2>2. Cardinality(Candidates) \in Nat
      BY <1>1, FS_CardinalityType
    <2>3. RequestSize \in Nat /\ RequestSize # 0
      BY SomeRequested DEF Inv
    <2>4. QED
      BY <2>1, <2>2, <2>3 DEF GetNextPieces
  <1>3. Candidates = {}
    BY <1>1, <1>2, FS_EmptySet
  <1>4. ASSUME NEW i \in Pieces, holders[i] # {}
        PROVE  written[i] = "good"
    <2>1. status[i] \notin {"Missing", "Requested"}
      BY <1>3, <1>4 DEF Candidates, Held
    <2>2. status[i] = "Verified"
      BY <2>1 DEF Inv, TypeOK, PieceTypeOK, PieceStatus
    <2>3. QED
      BY <2>2 DEF Inv, VerifiedIsWritten
  <1>5. QED
    BY <1>4 DEF HeldIsWritten

\* SelectPieces marks Requested exactly what it puts in the batch.
LEMMA SelectInv ==
    ASSUME Inv, NEW next \in SUBSET Pieces, SelectPieces(next)
    PROVE  Inv'
  <1> USE DEF Inv
  <1>1. /\ pc = "select" /\ batch' = next
        /\ pc' = IF next = {} THEN "idle" ELSE "dispatch"
        /\ UNCHANGED <<holders, result, output, written, active, worker, netVars>>
        /\ status' = [i \in Pieces |-> IF i \in next THEN "Requested" ELSE status[i]]
    BY DEF SelectPieces, GetNextPieces
  <1>2. TypeOK'
    BY <1>1 DEF TypeOK, PieceTypeOK, PieceStatus, netVars
  <1>3. VerifiedIsWritten' /\ SucceededHasWritten' /\ TryingHasAttempts'
    BY <1>1 DEF VerifiedIsWritten, SucceededHasWritten, TryingHasAttempts
  <1>4. result' = "running"
    BY <1>1 DEF LoopInv, VerdictIsLast
  <1>5. LoopInv'
    <2>1. next = {} => HeldIsWritten
      BY NoneLeft DEF SelectPieces
    <2>2. QED
      BY <1>1, <1>4, <2>1 DEF LoopInv, VerdictIsLast, BatchIsForDispatch,
         SuccessMeansWritten, NoWorkerAfterVerdict, IdleHasAll, HeldIsWritten,
         GivesUpOnlyUnheld
  <1>6. batch = {}
    BY <1>1 DEF LoopInv, BatchIsForDispatch
  <1>7. RequestedHasWorker'
    BY <1>1, <1>6 DEF RequestedHasWorker
  <1>8. QED
    BY <1>2, <1>3, <1>5, <1>7
\* Dispatch hands the piece from the batch to a worker in the same step.
LEMMA DispatchInv ==
    ASSUME Inv, NEW w \in Workers, NEW i \in Pieces, Dispatch(w, i)
    PROVE  Inv'
  <1> USE DEF Inv
  <1> DEFINE r == [at |-> "attempt", piece |-> i, attempt |-> 0, todo |-> {},
                   peer |-> NULL, got |-> {}]
  <1>1. /\ pc = "dispatch" /\ worker[w] = NULL
        /\ batch' = batch \ {i}
        /\ pc' = IF batch' = {} THEN "loop" ELSE "dispatch"
        /\ active' = active \cup {i}
        /\ worker' = [worker EXCEPT ![w] = r]
        /\ UNCHANGED <<pieceVars, result, output, written, netVars>>
    BY DEF Dispatch
  <1>2. /\ r \in Worker /\ r.at = "attempt" /\ r.piece = i
    BY RetriesAssumption DEF Worker, WorkerPC
  <1> HIDE DEF r
  <1>3. r # NULL
    BY <1>2, NullAssumption
  <1>4. TypeOK'
    BY <1>1, <1>2 DEF TypeOK, PieceTypeOK, pieceVars, netVars
  <1>5. VerifiedIsWritten' /\ SucceededHasWritten' /\ TryingHasAttempts'
    BY <1>1, <1>2 DEF VerifiedIsWritten, SucceededHasWritten, TryingHasAttempts,
                      Trying, TypeOK, pieceVars
  <1>6. result' = "running"
    BY <1>1 DEF LoopInv, VerdictIsLast
  <1>7. LoopInv'
    BY <1>1, <1>6 DEF LoopInv, VerdictIsLast, BatchIsForDispatch, SuccessMeansWritten,
       NoWorkerAfterVerdict, IdleHasAll, GivesUpOnlyUnheld
  <1>8. RequestedHasWorker'
    <2> SUFFICES ASSUME NEW j \in Pieces, status[j] = "Requested", j \notin batch'
                 PROVE  \E v \in Workers : /\ worker'[v] # NULL
                                           /\ worker'[v].piece = j
                                           /\ worker'[v].at # "releasing"
      BY <1>1 DEF RequestedHasWorker, pieceVars
    <2>1. CASE j = i
      BY <1>1, <1>2, <1>3, <2>1 DEF TypeOK
    <2>2. CASE j # i
      <3>1. PICK v \in Workers : /\ worker[v] # NULL
                                 /\ worker[v].piece = j
                                 /\ worker[v].at # "releasing"
        BY <1>1, <2>2 DEF RequestedHasWorker
      <3>2. v # w
        BY <1>1, <3>1
      <3>3. QED
        BY <1>1, <3>1, <3>2 DEF TypeOK
    <2>3. QED
      BY <2>1, <2>2
  <1>9. QED
    BY <1>4, <1>5, <1>7, <1>8

-----------------------------------------------------------------------------
\* Initially no piece is written, requested or verified.
LEMMA InitInv == Init => Inv
  BY BoundsAssumption
     DEF Init, NewPieceManager, Inv, TypeOK, PieceTypeOK, PieceStatus,
         VerifiedIsWritten, SucceededHasWritten, TryingHasAttempts, LoopInv,
         VerdictIsLast, BatchIsForDispatch, RequestedHasWorker, SuccessMeansWritten,
         NoWorkerAfterVerdict, IdleHasAll, GivesUpOnlyUnheld

\* The steps of the main loop that wait for the tracker keep the invariant.
LEMMA AskTrackerInv == Inv /\ AskTracker => Inv'
  <1> SUFFICES ASSUME Inv, AskTracker PROVE Inv'
    OBVIOUS
  <1>0. /\ holders \in [Pieces -> SUBSET Peers]
        /\ output \in {"none", "open", "kept", "removed"}
        /\ TypeOK
    BY DEF Inv, TypeOK, PieceTypeOK
  <1>1. CASE Unavailable
    BY <1>0, <1>1, NetType, ReturnInv DEF Unavailable, netVars
  <1>2. ASSUME NEW new \in SUBSET Peers, NEW ok \in BOOLEAN, StartDownload(new, ok)
        PROVE  Inv'
    <2>1. peers' \in SUBSET Peers /\ alive' \in SUBSET Peers
      BY <1>0, <1>2, NetType DEF StartDownload, connectToAllPeers
    <2>2. holders' \in [Pieces -> SUBSET Peers]
      BY <1>0, <1>2, <2>1 DEF StartDownload, UpdatePeerPieces
    <2>3. QED
      BY <1>2, <2>1, <2>2, MainInv DEF StartDownload
  <1>3. ASSUME NEW new \in SUBSET Peers, NEW ok \in BOOLEAN, Reconnect(new, ok)
        PROVE  Inv'
    <2>1. peers' \in SUBSET Peers /\ alive' \in SUBSET Peers
      BY <1>0, <1>3, NetType DEF Reconnect, connectToAllPeers
    <2>2. CASE ~ok
      BY <1>3, <2>1, <2>2, ReturnInv DEF Reconnect, Return
    <2>3. CASE ok
      BY <1>0, <1>3, <2>1, <2>3, MainInv DEF Reconnect, pieceVars
    <2>4. QED
      BY <2>2, <2>3
  <1>4. QED
    BY <1>1, <1>2, <1>3 DEF AskTracker

\* The main loop keeps the invariant.
LEMMA MainStepInv == Inv /\ MainStep => Inv'
  <1> SUFFICES ASSUME Inv, MainStep PROVE Inv'
    OBVIOUS
  <1>0. /\ holders \in [Pieces -> SUBSET Peers]
        /\ output \in {"none", "open", "kept", "removed"}
        /\ TypeOK
    BY DEF Inv, TypeOK, PieceTypeOK
  <1>1. IsComplete => HeldIsWritten
    BY DEF IsComplete, HeldIsWritten, Inv, VerifiedIsWritten
  <1>2. pc \in {"idle", "wait"} => HeldIsWritten
    BY DEF Inv, LoopInv, IdleHasAll
  <1>3. CASE CheckComplete
    BY <1>0, <1>1, <1>3, NetType, MainInv DEF CheckComplete, pieceVars, netVars
  <1>4. CASE NoPeerLeft
    BY <1>0, <1>4, NetType, MainInv DEF NoPeerLeft, pieceVars, netVars
  <1>5. ASSUME NEW next \in SUBSET Pieces, SelectPieces(next)
        PROVE  Inv'
    BY <1>5, SelectInv
  <1>6. CASE CheckActive
    BY <1>0, <1>2, <1>6, NetType, MainInv DEF CheckActive, pieceVars, netVars
  <1>7. ASSUME NEW w \in Workers, NEW i \in Pieces, Dispatch(w, i)
        PROVE  Inv'
    BY <1>7, DispatchInv
  <1>8. CASE Finish
    <2> DEFINE r == IF IsComplete THEN "ok" ELSE "incomplete"
    <2>1. /\ r \in {"unavailable", "nopeers", "incomplete", "ok"}
          /\ r = "ok" => \A i \in Pieces : status[i] = "Verified"
      BY DEF IsComplete
    <2>2. /\ pc = "wait" /\ \A w \in Workers : worker[w] = NULL
          /\ Return(r)
          /\ UNCHANGED <<pieceVars, batch, written, active, worker, netVars>>
      BY <1>8 DEF Finish
    <2> HIDE DEF r
    <2>3. QED
      BY <1>0, <1>2, <2>1, <2>2, NetType, ReturnInv DEF Return, netVars
  <1>9. CASE Exit
    <2>1. /\ pc = "returned" /\ pc' = "done"
          /\ UNCHANGED <<pieceVars, batch, result, output, written, active, worker, netVars>>
      BY <1>9 DEF Exit
    <2>2. LoopInv'
      BY <2>1 DEF Inv, LoopInv, VerdictIsLast, BatchIsForDispatch, SuccessMeansWritten,
         NoWorkerAfterVerdict, IdleHasAll, GivesUpOnlyUnheld, pieceVars
    <2>3. QED
      BY <2>1, <2>2 DEF Inv, TypeOK, PieceTypeOK, pieceVars, netVars, VerifiedIsWritten,
         SucceededHasWritten, TryingHasAttempts, RequestedHasWorker
  <1>10. QED
    BY <1>3, <1>4, <1>5, <1>6, <1>7, <1>8, <1>9 DEF MainStep

\* A worker's steps keep the invariant.
LEMMA WorkerStepInv ==
    ASSUME Inv, NEW w \in Workers, WorkerStep(w) \/ Refresh(w)
    PROVE  Inv'
  <1>0. TypeOK /\ {"asking", "waiting", "writing"} \subseteq Trying
    BY DEF Inv, Trying
  <1>1. CASE BeginAttempt(w)
    BY <1>1, BeginAttemptInv
  <1>2. CASE Refresh(w)
    BY <1>2, RefreshPeersInv DEF Refresh
  <1>3. ASSUME NEW p \in Peers, SendRequest(w, p)
        PROVE  Inv'
    BY <1>3, SendRequestInv
  <1>4. ASSUME NEW p \in Peers, SendFails(w, p)
        PROVE  Inv'
    BY <1>0, <1>4, NetType, NextPeerInv DEF SendFails, At, netVars
  <1>5. CASE AttemptFails(w)
    BY <1>0, <1>5, NetType, CountAttemptInv DEF AttemptFails, At, netVars
  <1>6. CASE ReceiveChunk(w)
    BY <1>6, ReceiveChunkInv
  <1>7. CASE WriteSome(w)
    BY <1>7, WriteSomeInv
  <1>8. CASE WriteChunk(w)
    BY <1>8, WriteChunkInv
  <1>9. CASE WriteFails(w)
    BY <1>0, <1>9, NetType, NextPeerInv DEF WriteFails, At, netVars
  <1>10. CASE ReceiveError(w)
    <2>1. peers' \in SUBSET Peers
      BY <1>0, <1>10, NetType DEF ReceiveError
    <2>2. QED
      BY <1>0, <1>10, <2>1, NetType, NextPeerInv DEF ReceiveError, At
  <1>11. CASE Timeout(w)
    BY <1>0, <1>11, NetType, NextPeerInv DEF Timeout, At, netVars
  <1>12. CASE MarkVerified(w)
    BY <1>12, MarkInv DEF MarkVerified, At
  <1>13. CASE MarkMissing(w)
    BY <1>13, MarkInv DEF MarkMissing, At
  <1>14. CASE Release(w)
    BY <1>14, ReleaseInv
  <1>15. QED
    BY <1>1, <1>2, <1>3, <1>4, <1>5, <1>6, <1>7, <1>8, <1>9, <1>10, <1>11, <1>12,
       <1>13, <1>14 DEF WorkerStep

\* The environment keeps the invariant.
LEMMA EnvStepInv == Inv /\ EnvStep => Inv'
  <1> SUFFICES ASSUME Inv, EnvStep PROVE Inv'
    OBVIOUS
  <1>0. TypeOK
    BY DEF Inv
  <1>1. ASSUME NEW new \in SUBSET Peers, RefreshTick(new)
        PROVE  Inv'
    <2>1. peers' \in SUBSET Peers /\ alive' \in SUBSET Peers
      BY <1>0, <1>1, NetType DEF RefreshTick, connectToAllPeers
    <2>2. QED
      BY <1>0, <1>1, <2>1, NetType, NetInv DEF RefreshTick
  <1>2. ASSUME NEW m \in Peers \X Pieces, LoseAnswer(m)
        PROVE  Inv'
    <2>1. inflight[m] - 1 \in 0 .. MaxInFlight
      BY <1>0, <1>2, NetType, BoundsAssumption DEF LoseAnswer
    <2>2. inflight' \in [Peers \X Pieces -> 0 .. MaxInFlight]
      BY <1>0, <1>2, <2>1, NetType DEF LoseAnswer
    <2>3. QED
      BY <1>0, <1>2, <2>2, NetType, NetInv DEF LoseAnswer
  <1>3. ASSUME NEW p \in Peers, CloseConn(p)
        PROVE  Inv'
    <2>1. alive' \in SUBSET Peers
      BY <1>0, <1>3, NetType DEF CloseConn
    <2>2. inflight' \in [Peers \X Pieces -> 0 .. MaxInFlight]
      BY <1>0, <1>3, NetType, BoundsAssumption DEF CloseConn
    <2>3. QED
      BY <1>0, <1>3, <2>1, <2>2, NetType, NetInv DEF CloseConn
  <1>4. CASE CalmDown
    BY <1>0, <1>4, NetType, NetInv DEF CalmDown
  <1>5. QED
    BY <1>1, <1>2, <1>3, <1>4 DEF EnvStep

\* Every step keeps the invariant.
LEMMA NextInv == Inv /\ [Next]_vars => Inv'
  <1> SUFFICES ASSUME Inv, [Next]_vars PROVE Inv'
    OBVIOUS
  <1>1. CASE AskTracker \/ MainStep
    BY <1>1, AskTrackerInv, MainStepInv
  <1>2. ASSUME NEW w \in Workers, WorkerStep(w) \/ Refresh(w)
        PROVE  Inv'
    BY <1>2, WorkerStepInv
  <1>3. ASSUME NEW m \in Peers \X Pieces, Answer(m)
        PROVE  Inv'
    <2>1. PICK d \in Replies : handleRPCMessage(m[1], m[2], d)
      BY <1>3 DEF Answer
    <2>2. m[1] \in Peers /\ m[2] \in Pieces
      OBVIOUS
    <2>3. QED
      BY <2>1, <2>2, AnswerInv
  <1>4. CASE EnvStep
    BY <1>4, EnvStepInv
  <1>5. CASE UNCHANGED vars
    <2>1. /\ UNCHANGED <<pieceVars, mainVars, written, active, worker>>
          /\ UNCHANGED <<peers, alive, inflight, calm>>
      BY <1>5 DEF vars, netVars
    <2>2. QED
      BY <2>1, NetType, NetInv DEF Inv
  <1>6. QED
    BY <1>1, <1>2, <1>3, <1>4, <1>5 DEF Next, Returned

\* The invariant holds in every reachable state.
THEOREM SpecInv == Spec => []Inv
  BY InitInv, NextInv, PTL DEF Spec

\* The state of a download keeps its type: no attempt counter passes
\* MaxRetries, and a slot is empty or holds a worker on a piece of the file.
THEOREM TypeCorrect == Spec => []TypeOK
  <1>1. Inv => TypeOK
    BY DEF Inv
  <1>2. QED
    BY <1>1, SpecInv, PTL

\* A download reported as successful has written every piece of the file.
THEOREM SuccessIsWritten == Spec => []SuccessMeansWritten
  <1>1. Inv => SuccessMeansWritten
    BY DEF Inv, LoopInv
  <1>2. QED
    BY <1>1, SpecInv, PTL

\* No piece stays Requested with nobody to download it.
THEOREM NoStrandedPiece == Spec => []RequestedHasWorker
  <1>1. Inv => RequestedHasWorker
    BY DEF Inv
  <1>2. QED
    BY <1>1, SpecInv, PTL

\* An incomplete download has written every piece that a connected peer held.
THEOREM NoHeldPieceGivenUp == Spec => []GivesUpOnlyUnheld
  <1>1. Inv => GivesUpOnlyUnheld
    BY DEF Inv, LoopInv
  <1>2. QED
    BY <1>1, SpecInv, PTL

-----------------------------------------------------------------------------
(***************************************************************************)
(* Download implements Transfer.  Beyond the invariant this needs that the  *)
(* output file is made when the loop starts, that there is no worker        *)
(* without it, and that it is open until the verdict.                       *)
(***************************************************************************)
OutputFollowsLoop ==
    /\ pc = "start" => output = "none"
    /\ pc \notin {"start", "returned", "done"} => output = "open"
    /\ output = "none" => \A w \in Workers : worker[w] = NULL
    /\ result = "unavailable" => output = "none"

\* A step that completes no piece and touches neither the verdict nor the
\* output file stutters.
LEMMA QuietStutters ==
    ASSUME UNCHANGED <<result, output>>,
           {i \in Pieces : written'[i] = "good"} = {i \in Pieces : written[i] = "good"}
    PROVE  UNCHANGED Transferred!vars
  BY DEF Transferred!vars

\* A step of a worker or of the environment that leaves the main loop alone
\* and starts no worker keeps the second half of the invariant.
LEMMA LoopKept ==
    ASSUME OutputFollowsLoop, UNCHANGED mainVars,
           output # "none" \/ (\A w \in Workers : worker[w] = NULL => worker'[w] = NULL)
    PROVE  OutputFollowsLoop'
  BY DEF OutputFollowsLoop, mainVars

\* A worker exists only with an output file and before a verdict on the
\* pieces.
LEMMA WorkerMeansFile ==
    ASSUME Inv, OutputFollowsLoop, NEW w \in Workers, worker[w] # NULL
    PROVE  output # "none" /\ result \in {"running", "nopeers"}
  <1>1. output # "none"
    BY DEF OutputFollowsLoop
  <1>2. result \notin {"ok", "incomplete", "unavailable"}
    BY <1>1 DEF OutputFollowsLoop, Inv, LoopInv, NoWorkerAfterVerdict
  <1>3. QED
    BY <1>1, <1>2 DEF Inv, TypeOK

\* A worker's step adds a piece or stutters.
LEMMA WorkerStepTransfers ==
    ASSUME Inv, OutputFollowsLoop, NEW w \in Workers, WorkerStep(w) \/ Refresh(w)
    PROVE  OutputFollowsLoop' /\ [Transferred!Next]_(Transferred!vars)
  <1>1. /\ pc # "done" /\ worker[w] # NULL
        /\ UNCHANGED mainVars
    BY DEF WorkerStep, BeginAttempt, Refresh, refreshPeers, SendRequest, SendFails,
           AttemptFails, ReceiveChunk, WriteSome, WriteChunk, WriteFails, ReceiveError,
           Timeout, MarkVerified, MarkMissing, Release, At
  <1>2. output # "none" /\ result \in {"running", "nopeers"}
    BY <1>1, WorkerMeansFile
  <1>3. OutputFollowsLoop'
    BY <1>1, <1>2, LoopKept
  <1>4. PICK i \in Pieces : i = worker[w].piece
    BY <1>1, BusyType DEF Inv
  <1>5. written \in [Pieces -> {"none", "part", "good"}]
    BY DEF Inv, TypeOK
  <1>6. CASE WriteChunk(w)
    <2>1. written' = [written EXCEPT ![i] = "good"]
      BY <1>4, <1>6 DEF WriteChunk
    <2>2. {j \in Pieces : written'[j] = "good"} = {j \in Pieces : written[j] = "good"} \cup {i}
      BY <1>5, <2>1
    <2>3. Transferred!Add(i)
      BY <1>1, <1>2, <2>2 DEF Transferred!Add, mainVars
    <2>4. QED
      BY <1>3, <2>3 DEF Transferred!Next
  <1>7. CASE WriteSome(w)
    <2>1. written[i] = "none" /\ written' = [written EXCEPT ![i] = "part"]
      BY <1>4, <1>7 DEF WriteSome
    <2>2. {j \in Pieces : written'[j] = "good"} = {j \in Pieces : written[j] = "good"}
      BY <1>5, <2>1
    <2>3. QED
      BY <1>1, <1>3, <2>2, QuietStutters DEF mainVars
  <1>8. CASE ~WriteChunk(w) /\ ~WriteSome(w)
    <2>1. UNCHANGED written
      BY <1>8 DEF WorkerStep, BeginAttempt, Refresh, refreshPeers, SendRequest, SendFails,
         AttemptFails, ReceiveChunk, WriteFails, ReceiveError, Timeout, MarkVerified,
         MarkMissing, Release
    <2>2. QED
      BY <1>1, <1>3, <2>1, QuietStutters DEF mainVars
  <1>9. QED
    BY <1>6, <1>7, <1>8

\* What the answers and the environment do is invisible.
LEMMA EnvStepTransfers ==
    ASSUME Inv, OutputFollowsLoop,
           EnvStep \/ \E m \in Peers \X Pieces : Answer(m)
    PROVE  OutputFollowsLoop' /\ [Transferred!Next]_(Transferred!vars)
  <1>1. UNCHANGED mainVars /\ UNCHANGED written
    BY DEF EnvStep, RefreshTick, LoseAnswer, CloseConn, CalmDown, Answer, handleRPCMessage
  <1>2. CASE EnvStep
    <2>1. UNCHANGED worker
      BY <1>2 DEF EnvStep, RefreshTick, LoseAnswer, CloseConn, CalmDown
    <2>2. QED
      BY <1>1, <2>1, LoopKept, QuietStutters DEF mainVars
  <1>3. ASSUME NEW m \in Peers \X Pieces, Answer(m)
        PROVE  \A w \in Workers : worker[w] = NULL => worker'[w] = NULL
    BY <1>3 DEF Answer, handleRPCMessage
  <1>4. QED
    BY <1>1, <1>2, <1>3, LoopKept, QuietStutters DEF mainVars

\* A return of the main loop gives the one verdict; the file of a success has
\* a piece in it and stays.
LEMMA ReturnTransfers ==
    ASSUME NumChunks # 0, Inv, OutputFollowsLoop,
           NEW r \in {"ok", "incomplete", "nopeers"},
           pc \notin {"start", "returned", "done"}, Return(r), UNCHANGED <<written, worker>>,
           r = "ok" => IsComplete
    PROVE  OutputFollowsLoop' /\ Transferred!Next
  <1>1. output = "open" /\ result = "running"
    BY DEF OutputFollowsLoop, Inv, LoopInv, VerdictIsLast
  <1>2. 0 \in Pieces
    BY NumChunksAssumption DEF Pieces
  <1>3. r = "ok" => \A i \in Pieces : written[i] = "good"
    BY DEF IsComplete, Inv, VerifiedIsWritten
  <1>4. r = "ok" => {i \in Pieces : written[i] = "good"} = Pieces /\ output' = "kept"
    BY <1>2, <1>3 DEF Return
  <1>5. /\ output' \in {"kept", "removed"}
        /\ output' = "removed" => {i \in Pieces : written[i] = "good"} = {}
    BY DEF Return
  <1>6. Transferred!End(r)
    BY <1>1, <1>4, <1>5 DEF Transferred!End, Return
  <1>7. OutputFollowsLoop'
    BY <1>5 DEF OutputFollowsLoop, Return
  <1>8. QED
    BY <1>6, <1>7 DEF Transferred!Next

\* The main loop refuses, starts, gives its verdict or stutters.
LEMMA MainStepTransfers ==
    ASSUME NumChunks # 0, Inv, OutputFollowsLoop, AskTracker \/ MainStep
    PROVE  OutputFollowsLoop' /\ [Transferred!Next]_(Transferred!vars)
  <1>0. pc = "start" => output = "none" /\ result = "running"
    BY DEF OutputFollowsLoop, Inv, LoopInv, VerdictIsLast
  <1>1. CASE Unavailable
    <2>1. Transferred!Refuse
      BY <1>0, <1>1 DEF Unavailable, Transferred!Refuse
    <2>2. OutputFollowsLoop'
      BY <1>1 DEF Unavailable, OutputFollowsLoop
    <2>3. QED
      BY <2>1, <2>2 DEF Transferred!Next
  <1>2. ASSUME NEW new \in SUBSET Peers, NEW ok \in BOOLEAN, StartDownload(new, ok)
        PROVE  OutputFollowsLoop' /\ Transferred!Next
    <2>1. Transferred!Start
      BY <1>0, <1>2 DEF StartDownload, Transferred!Start
    <2>2. OutputFollowsLoop'
      BY <1>0, <1>2 DEF StartDownload, OutputFollowsLoop
    <2>3. QED
      BY <2>1, <2>2 DEF Transferred!Next
  <1>3. ASSUME NEW new \in SUBSET Peers, NEW ok \in BOOLEAN, Reconnect(new, ok)
        PROVE  OutputFollowsLoop' /\ [Transferred!Next]_(Transferred!vars)
    <2>1. CASE ~ok
      BY <1>3, <2>1, ReturnTransfers DEF Reconnect
    <2>2. CASE ok
      <3>1. /\ pc = "connect" /\ pc' = "loop"
            /\ UNCHANGED <<written, result, output, worker>>
        BY <1>3, <2>2 DEF Reconnect
      <3>2. QED
        BY <3>1, QuietStutters DEF OutputFollowsLoop
    <2>3. QED
      BY <2>1, <2>2
  <1>4. CASE \/ CheckComplete \/ NoPeerLeft \/ CheckActive
             \/ \E next \in SUBSET Pieces : SelectPieces(next)
             \/ \E w \in Workers, i \in Pieces : Dispatch(w, i)
    <2>1. /\ pc \notin {"start", "returned", "done"}
          /\ pc' \notin {"start", "returned", "done"}
          /\ UNCHANGED <<written, result, output>>
      BY <1>4 DEF CheckComplete, NoPeerLeft, CheckActive, SelectPieces, Dispatch
    <2>2. QED
      BY <2>1, QuietStutters DEF OutputFollowsLoop
  <1>5. CASE Finish
    <2> DEFINE r == IF IsComplete THEN "ok" ELSE "incomplete"
    <2>1. r \in {"ok", "incomplete", "nopeers"} /\ (r = "ok" => IsComplete)
      OBVIOUS
    <2>2. /\ pc \notin {"start", "returned", "done"} /\ Return(r)
          /\ UNCHANGED <<written, worker>>
      BY <1>5 DEF Finish
    <2> HIDE DEF r
    <2>3. QED
      BY <2>1, <2>2, ReturnTransfers
  <1>6. CASE Exit
    BY <1>6, QuietStutters DEF Exit, OutputFollowsLoop
  <1>7. QED
    BY <1>1, <1>2, <1>3, <1>4, <1>5, <1>6 DEF MainStep, AskTracker

\* Every step is a step of Transfer or invisible to it.
LEMMA NextTransfers ==
    ASSUME NumChunks # 0
    PROVE  Inv /\ OutputFollowsLoop /\ [Next]_vars =>
               OutputFollowsLoop' /\ [Transferred!Next]_(Transferred!vars)
  <1> SUFFICES ASSUME Inv, OutputFollowsLoop, [Next]_vars
               PROVE  OutputFollowsLoop' /\ [Transferred!Next]_(Transferred!vars)
    OBVIOUS
  <1>1. CASE UNCHANGED vars
    BY <1>1, LoopKept, QuietStutters DEF vars, mainVars
  <1>2. CASE Next
    BY <1>1, <1>2, MainStepTransfers, WorkerStepTransfers, EnvStepTransfers
       DEF Next, Returned
  <1>3. QED
    BY <1>1, <1>2

\* A download starts as a transfer with nothing in it.
LEMMA InitTransfers == Init => OutputFollowsLoop /\ Transferred!Init
  BY DEF Init, OutputFollowsLoop, Transferred!Init

\* A download of a file that is not empty implements a transfer: no piece is
\* lost once written, success is only reported when all are there and keeps
\* the file, the verdict is given once, and only the writes that DownloadFile
\* did not wait for when it found no peers can follow it.  (The output of an
\* empty file is removed in spite of success.)
THEOREM DownloadIsTransfer ==
    ASSUME NumChunks # 0
    PROVE  Spec => ImplementsTransfer
  BY InitTransfers, NextTransfers, SpecInv, PTL
     DEF Spec, ImplementsTransfer, Transferred!Spec
=============================================================================
