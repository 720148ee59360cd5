------------------------------ MODULE Download ------------------------------
(***************************************************************************)
(* One download on one node: DownloadFile with its refresh goroutine, the   *)
(* downloadChunk workers it starts, and the handlers that the RPC loop runs *)
(* on the answers (server.go, piece_manager.go).                            *)
(*                                                                          *)
(* The processes are the main loop, at most maxConcurrent workers (a worker *)
(* is a slot of the semaphore), the refresher and the RPC loop.  A step is  *)
(* what happens between two acquisitions of s.mu, pm.mu or activeMutex, or  *)
(* between two channel operations.                                          *)
(*                                                                          *)
(* The seeders and the tracker are the environment: a seeder answers a      *)
(* request or never does (handleChunkRequest sends no refusals), as often   *)
(* as it likes until it is calm; the tracker answers or does not (http.Get  *)
(* has no timeout) and lists seeders that can be dialled or none.           *)
(***************************************************************************)
EXTENDS PieceManager

CONSTANTS
    Workers,      \* the maxConcurrent slots of the semaphore
    MaxRetries,   \* attempts of downloadChunk
    Replies,      \* what an answer may carry, among ReplyKinds
    MaxInFlight,  \* bound: answers under way from one peer for one piece
    NULL          \* an empty slot, or no peer

\* Bytes of an acceptable length (module Store says which bytes), or a payload
\* of a type that the handler does not expect.
ReplyKinds == {"good", "malformed"}

VARIABLES
    pc,         \* where DownloadFile is
    batch,      \* pieces of the current list that it has yet to start
    result,     \* what it returned
    output,     \* the output file
    written,    \* piece -> what of its data was written at its offset
    active,     \* keys of activeDownloads
    worker,     \* slot -> local state of downloadChunk
    peers,      \* keys of s.peers
    alive,      \* peers whose connection works
    inflight,   \* <<peer, piece>> -> answers under way
    calm        \* the environment commits no faults any more

mainVars == <<pc, batch, result, output>>
netVars  == <<peers, alive, inflight, calm>>
vars     == <<pieceVars, mainVars, written, active, worker, netVars>>

WorkerPC == {"attempt", "refresh", "asking", "waiting", "writing", "succeeded",
             "failed", "releasing"}

\* `todo' are the peers left in the current attempt, `peer' is the one asked,
\* `got' is what the response and error channels of that request hold.
Worker == [at : WorkerPC, piece : Pieces, attempt : 0 .. MaxRetries,
           todo : SUBSET Peers, peer : {NULL} \cup Peers, got : SUBSET Replies]

ASSUME WorkersAssumption == IsFiniteSet(Workers) /\ Workers # {}
ASSUME RetriesAssumption == MaxRetries \in Nat \ {0}
ASSUME RepliesAssumption == Replies \subseteq ReplyKinds
ASSUME BoundsAssumption  == MaxInFlight \in Nat \ {0}
ASSUME NullAssumption    == NULL \notin Worker

TypeOK ==
    /\ PieceTypeOK
    /\ pc       \in {"start", "loop", "select", "connect", "dispatch", "idle",
                     "wait", "returned", "done"}
    /\ batch    \in SUBSET Pieces
    /\ result   \in {"running", "unavailable", "nopeers", "incomplete", "ok"}
    /\ output   \in {"none", "open", "kept", "removed"}
    /\ written  \in [Pieces -> {"none", "part", "good"}]
    /\ active   \in SUBSET Pieces
    /\ worker   \in [Workers -> {NULL} \cup Worker]
    /\ peers    \in SUBSET Peers
    /\ alive    \in SUBSET Peers
    /\ inflight \in [Peers \X Pieces -> 0 .. MaxInFlight]
    /\ calm     \in BOOLEAN

\* The command is given; connections may already stand (a bootstrap node).
Init ==
    /\ NewPieceManager
    /\ pc = "start" /\ batch = {} /\ result = "running" /\ output = "none"
    /\ written  = [i \in Pieces |-> "none"]
    /\ active   = {}
    /\ worker   = [w \in Workers |-> NULL]
    /\ peers    \in SUBSET Peers
    /\ alive    = peers
    /\ inflight = [m \in Peers \X Pieces |-> 0]
    /\ calm     \in BOOLEAN

-----------------------------------------------------------------------------
(***************************************************************************)
(* Faults and connections.                                                  *)
(***************************************************************************)

\* What may go wrong does so any number of times, until the environment is
\* calm for good.
Fault == ~calm

\* connectToAllPeers dials the listed addresses that are not yet keys of
\* s.peers; `new' are those that it enters.  It fails if nothing it dialled
\* connects, even when every listed peer was connected before.  With `new'
\* empty it succeeds if an overlapping call has entered the address that it
\* had looked up (module Transport has the calls in detail).
connectToAllPeers(new, ok) ==
    /\ new \subseteq Peers \ peers
    /\ peers' = peers \cup new
    /\ new # {} => ok
    /\ ok => peers' # {}
    /\ alive' = alive \cup new

-----------------------------------------------------------------------------
(***************************************************************************)
(* DownloadFile.                                                            *)
(***************************************************************************)

\* Mutation: the output of a failed download is removed with what is in it.
RemoveOnFailure(r) ==
    /\ result' = r
    /\ output' = IF r = "ok" THEN "kept" ELSE "removed"
    /\ pc' = "returned"

\* The deferred close: an output file of length 0 is removed, whatever the
\* verdict.  Bytes of a failed write count, and stay.
Return(r) ==
    /\ result' = r
    /\ output' = IF \E i \in Pieces : written[i] # "none" THEN "kept" ELSE "removed"
    /\ pc' = "returned"

\* The tracker does not answer, does not know the file or counts no peer; or
\* the metadata or the output file cannot be written.
Unavailable ==
    /\ pc = "start"
    /\ pc' = "done"
    /\ result' = "unavailable"
    /\ UNCHANGED <<pieceVars, batch, output, written, active, worker, netVars>>

\* Connect, create the piece table, enter the peers connected so far as
\* holders of every piece, create the output file.  A failure to connect is
\* only logged.
StartDownload(new, ok) ==
    /\ pc = "start"
    /\ connectToAllPeers(new, ok)
    /\ UpdatePeerPieces(peers')
    /\ output' = "open"
    /\ pc' = "loop"
    /\ UNCHANGED <<status, batch, result, written, active, worker, inflight, calm>>

\* for !pieceManager.IsComplete()
CheckComplete ==
    /\ pc = "loop"
    /\ pc' = IF IsComplete THEN "wait" ELSE "select"
    /\ UNCHANGED <<pieceVars, batch, result, output, written, active, worker, netVars>>

NoPeerLeft ==
    /\ pc = "select"
    /\ peers = {}
    /\ pc' = "connect"
    /\ UNCHANGED <<pieceVars, batch, result, output, written, active, worker, netVars>>

\* The main loop's own connectToAllPeers.  If it fails DownloadFile returns
\* without waiting for its workers, which run on until main exits.
Reconnect(new, ok) ==
    /\ pc = "connect"
    /\ connectToAllPeers(new, ok)
    /\ IF ok
       THEN pc' = "loop" /\ UNCHANGED <<result, output>>
       ELSE Return("nopeers")
    /\ UNCHANGED <<pieceVars, batch, written, active, worker, inflight, calm>>

RequestSize ==
    Cardinality(Workers) * IF Cardinality(peers) > 1 THEN Cardinality(peers) * 2 ELSE 2

\* peerCount, read just before, only sizes the request.
SelectPieces(next) ==
    /\ pc = "select"
    /\ peers # {}
    /\ GetNextPieces(RequestSize, next)
    /\ batch' = next
    /\ pc' = IF next = {} THEN "idle" ELSE "dispatch"
    /\ UNCHANGED <<holders, result, output, written, active, worker, netVars>>

\* No piece to start: leave the loop if no download is recorded as active.
CheckActive ==
    /\ pc = "idle"
    /\ pc' = IF active = {} THEN "wait" ELSE "loop"
    /\ UNCHANGED <<pieceVars, batch, result, output, written, active, worker, netVars>>

\* Acquire the semaphore, record the download, start the worker.
Dispatch(w, i) ==
    /\ pc = "dispatch"
    /\ i \in batch
    /\ worker[w] = NULL
    /\ batch' = batch \ {i}
    /\ pc' = IF batch' = {} THEN "loop" ELSE "dispatch"
    /\ active' = active \cup {i}
    /\ worker' = [worker EXCEPT ![w] =
          [at |-> "attempt", piece |-> i, attempt |-> 0, todo |-> {},
           peer |-> NULL, got |-> {}]]
    /\ UNCHANGED <<pieceVars, result, output, written, netVars>>

\* wg.Wait, then the final check.
Finish ==
    /\ pc = "wait"
    /\ \A w \in Workers : worker[w] = NULL
    /\ Return(IF IsComplete THEN "ok" ELSE "incomplete")
    /\ UNCHANGED <<pieceVars, batch, written, active, worker, netVars>>

\* main ends the process after an error; after a success it waits for ever
\* and nothing more happens to this download.
Exit ==
    /\ pc = "returned"
    /\ pc' = "done"
    /\ UNCHANGED <<pieceVars, batch, result, output, written, active, worker, netVars>>

\* The refresh goroutine; one of its calls may outlast DownloadFile.  The
\* peers it adds are not entered as holders.
RefreshTick(new) ==
    /\ pc \notin {"start", "done"}
    /\ new # {}
    /\ connectToAllPeers(new, TRUE)
    /\ UNCHANGED <<pieceVars, mainVars, written, active, worker, inflight, calm>>

-----------------------------------------------------------------------------
(***************************************************************************)
(* downloadChunk and the goroutine around it.                               *)
(***************************************************************************)

\* Worker w is at `at'; the process still runs.
At(w, at) ==
    /\ pc # "done"
    /\ worker[w] # NULL
    /\ worker[w].at = at

\* Worker w gives up the peer it has chosen and goes on to the next one.
NextPeer(w, p) ==
    worker' = [worker EXCEPT ![w].at = "asking", ![w].todo = @ \ {p},
                             ![w].peer = NULL, ![w].got = {}]

\* Mutation: attempt <= maxRetries.
BeginExtraAttempt(w) ==
    /\ At(w, "attempt")
    /\ worker' = [worker EXCEPT
          ![w].at = IF worker[w].attempt > MaxRetries THEN "failed"
                    ELSE IF peers = {} THEN "refresh" ELSE "asking",
          ![w].todo = IF worker[w].attempt > MaxRetries THEN {} ELSE peers]
    /\ UNCHANGED <<pieceVars, mainVars, written, active, netVars>>

\* Snapshot of s.peers for this attempt.
BeginAttempt(w) ==
    /\ At(w, "attempt")
    /\ worker' = [worker EXCEPT
          ![w].at = IF worker[w].attempt = MaxRetries THEN "failed"
                    ELSE IF peers = {} THEN "refresh" ELSE "asking",
          ![w].todo = IF worker[w].attempt = MaxRetries THEN {} ELSE peers]
    /\ UNCHANGED <<pieceVars, mainVars, written, active, netVars>>

\* refreshPeers, and a second snapshot if it succeeds.
refreshPeers(w, new, ok) ==
    /\ At(w, "refresh")
    /\ connectToAllPeers(new, ok)
    /\ worker' = IF ok
                 THEN [worker EXCEPT ![w].at = "asking", ![w].todo = peers']
                 ELSE [worker EXCEPT ![w].at = "attempt", ![w].attempt = @ + 1]
    /\ UNCHANGED <<pieceVars, mainVars, written, active, inflight, calm>>

\* Register the handler and send the request to one of the shuffled peers.
SendRequest(w, p) ==
    /\ At(w, "asking")
    /\ p \in worker[w].todo
    /\ p \in alive
    /\ worker' = [worker EXCEPT ![w].at = "waiting", ![w].peer = p]
    /\ inflight' = [inflight EXCEPT ![<<p, worker[w].piece>>] =
                       IF @ < MaxInFlight THEN @ + 1 ELSE @]
    /\ UNCHANGED <<pieceVars, mainVars, written, active, peers, alive, calm>>

\* peer.Send fails; the peer stays in s.peers.
SendFails(w, p) ==
    /\ At(w, "asking")
    /\ p \in worker[w].todo
    /\ p \notin alive
    /\ NextPeer(w, p)
    /\ UNCHANGED <<pieceVars, mainVars, written, active, netVars>>

\* All the peers of this attempt failed.
AttemptFails(w) ==
    /\ At(w, "asking")
    /\ worker[w].todo = {}
    /\ worker' = [worker EXCEPT ![w].at = "attempt", ![w].attempt = @ + 1]
    /\ UNCHANGED <<pieceVars, mainVars, written, active, netVars>>

\* The RPC loop hands an answer of a known peer to every handler registered.
\* The handlers of open requests for this piece take the data, whichever peer
\* they asked, unless their channel is full; a payload of the wrong type goes
\* to the error channels of all open requests, before any look at its piece.
handleRPCMessage(p, i, d) ==
    /\ pc # "done"
    /\ inflight[<<p, i>>] > 0
    /\ inflight' = [inflight EXCEPT ![<<p, i>>] = @ - 1]
    /\ d = "malformed" => Fault
    /\ worker' = [w \in Workers |->
          IF /\ worker[w] # NULL
             /\ p \in peers
             /\ worker[w].at = "waiting"
             /\ \/ d = "malformed"
                \/ worker[w].piece = i /\ worker[w].got \subseteq {"malformed"}
          THEN [worker[w] EXCEPT !.got = @ \cup {d}]
          ELSE worker[w]]
    /\ UNCHANGED <<pieceVars, mainVars, written, active, peers, alive, calm>>

\* case resp := <-responseChan, and writeAndVerifyChunk accepts its length.
\* If DownloadFile has closed the file, no write to it succeeds any more.
ReceiveChunk(w) ==
    /\ At(w, "waiting")
    /\ "good" \in worker[w].got
    /\ IF output = "open"
       THEN worker' = [worker EXCEPT ![w].at = "writing", ![w].got = {}]
       ELSE NextPeer(w, worker[w].peer)
    /\ UNCHANGED <<pieceVars, mainVars, written, active, netVars>>

\* Some bytes of the piece reach the file, more are to come or fail.
WriteSome(w) ==
    /\ At(w, "writing")
    /\ written[worker[w].piece] = "none"
    /\ written' = [written EXCEPT ![worker[w].piece] = "part"]
    /\ UNCHANGED <<pieceVars, mainVars, active, worker, netVars>>

\* WriteAt has written the piece; one that began before the file was closed
\* may end after.
WriteChunk(w) ==
    /\ At(w, "writing")
    /\ written' = [written EXCEPT ![worker[w].piece] = "good"]
    /\ worker' = [worker EXCEPT ![w].at = "succeeded", ![w].todo = {}, ![w].peer = NULL]
    /\ UNCHANGED <<pieceVars, mainVars, active, netVars>>

\* Mutation: the error of the write is dropped.
IgnoreWriteError(w) ==
    /\ At(w, "writing")
    /\ output = "open" => Fault
    /\ worker' = [worker EXCEPT ![w].at = "succeeded", ![w].todo = {}, ![w].peer = NULL]
    /\ UNCHANGED <<pieceVars, mainVars, written, active, netVars>>

\* The write fails three times; what it wrote stays.
WriteFails(w) ==
    /\ At(w, "writing")
    /\ output = "open" => Fault
    /\ NextPeer(w, worker[w].peer)
    /\ UNCHANGED <<pieceVars, mainVars, written, active, netVars>>

\* case err := <-errChan: the peer that was asked, not the one that sent the
\* payload, leaves s.peers; one that is keyed by a name other than its
\* RemoteAddr ("[::1]" is entered as "localhost") stays.
ReceiveError(w) ==
    /\ At(w, "waiting")
    /\ "malformed" \in worker[w].got
    /\ peers' \in {peers \ {worker[w].peer}, peers}
    /\ NextPeer(w, worker[w].peer)
    /\ UNCHANGED <<pieceVars, mainVars, written, active, alive, inflight, calm>>

\* Mutation: no timeout case in the select.
NoTimeout(w) == At(w, "waiting") /\ FALSE

\* Nothing came in time.  A timeout that beats an answer under way, or one
\* already in the channel, is a fault.
Timeout(w) ==
    /\ At(w, "waiting")
    /\ (worker[w].got # {} \/ inflight[<<worker[w].peer, worker[w].piece>>] > 0) => Fault
    /\ NextPeer(w, worker[w].peer)
    /\ UNCHANGED <<pieceVars, mainVars, written, active, netVars>>

MarkVerified(w) ==
    /\ At(w, "succeeded")
    /\ MarkPieceStatus(worker[w].piece, "Verified")
    /\ worker' = [worker EXCEPT ![w].at = "releasing"]
    /\ UNCHANGED <<holders, mainVars, written, active, netVars>>

\* Mutation: the error branch returns without marking the piece.
LeaveRequested(w) ==
    /\ At(w, "failed")
    /\ worker' = [worker EXCEPT ![w].at = "releasing"]
    /\ UNCHANGED <<pieceVars, mainVars, written, active, netVars>>

MarkMissing(w) ==
    /\ At(w, "failed")
    /\ MarkPieceStatus(worker[w].piece, "Missing")
    /\ worker' = [worker EXCEPT ![w].at = "releasing"]
    /\ UNCHANGED <<holders, mainVars, written, active, netVars>>

\* Mutation: the semaphore is not released.
KeepSlot(w) ==
    /\ At(w, "releasing")
    /\ active' = active \ {worker[w].piece}
    /\ UNCHANGED <<pieceVars, mainVars, written, worker, netVars>>

\* The deferred calls: activeDownloads, semaphore, wait group.
Release(w) ==
    /\ At(w, "releasing")
    /\ active' = active \ {worker[w].piece}
    /\ worker' = [worker EXCEPT ![w] = NULL]
    /\ UNCHANGED <<pieceVars, mainVars, written, netVars>>

-----------------------------------------------------------------------------
(***************************************************************************)
(* The environment.                                                         *)
(***************************************************************************)
\* A seeder does not answer (it refuses without a word, or its process is
\* busy), or a full RPC channel drops the answer.
LoseAnswer(m) ==
    /\ Fault
    /\ pc # "done"
    /\ inflight[m] > 0
    /\ inflight' = [inflight EXCEPT ![m] = @ - 1]
    /\ UNCHANGED <<pieceVars, mainVars, written, active, worker, peers, alive, calm>>

\* A connection breaks; answers already in the RPC channel may survive.
\* handleConn closes it and tells nobody: s.peers keeps the entry.
CloseConn(p) ==
    /\ Fault
    /\ pc \notin {"start", "done"}
    /\ p \in alive
    /\ alive' = alive \ {p}
    /\ \/ inflight' = inflight
       \/ inflight' = [m \in Peers \X Pieces |-> IF m[1] = p THEN 0 ELSE inflight[m]]
    /\ UNCHANGED <<pieceVars, mainVars, written, active, worker, peers, calm>>

CalmDown ==
    /\ ~calm
    /\ calm' = TRUE
    /\ UNCHANGED <<pieceVars, mainVars, written, active, worker, peers, alive, inflight>>

-----------------------------------------------------------------------------
\* Steps that wait for an answer of the tracker.
AskTracker ==
    \/ Unavailable
    \/ \E new \in SUBSET Peers, ok \in BOOLEAN :
          StartDownload(new, ok) \/ Reconnect(new, ok)

MainStep ==
    \/ CheckComplete
    \/ NoPeerLeft
    \/ \E next \in SUBSET Pieces : SelectPieces(next)
    \/ CheckActive
    \/ \E w \in Workers, i \in Pieces : Dispatch(w, i)
    \/ Finish
    \/ Exit

WorkerStep(w) ==
    \/ BeginAttempt(w)
    \/ \E p \in Peers : SendRequest(w, p) \/ SendFails(w, p)
    \/ AttemptFails(w)
    \/ ReceiveChunk(w)
    \/ WriteSome(w)
    \/ WriteChunk(w)
    \/ WriteFails(w)
    \/ ReceiveError(w)
    \/ Timeout(w)
    \/ MarkVerified(w)
    \/ MarkMissing(w)
    \/ Release(w)

Refresh(w) == \E new \in SUBSET Peers, ok \in BOOLEAN : refreshPeers(w, new, ok)

Answer(m) == \E d \in Replies : handleRPCMessage(m[1], m[2], d)

EnvStep ==
    \/ \E new \in SUBSET Peers : RefreshTick(new)
    \/ \E m \in Peers \X Pieces : LoseAnswer(m)
    \/ \E p \in Peers : CloseConn(p)
    \/ CalmDown

\* DownloadFile has returned: nothing else happens to this download.
Returned == pc = "done" /\ UNCHANGED vars

Next ==
    \/ AskTracker
    \/ MainStep
    \/ \E w \in Workers : WorkerStep(w) \/ Refresh(w)
    \/ \E m \in Peers \X Pieces : Answer(m)
    \/ EnvStep
    \/ Returned

Spec == Init /\ [][Next]_vars

(***************************************************************************)
(* Goroutines are scheduled and an answer that is under way arrives.  The   *)
(* tracker owes no answer, and the environment neither a connection nor a   *)
(* fault nor calm.                                                          *)
(***************************************************************************)
Fairness ==
    /\ WF_vars(MainStep)
    /\ \A w \in Workers : WF_vars(WorkerStep(w))
    /\ \A m \in Peers \X Pieces : WF_vars(Answer(m))

FairSpec == Spec /\ Fairness

\* A tracker that answers every request.
TrackerAnswers ==
    /\ WF_vars(AskTracker)
    /\ \A w \in Workers : WF_vars(Refresh(w))

AnsweredSpec == FairSpec /\ TrackerAnswers

-----------------------------------------------------------------------------
(***************************************************************************)
(* Properties.                                                              *)
(***************************************************************************)

\* DownloadFile only reports success when every piece has been written to the
\* output file, however workers, duplicates, late answers and writes that
\* failed half-way interleaved.
SuccessMeansWritten ==
    result = "ok" => \A i \in Pieces : written[i] = "good"

\* No piece is stranded: a piece marked Requested is still to be started or
\* has a worker that will mark it Verified or Missing.
RequestedHasWorker ==
    \A i \in Pieces : status[i] = "Requested" =>
        \/ i \in batch
        \/ \E w \in Workers : /\ worker[w] # NULL
                              /\ worker[w].piece = i
                              /\ worker[w].at # "releasing"

\* The main loop leaves its pieces to nobody: when it stops with "incomplete",
\* every piece that some peer is known to hold has been written.  GetNextPieces
\* and the count of activeDownloads are read under different locks, and
\* workers fail and leave in between.
GivesUpOnlyUnheld ==
    result = "incomplete" =>
        \A i \in Pieces : written[i] = "good" \/ holders[i] = {}

\* The download seen as a transfer.
Transferred == INSTANCE Transfer WITH
    have    <- {i \in Pieces : written[i] = "good"},
    verdict <- result

\* The main loop, the workers and the answer handlers implement a transfer of
\* a file that is not empty: however workers duplicate and overtake each
\* other, no piece is lost once written, the verdict is given once, success
\* keeps the file, and only the verdict that waits for no worker (nopeers) can
\* be followed by a write.
ImplementsTransfer == Transferred!Spec

\* With peers entered as holders at the start and no fault, the download ends
\* in success: neither the duplicate workers nor the semaphore can stop it.
CleanDownloadSucceeds ==
    []calm =>
        ((pc # "start" /\ \A i \in Pieces : holders[i] # {}) ~> result = "ok")

\* Lost and late answers and failed writes, in any number, only delay a
\* download: while its connections stand and s.peers is not empty, it ends if
\* they come to an end.  (A seeder that refuses for good, or a disk that stays
\* full, keeps it trying for ever.)
FaultyDownloadEnds ==
    [](pc = "start" \/ (alive = peers /\ peers # {})) /\ <>calm =>
        (pc = "loop" ~> result # "running")

-----------------------------------------------------------------------------
(***************************************************************************)
(* What the code says of itself and does not do.                            *)
(***************************************************************************)

\* "download incomplete - some pieces could not be retrieved"
IncompleteMeansMissing ==
    result = "incomplete" => \E i \in Pieces : written[i] # "good"

\* "all peers disconnected and failed to find new peers"
DisconnectionIsReported ==
    (pc # "start" /\ alive = {}) ~> (result # "running" \/ alive # {})
=============================================================================
