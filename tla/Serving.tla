------------------------------ MODULE Serving ------------------------------
(***************************************************************************)
(* Two nodes joined by one TCP connection, seen from the bytes up: peer.Send *)
(* and handleChunkRequest write frames (p2p/tcp_transport.go, store.go),    *)
(* DefaultDecoder reads them (p2p/encoding.go), handleConn forwards them to  *)
(* the RPC channel, and consumeRPCMessages handles them one after the other *)
(* (server.go).  Shutdown stops the seeding meanwhile.                       *)
(*                                                                          *)
(* The connection carries both directions: a node may ask for chunks of one *)
(* file over the connection on which it serves another.  A request is one   *)
(* write; an answer is a write of its length and one write per maxChunkSize *)
(* of its body.  TCP keeps the order and holds a bounded number of writes;  *)
(* two goroutines that write to one connection interleave between writes.   *)
(***************************************************************************)
EXTENDS Naturals, Sequences, FiniteSets

CONSTANTS
    Nodes,        \* the two ends of the connection
    Seeders,      \* nodes that may share the file asked for
    Downloaders,  \* nodes whose downloadChunk workers ask for chunks
    MaxSends,     \* maxConcurrentChunks of the flow control
    QueueCap,     \* capacity of the RPC channel
    BufferCap,    \* writes that TCP holds in one direction
    BodyWrites,   \* writes that carry the body of an answer
    Leaving,      \* bound: seeders that may be shut down
    MaxRequests,  \* bound: requests one node sends
    MaxFaults     \* bound: faults in a behaviour

ASSUME NodesAssumption  == \E a, b \in Nodes : a # b /\ Nodes = {a, b}
ASSUME RolesAssumption  == Seeders \cup Downloaders \cup Leaving \subseteq Nodes
ASSUME LimitsAssumption ==
    /\ {MaxSends, QueueCap, BufferCap, BodyWrites} \subseteq Nat \ {0}
    /\ {MaxRequests, MaxFaults} \subseteq Nat

VARIABLES
    open,        \* the connection stands
    up,          \* node -> its process runs
    activeFile,  \* node -> the file is in activeFiles
    shutdown,    \* node -> progress of Cleanup
    handlers,    \* node -> len(responseHandlers)
    sending,     \* node -> workers about to call peer.Send
    answered,    \* node -> answers that its handlers were given (history)
    wire,        \* node -> writes of the node not yet read by the other end
    reader,      \* node -> handleConn
    rpcch,       \* node -> RPC channel
    rpc,         \* node -> consumeRPCMessages
    faults       \* faults so far

fileVars == <<activeFile, shutdown>>
workVars == <<handlers, sending>>
vars     == <<open, up, fileVars, workVars, answered, wire, reader, rpcch, rpc, faults>>

Other(n) == CHOOSE m \in Nodes : m # n

Write   == {"request", "length", "body"}
Message == {"request", "response", "garbage"}

\* Between frames, inside an answer with `left' writes to come, holding a
\* message for the RPC channel, or out of step with the frames.  `whole' is
\* FALSE once bytes of another frame were taken for the body.
Reader == [at : {"length", "payload", "forward", "lost"}, left : 0 .. BodyWrites,
           whole : BOOLEAN, msg : Message]

\* Where handleChunkRequest is, and the writes of the body it has to make.
Rpc == [at : {"idle", "active", "flow", "meta", "length", "body"}, left : 0 .. BodyWrites]

AtLength == [at |-> "length", left |-> 0, whole |-> TRUE, msg |-> "request"]
Idle     == [at |-> "idle", left |-> 0]

TypeOK ==
    /\ open       \in BOOLEAN
    /\ up         \in [Nodes -> BOOLEAN]
    /\ activeFile \in [Nodes -> BOOLEAN]
    /\ shutdown   \in [Nodes -> {"no", "stopped", "removed"}]
    /\ handlers   \in [Nodes -> 0 .. MaxRequests]
    /\ sending    \in [Nodes -> 0 .. MaxRequests]
    /\ answered   \in [Nodes -> 0 .. MaxRequests]
    /\ \A n \in Nodes : wire[n] \in Seq(Write) /\ Len(wire[n]) <= BufferCap
    /\ reader     \in [Nodes -> Reader]
    /\ \A n \in Nodes : rpcch[n] \in Seq(Message) /\ Len(rpcch[n]) <= QueueCap
    /\ rpc        \in [Nodes -> Rpc]
    /\ faults     \in 0 .. MaxFaults

\* A node may also be asked for a file that it no longer shares: the tracker's
\* listings outlive it.
Init ==
    /\ open       = TRUE
    /\ up         = [n \in Nodes |-> TRUE]
    /\ activeFile \in {f \in [Nodes -> BOOLEAN] : \A n \in Nodes : f[n] => n \in Seeders}
    /\ shutdown   = [n \in Nodes |-> "no"]
    /\ handlers   = [n \in Nodes |-> 0]
    /\ sending    = [n \in Nodes |-> 0]
    /\ answered   = [n \in Nodes |-> 0]
    /\ wire       = [n \in Nodes |-> <<>>]
    /\ reader     = [n \in Nodes |-> AtLength]
    /\ rpcch      = [n \in Nodes |-> <<>>]
    /\ rpc        = [n \in Nodes |-> Idle]
    /\ faults     = 0

Fault == faults < MaxFaults /\ faults' = faults + 1

\* One Write on the connection: it blocks while TCP holds all it can.
WriteTo(n, w) ==
    /\ open
    /\ Len(wire[n]) < BufferCap
    /\ wire' = [wire EXCEPT ![n] = Append(@, w)]

-----------------------------------------------------------------------------
(***************************************************************************)
(* The asking side.                                                         *)
(***************************************************************************)

\* A downloadChunk worker registers its handler, which nobody removes.
RegisterHandler(n) ==
    /\ up[n]
    /\ n \in Downloaders
    /\ handlers[n] < MaxRequests
    /\ handlers' = [handlers EXCEPT ![n] = @ + 1]
    /\ sending'  = [sending EXCEPT ![n] = @ + 1]
    /\ UNCHANGED <<open, up, fileVars, answered, wire, reader, rpcch, rpc, faults>>

\* The worker's peer.Send: length and payload in one write, or an error.
Send(n) ==
    /\ up[n]
    /\ sending[n] > 0
    /\ WriteTo(n, "request") \/ (~open /\ UNCHANGED wire)
    /\ sending' = [sending EXCEPT ![n] = @ - 1]
    /\ UNCHANGED <<open, up, fileVars, handlers, answered, reader, rpcch, rpc, faults>>

-----------------------------------------------------------------------------
(***************************************************************************)
(* handleConn.                                                              *)
(***************************************************************************)

\* What the reader makes of the next write w.  Inside an answer any bytes
\* count as its body; those of a request or of a length are far shorter than
\* a write of the body, and push its end over the end of the frame.
Decoded(r, w) ==
    CASE r.at = "length"  /\ w = "request" -> [r EXCEPT !.at = "forward", !.msg = "request"]
      [] r.at = "length"  /\ w = "length"  -> [r EXCEPT !.at = "payload", !.left = BodyWrites]
      [] r.at = "length"  /\ w = "body"    -> [r EXCEPT !.at = "lost"]
      [] r.at = "payload" /\ w # "body"    -> [r EXCEPT !.whole = FALSE]
      [] r.at = "payload" /\ w = "body"    ->
            IF r.left > 1 THEN [r EXCEPT !.left = @ - 1]
            ELSE [r EXCEPT !.at = "forward", !.left = 0,
                           !.msg = IF r.whole THEN "response" ELSE "garbage"]
      [] r.at = "lost" -> r

\* DefaultDecoder reads what it needs.  What was written before the other end
\* closed the connection may still arrive.
Decode(n) ==
    LET m == Other(n)
    IN  /\ up[n]
        /\ reader[n].at # "forward"
        /\ wire[m] # <<>>
        /\ reader' = [reader EXCEPT ![n] = Decoded(@, Head(wire[m]))]
        /\ wire' = [wire EXCEPT ![m] = Tail(@)]
        /\ UNCHANGED <<open, up, fileVars, workVars, answered, rpcch, rpc, faults>>

\* The reader after a message: at the next frame, or at the tail of the frame
\* that it mistook.
AfterMessage(r) == IF r.whole THEN AtLength ELSE [r EXCEPT !.at = "lost"]

\* Mutation: the message is offered again after it was taken.
ForwardAgain(n) ==
    /\ up[n]
    /\ reader[n].at = "forward"
    /\ Len(rpcch[n]) < QueueCap
    /\ rpcch' = [rpcch EXCEPT ![n] = Append(@, reader[n].msg)]
    /\ UNCHANGED <<open, up, fileVars, workVars, answered, wire, reader, rpc, faults>>

\* case t.rpcch <- rpc
Forward(n) ==
    /\ up[n]
    /\ reader[n].at = "forward"
    /\ Len(rpcch[n]) < QueueCap
    /\ rpcch'  = [rpcch EXCEPT ![n] = Append(@, reader[n].msg)]
    /\ reader' = [reader EXCEPT ![n] = AfterMessage(@)]
    /\ UNCHANGED <<open, up, fileVars, workVars, answered, wire, rpc, faults>>

\* Mutation: the reader waits for room, however long.
NeverDrop(n) == reader[n].at = "forward" /\ FALSE

\* case <-time.After(time.Second): the channel stayed full.
Drop(n) ==
    /\ up[n]
    /\ reader[n].at = "forward"
    /\ Len(rpcch[n]) = QueueCap
    /\ reader' = [reader EXCEPT ![n] = AfterMessage(@)]
    /\ UNCHANGED <<open, up, fileVars, workVars, answered, wire, rpcch, rpc, faults>>

\* Bytes of a body read as a length exceed the limit and end the connection;
\* if they do not, the reader takes what follows for a message (Decoded).
ReadBadLength(n) ==
    /\ up[n] /\ open
    /\ reader[n].at = "lost"
    /\ open' = FALSE
    /\ UNCHANGED <<up, fileVars, workVars, answered, wire, reader, rpcch, rpc, faults>>

-----------------------------------------------------------------------------
(***************************************************************************)
(* consumeRPCMessages.                                                      *)
(***************************************************************************)
At(n, at) == up[n] /\ rpc[n].at = at

\* The RPC loop of node n goes on at `at'; nothing else changes.
GoTo(n, at) ==
    /\ rpc' = [rpc EXCEPT ![n].at = at]
    /\ UNCHANGED <<open, up, fileVars, workVars, answered, wire, reader, rpcch, faults>>

\* handleRPCMessage: a request goes to handleChunkRequest, an answer to the
\* handlers, which never block; what cannot be decoded is logged.
Consume(n) ==
    LET msg == Head(rpcch[n])
    IN  /\ At(n, "idle")
        /\ rpcch[n] # <<>>
        /\ rpcch' = [rpcch EXCEPT ![n] = Tail(@)]
        /\ rpc' = [rpc EXCEPT ![n].at = IF msg = "request" THEN "active" ELSE "idle"]
        /\ answered' = [answered EXCEPT ![n] = IF msg = "response" THEN @ + 1 ELSE @]
        /\ UNCHANGED <<open, up, fileVars, workVars, wire, reader, faults>>

\* Mutation: no first look at activeFiles.
TrustRequest(n) == At(n, "active") /\ GoTo(n, "flow")

\* The first look at activeFiles.
CheckSeeding(n) ==
    /\ At(n, "active")
    /\ GoTo(n, IF activeFile[n] THEN "flow" ELSE "idle")

\* The flow control counts the handlers of this node's own requests.
CheckFlow(n) ==
    /\ At(n, "flow")
    /\ GoTo(n, IF handlers[n] >= MaxSends THEN "idle" ELSE "meta")

\* The second look at activeFiles finds the metadata; ReadChunk succeeds.
ReadChunk(n) ==
    /\ At(n, "meta")
    /\ activeFile[n]
    /\ GoTo(n, "length")

\* Mutation: the length is written before the chunk is read.
LateReadFails(n) ==
    /\ At(n, "meta")
    /\ activeFile[n]
    /\ WriteTo(n, "length")
    /\ rpc' = [rpc EXCEPT ![n] = Idle]
    /\ UNCHANGED <<open, up, fileVars, workVars, answered, reader, rpcch, faults>>

\* No such chunk, or three failed reads.  Nothing is sent.
ReadFails(n) ==
    /\ At(n, "meta")
    /\ activeFile[n]
    /\ GoTo(n, "idle")

\* The second look finds nothing: meta is nil and meta.NumChunks panics.
Panic(n) ==
    /\ At(n, "meta")
    /\ ~activeFile[n]
    /\ up' = [up EXCEPT ![n] = FALSE]
    /\ open' = FALSE
    /\ UNCHANGED <<fileVars, workVars, answered, wire, reader, rpcch, rpc, faults>>

\* Mutation: the loop over the chunk runs to <= len(chunkData), one write too many.
WriteLengthPast(n) ==
    /\ At(n, "length")
    /\ WriteTo(n, "length")
    /\ rpc' = [rpc EXCEPT ![n] = [at |-> "body", left |-> BodyWrites + 1]]
    /\ UNCHANGED <<open, up, fileVars, workVars, answered, reader, rpcch, faults>>

WriteLength(n) ==
    /\ At(n, "length")
    /\ WriteTo(n, "length")
    /\ rpc' = [rpc EXCEPT ![n] = [at |-> "body", left |-> BodyWrites]]
    /\ UNCHANGED <<open, up, fileVars, workVars, answered, reader, rpcch, faults>>

WriteBody(n) ==
    /\ At(n, "body")
    /\ WriteTo(n, "body")
    /\ rpc' = [rpc EXCEPT ![n] = IF @.left > 1 THEN [at |-> "body", left |-> @.left - 1]
                                ELSE Idle]
    /\ UNCHANGED <<open, up, fileVars, workVars, answered, reader, rpcch, faults>>

\* A write fails because the connection is closed, or, as a fault, on a write
\* deadline.  The handler returns; it does not close the connection.
WriteFails(n) ==
    /\ up[n]
    /\ rpc[n].at \in {"length", "body"}
    /\ IF open THEN Fault ELSE UNCHANGED faults
    /\ rpc' = [rpc EXCEPT ![n] = Idle]
    /\ UNCHANGED <<open, up, fileVars, workVars, answered, wire, reader, rpcch>>

-----------------------------------------------------------------------------
(***************************************************************************)
(* Shutdown: Cleanup on a signal, then os.Exit.                              *)
(***************************************************************************)
StopSeedingFile(n) ==
    /\ up[n]
    /\ activeFile[n]
    /\ n \in Leaving
    /\ shutdown[n] = "no"
    /\ activeFile' = [activeFile EXCEPT ![n] = FALSE]
    /\ shutdown' = [shutdown EXCEPT ![n] = "stopped"]
    /\ UNCHANGED <<open, up, workVars, answered, wire, reader, rpcch, rpc, faults>>

\* The post to /remove has ended.
PostRemove(n) ==
    /\ up[n]
    /\ shutdown[n] = "stopped"
    /\ shutdown' = [shutdown EXCEPT ![n] = "removed"]
    /\ UNCHANGED <<open, up, activeFile, workVars, answered, wire, reader, rpcch, rpc, faults>>

Exit(n) ==
    /\ up[n]
    /\ shutdown[n] = "removed"
    /\ up' = [up EXCEPT ![n] = FALSE]
    /\ open' = FALSE
    /\ UNCHANGED <<fileVars, workVars, answered, wire, reader, rpcch, rpc, faults>>

\* The connection breaks, or handleConn closes it when a read deadline passes:
\* the decoder wraps the error, so the branch that would retry is never taken.
CloseConn ==
    /\ Fault
    /\ open
    /\ open' = FALSE
    /\ UNCHANGED <<up, fileVars, workVars, answered, wire, reader, rpcch, rpc>>

-----------------------------------------------------------------------------
ReaderStep(n) == Decode(n) \/ Forward(n) \/ Drop(n)

RpcStep(n) ==
    \/ Consume(n) \/ CheckSeeding(n) \/ CheckFlow(n)
    \/ ReadChunk(n) \/ ReadFails(n) \/ Panic(n)
    \/ WriteLength(n) \/ WriteBody(n)

Next ==
    \/ \E n \in Nodes :
          \/ RegisterHandler(n) \/ Send(n)
          \/ ReaderStep(n) \/ ReadBadLength(n)
          \/ RpcStep(n) \/ WriteFails(n)
          \/ StopSeedingFile(n) \/ PostRemove(n) \/ Exit(n)
    \/ CloseConn

Spec == Init /\ [][Next]_vars

(***************************************************************************)
(* Goroutines are scheduled, and a write on a closed connection returns.    *)
(* Nobody has to ask, to shut down or to break the connection.              *)
(***************************************************************************)
Fairness ==
    \A n \in Nodes :
        /\ WF_vars(open /\ ReaderStep(n))
        /\ WF_vars(RpcStep(n))
        /\ WF_vars(~open /\ WriteFails(n))

FairSpec == Spec /\ Fairness

-----------------------------------------------------------------------------
(***************************************************************************)
(* Properties.                                                              *)
(***************************************************************************)
Count(s, x) == Cardinality({i \in 1 .. Len(s) : s[i] = x})
One(b)      == IF b THEN 1 ELSE 0

\* The requests of node n and their answers, wherever they are: on the wire,
\* in a reader's hands, in an RPC channel, in handleChunkRequest, delivered.
UnderWay(n) ==
    LET m == Other(n)
    IN    Count(wire[n], "request")
        + One(reader[m].at = "forward" /\ reader[m].msg = "request")
        + Count(rpcch[m], "request")
        + One(rpc[m].at \in {"active", "flow", "meta", "length"})
        + Count(wire[m], "length")
        + One(reader[n].at = "payload")
        + One(reader[n].at = "forward" /\ reader[n].msg = "response")
        + Count(rpcch[n], "response")
        + answered[n]

\* A request is answered at most once: whatever is dropped, refused or cut
\* off, a node never has more answers coming than requests it sent.
NoAnswerTwice ==
    \A n \in Nodes : UnderWay(n) <= handlers[n] - sending[n]

\* The frames a node decodes are the frames the other node meant: unless a
\* write failed half-way, no reader takes the bytes of one frame for another's.
\* ("Write in a single atomic operation to prevent partial writes")
FramesIntact ==
    faults = 0 => \A n \in Nodes : reader[n].at # "lost" /\ reader[n].whole

\* No request ends a process that is not shutting down, whatever file it asks
\* for: only Cleanup can come between the two looks at activeFiles, the second
\* of which is used without a check.
SeederSurvivesRequests ==
    [][\A n \in Nodes : up[n] /\ ~up'[n] => shutdown[n] # "no"]_vars

\* Two nodes that serve each other do not block each other for ever: the RPC
\* loop gets out of every request, though both may be stuck in a write with
\* full buffers, because a reader drops what its RPC channel cannot take.
RpcLoopReturns ==
    \A n \in Nodes :
        rpc[n].at # "idle" ~> rpc[n].at = "idle" \/ ~up[n]
=============================================================================
