--------------------------- MODULE ServingProofs ----------------------------
(***************************************************************************)
(* Proofs about Serving, for any limits, any number of requests, faults and *)
(* writes per answer.                                                       *)
(***************************************************************************)
EXTENDS Serving, SequenceTheorems, FiniteSetTheorems, TLAPS

(***************************************************************************)
(* The inductive invariant.                                                 *)
(***************************************************************************)
Typed ==
    /\ open       \in BOOLEAN
    /\ up         \in [Nodes -> BOOLEAN]
    /\ activeFile \in [Nodes -> BOOLEAN]
    /\ shutdown   \in [Nodes -> {"no", "stopped", "removed"}]
    /\ handlers   \in [Nodes -> Nat]
    /\ sending    \in [Nodes -> Nat]
    /\ answered   \in [Nodes -> Nat]
    /\ wire       \in [Nodes -> Seq(Write)]
    /\ reader     \in [Nodes -> Reader]
    /\ rpcch      \in [Nodes -> Seq(Message)]
    /\ rpc        \in [Nodes -> Rpc]
    /\ faults     \in Nat

Limits ==
    /\ \A n \in Nodes : /\ handlers[n] <= MaxRequests
                        /\ Len(wire[n]) <= BufferCap
                        /\ Len(rpcch[n]) <= QueueCap
    /\ faults <= MaxFaults

\* Only a downloader asks, and only a seeder gets as far as an answer.
RolesKept ==
    \A n \in Nodes :
        /\ activeFile[n] => n \in Seeders
        /\ sending[n] > 0 => n \in Downloaders
        /\ rpc[n].at \in {"flow", "meta", "length", "body"} => n \in Seeders

\* A request that passed the first look at activeFiles passes the second one
\* while nobody shuts the seeder down.
LooksAgree ==
    \A n \in Nodes :
        rpc[n].at \in {"flow", "meta"} /\ shutdown[n] = "no" => activeFile[n]

(***************************************************************************)
(* Where a stream of writes is within a frame: between two frames (0), or   *)
(* inside an answer with that many writes of its body to come.              *)
(***************************************************************************)
Place == 0 .. BodyWrites

ReaderAt(r) == IF r.at = "payload" THEN r.left ELSE 0
WriterAt(w) == IF w.at = "body" THEN w.left ELSE 0

\* Write w may come at place p, and leaves the stream at place q.
Follows(p, w, q) ==
    \/ p = 0 /\ w = "request" /\ q = 0
    \/ p = 0 /\ w = "length" /\ q = BodyWrites
    \/ p > 0 /\ w = "body" /\ q = p - 1

\* The writes s lead from one place to another.
Leads(s, from, to) ==
    \E ph \in [1 .. Len(s) + 1 -> Place] :
        /\ ph[1] = from
        /\ ph[Len(s) + 1] = to
        /\ \A i \in 1 .. Len(s) : Follows(ph[i], s[i], ph[i + 1])

InStep(r)     == /\ r.at # "lost" /\ r.whole
                 /\ r.at = "payload" => r.left > 0
HasToWrite(w) == w.at = "body" => w.left > 0

\* What is on the wire leads from the reader's place to the writer's; once the
\* connection is closed, the writer's is where the writes ended.
Stream(s, from, to, standing) ==
    \E end \in Place : Leads(s, from, end) /\ (standing => end = to)

Framed(n) ==
    /\ InStep(reader[n])
    /\ HasToWrite(rpc[n])
    /\ Stream(wire[n], ReaderAt(reader[Other(n)]), WriterAt(rpc[n]), open)

OneRole == Seeders \cap Downloaders = {}

FramesInv == OneRole /\ faults = 0 => \A n \in Nodes : Framed(n)

Inv ==
    /\ Typed
    /\ Limits
    /\ RolesKept
    /\ LooksAgree
    /\ NoAnswerTwice
    /\ FramesInv

-----------------------------------------------------------------------------
(***************************************************************************)
(* The two ends, and the writes and messages in a queue.                    *)
(***************************************************************************)

\* Each end is the other end of the other end.
LEMMA Ends ==
    \A n \in Nodes : /\ Other(n) \in Nodes /\ Other(n) # n
                     /\ Other(Other(n)) = n
                     /\ \A k \in Nodes : k = n \/ k = Other(n)
  <1>1. PICK a, b \in Nodes : a # b /\ Nodes = {a, b}
    BY NodesAssumption
  <1>2. \A n \in Nodes : Other(n) \in Nodes /\ Other(n) # n
    BY <1>1 DEF Other
  <1>3. QED
    BY <1>1, <1>2

\* What the assumptions say of the constants that are numbers.
LEMMA Bounds ==
    /\ BodyWrites \in Nat /\ BodyWrites > 0 /\ BufferCap \in Nat /\ QueueCap \in Nat
    /\ MaxRequests \in Nat /\ MaxFaults \in Nat
  BY LimitsAssumption

\* A queue holds finitely many of anything.
LEMMA CountType ==
    ASSUME NEW S, NEW s \in Seq(S), NEW x
    PROVE  /\ IsFiniteSet({i \in 1 .. Len(s) : s[i] = x})
           /\ Count(s, x) \in Nat
  <1> DEFINE I == {i \in 1 .. Len(s) : s[i] = x}
  <1>1. Len(s) \in Nat /\ 1 \in Int /\ Len(s) \in Int
    BY LenProperties
  <1>2. IsFiniteSet(1 .. Len(s))
    BY <1>1, FS_Interval
  <1>3. I \in SUBSET (1 .. Len(s))
    OBVIOUS
  <1>4. IsFiniteSet(I)
    BY <1>2, <1>3, FS_Subset
  <1>5. QED
    BY <1>4, FS_CardinalityType DEF Count

\* An empty queue holds nothing.
LEMMA CountEmpty == \A x : Count(<<>>, x) = 0
  <1>1. ASSUME NEW x
        PROVE  Count(<<>>, x) = 0
    <2>1. {i \in 1 .. Len(<<>>) : <<>>[i] = x} = {}
      BY EmptySeq
    <2>2. QED
      BY <2>1, FS_EmptySet DEF Count
  <1>2. QED
    BY <1>1

\* What enters at the end of a queue is counted.
LEMMA CountAppend ==
    ASSUME NEW S, NEW s \in Seq(S), NEW e \in S, NEW x
    PROVE  Count(Append(s, e), x) = Count(s, x) + One(e = x)
  <1> DEFINE t == Append(s, e)
             I == {i \in 1 .. Len(s) : s[i] = x}
             J == {i \in 1 .. Len(t) : t[i] = x}
             l == Len(s) + 1
  <1>1. /\ Len(t) = l /\ \A i \in 1 .. Len(s) : t[i] = s[i]
        /\ t[l] = e /\ Len(s) \in Nat
    BY AppendProperties, LenProperties
  <1>2. IsFiniteSet(I) /\ Count(s, x) \in Nat
    BY CountType
  <1>3. l \notin I
    BY <1>1
  <1>4. Count(s, x) = Cardinality(I) /\ Count(t, x) = Cardinality(J)
    BY DEF Count
  <1> HIDE DEF t
  <1>5. CASE e = x
    <2>1. J = I \cup {l}
      BY <1>1, <1>5
    <2>2. Cardinality(J) = Cardinality(I) + 1
      <3> HIDE DEF I, J, l
      <3>1. QED
        BY <1>2, <1>3, <2>1, FS_AddElement
    <2>3. One(e = x) = 1
      BY <1>5 DEF One
    <2> HIDE DEF I, J
    <2>4. QED
      BY <1>2, <1>4, <2>2, <2>3 DEF t
  <1>6. CASE e # x
    <2>1. J = I
      BY <1>1, <1>6
    <2>2. Cardinality(J) = Cardinality(I)
      BY <2>1
    <2>3. One(e = x) = 0
      BY <1>6 DEF One
    <2> HIDE DEF I, J
    <2>4. QED
      BY <1>2, <1>4, <2>2, <2>3 DEF t
  <1>7. QED
    BY <1>5, <1>6

\* What leaves at the head of a queue is no longer counted.
LEMMA CountTail ==
    ASSUME NEW S, NEW s \in Seq(S), s # <<>>, NEW x
    PROVE  Count(s, x) = Count(Tail(s), x) + One(Head(s) = x)
  <1> DEFINE t == Tail(s)
             I == {i \in 1 .. Len(s) : s[i] = x}
             J == {i \in 1 .. Len(t) : t[i] = x}
             f == [j \in J |-> j + 1]
  <1>1. /\ t \in Seq(S) /\ Len(t) = Len(s) - 1 /\ Len(t) \in Nat /\ Len(s) \in Nat
        /\ \A i \in 1 .. Len(t) : t[i] = s[i + 1]
        /\ Head(s) = s[1]
    BY HeadTailProperties, LenProperties
  <1>2. /\ IsFiniteSet(I) /\ IsFiniteSet(J)
        /\ Count(t, x) \in Nat /\ Count(s, x) \in Nat
    BY <1>1, CountType
  <1> HIDE DEF t
  <1>3. J \subseteq Int /\ 1 \in 1 .. Len(s)
    BY <1>1
  <1>4. \A j \in J : j + 1 \in I \ {1}
    BY <1>1
  <1>5. \A i \in I \ {1} : i - 1 \in J /\ (i - 1) + 1 = i
    BY <1>1
  <1>6. ExistsBijection(J, I \ {1})
    <2>1. f \in [J -> I \ {1}]
      BY <1>4
    <2>2. \A j, k \in J : f[j] = f[k] => j = k
      BY <1>3
    <2>3. \A i \in I \ {1} : \E j \in J : f[j] = i
      BY <1>5
    <2> HIDE DEF I, J, f
    <2>4. f \in Bijection(J, I \ {1})
      BY <2>1, <2>2, <2>3 DEF Bijection, Injection, IsInjective, Surjection
    <2>5. QED
      BY <2>4 DEF ExistsBijection
  <1>7. Cardinality(I \ {1}) = Cardinality(J)
    <2> HIDE DEF I, J
    <2>1. QED
      BY <1>2, <1>6, FS_Bijection
  <1>8. /\ Cardinality(I \ {1}) = IF 1 \in I THEN Cardinality(I) - 1 ELSE Cardinality(I)
        /\ 1 \in I <=> Head(s) = x
    <2>1. 1 \in I <=> Head(s) = x
      BY <1>1, <1>3
    <2> HIDE DEF I
    <2>2. QED
      BY <1>2, <2>1, FS_RemoveElement
  <1>9. Count(s, x) = Cardinality(I) /\ Count(t, x) = Cardinality(J)
    BY DEF Count
  <1> HIDE DEF I, J
  <1>10. QED
    BY <1>2, <1>7, <1>8, <1>9 DEF One, t

\* One counts a truth value.
LEMMA OneIs == \A b \in BOOLEAN : One(b) \in {0, 1} /\ (One(b) = 1 <=> b)
  BY DEF One

-----------------------------------------------------------------------------
(***************************************************************************)
(* Types.                                                                   *)
(***************************************************************************)

\* What the reader makes of a write, case by case.
LEMMA DecodedIs ==
    ASSUME NEW r \in Reader, NEW w \in Write, r.at # "forward"
    PROVE  LET q == Decoded(r, w)
           IN  /\ q \in Reader
               /\ r.at = "length" /\ w = "request" =>
                     q.at = "forward" /\ q.msg = "request" /\ q.whole = r.whole
               /\ r.at = "length" /\ w = "length" =>
                     q.at = "payload" /\ q.left = BodyWrites /\ q.whole = r.whole
               /\ r.at = "length" /\ w = "body" => q.at = "lost"
               /\ r.at = "payload" /\ w # "body" =>
                     q.at = "payload" /\ q.left = r.left /\ ~q.whole
               /\ r.at = "payload" /\ w = "body" /\ r.left > 1 =>
                     q.at = "payload" /\ q.left = r.left - 1 /\ q.whole = r.whole
               /\ r.at = "payload" /\ w = "body" /\ ~(r.left > 1) =>
                     /\ q.at = "forward" /\ q.whole = r.whole
                     /\ q.msg = IF r.whole THEN "response" ELSE "garbage"
               /\ r.at = "lost" => q.at = "lost"
  <1> DEFINE q == Decoded(r, w)
  <1>1. /\ r.at \in {"length", "payload", "lost"} /\ r.left \in 0 .. BodyWrites
        /\ r.whole \in BOOLEAN /\ w \in {"request", "length", "body"}
        /\ BodyWrites \in Nat
    BY Bounds DEF Reader, Write
  <1>2. CASE r.at = "length" /\ w = "request"
    <2>1. q = [r EXCEPT !.at = "forward", !.msg = "request"]
      BY <1>2 DEF Decoded
    <2>2. QED
      BY <1>2, <2>1 DEF Reader, Message
  <1>3. CASE r.at = "length" /\ w = "length"
    <2>1. q = [r EXCEPT !.at = "payload", !.left = BodyWrites]
      BY <1>3 DEF Decoded
    <2>2. BodyWrites \in 0 .. BodyWrites
      BY <1>1
    <2>3. q \in Reader /\ q.at = "payload" /\ q.left = BodyWrites /\ q.whole = r.whole
      BY <2>1, <2>2 DEF Reader
    <2> HIDE DEF q
    <2>4. QED
      BY <1>3, <2>3 DEF q
  <1>4. CASE r.at = "length" /\ w = "body"
    <2>1. q = [r EXCEPT !.at = "lost"]
      BY <1>4 DEF Decoded
    <2>2. QED
      BY <1>4, <2>1 DEF Reader, Message
  <1>5. CASE r.at = "payload" /\ w # "body"
    <2>1. q = [r EXCEPT !.whole = FALSE]
      BY <1>5 DEF Decoded
    <2>2. QED
      BY <1>5, <2>1 DEF Reader, Message
  <1>6. CASE r.at = "payload" /\ w = "body" /\ r.left > 1
    <2>1. q = [r EXCEPT !.left = r.left - 1]
      BY <1>6 DEF Decoded
    <2>2. r.left - 1 \in 0 .. BodyWrites
      BY <1>1, <1>6
    <2>3. QED
      BY <1>6, <2>1, <2>2 DEF Reader, Message
  <1>7. CASE r.at = "payload" /\ w = "body" /\ ~(r.left > 1)
    <2>1. q = [r EXCEPT !.at = "forward", !.left = 0,
                        !.msg = IF r.whole THEN "response" ELSE "garbage"]
      BY <1>7 DEF Decoded
    <2>2. 0 \in 0 .. BodyWrites
      BY <1>1
    <2>3. QED
      BY <1>7, <2>1, <2>2 DEF Reader, Message
  <1>8. CASE r.at = "lost"
    <2>1. q = r
      BY <1>1, <1>8 DEF Decoded
    <2>2. QED
      BY <1>8, <2>1
  <1>9. QED
    BY <1>1, <1>2, <1>3, <1>4, <1>5, <1>6, <1>7, <1>8

\* A reader that has passed a whole message on is between two frames.
LEMMA AfterMessageIs ==
    ASSUME NEW r \in Reader, r.at = "forward"
    PROVE  /\ AfterMessage(r) \in Reader
           /\ AfterMessage(r).at \in {"length", "lost"}
           /\ r.whole => AfterMessage(r) = AtLength
           /\ AtLength.at = "length" /\ AtLength.whole
  <1>1. AtLength \in Reader /\ AtLength.at = "length" /\ AtLength.whole
    BY Bounds DEF AtLength, Reader, Message
  <1>2. [r EXCEPT !.at = "lost"] \in Reader /\ [r EXCEPT !.at = "lost"].at = "lost"
    BY DEF Reader
  <1>3. r.whole \in BOOLEAN
    BY DEF Reader
  <1>4. CASE r.whole
    BY <1>1, <1>4 DEF AfterMessage
  <1>5. CASE ~r.whole
    BY <1>1, <1>2, <1>5 DEF AfterMessage
  <1>6. QED
    BY <1>3, <1>4, <1>5

\* What changes when the RPC loop goes on.
LEMMA GoToIs ==
    ASSUME Typed, NEW n \in Nodes, NEW at,
           at \in {"idle", "active", "flow", "meta", "length", "body"}
    PROVE  LET new == [rpc EXCEPT ![n].at = at]
           IN  /\ new \in [Nodes -> Rpc]
               /\ new[n].at = at /\ new[n].left = rpc[n].left
               /\ \A k \in Nodes : k # n => new[k] = rpc[k]
  BY DEF Typed, Rpc

\* The nodes that an action is about.
Step(n) ==
    \/ RegisterHandler(n) \/ Send(n)
    \/ ReaderStep(n) \/ ReadBadLength(n)
    \/ RpcStep(n) \/ WriteFails(n)
    \/ StopSeedingFile(n) \/ PostRemove(n) \/ Exit(n)

\* A write appends to one direction of an open connection with room in it.
LEMMA WriteToTyped ==
    ASSUME Typed, NEW n \in Nodes, NEW w \in Write, WriteTo(n, w)
    PROVE  /\ open /\ wire' \in [Nodes -> Seq(Write)]
           /\ wire'[n] = Append(wire[n], w)
           /\ Len(wire[n]) \in Nat /\ Len(wire[n]) < BufferCap
           /\ Len(wire'[n]) = Len(wire[n]) + 1
           /\ \A k \in Nodes : k # n => wire'[k] = wire[k]
  <1>1. /\ wire[n] \in Seq(Write) /\ open /\ Len(wire[n]) < BufferCap
        /\ wire' = [wire EXCEPT ![n] = Append(wire[n], w)]
    BY DEF Typed, WriteTo
  <1>2. /\ Append(wire[n], w) \in Seq(Write)
        /\ Len(Append(wire[n], w)) = Len(wire[n]) + 1 /\ Len(wire[n]) \in Nat
    BY <1>1, AppendProperties, LenProperties
  <1>3. QED
    BY <1>1, <1>2 DEF Typed

\* Decode moves one write of the other end from the wire into the reader.
LEMMA DecodeIs ==
    ASSUME Typed, NEW n \in Nodes, Decode(n)
    PROVE  LET m == Other(n)
           IN  /\ reader[n] \in Reader /\ reader[n].at # "forward"
               /\ wire[m] \in Seq(Write) /\ wire[m] # <<>> /\ Head(wire[m]) \in Write
               /\ reader' \in [Nodes -> Reader] /\ wire' \in [Nodes -> Seq(Write)]
               /\ reader'[n] = Decoded(reader[n], Head(wire[m]))
               /\ wire'[m] = Tail(wire[m]) /\ wire'[n] = wire[n] /\ reader'[m] = reader[m]
               /\ Len(wire'[m]) = Len(wire[m]) - 1 /\ Len(wire[m]) \in Nat
               /\ m \in Nodes /\ m # n
               /\ UNCHANGED <<open, up, activeFile, shutdown, handlers, sending, answered,
                              rpcch, rpc, faults>>
  <1> DEFINE m == Other(n)
  <1>1. m \in Nodes /\ m # n
    BY Ends
  <1>2. /\ reader[n].at # "forward" /\ wire[m] # <<>>
        /\ reader' = [reader EXCEPT ![n] = Decoded(reader[n], Head(wire[m]))]
        /\ wire' = [wire EXCEPT ![m] = Tail(wire[m])]
        /\ UNCHANGED <<open, up, activeFile, shutdown, handlers, sending, answered,
                       rpcch, rpc, faults>>
    BY DEF Decode, fileVars, workVars
  <1>3. reader[n] \in Reader /\ wire[m] \in Seq(Write)
    BY <1>1 DEF Typed
  <1>4. /\ Head(wire[m]) \in Write /\ Tail(wire[m]) \in Seq(Write)
        /\ Len(Tail(wire[m])) = Len(wire[m]) - 1 /\ Len(wire[m]) \in Nat
    BY <1>2, <1>3, HeadTailProperties, LenProperties
  <1>5. Decoded(reader[n], Head(wire[m])) \in Reader
    BY <1>2, <1>3, <1>4, DecodedIs
  <1> HIDE DEF m
  <1>6. QED
    BY <1>1, <1>2, <1>3, <1>4, <1>5 DEF Typed, m

\* A message leaves the reader and enters the RPC channel, or is dropped.
LEMMA ForwardIs ==
    ASSUME Typed, NEW n \in Nodes, Forward(n) \/ Drop(n)
    PROVE  /\ reader[n] \in Reader /\ reader[n].at = "forward"
           /\ reader[n].msg \in Message /\ rpcch[n] \in Seq(Message)
           /\ reader' \in [Nodes -> Reader] /\ rpcch' \in [Nodes -> Seq(Message)]
           /\ reader'[n] = AfterMessage(reader[n])
           /\ \/ rpcch'[n] = rpcch[n]
              \/ /\ rpcch'[n] = Append(rpcch[n], reader[n].msg)
                 /\ Len(rpcch[n]) < QueueCap
           /\ \A k \in Nodes : k # n => reader'[k] = reader[k] /\ rpcch'[k] = rpcch[k]
           /\ UNCHANGED <<open, up, activeFile, shutdown, handlers, sending, answered,
                          wire, rpc, faults>>
  <1>1. /\ reader[n] \in Reader /\ reader[n].at = "forward" /\ reader[n].msg \in Message
        /\ rpcch[n] \in Seq(Message)
    BY DEF Typed, Forward, Drop, Reader
  <1>2. AfterMessage(reader[n]) \in Reader
    BY <1>1, AfterMessageIs
  <1>3. Append(rpcch[n], reader[n].msg) \in Seq(Message)
    BY <1>1, AppendProperties
  <1>4. /\ reader' = [reader EXCEPT ![n] = AfterMessage(reader[n])]
        /\ UNCHANGED <<open, up, activeFile, shutdown, handlers, sending, answered,
                       wire, rpc, faults>>
        /\ \/ rpcch' = rpcch
           \/ /\ rpcch' = [rpcch EXCEPT ![n] = Append(rpcch[n], reader[n].msg)]
              /\ Len(rpcch[n]) < QueueCap
    BY DEF Forward, Drop, fileVars, workVars
  <1>5. QED
    BY <1>1, <1>2, <1>3, <1>4 DEF Typed

\* The RPC loop takes one message: a request to handle or an answer to count.
LEMMA ConsumeIs ==
    ASSUME Typed, NEW n \in Nodes, Consume(n)
    PROVE  LET msg == Head(rpcch[n])
           IN  /\ rpcch[n] \in Seq(Message) /\ rpcch[n] # <<>> /\ msg \in Message
               /\ rpc[n].at = "idle"
               /\ rpcch' \in [Nodes -> Seq(Message)] /\ rpcch'[n] = Tail(rpcch[n])
               /\ Len(rpcch'[n]) = Len(rpcch[n]) - 1 /\ Len(rpcch[n]) \in Nat
               /\ rpc' \in [Nodes -> Rpc] /\ answered' \in [Nodes -> Nat]
               /\ rpc'[n].at = IF msg = "request" THEN "active" ELSE "idle"
               /\ answered'[n] = IF msg = "response" THEN answered[n] + 1 ELSE answered[n]
               /\ \A k \in Nodes : k # n => /\ rpcch'[k] = rpcch[k] /\ rpc'[k] = rpc[k]
                                            /\ answered'[k] = answered[k]
               /\ UNCHANGED <<open, up, activeFile, shutdown, handlers, sending, wire,
                              reader, faults>>
  <1> DEFINE msg == Head(rpcch[n])
             to  == IF msg = "request" THEN "active" ELSE "idle"
             sum == IF msg = "response" THEN answered[n] + 1 ELSE answered[n]
  <1>1. /\ rpcch[n] # <<>> /\ rpc[n].at = "idle"
        /\ rpcch' = [rpcch EXCEPT ![n] = Tail(rpcch[n])]
        /\ rpc' = [rpc EXCEPT ![n].at = to]
        /\ answered' = [answered EXCEPT ![n] = sum]
        /\ UNCHANGED <<open, up, activeFile, shutdown, handlers, sending, wire,
                       reader, faults>>
    BY DEF Consume, At, fileVars, workVars
  <1>2. rpcch[n] \in Seq(Message) /\ answered[n] \in Nat
    BY DEF Typed
  <1>3. /\ msg \in Message /\ Tail(rpcch[n]) \in Seq(Message)
        /\ Len(Tail(rpcch[n])) = Len(rpcch[n]) - 1 /\ Len(rpcch[n]) \in Nat
    BY <1>1, <1>2, HeadTailProperties, LenProperties
  <1>4. to \in {"idle", "active"} /\ sum \in Nat
    BY <1>2
  <1> HIDE DEF to, sum
  <1>5. /\ rpc' \in [Nodes -> Rpc] /\ rpc'[n].at = to
        /\ \A k \in Nodes : k # n => rpc'[k] = rpc[k]
    BY <1>1, <1>4 DEF Typed, Rpc
  <1>6. /\ answered' \in [Nodes -> Nat] /\ answered'[n] = sum
        /\ \A k \in Nodes : k # n => answered'[k] = answered[k]
    BY <1>1, <1>4 DEF Typed
  <1>7. /\ rpcch' \in [Nodes -> Seq(Message)] /\ rpcch'[n] = Tail(rpcch[n])
        /\ \A k \in Nodes : k # n => rpcch'[k] = rpcch[k]
    BY <1>1, <1>3 DEF Typed
  <1>8. QED
    BY <1>1, <1>2, <1>3, <1>5, <1>6, <1>7 DEF to, sum

\* The checks of handleChunkRequest.
LEMMA ChecksAre ==
    ASSUME Typed, NEW n \in Nodes,
           CheckSeeding(n) \/ CheckFlow(n) \/ ReadChunk(n) \/ ReadFails(n)
    PROVE  /\ rpc[n].at \in {"active", "flow", "meta"}
           /\ rpc' \in [Nodes -> Rpc]
           /\ rpc'[n].at \in {"idle", "flow", "meta", "length"}
           /\ rpc'[n].at \in {"flow", "length"} => activeFile[n]
           /\ rpc'[n].at = "meta" => rpc[n].at = "flow"
           /\ \A k \in Nodes : k # n => rpc'[k] = rpc[k]
           /\ UNCHANGED <<open, up, activeFile, shutdown, handlers, sending, answered,
                          wire, reader, rpcch, faults>>
  <1>1. PICK to : /\ to \in {"idle", "flow", "meta", "length"} /\ GoTo(n, to)
                  /\ to \in {"flow", "length"} => activeFile[n]
                  /\ to = "meta" => rpc[n].at = "flow"
                  /\ rpc[n].at \in {"active", "flow", "meta"}
    <2>1. CASE CheckSeeding(n)
      <3>1. CASE activeFile[n]
        <4>1. GoTo(n, "flow") /\ rpc[n].at = "active"
          BY <2>1, <3>1 DEF CheckSeeding, At
        <4>2. QED
          BY <3>1, <4>1
      <3>2. CASE ~activeFile[n]
        <4>1. GoTo(n, "idle") /\ rpc[n].at = "active"
          BY <2>1, <3>2 DEF CheckSeeding, At
        <4>2. QED
          BY <4>1
      <3>3. QED
        BY <3>1, <3>2
    <2>2. CASE CheckFlow(n)
      <3>1. rpc[n].at = "flow" /\ (GoTo(n, "idle") \/ GoTo(n, "meta"))
        BY <2>2 DEF CheckFlow, At
      <3>2. QED
        BY <3>1
    <2>3. CASE ReadChunk(n) \/ ReadFails(n)
      <3>1. rpc[n].at = "meta" /\ activeFile[n] /\ (GoTo(n, "length") \/ GoTo(n, "idle"))
        BY <2>3 DEF ReadChunk, ReadFails, At
      <3>2. QED
        BY <3>1
    <2>4. QED
      BY <2>1, <2>2, <2>3
  <1>2. /\ rpc' = [rpc EXCEPT ![n].at = to]
        /\ UNCHANGED <<open, up, activeFile, shutdown, handlers, sending, answered,
                       wire, reader, rpcch, faults>>
    BY <1>1 DEF GoTo, fileVars, workVars
  <1>3. /\ rpc' \in [Nodes -> Rpc] /\ rpc'[n].at = to
        /\ \A k \in Nodes : k # n => rpc'[k] = rpc[k]
    BY <1>1, <1>2 DEF Typed, Rpc
  <1>4. QED
    BY <1>1, <1>2, <1>3

\* The writes of handleChunkRequest.
LEMMA WriteLengthIs ==
    ASSUME Typed, NEW n \in Nodes, WriteLength(n)
    PROVE  /\ rpc[n].at = "length" /\ WriteTo(n, "length")
           /\ rpc' \in [Nodes -> Rpc]
           /\ rpc'[n].at = "body" /\ rpc'[n].left = BodyWrites
           /\ \A k \in Nodes : k # n => rpc'[k] = rpc[k]
           /\ UNCHANGED <<open, up, activeFile, shutdown, handlers, sending, answered,
                          reader, rpcch, faults>>
  <1>1. /\ rpc[n].at = "length" /\ WriteTo(n, "length")
        /\ rpc' = [rpc EXCEPT ![n] = [at |-> "body", left |-> BodyWrites]]
        /\ UNCHANGED <<open, up, activeFile, shutdown, handlers, sending, answered,
                       reader, rpcch, faults>>
    BY DEF WriteLength, At, fileVars, workVars
  <1>2. [at |-> "body", left |-> BodyWrites] \in Rpc
    BY Bounds DEF Rpc
  <1>3. QED
    BY <1>1, <1>2 DEF Typed

\* A write of the body leaves one less to do.
LEMMA WriteBodyIs ==
    ASSUME Typed, NEW n \in Nodes, WriteBody(n)
    PROVE  /\ rpc[n].at = "body" /\ WriteTo(n, "body") /\ rpc[n].left \in 0 .. BodyWrites
           /\ rpc' \in [Nodes -> Rpc]
           /\ rpc[n].left > 1 => rpc'[n].at = "body" /\ rpc'[n].left = rpc[n].left - 1
           /\ ~(rpc[n].left > 1) => rpc'[n].at = "idle"
           /\ \A k \in Nodes : k # n => rpc'[k] = rpc[k]
           /\ UNCHANGED <<open, up, activeFile, shutdown, handlers, sending, answered,
                          reader, rpcch, faults>>
  <1> DEFINE new == IF rpc[n].left > 1 THEN [at |-> "body", left |-> rpc[n].left - 1]
                    ELSE Idle
  <1>1. /\ rpc[n].at = "body" /\ WriteTo(n, "body")
        /\ rpc' = [rpc EXCEPT ![n] = new]
        /\ UNCHANGED <<open, up, activeFile, shutdown, handlers, sending, answered,
                       reader, rpcch, faults>>
    BY DEF WriteBody, At, fileVars, workVars
  <1>2. rpc[n] \in Rpc /\ rpc[n].left \in 0 .. BodyWrites /\ BodyWrites \in Nat
    BY Bounds DEF Typed, Rpc
  <1>3. CASE rpc[n].left > 1
    <2>1. rpc[n].left - 1 \in 0 .. BodyWrites
      BY <1>2, <1>3
    <2>2. new \in Rpc /\ new.at = "body" /\ new.left = rpc[n].left - 1
      BY <1>1, <1>2, <1>3, <2>1 DEF Rpc
    <2> HIDE DEF new
    <2>3. QED
      BY <1>1, <1>2, <1>3, <2>2 DEF Typed
  <1>4. CASE ~(rpc[n].left > 1)
    <2>1. new \in Rpc /\ new.at = "idle"
      BY <1>2, <1>4 DEF Idle, Rpc
    <2> HIDE DEF new
    <2>2. QED
      BY <1>1, <1>2, <1>4, <2>1 DEF Typed
  <1>5. QED
    BY <1>3, <1>4

\* A write that fails ends the answer.
LEMMA WriteFailsIs ==
    ASSUME Typed, NEW n \in Nodes, WriteFails(n)
    PROVE  /\ rpc' \in [Nodes -> Rpc] /\ rpc'[n].at = "idle"
           /\ rpc[n].at \in {"length", "body"}
           /\ \A k \in Nodes : k # n => rpc'[k] = rpc[k]
           /\ \/ open /\ faults < MaxFaults /\ faults' = faults + 1
              \/ ~open /\ faults' = faults
           /\ UNCHANGED <<open, up, activeFile, shutdown, handlers, sending, answered,
                          wire, reader, rpcch>>
  <1>1. Idle \in Rpc /\ Idle.at = "idle"
    BY Bounds DEF Idle, Rpc
  <1>2. /\ rpc' = [rpc EXCEPT ![n] = Idle] /\ rpc[n].at \in {"length", "body"}
        /\ UNCHANGED <<open, up, activeFile, shutdown, handlers, sending, answered,
                       wire, reader, rpcch>>
    BY DEF WriteFails, fileVars, workVars
  <1>3. \/ open /\ faults < MaxFaults /\ faults' = faults + 1
        \/ ~open /\ faults' = faults
    BY Zenon DEF WriteFails, Fault
  <1>4. QED
    BY <1>1, <1>2, <1>3 DEF Typed

\* What neither asks, answers nor reads.
Aside(n) == ReadBadLength(n) \/ Panic(n) \/ StopSeedingFile(n) \/ PostRemove(n) \/ Exit(n)

\* Shutdown, a panic and a length that is refused touch no message.
LEMMA AsideIs ==
    ASSUME Typed, NEW n \in Nodes, Aside(n)
    PROVE  /\ up' \in [Nodes -> BOOLEAN] /\ activeFile' \in [Nodes -> BOOLEAN]
           /\ shutdown' \in [Nodes -> {"no", "stopped", "removed"}]
           /\ open' \in BOOLEAN /\ (open' => open)
           /\ \A k \in Nodes :
                 \/ activeFile'[k] = activeFile[k] /\ (shutdown'[k] = "no" => shutdown[k] = "no")
                 \/ ~activeFile'[k] /\ shutdown'[k] = "stopped"
           /\ UNCHANGED <<handlers, sending, answered, wire, reader, rpcch, rpc, faults>>
  <1>1. CASE ReadBadLength(n)
    BY <1>1 DEF ReadBadLength, Typed, fileVars, workVars
  <1>2. CASE Panic(n)
    BY <1>2 DEF Panic, Typed, fileVars, workVars
  <1>3. CASE StopSeedingFile(n)
    BY <1>3 DEF StopSeedingFile, Typed, workVars
  <1>4. CASE PostRemove(n)
    BY <1>4 DEF PostRemove, Typed, workVars
  <1>5. CASE Exit(n)
    BY <1>5 DEF Exit, Typed, fileVars, workVars
  <1>6. QED
    BY <1>1, <1>2, <1>3, <1>4, <1>5 DEF Aside

\* A worker registers its handler and then sends, or the connection is gone.
LEMMA AsksAre ==
    ASSUME Typed, NEW n \in Nodes
    PROVE  /\ RegisterHandler(n) =>
                 /\ n \in Downloaders /\ handlers[n] < MaxRequests
                 /\ handlers' = [handlers EXCEPT ![n] = handlers[n] + 1]
                 /\ sending' = [sending EXCEPT ![n] = sending[n] + 1]
                 /\ UNCHANGED <<open, up, activeFile, shutdown, answered, wire, reader,
                                rpcch, rpc, faults>>
           /\ Send(n) =>
                 /\ sending[n] > 0
                 /\ WriteTo(n, "request") \/ (~open /\ wire' = wire)
                 /\ sending' = [sending EXCEPT ![n] = sending[n] - 1]
                 /\ UNCHANGED <<open, up, activeFile, shutdown, handlers, answered, reader,
                                rpcch, rpc, faults>>
  BY DEF RegisterHandler, Send, fileVars, workVars

\* The cases of a step, as the lemmas above describe them.
LEMMA StepCases ==
    ASSUME NEW n \in Nodes, Step(n)
    PROVE  \/ RegisterHandler(n) \/ Send(n)
           \/ Decode(n) \/ (Forward(n) \/ Drop(n)) \/ Consume(n)
           \/ (CheckSeeding(n) \/ CheckFlow(n) \/ ReadChunk(n) \/ ReadFails(n))
           \/ WriteLength(n) \/ WriteBody(n) \/ WriteFails(n)
           \/ Aside(n)
  BY Zenon DEF Step, ReaderStep, RpcStep, Aside

\* A broken connection is a fault.
LEMMA CloseConnIs ==
    ASSUME CloseConn
    PROVE  /\ open' = FALSE /\ faults < MaxFaults /\ faults' = faults + 1
           /\ UNCHANGED <<up, activeFile, shutdown, handlers, sending, answered, wire, reader,
                          rpcch, rpc>>
  BY DEF CloseConn, Fault, fileVars, workVars

\* A step of a node keeps the types.
LEMMA StepTyped ==
    ASSUME Typed, NEW n \in Nodes, Step(n)
    PROVE  Typed'
  <1>1. CASE RegisterHandler(n)
    <2>1. /\ handlers' = [handlers EXCEPT ![n] = handlers[n] + 1]
          /\ sending' = [sending EXCEPT ![n] = sending[n] + 1]
          /\ UNCHANGED <<open, up, activeFile, shutdown, answered, wire, reader,
                         rpcch, rpc, faults>>
      BY <1>1, AsksAre
    <2>2. QED
      BY <2>1 DEF Typed
  <1>2. CASE Send(n)
    <2>1. /\ sending[n] \in Nat /\ sending[n] - 1 \in Nat
          /\ sending' = [sending EXCEPT ![n] = sending[n] - 1]
          /\ WriteTo(n, "request") \/ (~open /\ wire' = wire)
          /\ UNCHANGED <<open, up, activeFile, shutdown, handlers, answered, reader,
                         rpcch, rpc, faults>>
      BY <1>2, AsksAre DEF Typed
    <2>2. "request" \in Write
      BY DEF Write
    <2>3. wire' \in [Nodes -> Seq(Write)]
      BY <2>1, <2>2, WriteToTyped DEF Typed
    <2>4. QED
      BY <2>1, <2>3 DEF Typed
  <1>3. CASE Decode(n)
    BY <1>3, DecodeIs DEF Typed
  <1>4. CASE Forward(n) \/ Drop(n)
    BY <1>4, ForwardIs DEF Typed
  <1>5. CASE Consume(n)
    BY <1>5, ConsumeIs DEF Typed
  <1>6. CASE CheckSeeding(n) \/ CheckFlow(n) \/ ReadChunk(n) \/ ReadFails(n)
    BY <1>6, ChecksAre DEF Typed
  <1>7. CASE WriteLength(n)
    <2>1. "length" \in Write
      BY DEF Write
    <2>2. wire' \in [Nodes -> Seq(Write)]
      BY <1>7, <2>1, WriteLengthIs, WriteToTyped
    <2>3. QED
      BY <1>7, <2>2, WriteLengthIs DEF Typed
  <1>8. CASE WriteBody(n)
    <2>1. "body" \in Write
      BY DEF Write
    <2>2. wire' \in [Nodes -> Seq(Write)]
      BY <1>8, <2>1, WriteBodyIs, WriteToTyped
    <2>3. QED
      BY <1>8, <2>2, WriteBodyIs DEF Typed
  <1>9. CASE WriteFails(n)
    <2>1. faults' = faults \/ faults' = faults + 1
      BY <1>9, WriteFailsIs
    <2>2. faults' \in Nat
      BY <2>1 DEF Typed
    <2>3. QED
      BY <1>9, <2>2, WriteFailsIs DEF Typed
  <1>10. CASE Aside(n)
    BY <1>10, AsideIs DEF Typed
  <1>11. QED
    BY <1>1, <1>2, <1>3, <1>4, <1>5, <1>6, <1>7, <1>8, <1>9, <1>10, StepCases

\* A write keeps within the buffer of the connection.
LEMMA WriteToLimits ==
    ASSUME Typed, Limits, NEW n \in Nodes, NEW w \in Write, WriteTo(n, w)
    PROVE  \A k \in Nodes : Len(wire'[k]) <= BufferCap
  <1>1. /\ Len(wire[n]) \in Nat /\ Len(wire[n]) < BufferCap
        /\ Len(wire'[n]) = Len(wire[n]) + 1
        /\ \A k \in Nodes : k # n => wire'[k] = wire[k]
    BY WriteToTyped
  <1>2. Len(wire'[n]) <= BufferCap
    BY <1>1, Bounds
  <1>3. QED
    BY <1>1, <1>2 DEF Limits

\* A step of a node keeps within the bounds of queues and requests.
LEMMA StepLimits ==
    ASSUME Typed, Limits, NEW n \in Nodes, Step(n)
    PROVE  Limits'
  <1>1. \A k \in Nodes : k = n \/ k = Other(n)
    BY Ends
  <1>2. CASE RegisterHandler(n)
    <2>1. \A k \in Nodes : handlers'[k] <= MaxRequests
      <3>1. /\ handlers' = [handlers EXCEPT ![n] = handlers[n] + 1]
            /\ handlers[n] < MaxRequests
        BY <1>2, AsksAre
      <3>2. QED
        BY <3>1, Bounds DEF Typed, Limits
    <2>2. QED
      BY <1>2, <2>1, AsksAre DEF Limits
  <1>3. CASE Send(n)
    <2>1. WriteTo(n, "request") \/ wire' = wire
      BY <1>3, AsksAre
    <2>2. "request" \in Write
      BY DEF Write
    <2>3. \A k \in Nodes : Len(wire'[k]) <= BufferCap
      BY <2>1, <2>2, WriteToLimits DEF Limits
    <2>4. QED
      BY <1>3, <2>3, AsksAre DEF Limits
  <1>4. CASE Decode(n)
    <2>1. \A k \in Nodes : Len(wire'[k]) <= BufferCap
      <3> DEFINE m == Other(n)
      <3>1. /\ m \in Nodes /\ wire'[n] = wire[n]
            /\ Len(wire'[m]) = Len(wire[m]) - 1 /\ Len(wire[m]) \in Nat
        BY <1>4, DecodeIs
      <3> HIDE DEF m
      <3>2. Len(wire'[m]) <= BufferCap
        BY <3>1, Bounds DEF Limits
      <3>3. QED
        BY <1>1, <3>1, <3>2 DEF Limits, m
    <2>2. QED
      BY <1>4, <2>1, DecodeIs DEF Limits
  <1>5. CASE Forward(n) \/ Drop(n)
    <2>1. \A k \in Nodes : Len(rpcch'[k]) <= QueueCap
      <3>1. \A k \in Nodes : k # n => Len(rpcch'[k]) <= QueueCap
        BY <1>5, ForwardIs DEF Limits
      <3>2. CASE rpcch'[n] = rpcch[n]
        BY <3>1, <3>2 DEF Limits
      <3>3. CASE rpcch'[n] = Append(rpcch[n], reader[n].msg) /\ Len(rpcch[n]) < QueueCap
        <4>1. rpcch[n] \in Seq(Message) /\ reader[n].msg \in Message
          BY <1>5, ForwardIs
        <4>2. Len(rpcch'[n]) = Len(rpcch[n]) + 1 /\ Len(rpcch[n]) \in Nat
          BY <3>3, <4>1, AppendProperties, LenProperties
        <4>3. QED
          BY <3>1, <3>3, <4>2, Bounds
      <3>4. QED
        BY <1>5, <3>2, <3>3, ForwardIs
    <2>2. QED
      BY <1>5, <2>1, ForwardIs DEF Limits
  <1>6. CASE Consume(n)
    <2>1. \A k \in Nodes : Len(rpcch'[k]) <= QueueCap
      <3>1. /\ Len(rpcch'[n]) = Len(rpcch[n]) - 1 /\ Len(rpcch[n]) \in Nat
            /\ \A k \in Nodes : k # n => rpcch'[k] = rpcch[k]
        BY <1>6, ConsumeIs
      <3>2. Len(rpcch'[n]) <= QueueCap
        BY <3>1, Bounds DEF Limits
      <3>3. QED
        BY <3>1, <3>2 DEF Limits
    <2>2. QED
      BY <1>6, <2>1, ConsumeIs DEF Limits
  <1>7. CASE CheckSeeding(n) \/ CheckFlow(n) \/ ReadChunk(n) \/ ReadFails(n)
    BY <1>7, ChecksAre DEF Limits
  <1>8. CASE WriteLength(n)
    <2>1. "length" \in Write
      BY DEF Write
    <2>2. \A k \in Nodes : Len(wire'[k]) <= BufferCap
      BY <1>8, <2>1, WriteLengthIs, WriteToLimits
    <2>3. QED
      BY <1>8, <2>2, WriteLengthIs DEF Limits
  <1>9. CASE WriteBody(n)
    <2>1. "body" \in Write
      BY DEF Write
    <2>2. \A k \in Nodes : Len(wire'[k]) <= BufferCap
      BY <1>9, <2>1, WriteBodyIs, WriteToLimits
    <2>3. QED
      BY <1>9, <2>2, WriteBodyIs DEF Limits
  <1>10. CASE WriteFails(n)
    <2>1. faults' \in {faults, faults + 1} /\ (faults < MaxFaults \/ faults' = faults)
      BY <1>10, WriteFailsIs
    <2>2. faults' <= MaxFaults
      BY <2>1, Bounds DEF Typed, Limits
    <2>3. QED
      BY <1>10, <2>2, WriteFailsIs DEF Limits
  <1>11. CASE Aside(n)
    BY <1>11, AsideIs DEF Limits
  <1>12. QED
    BY <1>2, <1>3, <1>4, <1>5, <1>6, <1>7, <1>8, <1>9, <1>10, <1>11, StepCases

-----------------------------------------------------------------------------
(***************************************************************************)
(* Who does what, and the two looks at activeFiles.                         *)
(***************************************************************************)
LEMMA StepRoles ==
    ASSUME Typed, RolesKept, LooksAgree, NEW n \in Nodes, Step(n)
    PROVE  RolesKept' /\ LooksAgree'
  <1>1. CASE RegisterHandler(n)
    BY <1>1, AsksAre DEF Typed, RolesKept, LooksAgree
  <1>2. CASE Send(n)
    BY <1>2, AsksAre DEF Typed, RolesKept, LooksAgree
  <1>3. CASE Decode(n)
    BY <1>3, DecodeIs DEF RolesKept, LooksAgree
  <1>4. CASE Forward(n) \/ Drop(n)
    BY <1>4, ForwardIs DEF RolesKept, LooksAgree
  <1>5. CASE Consume(n)
    <2>1. rpc'[n].at \in {"active", "idle"}
      BY <1>5, ConsumeIs
    <2>2. QED
      BY <1>5, <2>1, ConsumeIs DEF RolesKept, LooksAgree
  <1>6. CASE CheckSeeding(n) \/ CheckFlow(n) \/ ReadChunk(n) \/ ReadFails(n)
    BY <1>6, ChecksAre DEF RolesKept, LooksAgree
  <1>7. CASE WriteLength(n)
    BY <1>7, WriteLengthIs DEF RolesKept, LooksAgree
  <1>8. CASE WriteBody(n)
    <2>1. rpc'[n].at \in {"body", "idle"} /\ rpc[n].at = "body"
      BY <1>8, WriteBodyIs
    <2>2. QED
      BY <1>8, <2>1, WriteBodyIs DEF RolesKept, LooksAgree
  <1>9. CASE WriteFails(n)
    BY <1>9, WriteFailsIs DEF RolesKept, LooksAgree
  <1>10. CASE Aside(n)
    BY <1>10, AsideIs DEF RolesKept, LooksAgree
  <1>11. QED
    BY <1>1, <1>2, <1>3, <1>4, <1>5, <1>6, <1>7, <1>8, <1>9, <1>10, StepCases

-----------------------------------------------------------------------------
(***************************************************************************)
(* Answers.  UnderWay is a sum of what is on the asking node's side and of  *)
(* what is on the answering node's side.                                    *)
(***************************************************************************)
Payload(n)  == One(reader[n].at = "payload")
Holds(n, m) == One(reader[n].at = "forward" /\ reader[n].msg = m)
Handles(n)  == One(rpc[n].at \in {"active", "flow", "meta", "length"})

Asked(n) ==
    Count(wire[n], "request") + Payload(n) + Holds(n, "response")
    + Count(rpcch[n], "response") + answered[n]

Served(n) ==
    Holds(n, "request") + Count(rpcch[n], "request") + Handles(n) + Count(wire[n], "length")

\* Every place where a request or an answer may be holds a number of them.
LEMMA Summands ==
    Typed => \A n \in Nodes :
        /\ \A x : Count(wire[n], x) \in Nat /\ Count(rpcch[n], x) \in Nat
        /\ Payload(n) \in Nat /\ Handles(n) \in Nat /\ \A m : Holds(n, m) \in Nat
        /\ answered[n] \in Nat /\ handlers[n] \in Nat /\ sending[n] \in Nat
  <1> SUFFICES ASSUME Typed, NEW n \in Nodes
               PROVE  /\ \A x : Count(wire[n], x) \in Nat /\ Count(rpcch[n], x) \in Nat
                      /\ Payload(n) \in Nat /\ Handles(n) \in Nat
                      /\ \A m : Holds(n, m) \in Nat
                      /\ answered[n] \in Nat /\ handlers[n] \in Nat /\ sending[n] \in Nat
    OBVIOUS
  <1>1. wire[n] \in Seq(Write) /\ rpcch[n] \in Seq(Message)
    BY DEF Typed
  <1>2. \A x : Count(wire[n], x) \in Nat /\ Count(rpcch[n], x) \in Nat
    BY <1>1, CountType
  <1>3. Payload(n) \in Nat /\ Handles(n) \in Nat /\ \A m : Holds(n, m) \in Nat
    BY DEF Payload, Handles, Holds, One
  <1>4. QED
    BY <1>2, <1>3 DEF Typed

Summed ==
    \A n \in Nodes : /\ Asked(n) \in Nat /\ Served(n) \in Nat
                     /\ UnderWay(n) = Asked(n) + Served(Other(n))

\* Requests and answers add up to numbers.
LEMMA Sums == Typed => Summed
  <1> SUFFICES ASSUME Typed, NEW n \in Nodes
               PROVE  /\ Asked(n) \in Nat /\ Served(n) \in Nat
                      /\ UnderWay(n) = Asked(n) + Served(Other(n))
    BY DEF Summed
  <1> DEFINE m == Other(n)
  <1>1. m \in Nodes
    BY Ends
  <1>2. UnderWay(n) = Count(wire[n], "request") + Holds(m, "request")
                      + Count(rpcch[m], "request") + Handles(m) + Count(wire[m], "length")
                      + Payload(n) + Holds(n, "response") + Count(rpcch[n], "response")
                      + answered[n]
    BY DEF UnderWay, Holds, Handles, Payload
  <1> HIDE DEF m
  <1>3. /\ \A k \in {n, m} :
              /\ Count(wire[k], "request") \in Nat /\ Count(wire[k], "length") \in Nat
              /\ Count(rpcch[k], "request") \in Nat /\ Count(rpcch[k], "response") \in Nat
              /\ Payload(k) \in Nat /\ Handles(k) \in Nat
              /\ Holds(k, "request") \in Nat /\ Holds(k, "response") \in Nat
              /\ answered[k] \in Nat
    BY <1>1, Summands
  <1>4. Asked(n) \in Nat /\ Served(n) \in Nat /\ Served(m) \in Nat
    BY <1>3 DEF Asked, Served
  <1>5. UnderWay(n) = Asked(n) + Served(m)
    BY <1>2, <1>3 DEF Asked, Served
  <1>6. QED
    BY <1>4, <1>5 DEF m

\* A step at node n that gives nobody more than was asked for.
LEMMA LocalStep ==
    ASSUME Typed, Typed', NoAnswerTwice, NEW n \in Nodes,
           Asked(n)' + sending'[n] + handlers[n] <= Asked(n) + sending[n] + handlers'[n],
           Served(n)' <= Served(n),
           \A k \in Nodes : k # n => /\ Asked(k)' = Asked(k) /\ Served(k)' = Served(k)
                                     /\ handlers'[k] = handlers[k] /\ sending'[k] = sending[k]
    PROVE  NoAnswerTwice'
  <1> DEFINE m == Other(n)
  <1>1. m \in Nodes /\ m # n /\ Other(m) = n /\ \A k \in Nodes : k = n \/ k = m
    BY Ends
  <1>2. \A k \in {n, m} : /\ Asked(k) \in Nat /\ Served(k) \in Nat
                          /\ handlers[k] \in Nat /\ sending[k] \in Nat
                          /\ handlers'[k] \in Nat /\ sending'[k] \in Nat
                          /\ UnderWay(k) <= handlers[k] - sending[k]
    BY <1>1, Sums DEF Summed, Typed, NoAnswerTwice
  <1>3. UnderWay(n) = Asked(n) + Served(m) /\ UnderWay(m) = Asked(m) + Served(n)
    BY <1>1, Sums DEF Summed
  <1>4. Summed'
    BY Sums, PTL
  <1> HIDE DEF m
  <1>5. /\ Asked(n)' \in Nat /\ Served(n)' \in Nat /\ Asked(m)' \in Nat /\ Served(m)' \in Nat
        /\ UnderWay(n)' = Asked(n)' + Served(m)' /\ UnderWay(m)' = Asked(m)' + Served(n)'
    BY <1>1, <1>4 DEF Summed, m
  <1>6. /\ Asked(m)' = Asked(m) /\ Served(m)' = Served(m)
        /\ handlers'[m] = handlers[m] /\ sending'[m] = sending[m]
    BY <1>1
  <1>7. UnderWay(n)' <= handlers'[n] - sending'[n]
    BY <1>2, <1>3, <1>5, <1>6
  <1>8. UnderWay(m)' <= handlers'[m] - sending'[m]
    BY <1>2, <1>3, <1>5, <1>6
  <1>9. QED
    BY <1>1, <1>7, <1>8 DEF NoAnswerTwice

\* A node whose queues a step leaves alone has asked and served as much as before.
LEMMA SameNode ==
    ASSUME NEW k, wire'[k] = wire[k], reader'[k] = reader[k], rpcch'[k] = rpcch[k],
           rpc'[k] = rpc[k], answered'[k] = answered[k]
    PROVE  Asked(k)' = Asked(k) /\ Served(k)' = Served(k)
  BY DEF Asked, Served, Payload, Holds, Handles

\* A write counts where it is a request or a length.
LEMMA WriteCounts ==
    ASSUME Typed, NEW n \in Nodes, NEW w \in Write, WriteTo(n, w)
    PROVE  /\ Count(wire'[n], "request") =
                 IF w = "request" THEN Count(wire[n], "request") + 1 ELSE Count(wire[n], "request")
           /\ Count(wire'[n], "length") =
                 IF w = "length" THEN Count(wire[n], "length") + 1 ELSE Count(wire[n], "length")
           /\ \A k \in Nodes : k # n => wire'[k] = wire[k]
  <1>1. /\ wire'[n] = Append(wire[n], w) /\ \A k \in Nodes : k # n => wire'[k] = wire[k]
        /\ wire[n] \in Seq(Write)
    BY WriteToTyped DEF Typed
  <1>2. \A x : Count(wire'[n], x) = Count(wire[n], x) + One(w = x)
    BY <1>1, CountAppend
  <1>3. \A x : Count(wire[n], x) \in Nat
    BY Summands
  <1>4. QED
    BY <1>1, <1>2, <1>3 DEF One

\* Asking raises the number of handlers and requests together.
LEMMA AskAnswers ==
    ASSUME Typed, Typed', NoAnswerTwice, NEW n \in Nodes, RegisterHandler(n) \/ Send(n)
    PROVE  NoAnswerTwice'
  <1>1. /\ \A x : Count(wire[n], x) \in Nat /\ Count(rpcch[n], x) \in Nat
        /\ Payload(n) \in Nat /\ Handles(n) \in Nat /\ \A m : Holds(n, m) \in Nat
        /\ answered[n] \in Nat /\ handlers[n] \in Nat /\ sending[n] \in Nat
        /\ Asked(n) \in Nat /\ Served(n) \in Nat
    BY Summands, Sums DEF Summed
  <1>2. CASE RegisterHandler(n)
    <2>1. /\ handlers' = [handlers EXCEPT ![n] = handlers[n] + 1]
          /\ sending' = [sending EXCEPT ![n] = sending[n] + 1]
          /\ UNCHANGED <<answered, wire, reader, rpcch, rpc>>
      BY <1>2, AsksAre
    <2>2. \A k : Asked(k)' = Asked(k) /\ Served(k)' = Served(k)
      BY <2>1, SameNode
    <2>3. /\ handlers'[n] = handlers[n] + 1 /\ sending'[n] = sending[n] + 1
          /\ \A k \in Nodes : k # n => handlers'[k] = handlers[k] /\ sending'[k] = sending[k]
      BY <2>1 DEF Typed
    <2>4. /\ Asked(n)' + sending'[n] + handlers[n] <= Asked(n) + sending[n] + handlers'[n]
          /\ Served(n)' <= Served(n)
      BY <1>1, <2>2, <2>3
    <2>5. QED
      BY <2>2, <2>3, <2>4, LocalStep
  <1>3. CASE Send(n)
    <2>1. /\ WriteTo(n, "request") \/ wire' = wire
          /\ sending' = [sending EXCEPT ![n] = sending[n] - 1] /\ sending[n] > 0
          /\ UNCHANGED <<handlers, answered, reader, rpcch, rpc>>
      BY <1>3, AsksAre
    <2>2. "request" \in Write
      BY DEF Write
    <2>3. /\ Count(wire'[n], "request") <= Count(wire[n], "request") + 1
          /\ Count(wire'[n], "request") \in Nat
          /\ Count(wire'[n], "length") = Count(wire[n], "length")
          /\ \A k \in Nodes : k # n => wire'[k] = wire[k]
      BY <1>1, <2>1, <2>2, WriteCounts
    <2>4. /\ Payload(n)' = Payload(n) /\ Handles(n)' = Handles(n)
          /\ Holds(n, "request")' = Holds(n, "request")
          /\ Holds(n, "response")' = Holds(n, "response")
      BY <2>1 DEF Payload, Handles, Holds
    <2>5. /\ sending'[n] = sending[n] - 1 /\ handlers'[n] = handlers[n]
          /\ \A k \in Nodes : k # n => handlers'[k] = handlers[k] /\ sending'[k] = sending[k]
      BY <2>1 DEF Typed
    <2>6. Served(n)' <= Served(n)
      BY <1>1, <2>1, <2>3, <2>4 DEF Served
    <2>7. Asked(n)' <= Asked(n) + 1 /\ Asked(n)' \in Nat
      BY <1>1, <2>1, <2>3, <2>4 DEF Asked
    <2>8. Asked(n)' + sending'[n] + handlers[n] <= Asked(n) + sending[n] + handlers'[n]
      BY <1>1, <2>5, <2>7
    <2>9. \A k \in Nodes : k # n => Asked(k)' = Asked(k) /\ Served(k)' = Served(k)
      BY <2>1, <2>3, SameNode
    <2>10. QED
      BY <2>5, <2>6, <2>8, <2>9, LocalStep
  <1>4. QED
    BY <1>2, <1>3

\* The same where neither handlers nor sending change.
LEMMA MoveStep ==
    ASSUME Typed, Typed', NoAnswerTwice, NEW n \in Nodes, UNCHANGED <<handlers, sending>>,
           Asked(n)' <= Asked(n), Served(n)' <= Served(n),
           \A k \in Nodes : k # n => Asked(k)' = Asked(k) /\ Served(k)' = Served(k)
    PROVE  NoAnswerTwice'
  <1>1. handlers[n] \in Nat /\ sending[n] \in Nat /\ Asked(n) \in Nat
    BY Sums DEF Summed, Typed
  <1>2. Asked(n)' \in Nat
    <2>1. Summed'
      BY Sums, PTL
    <2>2. QED
      BY <2>1 DEF Summed
  <1>3. Asked(n)' + sending'[n] + handlers[n] <= Asked(n) + sending[n] + handlers'[n]
    BY <1>1, <1>2
  <1>4. QED
    BY <1>3, LocalStep

\* A message that is passed on or dropped is not duplicated.
LEMMA ForwardAnswers ==
    ASSUME Typed, Typed', NoAnswerTwice, NEW n \in Nodes, Forward(n) \/ Drop(n)
    PROVE  NoAnswerTwice'
  <1> DEFINE msg == reader[n].msg
  <1>1. /\ reader[n] \in Reader /\ reader[n].at = "forward" /\ msg \in Message
        /\ rpcch[n] \in Seq(Message)
        /\ reader'[n] = AfterMessage(reader[n])
        /\ rpcch'[n] = rpcch[n] \/ rpcch'[n] = Append(rpcch[n], msg)
        /\ \A k \in Nodes : k # n => reader'[k] = reader[k] /\ rpcch'[k] = rpcch[k]
        /\ UNCHANGED <<handlers, sending, answered, wire, rpc>>
    BY ForwardIs
  <1>2. reader'[n].at \in {"length", "lost"}
    BY <1>1, AfterMessageIs
  <1>3. /\ Payload(n)' = 0 /\ Payload(n) = 0
        /\ Holds(n, "request")' = 0 /\ Holds(n, "response")' = 0
        /\ Holds(n, "request") = One(msg = "request")
        /\ Holds(n, "response") = One(msg = "response")
        /\ Handles(n)' = Handles(n)
    BY <1>1, <1>2 DEF Payload, Holds, Handles, One
  <1>4. /\ \A x : Count(wire[n], x) \in Nat /\ Count(rpcch[n], x) \in Nat
        /\ Handles(n) \in Nat /\ answered[n] \in Nat
    BY Summands
  <1>5. One(msg = "request") \in Nat /\ One(msg = "response") \in Nat
    BY DEF One
  <1>6. \A x : \/ Count(rpcch'[n], x) = Count(rpcch[n], x)
               \/ Count(rpcch'[n], x) = Count(rpcch[n], x) + One(msg = x)
    <2>1. CASE rpcch'[n] = rpcch[n]
      BY <2>1
    <2>2. CASE rpcch'[n] = Append(rpcch[n], msg)
      <3>1. \A x : Count(Append(rpcch[n], msg), x) = Count(rpcch[n], x) + One(msg = x)
        BY <1>1, CountAppend
      <3>2. QED
        BY <2>2, <3>1
    <2>3. QED
      BY <1>1, <2>1, <2>2
  <1>7. Asked(n)' <= Asked(n) /\ Served(n)' <= Served(n)
    <2> DEFINE q == One(msg = "request")
               p == One(msg = "response")
    <2> HIDE DEF q, p, msg
    <2>1. /\ Count(rpcch'[n], "request") <= Count(rpcch[n], "request") + q
          /\ Count(rpcch'[n], "response") <= Count(rpcch[n], "response") + p
          /\ Count(rpcch'[n], "request") \in Nat /\ Count(rpcch'[n], "response") \in Nat
          /\ p \in Nat /\ q \in Nat
      BY <1>4, <1>5, <1>6 DEF q, p
    <2>2. Asked(n)' = Count(wire[n], "request") + Count(rpcch'[n], "response") + answered[n]
      BY <1>1, <1>3, <1>4, <2>1 DEF Asked
    <2>3. Asked(n) = Count(wire[n], "request") + p + Count(rpcch[n], "response") + answered[n]
      BY <1>3, <1>4, <2>1 DEF Asked, p
    <2>4. Served(n)' = Count(rpcch'[n], "request") + Handles(n) + Count(wire[n], "length")
      BY <1>1, <1>3, <1>4, <2>1 DEF Served
    <2>5. Served(n) = q + Count(rpcch[n], "request") + Handles(n) + Count(wire[n], "length")
      BY <1>3, <1>4, <2>1 DEF Served, q
    <2>6. QED
      BY <1>4, <2>1, <2>2, <2>3, <2>4, <2>5
  <1>8. \A k \in Nodes : k # n => Asked(k)' = Asked(k) /\ Served(k)' = Served(k)
    BY <1>1, SameNode
  <1>9. QED
    BY <1>1, <1>7, <1>8, MoveStep

\* A request that is handled, or an answer that is counted, moves and no more.
LEMMA ConsumeAnswers ==
    ASSUME Typed, Typed', NoAnswerTwice, NEW n \in Nodes, Consume(n)
    PROVE  NoAnswerTwice'
  <1> DEFINE msg == Head(rpcch[n])
  <1>1. /\ rpcch[n] \in Seq(Message) /\ rpcch[n] # <<>> /\ msg \in Message
        /\ rpc[n].at = "idle" /\ rpcch'[n] = Tail(rpcch[n])
        /\ rpc'[n].at = IF msg = "request" THEN "active" ELSE "idle"
        /\ answered'[n] = IF msg = "response" THEN answered[n] + 1 ELSE answered[n]
        /\ \A k \in Nodes : k # n => /\ rpcch'[k] = rpcch[k] /\ rpc'[k] = rpc[k]
                                     /\ answered'[k] = answered[k]
        /\ UNCHANGED <<handlers, sending, wire, reader>>
    BY ConsumeIs
  <1>2. \A x : Count(rpcch[n], x) = Count(rpcch'[n], x) + One(msg = x)
    BY <1>1, CountTail
  <1>3. /\ Payload(n)' = Payload(n) /\ Handles(n) = 0
        /\ Holds(n, "request")' = Holds(n, "request")
        /\ Holds(n, "response")' = Holds(n, "response")
    BY <1>1 DEF Payload, Holds, Handles, One
  <1>4. Handles(n)' = One(msg = "request")
    BY <1>1 DEF Handles, One
  <1>5. /\ \A x : Count(wire[n], x) \in Nat /\ Count(rpcch[n], x) \in Nat
        /\ answered[n] \in Nat /\ Payload(n) \in Nat
        /\ Holds(n, "request") \in Nat /\ Holds(n, "response") \in Nat
    BY Summands
  <1>6. rpcch'[n] \in Seq(Message)
    BY DEF Typed
  <1>7. \A x : Count(rpcch'[n], x) \in Nat
    BY <1>6, CountType
  <1>8. answered'[n] = answered[n] + One(msg = "response")
    BY <1>1, <1>5 DEF One
  <1>9. One(msg = "request") \in Nat /\ One(msg = "response") \in Nat
    BY DEF One
  <1> HIDE DEF msg
  <1>10. Asked(n)' <= Asked(n)
    <2>1. /\ Count(rpcch[n], "response") = Count(rpcch'[n], "response") + One(msg = "response")
          /\ Count(rpcch'[n], "response") \in Nat /\ Count(wire[n], "request") \in Nat
      BY <1>2, <1>5, <1>7
    <2>2. Asked(n)' = Count(wire[n], "request") + Payload(n) + Holds(n, "response")
                      + Count(rpcch'[n], "response") + (answered[n] + One(msg = "response"))
      BY <1>1, <1>3, <1>8 DEF Asked
    <2>3. QED
      BY <1>5, <1>9, <2>1, <2>2 DEF Asked
  <1>11. Served(n)' <= Served(n)
    BY <1>1, <1>2, <1>3, <1>4, <1>5, <1>7, <1>9 DEF Served
  <1>12. \A k \in Nodes : k # n => Asked(k)' = Asked(k) /\ Served(k)' = Served(k)
    BY <1>1, SameNode
  <1>13. QED
    BY <1>1, <1>10, <1>11, <1>12, MoveStep

\* handleChunkRequest: only the writes of node n, and its place.
LEMMA HandleAnswers ==
    ASSUME Typed, Typed', NoAnswerTwice, NEW n \in Nodes,
           UNCHANGED <<handlers, sending, answered, reader, rpcch>>,
           \A k \in Nodes : k # n => rpc'[k] = rpc[k] /\ wire'[k] = wire[k],
           Count(wire'[n], "request") = Count(wire[n], "request"),
           Handles(n)' + Count(wire'[n], "length") <= Handles(n) + Count(wire[n], "length"),
           Count(wire'[n], "length") \in Nat
    PROVE  NoAnswerTwice'
  <1>1. /\ \A x : Count(wire[n], x) \in Nat /\ Count(rpcch[n], x) \in Nat
        /\ answered[n] \in Nat /\ Payload(n) \in Nat /\ Handles(n) \in Nat
        /\ Holds(n, "request") \in Nat /\ Holds(n, "response") \in Nat
    BY Summands
  <1>2. /\ Payload(n)' = Payload(n)
        /\ Holds(n, "request")' = Holds(n, "request")
        /\ Holds(n, "response")' = Holds(n, "response")
    BY DEF Payload, Holds
  <1>3. Handles(n)' \in Nat
    BY DEF Handles, One
  <1>4. Asked(n)' <= Asked(n)
    BY <1>1, <1>2 DEF Asked
  <1>5. Served(n)' <= Served(n)
    BY <1>1, <1>2, <1>3 DEF Served
  <1>6. \A k \in Nodes : k # n => Asked(k)' = Asked(k) /\ Served(k)' = Served(k)
    BY SameNode
  <1>7. QED
    BY <1>4, <1>5, <1>6, MoveStep

\* A reader that takes a length or a request takes it off the wire.
LEMMA DecodeAnswers ==
    ASSUME Typed, Typed', NoAnswerTwice, NEW n \in Nodes, Decode(n)
    PROVE  NoAnswerTwice'
  <1> DEFINE m == Other(n)
             w == Head(wire[m])
  <1>1. m \in Nodes /\ m # n /\ Other(m) = n /\ \A k \in Nodes : k = n \/ k = m
    BY Ends
  <1>2. /\ reader[n] \in Reader /\ reader[n].at # "forward"
        /\ wire[m] \in Seq(Write) /\ wire[m] # <<>> /\ w \in Write
        /\ reader'[n] = Decoded(reader[n], w)
        /\ wire'[m] = Tail(wire[m]) /\ wire'[n] = wire[n] /\ reader'[m] = reader[m]
        /\ UNCHANGED <<handlers, sending, answered, rpcch, rpc>>
    BY DecodeIs
  <1> HIDE DEF m
  <1>3. \A x : Count(wire[m], x) = Count(wire'[m], x) + One(w = x)
    BY <1>2, CountTail
  <1> HIDE DEF w
  <1>4. \A k \in {n, m} :
           /\ Count(wire[k], "request") \in Nat /\ Count(wire[k], "length") \in Nat
           /\ Count(rpcch[k], "request") \in Nat /\ Count(rpcch[k], "response") \in Nat
           /\ Payload(k) \in Nat /\ Handles(k) \in Nat
           /\ Holds(k, "request") \in Nat /\ Holds(k, "response") \in Nat
           /\ answered[k] \in Nat /\ handlers[k] \in Nat /\ sending[k] \in Nat
    BY <1>1, Summands
  <1>5. Count(wire'[m], "request") \in Nat /\ Count(wire'[m], "length") \in Nat
    <2>1. wire'[m] \in Seq(Write)
      BY <1>1 DEF Typed
    <2>2. QED
      BY <2>1, CountType
  <1>6. /\ Payload(m)' = Payload(m) /\ Handles(m)' = Handles(m) /\ Handles(n)' = Handles(n)
        /\ Holds(m, "request")' = Holds(m, "request")
        /\ Holds(m, "response")' = Holds(m, "response")
    BY <1>2 DEF Payload, Handles, Holds
  <1>7. /\ Holds(n, "request")' <= Holds(n, "request") + One(w = "request")
        /\ Payload(n)' + Holds(n, "response")' <=
              Payload(n) + Holds(n, "response") + One(w = "length")
    <2> DEFINE r == reader[n]
               q == Decoded(r, w)
    <2>1. r \in Reader /\ r.at \in {"length", "payload", "lost"} /\ w \in {"request", "length", "body"}
      BY <1>2 DEF Reader, Write
    <2>2. /\ r.at = "length" /\ w = "request" => q.at = "forward" /\ q.msg = "request"
          /\ r.at = "length" /\ w = "length" => q.at = "payload"
          /\ r.at = "length" /\ w = "body" => q.at = "lost"
          /\ r.at = "payload" /\ w # "body" => q.at = "payload"
          /\ r.at = "payload" /\ w = "body" =>
                \/ q.at = "payload"
                \/ q.at = "forward" /\ q.msg \in {"response", "garbage"}
          /\ r.at = "lost" => q.at = "lost"
      BY <1>2, <2>1, DecodedIs
    <2>3. reader'[n] = q /\ reader[n] = r
      BY <1>2
    <2> HIDE DEF q, r
    <2>4. /\ Holds(n, "request")' = One(q.at = "forward" /\ q.msg = "request")
          /\ Holds(n, "response")' = One(q.at = "forward" /\ q.msg = "response")
          /\ Payload(n)' = One(q.at = "payload")
          /\ Payload(n) = One(r.at = "payload")
          /\ Holds(n, "request") = 0 /\ Holds(n, "response") = 0
      BY <1>2, <2>3 DEF Holds, Payload, One
    <2>5. QED
      BY <2>1, <2>2, <2>4 DEF One
  <1>8. /\ One(w = "request") \in Nat /\ One(w = "length") \in Nat
        /\ Holds(n, "request")' \in Nat /\ Holds(n, "response")' \in Nat /\ Payload(n)' \in Nat
    BY DEF One, Holds, Payload
  <1>9. /\ UnderWay(n) = Asked(n) + Served(m) /\ UnderWay(m) = Asked(m) + Served(n)
        /\ UnderWay(n) <= handlers[n] - sending[n] /\ UnderWay(m) <= handlers[m] - sending[m]
    BY <1>1, Sums DEF Summed, NoAnswerTwice, m
  <1>10. UnderWay(n)' = Asked(n)' + Served(m)' /\ UnderWay(m)' = Asked(m)' + Served(n)'
    <2>1. Summed'
      BY Sums, PTL
    <2>2. QED
      BY <1>1, <2>1 DEF Summed, m
  <1>11. Asked(n)' + Served(m)' <= Asked(n) + Served(m)
    <2>1. Count(wire[m], "length") = Count(wire'[m], "length") + One(w = "length")
      BY <1>3
    <2>2. Asked(n)' = Count(wire[n], "request") + Payload(n)' + Holds(n, "response")'
                      + Count(rpcch[n], "response") + answered[n]
      BY <1>2 DEF Asked
    <2>3. Served(m)' = Holds(m, "request") + Count(rpcch[m], "request") + Handles(m)
                       + Count(wire'[m], "length")
      BY <1>2, <1>6 DEF Served
    <2>4. QED
      BY <1>4, <1>5, <1>7, <1>8, <2>1, <2>2, <2>3 DEF Asked, Served
  <1>12. Asked(m)' + Served(n)' <= Asked(m) + Served(n)
    <2>1. Count(wire[m], "request") = Count(wire'[m], "request") + One(w = "request")
      BY <1>3
    <2>2. Asked(m)' = Count(wire'[m], "request") + Payload(m) + Holds(m, "response")
                      + Count(rpcch[m], "response") + answered[m]
      BY <1>2, <1>6 DEF Asked
    <2>3. Served(n)' = Holds(n, "request")' + Count(rpcch[n], "request") + Handles(n)
                       + Count(wire[n], "length")
      BY <1>2, <1>6 DEF Served
    <2>4. QED
      BY <1>4, <1>5, <1>7, <1>8, <2>1, <2>2, <2>3 DEF Asked, Served
  <1>13. /\ Asked(n) \in Nat /\ Served(n) \in Nat /\ Asked(m) \in Nat /\ Served(m) \in Nat
         /\ Asked(n)' \in Nat /\ Served(n)' \in Nat /\ Asked(m)' \in Nat /\ Served(m)' \in Nat
    <2>1. Summed'
      BY Sums, PTL
    <2>2. QED
      BY <1>1, <2>1, Sums DEF Summed
  <1>14. UnderWay(n)' <= handlers'[n] - sending'[n] /\ UnderWay(m)' <= handlers'[m] - sending'[m]
    <2>1. /\ handlers'[n] = handlers[n] /\ sending'[n] = sending[n]
          /\ handlers'[m] = handlers[m] /\ sending'[m] = sending[m]
          /\ handlers[n] \in Nat /\ sending[n] \in Nat
          /\ handlers[m] \in Nat /\ sending[m] \in Nat
      BY <1>2, <1>4
    <2>2. UnderWay(n)' <= handlers'[n] - sending'[n]
      BY <1>9, <1>10, <1>11, <1>13, <2>1
    <2>3. UnderWay(m)' <= handlers'[m] - sending'[m]
      BY <1>9, <1>10, <1>12, <1>13, <2>1
    <2>4. QED
      BY <2>2, <2>3
  <1>15. QED
    BY <1>1, <1>14 DEF NoAnswerTwice

\* A step of a node makes no second answer.
LEMMA StepAnswers ==
    ASSUME Typed, Typed', NoAnswerTwice, NEW n \in Nodes, Step(n)
    PROVE  NoAnswerTwice'
  <1>1. /\ Count(wire[n], "request") \in Nat /\ Count(wire[n], "length") \in Nat
        /\ Write = {"request", "length", "body"}
    BY Summands DEF Write
  <1>2. CASE CheckSeeding(n) \/ CheckFlow(n) \/ ReadChunk(n) \/ ReadFails(n)
    <2>1. /\ rpc[n].at \in {"active", "flow", "meta"}
          /\ UNCHANGED <<handlers, sending, answered, wire, reader, rpcch>>
          /\ \A k \in Nodes : k # n => rpc'[k] = rpc[k] /\ wire'[k] = wire[k]
      BY <1>2, ChecksAre
    <2>2. Handles(n) = 1 /\ Handles(n)' \in {0, 1}
      BY <2>1 DEF Handles, One
    <2>3. Handles(n)' + Count(wire'[n], "length") <= Handles(n) + Count(wire[n], "length")
      BY <1>1, <2>1, <2>2
    <2>4. QED
      BY <1>1, <2>1, <2>3, HandleAnswers
  <1>3. CASE WriteLength(n)
    <2>1. /\ rpc[n].at = "length" /\ rpc'[n].at = "body" /\ WriteTo(n, "length")
          /\ UNCHANGED <<handlers, sending, answered, reader, rpcch>>
          /\ \A k \in Nodes : k # n => rpc'[k] = rpc[k]
      BY <1>3, WriteLengthIs
    <2>2. /\ Count(wire'[n], "request") = Count(wire[n], "request")
          /\ Count(wire'[n], "length") = Count(wire[n], "length") + 1
          /\ \A k \in Nodes : k # n => wire'[k] = wire[k]
      BY <1>1, <2>1, WriteCounts
    <2>3. Handles(n) = 1 /\ Handles(n)' = 0
      BY <2>1 DEF Handles, One
    <2>4. /\ Handles(n)' + Count(wire'[n], "length") <= Handles(n) + Count(wire[n], "length")
          /\ Count(wire'[n], "length") \in Nat
      BY <1>1, <2>2, <2>3
    <2>5. QED
      BY <2>1, <2>2, <2>4, HandleAnswers
  <1>4. CASE WriteBody(n)
    <2>1. /\ rpc[n].at = "body" /\ rpc'[n].at \in {"body", "idle"} /\ WriteTo(n, "body")
          /\ UNCHANGED <<handlers, sending, answered, reader, rpcch>>
          /\ \A k \in Nodes : k # n => rpc'[k] = rpc[k]
      BY <1>4, WriteBodyIs
    <2>2. /\ Count(wire'[n], "request") = Count(wire[n], "request")
          /\ Count(wire'[n], "length") = Count(wire[n], "length")
          /\ \A k \in Nodes : k # n => wire'[k] = wire[k]
      BY <1>1, <2>1, WriteCounts
    <2>3. Handles(n) = 0 /\ Handles(n)' = 0
      BY <2>1 DEF Handles, One
    <2>4. /\ Handles(n)' + Count(wire'[n], "length") <= Handles(n) + Count(wire[n], "length")
          /\ Count(wire'[n], "length") \in Nat
      BY <1>1, <2>2, <2>3
    <2>5. QED
      BY <2>1, <2>2, <2>4, HandleAnswers
  <1>5. CASE WriteFails(n)
    <2>1. /\ rpc'[n].at = "idle"
          /\ UNCHANGED <<handlers, sending, answered, wire, reader, rpcch>>
          /\ \A k \in Nodes : k # n => rpc'[k] = rpc[k] /\ wire'[k] = wire[k]
      BY <1>5, WriteFailsIs
    <2>2. Handles(n)' = 0 /\ Handles(n) \in {0, 1}
      BY <2>1 DEF Handles, One
    <2>3. Handles(n)' + Count(wire'[n], "length") <= Handles(n) + Count(wire[n], "length")
      BY <1>1, <2>1, <2>2
    <2>4. QED
      BY <1>1, <2>1, <2>3, HandleAnswers
  <1>6. CASE Aside(n)
    BY <1>6, AsideIs DEF NoAnswerTwice, UnderWay
  <1>7. QED
    BY <1>2, <1>3, <1>4, <1>5, <1>6, StepCases, AskAnswers, DecodeAnswers, ForwardAnswers,
       ConsumeAnswers

-----------------------------------------------------------------------------
(***************************************************************************)
(* Frames.                                                                  *)
(***************************************************************************)
LEMMA LeadsEmpty == Leads(<<>>, 0, 0)
  <1> DEFINE ph == [i \in 1 .. 1 |-> 0]
  <1>1. Len(<<>>) = 0 /\ 0 \in Place
    BY EmptySeq, Bounds DEF Place
  <1>2. ph \in [1 .. Len(<<>>) + 1 -> Place] /\ ph[1] = 0 /\ ph[Len(<<>>) + 1] = 0
    BY <1>1
  <1>3. \A i \in 1 .. Len(<<>>) : Follows(ph[i], <<>>[i], ph[i + 1])
    BY <1>1
  <1> HIDE DEF ph
  <1>4. QED
    BY <1>2, <1>3 DEF Leads

\* A write that may come next lengthens the stream.
LEMMA LeadsAppend ==
    ASSUME NEW s \in Seq(Write), NEW w \in Write, NEW from, NEW to, NEW next \in Place,
           Leads(s, from, to), Follows(to, w, next)
    PROVE  Leads(Append(s, w), from, next)
  <1> DEFINE t == Append(s, w)
             l == Len(s) + 1
  <1>1. PICK ph \in [1 .. l -> Place] :
           /\ ph[1] = from /\ ph[l] = to
           /\ \A i \in 1 .. Len(s) : Follows(ph[i], s[i], ph[i + 1])
    BY DEF Leads
  <1>2. /\ Len(t) = l /\ Len(s) \in Nat /\ l \in Nat
        /\ \A i \in 1 .. Len(s) : t[i] = s[i]
        /\ t[l] = w
    BY AppendProperties, LenProperties
  <1> DEFINE new == [i \in 1 .. l + 1 |-> IF i = l + 1 THEN next ELSE ph[i]]
  <1>3. /\ new \in [1 .. l + 1 -> Place]
        /\ \A i \in 1 .. l : new[i] = ph[i]
        /\ new[l + 1] = next
    BY <1>2
  <1> HIDE DEF new, t
  <1>4. ASSUME NEW i \in 1 .. l
        PROVE  Follows(new[i], t[i], new[i + 1])
    <2>1. CASE i = l
      BY <1>1, <1>2, <1>3, <2>1
    <2>2. CASE i \in 1 .. Len(s)
      <3>1. i + 1 \in 1 .. l
        BY <1>2, <2>2
      <3>2. QED
        BY <1>1, <1>2, <1>3, <2>2, <3>1
    <2>3. QED
      BY <1>2, <2>1, <2>2
  <1>5. new[1] = from
    BY <1>1, <1>2, <1>3
  <1>6. QED
    BY <1>2, <1>3, <1>4, <1>5 DEF Leads, t

\* The first write of a stream takes the reader to the place after it.
LEMMA LeadsTail ==
    ASSUME NEW s \in Seq(Write), s # <<>>, NEW from, NEW to, Leads(s, from, to)
    PROVE  \E next \in Place : Follows(from, Head(s), next) /\ Leads(Tail(s), next, to)
  <1> DEFINE t == Tail(s)
             l == Len(s)
  <1>1. PICK ph \in [1 .. l + 1 -> Place] :
           /\ ph[1] = from /\ ph[l + 1] = to
           /\ \A i \in 1 .. l : Follows(ph[i], s[i], ph[i + 1])
    BY DEF Leads
  <1>2. /\ Len(t) = l - 1 /\ l \in Nat /\ l >= 1 /\ Len(t) \in Nat
        /\ \A i \in 1 .. Len(t) : t[i] = s[i + 1]
        /\ Head(s) = s[1]
    BY HeadTailProperties, LenProperties
  <1> DEFINE new == [i \in 1 .. l |-> ph[i + 1]]
  <1>3. /\ new \in [1 .. Len(t) + 1 -> Place]
        /\ \A i \in 1 .. l : new[i] = ph[i + 1]
    BY <1>2
  <1> HIDE DEF new, t, l
  <1>4. 1 \in 1 .. l /\ 1 + 1 = 2 /\ l \in 1 .. l /\ Len(t) + 1 = l /\ 2 \in 1 .. l + 1
    BY <1>2
  <1>5. Follows(from, Head(s), ph[2]) /\ ph[2] \in Place
    BY <1>1, <1>2, <1>4
  <1>6. new[1] = ph[2] /\ new[Len(t) + 1] = to
    BY <1>1, <1>3, <1>4
  <1>7. ASSUME NEW i \in 1 .. Len(t)
        PROVE  Follows(new[i], t[i], new[i + 1])
    <2>1. i \in 1 .. l /\ i + 1 \in 1 .. l
      BY <1>2
    <2>2. QED
      BY <1>1, <1>2, <1>3, <2>1
  <1>8. Leads(t, ph[2], to)
    BY <1>3, <1>6, <1>7 DEF Leads
  <1>9. QED
    BY <1>5, <1>8 DEF t

\* One more write at the writer's place.
LEMMA StreamAppend ==
    ASSUME NEW s \in Seq(Write), NEW w \in Write, NEW from, NEW to, NEW next \in Place,
           Stream(s, from, to, TRUE), Follows(to, w, next)
    PROVE  Stream(Append(s, w), from, next, TRUE)
  <1>1. Leads(s, from, to)
    BY DEF Stream
  <1>2. Leads(Append(s, w), from, next)
    BY <1>1, LeadsAppend
  <1>3. QED
    BY <1>2 DEF Stream

\* Once the connection is closed the writer's place does not matter.
LEMMA StreamEnds ==
    ASSUME NEW s, NEW from, NEW to, NEW standing, Stream(s, from, to, standing), NEW any
    PROVE  Stream(s, from, any, FALSE)
  BY DEF Stream

\* What a reader in step makes of the next write.
LEMMA DecodedInStep ==
    ASSUME NEW r \in Reader, NEW w \in Write, r.at # "forward", InStep(r),
           NEW next \in Place, Follows(ReaderAt(r), w, next)
    PROVE  InStep(Decoded(r, w)) /\ ReaderAt(Decoded(r, w)) = next
  <1> DEFINE q == Decoded(r, w)
  <1>1. /\ r.at \in {"length", "payload"} /\ r.left \in Nat /\ r.whole
        /\ r.at = "payload" => r.left > 0
        /\ BodyWrites \in Nat /\ BodyWrites > 0
    BY Bounds DEF Reader, InStep
  <1>2. CASE r.at = "length"
    <2>1. \/ w = "request" /\ next = 0
          \/ w = "length" /\ next = BodyWrites
      BY <1>2 DEF Follows, ReaderAt
    <2>2. CASE w = "request" /\ next = 0
      <3>1. q.at = "forward" /\ q.whole = r.whole
        BY <1>2, <2>2, DecodedIs
      <3> HIDE DEF q
      <3>2. QED
        BY <1>1, <2>2, <3>1 DEF InStep, ReaderAt, q
    <2>3. CASE w = "length" /\ next = BodyWrites
      <3>1. q.at = "payload" /\ q.left = BodyWrites /\ q.whole = r.whole
        BY <1>2, <2>3, DecodedIs
      <3> HIDE DEF q
      <3>2. QED
        BY <1>1, <2>3, <3>1 DEF InStep, ReaderAt, q
    <2>4. QED
      BY <2>1, <2>2, <2>3
  <1>3. CASE r.at = "payload"
    <2>1. w = "body" /\ next = r.left - 1
      BY <1>1, <1>3 DEF Follows, ReaderAt
    <2>2. CASE r.left > 1
      <3>1. q.at = "payload" /\ q.left = r.left - 1 /\ q.whole = r.whole
        BY <1>3, <2>1, <2>2, DecodedIs
      <3>2. r.left - 1 > 0
        BY <1>1, <2>2
      <3> HIDE DEF q
      <3>3. QED
        BY <1>1, <2>1, <3>1, <3>2 DEF InStep, ReaderAt, q
    <2>3. CASE ~(r.left > 1)
      <3>1. q.at = "forward" /\ q.whole = r.whole
        BY <1>3, <2>1, <2>3, DecodedIs
      <3>2. next = 0
        BY <1>1, <1>3, <2>1, <2>3
      <3> HIDE DEF q
      <3>3. QED
        BY <1>1, <3>1, <3>2 DEF InStep, ReaderAt, q
    <2>4. QED
      BY <2>2, <2>3
  <1>4. QED
    BY <1>1, <1>2, <1>3

AllFramed == \A k \in Nodes : Framed(k)

\* A request is written between two frames: who asks does not answer.
LEMMA SendFrames ==
    ASSUME Typed, RolesKept, OneRole, AllFramed, NEW n \in Nodes, Send(n)
    PROVE  AllFramed'
  <1>1. UNCHANGED <<open, reader, rpc>>
    BY AsksAre
  <1>2. n \in Downloaders /\ rpc[n].at # "body" /\ WriterAt(rpc[n]) = 0
    <2>1. sending[n] > 0
      BY AsksAre
    <2>2. QED
      BY <2>1 DEF RolesKept, OneRole, WriterAt
  <1>3. CASE wire' = wire
    BY <1>3, AsksAre DEF AllFramed, Framed
  <1>4. CASE WriteTo(n, "request")
    <2>1. "request" \in Write /\ 0 \in Place /\ Follows(0, "request", 0)
      BY Bounds DEF Write, Place, Follows
    <2>2. /\ open = TRUE /\ wire'[n] = Append(wire[n], "request") /\ wire[n] \in Seq(Write)
          /\ \A k \in Nodes : k # n => wire'[k] = wire[k]
      BY <1>4, <2>1, WriteToTyped DEF Typed
    <2>3. PICK from : from = ReaderAt(reader[Other(n)])
      OBVIOUS
    <2>4. Stream(wire[n], from, 0, TRUE)
      BY <1>2, <2>2, <2>3 DEF AllFramed, Framed
    <2>5. Stream(wire'[n], from, 0, TRUE)
      BY <2>1, <2>2, <2>4, StreamAppend
    <2>6. Framed(n)'
      BY <1>1, <1>2, <2>2, <2>3, <2>5 DEF AllFramed, Framed
    <2>7. \A k \in Nodes : k # n => Framed(k)'
      BY <1>1, <2>2 DEF AllFramed, Framed
    <2>8. QED
      BY <2>6, <2>7 DEF AllFramed
  <1>5. QED
    BY <1>3, <1>4, AsksAre

\* The reader follows the writes.
LEMMA DecodeFrames ==
    ASSUME Typed, AllFramed, NEW n \in Nodes, Decode(n)
    PROVE  AllFramed'
  <1> DEFINE m == Other(n)
  <1>1. m \in Nodes /\ m # n /\ Other(m) = n /\ \A k \in Nodes : k = n \/ k = m
    BY Ends
  <1>2. /\ reader[n] \in Reader /\ reader[n].at # "forward"
        /\ wire[m] \in Seq(Write) /\ wire[m] # <<>> /\ Head(wire[m]) \in Write
        /\ reader'[n] = Decoded(reader[n], Head(wire[m]))
        /\ wire'[m] = Tail(wire[m]) /\ wire'[n] = wire[n] /\ reader'[m] = reader[m]
        /\ UNCHANGED <<open, rpc>>
    BY DecodeIs
  <1> HIDE DEF m
  <1>3. InStep(reader[n]) /\ Stream(wire[m], ReaderAt(reader[n]), WriterAt(rpc[m]), open)
    BY <1>1 DEF AllFramed, Framed
  <1>4. PICK end \in Place : /\ Leads(wire[m], ReaderAt(reader[n]), end)
                             /\ open => end = WriterAt(rpc[m])
    BY <1>3 DEF Stream
  <1>5. PICK next \in Place : /\ Follows(ReaderAt(reader[n]), Head(wire[m]), next)
                              /\ Leads(Tail(wire[m]), next, end)
    BY <1>2, <1>4, LeadsTail
  <1>6. InStep(reader'[n]) /\ ReaderAt(reader'[n]) = next
    BY <1>2, <1>3, <1>5, DecodedInStep
  <1>7. Stream(wire'[m], ReaderAt(reader'[n]), WriterAt(rpc'[m]), open')
    BY <1>2, <1>4, <1>5, <1>6 DEF Stream
  <1>8. Framed(m)'
    BY <1>1, <1>2, <1>7 DEF AllFramed, Framed
  <1>9. Framed(n)'
    BY <1>1, <1>2, <1>6 DEF AllFramed, Framed, m
  <1>10. QED
    BY <1>1, <1>8, <1>9 DEF AllFramed

\* Passing a message on leaves the reader between two frames.
LEMMA ForwardFrames ==
    ASSUME Typed, AllFramed, NEW n \in Nodes, Forward(n) \/ Drop(n)
    PROVE  AllFramed'
  <1>1. /\ reader[n] \in Reader /\ reader[n].at = "forward"
        /\ reader'[n] = AfterMessage(reader[n])
        /\ \A k \in Nodes : k # n => reader'[k] = reader[k]
        /\ UNCHANGED <<open, wire, rpc>>
    BY ForwardIs
  <1>2. reader[n].whole
    BY DEF AllFramed, Framed, InStep
  <1>3. reader'[n] = AtLength /\ AtLength.at = "length" /\ AtLength.whole
    BY <1>1, <1>2, AfterMessageIs
  <1>4. InStep(reader'[n]) /\ ReaderAt(reader'[n]) = ReaderAt(reader[n])
    BY <1>1, <1>3 DEF InStep, ReaderAt
  <1>5. \A k \in Nodes : /\ InStep(reader[k])' /\ Other(k) \in Nodes
                         /\ ReaderAt(reader'[k]) = ReaderAt(reader[k])
    BY <1>1, <1>4, Ends DEF AllFramed, Framed
  <1>6. QED
    BY <1>1, <1>5 DEF AllFramed, Framed

\* Node n's handler goes on, with one write or none.
LEMMA HandleFrames ==
    ASSUME AllFramed, NEW n \in Nodes, UNCHANGED <<open, reader>>,
           \A k \in Nodes : k # n => rpc'[k] = rpc[k] /\ wire'[k] = wire[k],
           HasToWrite(rpc'[n]),
           Stream(wire'[n], ReaderAt(reader[Other(n)]), WriterAt(rpc'[n]), open)
    PROVE  AllFramed'
  <1>1. Framed(n)'
    BY DEF AllFramed, Framed
  <1>2. \A k \in Nodes : k # n => Framed(k)'
    BY DEF AllFramed, Framed
  <1>3. QED
    BY <1>1, <1>2 DEF AllFramed

\* The length and the body of an answer follow each other.
LEMMA WriteFrames ==
    ASSUME Typed, AllFramed, NEW n \in Nodes, WriteLength(n) \/ WriteBody(n)
    PROVE  AllFramed'
  <1>1. PICK w \in Write, next \in Place :
           /\ WriteTo(n, w) /\ Follows(WriterAt(rpc[n]), w, next)
           /\ WriterAt(rpc'[n]) = next /\ HasToWrite(rpc'[n])
           /\ \A k \in Nodes : k # n => rpc'[k] = rpc[k]
           /\ UNCHANGED <<open, reader>>
    <2>1. CASE WriteLength(n)
      <3>1. /\ rpc[n].at = "length" /\ WriteTo(n, "length")
            /\ rpc'[n].at = "body" /\ rpc'[n].left = BodyWrites
            /\ \A k \in Nodes : k # n => rpc'[k] = rpc[k]
            /\ UNCHANGED <<open, reader>>
        BY <2>1, WriteLengthIs
      <3>2. "length" \in Write /\ BodyWrites \in Place /\ BodyWrites > 0
        BY Bounds DEF Write, Place
      <3>3. /\ Follows(WriterAt(rpc[n]), "length", BodyWrites)
            /\ WriterAt(rpc'[n]) = BodyWrites /\ HasToWrite(rpc'[n])
        BY <3>1, <3>2 DEF Follows, WriterAt, HasToWrite
      <3>4. QED
        BY <3>1, <3>2, <3>3
    <2>2. CASE WriteBody(n)
      <3>1. /\ rpc[n].at = "body" /\ WriteTo(n, "body") /\ rpc[n].left \in 0 .. BodyWrites
            /\ rpc[n].left > 1 => rpc'[n].at = "body" /\ rpc'[n].left = rpc[n].left - 1
            /\ ~(rpc[n].left > 1) => rpc'[n].at = "idle"
            /\ \A k \in Nodes : k # n => rpc'[k] = rpc[k]
            /\ UNCHANGED <<open, reader>>
        BY <2>2, WriteBodyIs
      <3>2. rpc[n].left > 0
        BY <3>1 DEF AllFramed, Framed, HasToWrite
      <3>3. PICK next \in Place : next = rpc[n].left - 1
        BY <3>1, <3>2, Bounds DEF Place
      <3>4. "body" \in Write /\ Follows(WriterAt(rpc[n]), "body", next)
        BY <3>1, <3>2, <3>3 DEF Write, Follows, WriterAt
      <3>5. WriterAt(rpc'[n]) = next /\ HasToWrite(rpc'[n])
        <4>1. CASE rpc[n].left > 1
          <5>1. rpc'[n].at = "body" /\ rpc'[n].left = next /\ next > 0
            BY <3>1, <3>3, <4>1, Bounds
          <5>2. QED
            BY <5>1 DEF WriterAt, HasToWrite
        <4>2. CASE ~(rpc[n].left > 1)
          <5>1. rpc'[n].at = "idle" /\ next = 0
            BY <3>1, <3>2, <3>3, <4>2, Bounds
          <5>2. QED
            BY <5>1 DEF WriterAt, HasToWrite
        <4>3. QED
          BY <4>1, <4>2
      <3>6. QED
        BY <3>1, <3>4, <3>5
    <2>3. QED
      BY <2>1, <2>2
  <1>2. /\ open = TRUE /\ wire'[n] = Append(wire[n], w) /\ wire[n] \in Seq(Write)
        /\ \A k \in Nodes : k # n => wire'[k] = wire[k]
    BY <1>1, WriteToTyped DEF Typed
  <1>3. PICK from, to : from = ReaderAt(reader[Other(n)]) /\ to = WriterAt(rpc[n])
    OBVIOUS
  <1>4. Stream(wire[n], from, to, TRUE)
    BY <1>2, <1>3 DEF AllFramed, Framed
  <1>5. Stream(wire'[n], from, next, TRUE)
    BY <1>1, <1>2, <1>3, <1>4, StreamAppend
  <1>6. QED
    BY <1>1, <1>2, <1>3, <1>5, HandleFrames

\* A step of a node, without a fault, keeps both directions framed.
LEMMA StepFrames ==
    ASSUME Typed, RolesKept, OneRole, AllFramed, faults = 0, faults' = 0,
           NEW n \in Nodes, Step(n)
    PROVE  AllFramed'
  <1>1. Stream(wire[n], ReaderAt(reader[Other(n)]), WriterAt(rpc[n]), open)
    BY DEF AllFramed, Framed
  <1>2. CASE RegisterHandler(n)
    BY <1>2, AsksAre DEF AllFramed, Framed
  <1>3. CASE Consume(n)
    <2>1. /\ rpc[n].at = "idle" /\ rpc'[n].at \in {"active", "idle"}
          /\ \A k \in Nodes : k # n => rpc'[k] = rpc[k] /\ wire'[k] = wire[k]
          /\ UNCHANGED <<open, wire, reader>>
      BY <1>3, ConsumeIs
    <2>2. WriterAt(rpc'[n]) = WriterAt(rpc[n]) /\ HasToWrite(rpc'[n])
      BY <2>1 DEF WriterAt, HasToWrite
    <2>3. QED
      BY <1>1, <2>1, <2>2, HandleFrames
  <1>4. CASE CheckSeeding(n) \/ CheckFlow(n) \/ ReadChunk(n) \/ ReadFails(n)
    <2>1. /\ rpc[n].at \in {"active", "flow", "meta"}
          /\ rpc'[n].at \in {"idle", "flow", "meta", "length"}
          /\ \A k \in Nodes : k # n => rpc'[k] = rpc[k] /\ wire'[k] = wire[k]
          /\ UNCHANGED <<open, wire, reader>>
      BY <1>4, ChecksAre
    <2>2. WriterAt(rpc'[n]) = WriterAt(rpc[n]) /\ HasToWrite(rpc'[n])
      BY <2>1 DEF WriterAt, HasToWrite
    <2>3. QED
      BY <1>1, <2>1, <2>2, HandleFrames
  <1>5. CASE WriteFails(n)
    <2>1. ~open
      BY <1>5, WriteFailsIs
    <2>2. /\ rpc'[n].at = "idle"
          /\ \A k \in Nodes : k # n => rpc'[k] = rpc[k] /\ wire'[k] = wire[k]
          /\ UNCHANGED <<open, wire, reader>>
      BY <1>5, WriteFailsIs
    <2>3. HasToWrite(rpc'[n])
      BY <2>2 DEF HasToWrite
    <2>4. Stream(wire'[n], ReaderAt(reader[Other(n)]), WriterAt(rpc'[n]), open)
      BY <1>1, <2>1, <2>2 DEF Stream
    <2>5. QED
      BY <2>2, <2>3, <2>4, HandleFrames
  <1>6. CASE Aside(n)
    <2>1. (open' => open) /\ UNCHANGED <<wire, reader, rpc>>
      BY <1>6, AsideIs
    <2>2. QED
      BY <2>1 DEF AllFramed, Framed, Stream
  <1>7. QED
    BY <1>2, <1>3, <1>4, <1>5, <1>6, StepCases, SendFrames, DecodeFrames, ForwardFrames,
       WriteFrames

-----------------------------------------------------------------------------
(***************************************************************************)
(* The invariant holds, and what follows from it.                           *)
(***************************************************************************)
LEMMA InitInv == Init => Inv
  <1> SUFFICES ASSUME Init PROVE Inv
    OBVIOUS
  <1>1. /\ AtLength \in Reader /\ AtLength.at = "length" /\ AtLength.whole
        /\ Idle \in Rpc /\ Idle.at = "idle"
        /\ \A S : <<>> \in Seq(S) /\ Len(<<>>) = 0
    BY Bounds, EmptySeq DEF AtLength, Reader, Message, Idle, Rpc
  <1>2. Typed
    BY <1>1 DEF Init, Typed
  <1>3. Limits
    BY <1>1, Bounds DEF Init, Limits
  <1>4. RolesKept /\ LooksAgree
    BY <1>1 DEF Init, RolesKept, LooksAgree
  <1>5. NoAnswerTwice
    <2>1. ASSUME NEW n \in Nodes
          PROVE  Asked(n) = 0 /\ Served(n) = 0
      <3>1. /\ wire[n] = <<>> /\ rpcch[n] = <<>> /\ answered[n] = 0
            /\ reader[n].at = "length" /\ rpc[n].at = "idle"
        BY <1>1 DEF Init
      <3>2. Payload(n) = 0 /\ Handles(n) = 0 /\ \A x : Holds(n, x) = 0
        BY <3>1 DEF Payload, Handles, Holds, One
      <3>3. QED
        BY <3>1, <3>2, CountEmpty DEF Asked, Served
    <2>2. ASSUME NEW n \in Nodes
          PROVE  UnderWay(n) <= handlers[n] - sending[n]
      <3>1. UnderWay(n) = 0
        BY <1>2, <2>1, Sums, Ends DEF Summed
      <3>2. handlers[n] = 0 /\ sending[n] = 0
        BY DEF Init
      <3>3. QED
        BY <3>1, <3>2
    <2>3. QED
      BY <2>2 DEF NoAnswerTwice
  <1>6. FramesInv
    <2>1. ASSUME NEW n \in Nodes
          PROVE  Framed(n)
      <3>1. /\ wire[n] = <<>> /\ reader[n] = AtLength /\ reader[Other(n)] = AtLength
            /\ rpc[n] = Idle
        BY Ends DEF Init
      <3>2. InStep(reader[n]) /\ ReaderAt(reader[Other(n)]) = 0
        BY <1>1, <3>1 DEF InStep, ReaderAt
      <3>3. HasToWrite(rpc[n]) /\ WriterAt(rpc[n]) = 0
        BY <1>1, <3>1 DEF HasToWrite, WriterAt
      <3>4. 0 \in Place
        BY Bounds DEF Place
      <3>5. Stream(wire[n], 0, 0, open)
        BY <3>1, <3>4, LeadsEmpty DEF Stream
      <3>6. QED
        BY <3>2, <3>3, <3>5 DEF Framed
    <2>2. QED
      BY <2>1 DEF FramesInv
  <1>7. QED
    BY <1>2, <1>3, <1>4, <1>5, <1>6 DEF Inv

\* The invariant is inductive.
LEMMA NextInv == Inv /\ [Next]_vars => Inv'
  <1> SUFFICES ASSUME Inv, [Next]_vars PROVE Inv'
    OBVIOUS
  <1>1. Typed /\ Limits /\ RolesKept /\ LooksAgree /\ NoAnswerTwice /\ FramesInv
    BY DEF Inv
  <1>2. ASSUME NEW n \in Nodes, Step(n)
        PROVE  Inv'
    <2>1. Typed'
      BY <1>1, <1>2, StepTyped
    <2>2. Limits' /\ RolesKept' /\ LooksAgree'
      BY <1>1, <1>2, StepLimits, StepRoles
    <2>3. NoAnswerTwice'
      BY <1>1, <1>2, <2>1, StepAnswers
    <2>4. FramesInv'
      <3>1. SUFFICES ASSUME OneRole, faults' = 0 PROVE AllFramed'
        BY DEF FramesInv, AllFramed
      <3>2. faults = 0
        <4>1. faults' = faults \/ faults' = faults + 1
          BY <1>1, <1>2, StepCases, AsksAre, DecodeIs, ForwardIs, ConsumeIs, ChecksAre,
             WriteLengthIs, WriteBodyIs, WriteFailsIs, AsideIs
        <4>2. QED
          BY <1>1, <3>1, <4>1 DEF Typed
      <3>3. AllFramed
        BY <1>1, <3>1, <3>2 DEF FramesInv, AllFramed
      <3>4. QED
        BY <1>1, <1>2, <3>1, <3>2, <3>3, StepFrames
    <2>5. QED
      BY <2>1, <2>2, <2>3, <2>4 DEF Inv
  <1>3. CASE CloseConn
    <2>1. /\ open' = FALSE /\ faults < MaxFaults /\ faults' = faults + 1
          /\ UNCHANGED <<up, activeFile, shutdown, handlers, sending, answered, wire, reader,
                         rpcch, rpc>>
      BY <1>3, CloseConnIs
    <2>2. faults' \in Nat /\ faults' <= MaxFaults /\ faults' # 0
      BY <1>1, <2>1, Bounds DEF Typed
    <2>3. Typed' /\ Limits'
      BY <1>1, <2>1, <2>2 DEF Typed, Limits
    <2>4. RolesKept' /\ LooksAgree' /\ NoAnswerTwice'
      BY <1>1, <2>1 DEF RolesKept, LooksAgree, NoAnswerTwice, UnderWay
    <2>5. FramesInv'
      BY <2>2 DEF FramesInv
    <2>6. QED
      BY <2>3, <2>4, <2>5 DEF Inv
  <1>4. CASE UNCHANGED vars
    <2>1. UNCHANGED <<open, up, activeFile, shutdown, handlers, sending, answered, wire, reader,
                      rpcch, rpc, faults>>
      BY <1>4 DEF vars, fileVars, workVars
    <2>2. Typed' /\ Limits'
      BY <1>1, <2>1 DEF Typed, Limits
    <2>3. RolesKept' /\ LooksAgree' /\ NoAnswerTwice'
      BY <1>1, <2>1 DEF RolesKept, LooksAgree, NoAnswerTwice, UnderWay
    <2>4. FramesInv'
      BY <1>1, <2>1 DEF FramesInv, Framed
    <2>5. QED
      BY <2>2, <2>3, <2>4 DEF Inv
  <1>5. QED
    BY <1>2, <1>3, <1>4, Zenon DEF Next, Step

\* The inductive invariant holds throughout.
LEMMA InvHolds == Spec => []Inv
  BY InitInv, NextInv, PTL DEF Spec

\* The types and the bounds make up the type invariant.
LEMMA InvTypeOK == Inv => TypeOK
  <1> SUFFICES ASSUME Inv PROVE TypeOK
    OBVIOUS
  <1>1. Typed /\ Limits /\ NoAnswerTwice
    BY DEF Inv
  <1>2. ASSUME NEW n \in Nodes
        PROVE  /\ handlers[n] \in 0 .. MaxRequests /\ sending[n] \in 0 .. MaxRequests
               /\ answered[n] \in 0 .. MaxRequests
    <2> DEFINE m == Other(n)
    <2>1. /\ handlers[n] \in Nat /\ sending[n] \in Nat /\ answered[n] \in Nat
          /\ handlers[n] <= MaxRequests /\ MaxRequests \in Nat
      BY <1>1, Bounds DEF Typed, Limits
    <2>2. /\ UnderWay(n) = Asked(n) + Served(m) /\ Asked(n) \in Nat /\ Served(m) \in Nat
          /\ UnderWay(n) <= handlers[n] - sending[n]
      BY <1>1, Sums, Ends DEF Summed, NoAnswerTwice
    <2>3. /\ Count(wire[n], "request") \in Nat /\ Payload(n) \in Nat
          /\ Holds(n, "response") \in Nat /\ Count(rpcch[n], "response") \in Nat
      BY <1>1, Summands
    <2> HIDE DEF m
    <2>4. answered[n] <= Asked(n)
      BY <2>1, <2>3 DEF Asked
    <2>5. QED
      BY <2>1, <2>2, <2>4
  <1>3. /\ handlers \in [Nodes -> 0 .. MaxRequests] /\ sending \in [Nodes -> 0 .. MaxRequests]
        /\ answered \in [Nodes -> 0 .. MaxRequests]
    BY <1>1, <1>2 DEF Typed
  <1>4. faults \in 0 .. MaxFaults
    BY <1>1, Bounds DEF Typed, Limits
  <1>5. QED
    BY <1>1, <1>3, <1>4 DEF Typed, Limits, TypeOK

\* The queues stay within the limits of TCP and of the RPC channel, and no node
\* is given more answers than the requests it may send.
THEOREM TypeCorrect == Spec => []TypeOK
  BY InvTypeOK, InvHolds, PTL

\* A request is answered at most once, for any mix of roles: what DefaultDecoder,
\* handleConn, consumeRPCMessages and handleChunkRequest hold of a node's
\* requests and their answers never exceeds the requests the node has sent.
THEOREM AnsweredOnce == Spec => []NoAnswerTwice
  <1>1. Inv => NoAnswerTwice
    BY DEF Inv
  <1>2. QED
    BY <1>1, InvHolds, PTL

\* If no node both serves and downloads over the connection, DefaultDecoder
\* stays in step with the frames until a write fails half-way.  (Where a node
\* does both, TLC shows how it gets out of step.)
THEOREM FramesStayIntact ==
    ASSUME Seeders \cap Downloaders = {}
    PROVE  Spec => []FramesIntact
  <1>1. Inv => FramesIntact
    BY DEF Inv, FramesInv, OneRole, Framed, InStep, FramesIntact
  <1>2. QED
    BY <1>1, InvHolds, PTL

\* A request ends the process only while Cleanup runs: otherwise the second
\* look at activeFiles finds what the first one found.
THEOREM RequestsDoNotKill == Spec => SeederSurvivesRequests
  <1> DEFINE Survives == \A n \in Nodes : up[n] /\ ~up'[n] => shutdown[n] # "no"
  <1>1. Inv /\ [Next]_vars => [Survives]_vars
    <2> SUFFICES ASSUME Inv, Next, NEW n \in Nodes, up[n], ~up'[n]
                 PROVE  shutdown[n] # "no"
      BY Zenon
    <2>1. Typed /\ LooksAgree
      BY DEF Inv
    <2>2. PICK k \in Nodes : Panic(k) \/ Exit(k)
      <3>1. ~UNCHANGED up
        OBVIOUS
      <3>2. ~CloseConn
        BY <3>1, CloseConnIs
      <3>3. PICK k \in Nodes : Step(k)
        BY <3>2, Zenon DEF Next, Step
      <3>4. Aside(k)
        BY <2>1, <3>1, <3>3, StepCases, AsksAre, DecodeIs, ForwardIs, ConsumeIs, ChecksAre,
           WriteLengthIs, WriteBodyIs, WriteFailsIs
      <3>5. QED
        BY <3>1, <3>4 DEF Aside, ReadBadLength, StopSeedingFile, PostRemove
    <2>3. k = n
      BY <2>1, <2>2 DEF Panic, Exit, Typed
    <2>4. QED
      BY <2>1, <2>2, <2>3 DEF Panic, At, Exit, LooksAgree
  <1>2. QED
    BY <1>1, InvHolds, PTL DEF Spec, SeederSurvivesRequests
=============================================================================
