-------------------------- MODULE TransportProofs ---------------------------
(***************************************************************************)
(* Proofs about Transport, for any calls, addresses and connections and any *)
(* lengths of the timers that satisfy the assumptions.                      *)
(***************************************************************************)
EXTENDS Transport, TLAPS

(***************************************************************************)
(* The first part of the inductive invariant (the second is CallInv below). *)
(* The ages stay in their types because a Tick waits for a timer that is    *)
(* due; no dial can take the success of another because no message ever     *)
(* fills connectedCh.                                                       *)
(***************************************************************************)
TimersBounded ==
    /\ \A t \in Attempts : attempt[t].at = "punching" => attempt[t].age <= PunchTime
    /\ \A d \in Dials : dial[d].at = "settling" => dial[d].age <= SettleTime

NothingPunched == connectedCh = FALSE

\* Everything the invariant is about except the dialling.
OtherType ==
    /\ up      \in BOOLEAN
    /\ call    \in [Calls -> {"idle", "asking", "dialling", "ok", "failed"}]
    /\ conn    \in [Conns -> {"none", "open", "registered"}]
    /\ peers   \in [Keys -> {NULL} \cup Conns]
    /\ udp     \in SUBSET Udp
    /\ deletes \in 0 .. MaxDeletes

DialType ==
    /\ dial    \in [Dials -> Dial]
    /\ attempt \in [Attempts -> Attempt]
    /\ TimersBounded

-----------------------------------------------------------------------------
(***************************************************************************)
(* Timers and goroutines of the dials.                                      *)
(***************************************************************************)

\* A dial moves to a new state with its timer reset; attempts stay.
LEMMA DialMoves ==
    ASSUME DialType, NEW d \in Dials,
           NEW a \in {"none", "waiting", "settling", "counted", "ended"},
           dial' = [dial EXCEPT ![d] = [at |-> a, age |-> 0]], UNCHANGED attempt
    PROVE  DialType'
  <1>1. [at |-> a, age |-> 0] \in Dial
    BY TimesAssumption DEF Dial
  <1>2. dial' \in [Dials -> Dial] /\ attempt' \in [Attempts -> Attempt]
    BY <1>1 DEF DialType
  <1>3. \A e \in Dials : dial'[e] = IF e = d THEN [at |-> a, age |-> 0] ELSE dial[e]
    BY DEF DialType
  <1>4. TimersBounded'
    BY <1>3, TimesAssumption DEF DialType, TimersBounded
  <1>5. QED
    BY <1>2, <1>4 DEF DialType

\* A Tick lets every timer that is not due go on.
LEMMA TickType ==
    ASSUME DialType, Tick
    PROVE  DialType'
  <1>1. /\ {PunchTime, ConnectTime, DialTime, SettleTime} \subseteq Nat \ {0}
        /\ SettleTime < DialTime
    BY TimesAssumption
  <1>2. ASSUME NEW t \in Attempts
        PROVE  /\ attempt'[t] \in Attempt
               /\ attempt'[t].at = "punching" => attempt'[t].age <= PunchTime
    <2>1. CASE attempt[t].at \notin {"punching", "dialling"}
      <3>1. attempt'[t] = attempt[t]
        BY <2>1 DEF Tick
      <3>2. QED
        BY <3>1, <2>1 DEF DialType
    <2>2. CASE attempt[t].at \in {"punching", "dialling"}
      <3>1. attempt'[t] = [attempt[t] EXCEPT !.age = @ + 1]
        BY <2>2 DEF Tick
      <3>2. attempt[t] \in Attempt
        BY DEF DialType
      <3>3. /\ attempt'[t].at = attempt[t].at
            /\ attempt'[t].age = attempt[t].age + 1
            /\ attempt[t].age \in 0 .. PunchTime + ConnectTime
        BY <3>1, <3>2 DEF Attempt
      <3>4. /\ attempt[t].at = "punching" => attempt[t].age # PunchTime
            /\ attempt[t].at = "dialling" => attempt[t].age # PunchTime + ConnectTime
        BY DEF Tick, Urgent
      <3>5. attempt[t].at = "punching" => attempt[t].age <= PunchTime
        BY DEF DialType, TimersBounded
      <3>6. /\ attempt[t].age + 1 \in 0 .. PunchTime + ConnectTime
            /\ attempt[t].at = "punching" => attempt[t].age + 1 <= PunchTime
        BY <1>1, <2>2, <3>3, <3>4, <3>5
      <3>7. attempt'[t] \in Attempt
        BY <3>1, <3>2, <3>6 DEF Attempt
      <3>8. QED
        BY <3>3, <3>6, <3>7
    <2>3. QED
      BY <2>1, <2>2
  <1>3. ASSUME NEW d \in Dials
        PROVE  /\ dial'[d] \in Dial
               /\ dial'[d].at = "settling" => dial'[d].age <= SettleTime
    <2>1. CASE dial[d].at \notin {"waiting", "settling"}
      <3>1. dial'[d] = dial[d]
        BY <2>1 DEF Tick
      <3>2. QED
        BY <3>1, <2>1 DEF DialType
    <2>2. CASE dial[d].at \in {"waiting", "settling"}
      <3>1. dial'[d] = [dial[d] EXCEPT !.age = @ + 1]
        BY <2>2 DEF Tick
      <3>2. dial[d] \in Dial
        BY DEF DialType
      <3>3. /\ dial'[d].at = dial[d].at
            /\ dial'[d].age = dial[d].age + 1
            /\ dial[d].age \in 0 .. DialTime
        BY <3>1, <3>2 DEF Dial
      <3>4. /\ dial[d].at = "waiting" => dial[d].age # DialTime
            /\ dial[d].at = "settling" => dial[d].age # SettleTime
        BY DEF Tick, Urgent
      <3>5. dial[d].at = "settling" => dial[d].age <= SettleTime
        BY DEF DialType, TimersBounded
      <3>6. /\ dial[d].age + 1 \in 0 .. DialTime
            /\ dial[d].at = "settling" => dial[d].age + 1 <= SettleTime
        BY <1>1, <2>2, <3>3, <3>4, <3>5
      <3>7. dial'[d] \in Dial
        BY <3>1, <3>2, <3>6 DEF Dial
      <3>8. QED
        BY <3>3, <3>6, <3>7
    <2>3. QED
      BY <2>1, <2>2
  <1>4. attempt' \in [Attempts -> Attempt] /\ dial' \in [Dials -> Dial]
    BY <1>2, <1>3 DEF Tick
  <1>5. QED
    BY <1>2, <1>3, <1>4 DEF DialType, TimersBounded

\* An attempt moves on and does not punch any more; dials stay.
LEMMA AttemptMoves ==
    ASSUME DialType, NEW t \in Attempts,
           NEW a \in {"dialling", "connected", "failed"},
           NEW n \in 0 .. PunchTime + ConnectTime,
           attempt' = [attempt EXCEPT ![t] = [at |-> a, age |-> n]], UNCHANGED dial
    PROVE  DialType'
  <1>1. [at |-> a, age |-> n] \in Attempt
    BY DEF Attempt
  <1>2. dial' \in [Dials -> Dial] /\ attempt' \in [Attempts -> Attempt]
    BY <1>1 DEF DialType
  <1>3. \A u \in Attempts :
           attempt'[u] = IF u = t THEN [at |-> a, age |-> n] ELSE attempt[u]
    BY DEF DialType
  <1>4. TimersBounded'
    BY <1>3 DEF DialType, TimersBounded
  <1>5. QED
    BY <1>2, <1>4 DEF DialType

\* New dials and their attempts start with their timers at 0.
LEMMA StartType ==
    ASSUME DialType, udp \in SUBSET Udp, NEW ds, NEW listening,
           StartDials(ds, listening)
    PROVE  DialType' /\ udp' \in SUBSET Udp
  <1>1. /\ [at |-> "waiting", age |-> 0] \in Dial
        /\ [at |-> "ended", age |-> 0] \in Dial
        /\ [at |-> "bad", age |-> 0] \in Attempt
        /\ [at |-> "punching", age |-> 0] \in Attempt
        /\ 0 <= PunchTime
    BY TimesAssumption DEF Dial, Attempt
  <1>2. ASSUME NEW d \in Dials
        PROVE  /\ dial'[d] \in Dial
               /\ dial'[d].at = "settling" => dial'[d].age <= SettleTime
    <2>1. \/ dial'[d] = [at |-> "waiting", age |-> 0]
          \/ dial'[d] = [at |-> "ended", age |-> 0]
          \/ dial'[d] = dial[d]
      BY DEF StartDials
    <2>2. QED
      BY <1>1, <2>1 DEF DialType, TimersBounded
  <1>3. ASSUME NEW t \in Attempts
        PROVE  /\ attempt'[t] \in Attempt
               /\ attempt'[t].at = "punching" => attempt'[t].age <= PunchTime
    <2>1. \/ attempt'[t] = attempt[t]
          \/ attempt'[t] = [at |-> "bad", age |-> 0]
          \/ attempt'[t] = [at |-> "punching", age |-> 0]
      BY DEF StartDials
    <2>2. QED
      BY <1>1, <2>1 DEF DialType, TimersBounded
  <1>4. attempt' \in [Attempts -> Attempt] /\ dial' \in [Dials -> Dial]
    BY <1>2, <1>3 DEF StartDials
  <1>5. DialType'
    BY <1>2, <1>3, <1>4 DEF DialType, TimersBounded
  <1>6. \A t \in Attempts : [type |-> "PUNCH", addr |-> t[2]] \in Udp
    BY DEF Attempts, Udp
  <1>7. QED
    BY <1>5, <1>6 DEF StartDials

-----------------------------------------------------------------------------
(***************************************************************************)
(* Every step keeps the types and leaves connectedCh empty.                 *)
(***************************************************************************)

\* No receiver accepts a message: with the sender's ListenAddr it has at least
\* three fields.
LEMMA NothingAccepted ==
    ASSUME NEW type
    PROVE  ~Accepted(type)
  BY ListenAssumption DEF Accepted, Fields

\* A step of any action, taken in a state with an empty channel, keeps the types
\* and the channel empty.
LEMMA StepKeepsTypes ==
    ASSUME OtherType, DialType, NothingPunched, Next
    PROVE  OtherType' /\ DialType' /\ NothingPunched'
  <1>1. ASSUME NEW c \in Calls, NEW list \in SUBSET Entries, NEW listening \in BOOLEAN,
               ReceivePeerList(c, list, listening)
        PROVE  OtherType' /\ DialType' /\ NothingPunched'
    <2>1. PICK ds : StartDials(ds, listening)
      BY <1>1 DEF ReceivePeerList
    <2>2. DialType' /\ udp' \in SUBSET Udp
      BY <2>1, StartType DEF OtherType
    <2>3. call' \in [Calls -> {"idle", "asking", "dialling", "ok", "failed"}]
      BY <1>1 DEF ReceivePeerList, OtherType
    <2>4. UNCHANGED <<up, conn, peers, connectedCh, deletes>>
      BY <1>1 DEF ReceivePeerList, connVars
    <2>5. QED
      BY <2>2, <2>3, <2>4 DEF OtherType, NothingPunched
  <1>2. ASSUME NEW c \in Calls, connectToAllPeers(c) \/ ReturnFromCall(c)
        PROVE  OtherType' /\ DialType' /\ NothingPunched'
    <2>1. call' \in [Calls -> {"idle", "asking", "dialling", "ok", "failed"}]
      BY <1>2 DEF connectToAllPeers, ReturnFromCall, OtherType
    <2>2. UNCHANGED <<up, dial, attempt, connectedCh, udp, conn, peers, deletes>>
      BY <1>2 DEF connectToAllPeers, ReturnFromCall, connVars
    <2>3. QED
      BY <2>1, <2>2 DEF OtherType, DialType, TimersBounded, NothingPunched
  <1>3. CASE bootstrapNetwork
    <2>1. PICK ds : StartDials(ds, TRUE)
      BY <1>3 DEF bootstrapNetwork
    <2>2. DialType' /\ udp' \in SUBSET Udp
      BY <2>1, StartType DEF OtherType
    <2>3. UNCHANGED <<up, call, conn, peers, connectedCh, deletes>>
      BY <1>3 DEF bootstrapNetwork, connVars
    <2>4. QED
      BY <2>2, <2>3 DEF OtherType, NothingPunched
  <1>4. ASSUME NEW m \in Udp, handleUDPMessages(m)
        PROVE  OtherType' /\ DialType' /\ NothingPunched'
    <2>1. udp' \in SUBSET Udp
      BY <1>4, NothingAccepted DEF handleUDPMessages, OtherType
    <2>2. connectedCh' = FALSE
      BY <1>4, NothingAccepted DEF handleUDPMessages, NothingPunched
    <2>3. UNCHANGED <<up, call, dial, attempt, conn, peers, deletes>>
      BY <1>4 DEF handleUDPMessages, connVars
    <2>4. QED
      BY <2>1, <2>2, <2>3 DEF OtherType, DialType, TimersBounded, NothingPunched
  <1>5. ASSUME NEW t \in Attempts, AttemptStep(t)
        PROVE  OtherType' /\ DialType' /\ NothingPunched'
    <2>1. CASE BeginConnect(t)
      <3>1. PunchTime \in 0 .. PunchTime + ConnectTime
        BY TimesAssumption
      <3>2. DialType'
        BY <2>1, <3>1, AttemptMoves DEF BeginConnect
      <3>3. UNCHANGED <<up, call, conn, peers, connectedCh, udp, deletes>>
        BY <2>1 DEF BeginConnect, connVars
      <3>4. QED
        BY <3>2, <3>3 DEF OtherType, NothingPunched
    <2>2. CASE Connect(t)
      <3>1. 0 \in 0 .. PunchTime + ConnectTime
        BY TimesAssumption
      <3>2. DialType'
        BY <2>2, <3>1, AttemptMoves DEF Connect
      <3>3. conn' \in [Conns -> {"none", "open", "registered"}]
        BY <2>2 DEF Connect, OtherType
      <3>4. up' \in BOOLEAN
        BY <2>2 DEF Connect, Done
      <3>5. UNCHANGED <<call, peers, connectedCh, udp, deletes>>
        BY <2>2 DEF Connect
      <3>6. QED
        BY <3>2, <3>3, <3>4, <3>5 DEF OtherType, NothingPunched
    <2>3. CASE ConnectFails(t)
      <3>1. 0 \in 0 .. PunchTime + ConnectTime
        BY TimesAssumption
      <3>2. DialType'
        BY <2>3, <3>1, AttemptMoves DEF ConnectFails
      <3>3. UNCHANGED <<up, call, conn, peers, connectedCh, udp, deletes>>
        BY <2>3 DEF ConnectFails, connVars
      <3>4. QED
        BY <3>2, <3>3 DEF OtherType, NothingPunched
    <2>4. QED
      BY <1>5, <2>1, <2>2, <2>3 DEF AttemptStep
  <1>6. ASSUME NEW d \in Dials, DialStep(d)
        PROVE  OtherType' /\ DialType' /\ NothingPunched'
    <2>1. PICK a \in {"settling", "counted", "ended"} :
              dial' = [dial EXCEPT ![d] = [at |-> a, age |-> 0]]
      BY <1>6 DEF DialStep, DialSucceeds, AfterSuccess, DialErrs, DialTimeout,
                  CountConnection
    <2>2. UNCHANGED <<up, call, attempt, udp, conn, peers, deletes>>
      BY <1>6 DEF DialStep, DialSucceeds, DialErrs, DialTimeout, CountConnection,
                  connVars
    <2>3. connectedCh' = FALSE
      BY <1>6 DEF DialStep, DialSucceeds, DialErrs, DialTimeout, CountConnection,
                  NothingPunched
    <2>4. DialType'
      BY <2>1, <2>2, DialMoves
    <2>5. QED
      BY <2>2, <2>3, <2>4 DEF OtherType, NothingPunched
  <1>7. ASSUME NEW k \in Conns, Register(k), UNCHANGED up
        PROVE  OtherType' /\ DialType' /\ NothingPunched'
    <2>1. /\ peers' \in [Keys -> {NULL} \cup Conns]
          /\ conn' \in [Conns -> {"none", "open", "registered"}]
      BY <1>7 DEF Register, OtherType
    <2>2. UNCHANGED <<up, call, dial, attempt, connectedCh, udp, deletes>>
      BY <1>7 DEF Register, dialVars
    <2>3. QED
      BY <2>1, <2>2 DEF OtherType, DialType, TimersBounded, NothingPunched
  <1>8. ASSUME NEW key \in Keys, DeletePeer(key)
        PROVE  OtherType' /\ DialType' /\ NothingPunched'
    <2>1. peers' \in [Keys -> {NULL} \cup Conns]
      BY <1>8 DEF DeletePeer, OtherType
    <2>2. deletes' \in 0 .. MaxDeletes
      BY <1>8, DeletesAssumption DEF DeletePeer, OtherType
    <2>3. UNCHANGED <<up, call, dial, attempt, connectedCh, udp, conn>>
      BY <1>8 DEF DeletePeer, dialVars
    <2>4. QED
      BY <2>1, <2>2, <2>3 DEF OtherType, DialType, TimersBounded, NothingPunched
  <1>9. CASE Tick
    <2>1. DialType'
      BY <1>9, TickType
    <2>2. UNCHANGED <<up, call, connectedCh, conn, peers, deletes>> /\ udp' = {}
      BY <1>9 DEF Tick, connVars
    <2>3. QED
      BY <2>1, <2>2 DEF OtherType, NothingPunched
  <1>10. Attempts \subseteq Conns /\ Inbound \subseteq Conns
    BY DEF Conns
  <1>11. QED
    BY <1>1, <1>2, <1>3, <1>4, <1>5, <1>6, <1>7, <1>8, <1>9, <1>10
    DEF Next, AcceptConn, onPeer, Register

-----------------------------------------------------------------------------
(***************************************************************************)
(* A dial that succeeded has a connection, and keeps the one it has.        *)
(***************************************************************************)

\* A dial that a step leaves alone stays done if the step takes no connected
\* attempt of it away.
LEMMA DoneKept ==
    ASSUME NEW d \in Dials, Done(d),
           \A t \in AttemptsOf(d) : attempt[t].at = "connected" =>
               attempt'[t].at = "connected"
    PROVE  Done(d)'
  BY DEF Done, AttemptsOf

\* A dial that starts anew waits or has ended; the attempts of the others stay as they are.
LEMMA StartKeepsDone ==
    ASSUME DialType, DialSuccessIsConnection, NEW ds, NEW listening,
           StartDials(ds, listening)
    PROVE  DialSuccessIsConnection'
  <1>1. SUFFICES ASSUME NEW d \in Dials, dial'[d].at \in {"settling", "counted"}
                 PROVE  Done(d)'
    BY DEF DialSuccessIsConnection
  <1>2. IF d \in ds THEN dial'[d].at \in {"waiting", "ended"} ELSE dial'[d] = dial[d]
    BY DEF StartDials
  <1>3. d \notin ds /\ dial'[d] = dial[d]
    BY <1>1, <1>2
  <1>4. \A t \in AttemptsOf(d) : attempt'[t] = attempt[t]
    BY <1>3 DEF AttemptsOf, StartDials
  <1>5. Done(d)
    BY <1>1, <1>3 DEF DialSuccessIsConnection
  <1>6. QED
    BY <1>4, <1>5, DoneKept

\* A step of any action leaves every dial that succeeded with its connection.
LEMMA StepKeepsDone ==
    ASSUME DialType, NothingPunched, DialSuccessIsConnection, Next
    PROVE  DialSuccessIsConnection'
  <1>1. CASE \E c \in Calls, list \in SUBSET Entries, listening \in BOOLEAN :
                ReceivePeerList(c, list, listening)
    <2>1. PICK ds, listening : StartDials(ds, listening)
      BY <1>1 DEF ReceivePeerList
    <2>2. QED
      BY <2>1, StartKeepsDone
  <1>2. CASE bootstrapNetwork
    <2>1. PICK ds : StartDials(ds, TRUE)
      BY <1>2 DEF bootstrapNetwork
    <2>2. QED
      BY <2>1, StartKeepsDone
  <1>3. ASSUME NEW t \in Attempts, AttemptStep(t)
        PROVE  DialSuccessIsConnection'
    <2>1. PICK r : /\ attempt' = [attempt EXCEPT ![t] = r]
                   /\ attempt[t].at \in {"punching", "dialling"}
      BY <1>3 DEF AttemptStep, BeginConnect, Connect, ConnectFails
    <2>2. \A u \in Attempts : attempt[u].at = "connected" =>
              attempt'[u].at = "connected"
      BY <2>1 DEF DialType
    <2>3. dial' = dial
      BY <1>3 DEF AttemptStep, BeginConnect, Connect, ConnectFails
    <2>4. QED
      BY <2>2, <2>3, DoneKept DEF DialSuccessIsConnection, AttemptsOf
  <1>4. ASSUME NEW d \in Dials, DialStep(d)
        PROVE  DialSuccessIsConnection'
    <2>1. PICK a \in {"settling", "counted", "ended"} :
              /\ dial' = [dial EXCEPT ![d] = [at |-> a, age |-> 0]]
              /\ a = "ended" \/ Done(d)
      <3>1. CASE \E x \in {"done", "punched"} : DialSucceeds(d, x)
        <4>1. Done(d)
          BY <3>1 DEF DialSucceeds, Successes, NothingPunched
        <4>2. QED
          BY <3>1, <4>1 DEF DialSucceeds, AfterSuccess
      <3>2. CASE DialErrs(d) \/ DialTimeout(d)
        BY <3>2 DEF DialErrs, DialTimeout
      <3>3. CASE CountConnection(d)
        <4>1. Done(d)
          BY <3>3 DEF CountConnection, DialSuccessIsConnection
        <4>2. QED
          BY <3>3, <4>1 DEF CountConnection
      <3>4. QED
        BY <1>4, <3>1, <3>2, <3>3 DEF DialStep
    <2>2. attempt' = attempt
      BY <1>4 DEF DialStep, DialSucceeds, DialErrs, DialTimeout, CountConnection
    <2>3. \A e \in Dials : dial'[e] = IF e = d THEN [at |-> a, age |-> 0] ELSE dial[e]
      BY <2>1 DEF DialType
    <2>4. \A e \in Dials : Done(e)' <=> Done(e)
      BY <2>2 DEF Done, AttemptsOf
    <2>5. QED
      BY <2>1, <2>3, <2>4 DEF DialSuccessIsConnection
  <1>5. CASE Tick
    <2>1. \A t \in Attempts : attempt'[t].at = attempt[t].at
      BY <1>5 DEF Tick, DialType, Attempt
    <2>2. \A d \in Dials : dial'[d].at = dial[d].at
      BY <1>5 DEF Tick, DialType, Dial
    <2>3. QED
      BY <2>1, <2>2, DoneKept DEF DialSuccessIsConnection, AttemptsOf
  <1>6. CASE UNCHANGED <<dial, attempt>>
    BY <1>6 DEF DialSuccessIsConnection, Done, AttemptsOf
  <1>7. \/ \E c \in Calls, list \in SUBSET Entries, listening \in BOOLEAN :
              ReceivePeerList(c, list, listening)
        \/ bootstrapNetwork
        \/ \E t \in Attempts : AttemptStep(t)
        \/ \E d \in Dials : DialStep(d)
        \/ Tick
        \/ UNCHANGED <<dial, attempt>>
    BY DEF Next, connectToAllPeers, ReturnFromCall, handleUDPMessages, AcceptConn, onPeer, Register,
           DeletePeer, dialVars
  <1>8. QED
    BY <1>1, <1>2, <1>3, <1>4, <1>5, <1>6, <1>7

-----------------------------------------------------------------------------
(***************************************************************************)
(* What a call leaves behind.  A dial of a call has one address, hence one  *)
(* attempt, and the two are followed together: the attempt is over before   *)
(* the dial can time out, its connection is entered before the dial looks   *)
(* for it, and what a dial that has ended did not find never comes back.    *)
(***************************************************************************)
Own == {t \in Attempts : t[1][1] \in Calls}

\* The dial and its attempt start together, after the call, and only to an
\* address that a peer announced.
Started(t) ==
    /\ call[t[1][1]] \in {"idle", "asking"} => dial[t[1]].at = "none"
    /\ dial[t[1]].at = "none" => attempt[t].at = "none"
    /\ dial[t[1]].at # "none" => t[2] \in UNION Entries

\* The dial waits as long as the attempt runs, and their timers agree; it does
\* not wait on when the attempt has connected.
InTime(t) ==
    /\ attempt[t].at \in {"punching", "dialling"} =>
          dial[t[1]].at = "waiting" /\ dial[t[1]].age = attempt[t].age
    /\ attempt[t].at = "connected" /\ dial[t[1]].at = "waiting" =>
          dial[t[1]].age <= PunchTime + ConnectTime

\* The connection of an attempt is entered under the address and once.
Entered(t) ==
    /\ conn[t] # "none" <=> attempt[t].at = "connected"
    /\ \A key \in Keys : peers[key] = t => key = t[2] /\ conn[t] = "registered"

\* When the dial looks its address up the connection has been entered, and when
\* the dial has ended the connection is gone from s.peers for good.
Settled(t) ==
    /\ dial[t[1]].at = "settling" /\ dial[t[1]].age # 0 => conn[t] # "open"
    /\ dial[t[1]].at = "ended" =>
          conn[t] # "open" /\ \A key \in Keys : peers[key] # t

\* A call fails only when none of its dials counted a connection.
Verdict(t) == call[t[1][1]] = "failed" => dial[t[1]].at \in {"none", "ended"}

Followed(t) == Started(t) /\ InTime(t) /\ Entered(t) /\ Settled(t) /\ Verdict(t)

CallInv == \A t \in Own : Followed(t)

\* An attempt of a call is the only one of its dial, and no inbound connection.
LEMMA OwnShape ==
    ASSUME NEW t \in Own
    PROVE  /\ t \in Attempts /\ t \in Conns /\ t \notin Inbound /\ t # NULL
           /\ t[1] \in Dials /\ t[1][1] \in Calls /\ t[1][1] # BOOT
           /\ t[1][2] = {t[2]}
           /\ AttemptsOf(t[1]) = {t}
  <1>1. t \in Attempts /\ t[1][1] \in Calls
    BY DEF Own
  <1>2. t \in Dials \X Addrs /\ t[2] \in t[1][2] /\ t[1] \in Dials
    BY <1>1 DEF Attempts
  <1>3. t[1][1] # BOOT
    BY <1>1, CallsAssumption
  <1>4. PICK c \in Calls, a \in Addrs : t[1] = <<c, {a}>>
    BY <1>2, <1>3 DEF Dials
  <1>5. t[1][2] = {t[2]}
    BY <1>2, <1>4
  <1>6. \A u \in AttemptsOf(t[1]) : u = t
    <2>1. TAKE u \in AttemptsOf(t[1])
    <2>2. u \in Dials \X Addrs /\ u[1] = t[1] /\ u[2] \in u[1][2]
      BY DEF AttemptsOf, Attempts
    <2>3. u[2] = t[2]
      BY <2>2, <1>5
    <2>4. QED
      BY <2>2, <2>3, <1>2
  <1>7. t \in AttemptsOf(t[1])
    BY <1>1 DEF AttemptsOf
  <1>8. t \in Conns /\ t \notin Inbound /\ t # NULL
    BY <1>1, InboundAssumption, NullAssumption DEF Conns
  <1>9. QED
    BY <1>1, <1>2, <1>3, <1>5, <1>6, <1>7, <1>8

\* A step that leaves a dial, its attempt and its connection alone, and does not
\* enter the connection anew, changes nothing.
LEMMA Untouched ==
    ASSUME NEW t \in Own, Followed(t),
           call'[t[1][1]] = call[t[1][1]], dial'[t[1]] = dial[t[1]],
           attempt'[t] = attempt[t], conn'[t] = conn[t],
           \A key \in Keys : peers'[key] = t => peers[key] = t
    PROVE  Followed(t)'
  BY DEF Followed, Started, InTime, Entered, Settled, Verdict

\* Dials that do not belong to a call leave its attempts alone.
LEMMA StartUntouched ==
    ASSUME NEW t \in Own, Followed(t), NEW ds, NEW listening,
           StartDials(ds, listening), t[1] \notin ds,
           call'[t[1][1]] = call[t[1][1]], UNCHANGED connVars
    PROVE  Followed(t)'
  <1>1. dial'[t[1]] = dial[t[1]] /\ attempt'[t] = attempt[t]
    BY OwnShape DEF StartDials
  <1>2. conn' = conn /\ peers' = peers
    BY DEF connVars
  <1>3. QED
    BY <1>1, <1>2, Untouched

\* The addresses that a call dials have been announced.
LEMMA FilteredAnnounced ==
    ASSUME NEW list \in SUBSET Entries
    PROVE  filterPeerList(list) \subseteq UNION list /\ UNION list \subseteq UNION Entries
  BY DEF filterPeerList

\* A call starts its dials, all of them for the first time.
LEMMA CallFollowed ==
    ASSUME OtherType, DialType, NEW t \in Own, Followed(t),
           NEW c \in Calls, NEW list \in SUBSET Entries, NEW listening \in BOOLEAN,
           ReceivePeerList(c, list, listening)
    PROVE  Followed(t)'
  <1> DEFINE new == {a \in filterPeerList(list) : a # MyAddr /\ peers[a] = NULL}
             ds  == {<<c, {a}>> : a \in new}
  <1>1. /\ call[c] = "asking"
        /\ call' = [call EXCEPT ![c] = IF list = {} THEN "failed" ELSE "dialling"]
        /\ StartDials(ds, listening)
        /\ UNCHANGED connVars
    BY DEF ReceivePeerList
  <1>2. conn' = conn /\ peers' = peers
    BY <1>1 DEF connVars
  <1>3. CASE t[1][1] # c
    <2>1. t[1] \notin ds
      BY <1>3
    <2>2. call'[t[1][1]] = call[t[1][1]]
      BY <1>1, <1>3, OwnShape DEF OtherType
    <2>3. QED
      BY <1>1, <2>1, <2>2, StartUntouched
  <1>4. CASE t[1][1] = c
    <2>1. dial[t[1]].at = "none" /\ attempt[t].at = "none"
      BY <1>1, <1>4 DEF Followed, Started
    <2>2. conn[t] = "none" /\ \A key \in Keys : peers[key] # t
      BY <2>1 DEF Followed, Entered
    <2>3. call'[c] = IF list = {} THEN "failed" ELSE "dialling"
      BY <1>1 DEF OtherType
    <2>4. CASE t[1] \in ds
      <3>1. PICK a \in new : t[1] = <<c, {a}>>
        BY <2>4
      <3>2. t[2] = a
        BY <3>1, OwnShape
      <3>3. t[2] \in UNION Entries /\ list # {}
        BY <3>2, FilteredAnnounced
      <3>4. \/ /\ dial'[t[1]] = [at |-> "waiting", age |-> 0]
               /\ \/ attempt'[t] = [at |-> "bad", age |-> 0]
                  \/ attempt'[t] = [at |-> "punching", age |-> 0]
            \/ dial'[t[1]] = [at |-> "ended", age |-> 0] /\ attempt'[t] = attempt[t]
        BY <1>1, <2>4, OwnShape DEF StartDials
      <3>5. Started(t)'
        BY <1>4, <2>3, <3>3, <3>4 DEF Started
      <3>6. InTime(t)'
        BY <2>1, <3>4 DEF InTime
      <3>7. Entered(t)'
        BY <1>2, <2>1, <2>2, <3>4 DEF Entered
      <3>8. Settled(t)' /\ Verdict(t)'
        BY <1>2, <1>4, <2>2, <2>3, <3>3, <3>4 DEF Settled, Verdict
      <3>9. QED
        BY <3>5, <3>6, <3>7, <3>8 DEF Followed
    <2>5. CASE t[1] \notin ds
      <3>1. dial'[t[1]] = dial[t[1]] /\ attempt'[t] = attempt[t]
        BY <1>1, <2>5, OwnShape DEF StartDials
      <3>2. call'[c] \notin {"idle", "asking"}
        BY <2>3
      <3>3. QED
        BY <1>2, <1>4, <2>1, <2>2, <3>1, <3>2
        DEF Followed, Started, InTime, Entered, Settled, Verdict
    <2>6. QED
      BY <2>4, <2>5
  <1>5. QED
    BY <1>3, <1>4

\* A call that asks the tracker has not started a dial.
LEMMA AskFollowed ==
    ASSUME OtherType, NEW t \in Own, Followed(t), NEW c \in Calls, connectToAllPeers(c)
    PROVE  Followed(t)'
  <1>1. /\ call[c] = "idle" /\ call' = [call EXCEPT ![c] = "asking"]
        /\ dial' = dial /\ attempt' = attempt /\ conn' = conn /\ peers' = peers
    BY DEF connectToAllPeers, connVars
  <1>2. call'[t[1][1]] = IF t[1][1] = c THEN "asking" ELSE call[t[1][1]]
    BY <1>1, OwnShape DEF OtherType
  <1>3. QED
    BY <1>1, <1>2 DEF Followed, Started, InTime, Entered, Settled, Verdict

\* A call returns: it has failed only if every dial that it made has ended.
LEMMA ReturnFollowed ==
    ASSUME OtherType, NEW t \in Own, Followed(t), NEW c \in Calls, ReturnFromCall(c)
    PROVE  Followed(t)'
  <1>1. dial' = dial /\ attempt' = attempt /\ conn' = conn /\ peers' = peers
    BY DEF ReturnFromCall, connVars
  <1>2. CASE t[1][1] # c
    <2>1. call'[t[1][1]] = call[t[1][1]]
      BY <1>2, OwnShape DEF ReturnFromCall, OtherType
    <2>2. QED
      BY <1>1, <2>1, Untouched
  <1>3. CASE t[1][1] = c
    <2>1. t[1] \in DialsOf(c)
      BY <1>3, OwnShape DEF DialsOf
    <2>2. /\ dial[t[1]].at \in {"none", "counted", "ended"}
          /\ call'[c] \in {"ok", "failed"}
          /\ dial[t[1]].at = "counted" => call'[c] = "ok"
      BY <2>1 DEF ReturnFromCall, OtherType
    <2>3. QED
      BY <1>1, <1>3, <2>2 DEF Followed, Started, InTime, Entered, Settled, Verdict
  <1>4. QED
    BY <1>2, <1>3

\* The goroutine of an address goes on while its dial waits.
LEMMA AttemptFollowed ==
    ASSUME OtherType, DialType, NEW t \in Own, Followed(t),
           NEW u \in Attempts, AttemptStep(u)
    PROVE  Followed(t)'
  <1>1. call' = call /\ dial' = dial /\ peers' = peers
    BY DEF AttemptStep, BeginConnect, Connect, ConnectFails, connVars
  <1>2. PICK r : attempt' = [attempt EXCEPT ![u] = r]
    BY DEF AttemptStep, BeginConnect, Connect, ConnectFails
  <1>3. t \in Attempts /\ t \in Conns
    BY OwnShape
  <1>4. conn' = conn \/ conn' = [conn EXCEPT ![u] = "open"]
    BY DEF AttemptStep, BeginConnect, Connect, ConnectFails, connVars
  <1>5. CASE t # u
    <2>1. attempt'[t] = attempt[t] /\ conn'[t] = conn[t]
      BY <1>2, <1>3, <1>4, <1>5 DEF DialType, OtherType
    <2>2. QED
      BY <1>1, <2>1, Untouched
  <1>6. CASE t = u
    <2>1. attempt[t].at \in {"punching", "dialling"}
      BY <1>6 DEF AttemptStep, BeginConnect, Connect, ConnectFails
    <2>2. /\ dial[t[1]].at = "waiting"
          /\ dial[t[1]].age = attempt[t].age
          /\ conn[t] = "none"
          /\ \A key \in Keys : peers[key] # t
      BY <2>1 DEF Followed, InTime, Entered
    <2>3. dial[t[1]].age <= PunchTime + ConnectTime
      <3>1. attempt[t].age \in 0 .. PunchTime + ConnectTime
        BY <1>3 DEF DialType, Attempt
      <3>2. QED
        BY <2>2, <3>1, TimesAssumption
    <2>4. Started(t)'
      BY <1>1, <2>2 DEF Followed, Started
    <2>5. Settled(t)' /\ Verdict(t)'
      BY <1>1, <2>2 DEF Followed, Settled, Verdict
    <2>6. \/ /\ attempt'[t].at = "dialling" /\ attempt'[t].age = attempt[t].age
             /\ conn'[t] = conn[t]
          \/ attempt'[t].at = "connected" /\ conn'[t] = "open"
          \/ attempt'[t].at = "failed" /\ conn'[t] = conn[t]
      BY <1>3, <1>6 DEF AttemptStep, BeginConnect, Connect, ConnectFails, connVars,
                        DialType, OtherType
    <2>7. InTime(t)'
      BY <1>1, <2>2, <2>3, <2>6 DEF InTime
    <2>8. Entered(t)'
      BY <1>1, <2>2, <2>6 DEF Entered
    <2>9. QED
      BY <2>4, <2>5, <2>7, <2>8 DEF Followed
  <1>7. QED
    BY <1>5, <1>6

\* A dial goes on only when its attempt is over, and ends only when the connection
\* of the attempt is not in s.peers.
LEMMA DialFollowed ==
    ASSUME OtherType, DialType, NothingPunched, DialSuccessIsConnection,
           NEW t \in Own, Followed(t), NEW d \in Dials, DialStep(d)
    PROVE  Followed(t)'
  <1>1. call' = call /\ attempt' = attempt /\ conn' = conn /\ peers' = peers
    BY DEF DialStep, DialSucceeds, DialErrs, DialTimeout, CountConnection, connVars
  <1>2. PICK a \in {"settling", "counted", "ended"} :
            dial' = [dial EXCEPT ![d] = [at |-> a, age |-> 0]]
    BY DEF DialStep, DialSucceeds, AfterSuccess, DialErrs, DialTimeout, CountConnection
  <1>3. t[1] \in Dials /\ t \in Attempts /\ t \in Conns /\ AttemptsOf(t[1]) = {t}
    BY OwnShape
  <1>4. CASE t[1] # d
    <2>1. dial'[t[1]] = dial[t[1]]
      BY <1>2, <1>3, <1>4 DEF DialType
    <2>2. QED
      BY <1>1, <2>1, Untouched
  <1>5. CASE t[1] = d
    <2>1. dial'[t[1]] = [at |-> a, age |-> 0]
      BY <1>2, <1>3, <1>5 DEF DialType
    <2>2. dial[t[1]].at \in {"waiting", "settling"}
      BY <1>5 DEF DialStep, DialSucceeds, DialErrs, DialTimeout, CountConnection
    <2>3. Done(d) <=> attempt[t].at = "connected"
      BY <1>3, <1>5 DEF Done
    <2>4. /\ attempt[t].at \notin {"punching", "dialling"}
          /\ a = "ended" => conn[t] # "open" /\ \A key \in Keys : peers[key] # t
      <3>1. CASE \E x \in {"done", "punched"} : DialSucceeds(d, x)
        <4>1. Done(d)
          BY <3>1 DEF DialSucceeds, Successes, NothingPunched
        <4>2. dial'[d].at = "settling"
          BY <1>5, <3>1, OwnShape DEF DialSucceeds, AfterSuccess, DialType
        <4>3. QED
          BY <1>5, <2>1, <2>3, <4>1, <4>2
      <3>2. CASE DialErrs(d)
        <4>1. attempt[t].at = "bad"
          BY <1>3, <1>5, <3>2 DEF DialErrs
        <4>2. QED
          BY <1>3, <4>1 DEF Followed, Entered, OtherType
      <3>3. CASE DialTimeout(d)
        <4>1. dial[t[1]].at = "waiting" /\ dial[t[1]].age = DialTime
          BY <1>5, <3>3 DEF DialTimeout
        <4>2. /\ PunchTime \in Nat /\ ConnectTime \in Nat /\ DialTime \in Nat
              /\ PunchTime + ConnectTime < DialTime
              /\ attempt[t].age \in 0 .. PunchTime + ConnectTime
          BY <1>3, TimesAssumption DEF DialType, Attempt
        <4>3. attempt[t].at \notin {"punching", "dialling", "connected"}
          BY <4>1, <4>2 DEF Followed, InTime
        <4>4. QED
          BY <1>3, <4>3 DEF Followed, Entered, OtherType
      <3>4. CASE CountConnection(d)
        <4>1. /\ dial[t[1]].at = "settling" /\ dial[t[1]].age # 0
              /\ Done(d)
          BY <1>5, <3>4, TimesAssumption DEF CountConnection, DialSuccessIsConnection
        <4>2. attempt[t].at = "connected" /\ conn[t] # "open"
          BY <2>3, <4>1 DEF Followed, Settled
        <4>3. d[2] = {t[2]}
          BY <1>5, OwnShape
        <4>4. a = "ended" => peers[t[2]] = NULL
          <5>1. (\E b \in d[2] : peers[b] # NULL) => dial'[d].at = "counted"
            BY <3>4 DEF CountConnection, DialType
          <5>2. QED
            BY <1>5, <2>1, <4>3, <5>1
        <4>5. ASSUME a = "ended", NEW key \in Keys, peers[key] = t
              PROVE  FALSE
          BY <4>4, <4>5, OwnShape DEF Followed, Entered
        <4>6. QED
          BY <4>2, <4>5
      <3>5. QED
        BY <3>1, <3>2, <3>3, <3>4 DEF DialStep
    <2>5. call[t[1][1]] \notin {"idle", "asking", "failed"} /\ t[2] \in UNION Entries
      BY <2>2 DEF Followed, Started, Verdict
    <2>6. Started(t)'
      BY <1>1, <2>1, <2>5 DEF Started
    <2>7. InTime(t)'
      BY <1>1, <2>1, <2>4 DEF InTime
    <2>8. Entered(t)'
      BY <1>1 DEF Followed, Entered
    <2>9. Settled(t)' /\ Verdict(t)'
      BY <1>1, <2>1, <2>4, <2>5 DEF Settled, Verdict
    <2>10. QED
      BY <2>6, <2>7, <2>8, <2>9 DEF Followed
  <1>6. QED
    BY <1>4, <1>5

\* A connection of this node is entered under the address that was dialled; any
\* other connection may replace it but not enter it again.
LEMMA RegisterFollowed ==
    ASSUME OtherType, NEW t \in Own, Followed(t), NEW k \in Conns, Register(k),
           k \in Attempts => conn[k] = "open"
    PROVE  Followed(t)'
  <1>1. call' = call /\ dial' = dial /\ attempt' = attempt
    BY DEF Register, dialVars
  <1>2. PICK key \in KeysOf(k) : peers' = [peers EXCEPT ![key] = k]
    BY DEF Register
  <1>3. \A x \in Keys : peers'[x] = IF x = key THEN k ELSE peers[x]
    BY <1>2 DEF OtherType
  <1>4. \A x \in Conns : conn'[x] = IF x = k THEN "registered" ELSE conn[x]
    BY DEF Register, OtherType
  <1>5. t \in Conns /\ t \in Attempts /\ t \notin Inbound
    BY OwnShape
  <1>6. CASE t # k
    <2>1. conn'[t] = conn[t]
      BY <1>4, <1>5, <1>6
    <2>2. QED
      BY <1>1, <1>3, <1>6, <2>1, Untouched
  <1>7. CASE t = k
    <2>1. conn[t] = "open" /\ conn'[t] = "registered"
      BY <1>4, <1>5, <1>7
    <2>2. attempt[t].at = "connected"
      BY <2>1 DEF Followed, Entered
    <2>3. dial[t[1]].at \notin {"none", "ended"} /\ t[2] \in UNION Entries
      BY <2>1, <2>2 DEF Followed, Started, Settled
    <2>4. key = t[2]
      BY <1>2, <1>5, <1>7, <2>3, LiteralAssumption DEF KeysOf, NormalizeAddress
    <2>5. \A x \in Keys : peers[x] # t
      BY <2>1 DEF Followed, Entered
    <2>6. Entered(t)'
      BY <1>1, <1>3, <1>7, <2>1, <2>2, <2>4, <2>5 DEF Entered
    <2>7. Settled(t)'
      BY <1>1, <2>1, <2>3 DEF Settled
    <2>8. Started(t)' /\ InTime(t)' /\ Verdict(t)'
      BY <1>1 DEF Followed, Started, InTime, Verdict
    <2>9. QED
      BY <2>6, <2>7, <2>8 DEF Followed
  <1>8. QED
    BY <1>6, <1>7

\* A Tick moves both timers, passes no connected attempt whose dial waits, and no
\* connection that is to be entered.
LEMMA TickFollowed ==
    ASSUME OtherType, DialType, NEW t \in Own, Followed(t), Tick
    PROVE  Followed(t)'
  <1>1. call' = call /\ conn' = conn /\ peers' = peers
    BY DEF Tick, connVars
  <1>2. t[1] \in Dials /\ t \in Attempts /\ t \in Conns /\ AttemptsOf(t[1]) = {t}
    BY OwnShape
  <1>3. attempt[t] \in Attempt /\ dial[t[1]] \in Dial
    BY <1>2 DEF DialType
  <1>4. /\ attempt'[t].at = attempt[t].at
        /\ attempt[t].at \in {"punching", "dialling"} =>
              attempt'[t].age = attempt[t].age + 1
    BY <1>2, <1>3 DEF Tick, Attempt
  <1>5. /\ dial'[t[1]].at = dial[t[1]].at
        /\ dial[t[1]].at = "waiting" => dial'[t[1]].age = dial[t[1]].age + 1
    BY <1>2, <1>3 DEF Tick, Dial
  <1>6. conn[t] # "open"
    BY <1>2 DEF Tick, Urgent
  <1>7. ~(dial[t[1]].at = "waiting" /\ attempt[t].at = "connected")
    <2>1. dial[t[1]].at = "waiting" => Successes(t[1]) = {}
      BY <1>2 DEF Tick, Urgent
    <2>2. attempt[t].at = "connected" => Done(t[1])
      BY <1>2 DEF Done
    <2>3. Done(t[1]) => "done" \in Successes(t[1])
      BY DEF Successes
    <2>4. QED
      BY <2>1, <2>2, <2>3
  <1>8. Started(t)' /\ Verdict(t)'
    BY <1>1, <1>4, <1>5 DEF Followed, Started, Verdict
  <1>9. InTime(t)'
    BY <1>4, <1>5, <1>7 DEF Followed, InTime
  <1>10. Entered(t)'
    BY <1>1, <1>4 DEF Followed, Entered
  <1>11. Settled(t)'
    BY <1>1, <1>5, <1>6 DEF Followed, Settled
  <1>12. QED
    BY <1>8, <1>9, <1>10, <1>11 DEF Followed

\* A step of any action keeps what is known of the attempts of the calls.
LEMMA StepKeepsCalls ==
    ASSUME OtherType, DialType, NothingPunched, DialSuccessIsConnection, CallInv, Next
    PROVE  CallInv'
  <1>1. SUFFICES ASSUME NEW t \in Own
                 PROVE  Followed(t)'
    BY DEF CallInv, Own
  <1>2. Followed(t)
    BY DEF CallInv
  <1>3. CASE \E c \in Calls, list \in SUBSET Entries, listening \in BOOLEAN :
                ReceivePeerList(c, list, listening)
    BY <1>2, <1>3, CallFollowed
  <1>4. CASE \E c \in Calls : connectToAllPeers(c) \/ ReturnFromCall(c)
    BY <1>2, <1>4, AskFollowed, ReturnFollowed
  <1>5. CASE bootstrapNetwork
    <2>1. StartDials({<<BOOT, Bootstrap>>}, TRUE) /\ call' = call /\ UNCHANGED connVars
      BY <1>5 DEF bootstrapNetwork
    <2>2. t[1] \notin {<<BOOT, Bootstrap>>}
      BY OwnShape
    <2>3. QED
      BY <1>2, <2>1, <2>2, StartUntouched
  <1>6. CASE \E m \in Udp : handleUDPMessages(m)
    <2>1. UNCHANGED <<call, dial, attempt, conn, peers>>
      BY <1>6 DEF handleUDPMessages, connVars
    <2>2. QED
      BY <1>2, <2>1, Untouched
  <1>7. CASE \E u \in Attempts : AttemptStep(u)
    BY <1>2, <1>7, AttemptFollowed
  <1>8. CASE \E d \in Dials : DialStep(d)
    BY <1>2, <1>8, DialFollowed
  <1>9. CASE \E k \in Inbound : AcceptConn(k)
    <2>1. PICK k \in Inbound : AcceptConn(k)
      BY <1>9
    <2>2. k \in Conns /\ k \notin Attempts
      BY InboundAssumption DEF Conns
    <2>3. QED
      BY <1>2, <2>1, <2>2, RegisterFollowed DEF AcceptConn
  <1>10. CASE \E k \in Attempts : onPeer(k)
    <2>1. PICK k \in Attempts : onPeer(k)
      BY <1>10
    <2>2. QED
      BY <1>2, <2>1, RegisterFollowed DEF onPeer, Conns
  <1>11. CASE \E key \in Keys : DeletePeer(key)
    <2>1. UNCHANGED <<call, dial, attempt, conn>>
      BY <1>11 DEF DeletePeer, dialVars
    <2>2. \A x \in Keys : peers'[x] = peers[x] \/ peers'[x] = NULL
      BY <1>11 DEF DeletePeer, OtherType
    <2>3. QED
      BY <1>2, <2>1, <2>2, OwnShape, Untouched
  <1>12. CASE Tick
    BY <1>2, <1>12, TickFollowed
  <1>13. QED
    BY <1>3, <1>4, <1>5, <1>6, <1>7, <1>8, <1>9, <1>10, <1>11, <1>12 DEF Next

\* What is known of its attempts is enough for a call that has failed.
LEMMA FailedLeavesNothing ==
    ASSUME CallInv
    PROVE  FailedCallLeavesNothing
  <1>1. SUFFICES ASSUME NEW c \in Calls, call[c] = "failed",
                        NEW t \in Attempts, t[1][1] = c
                 PROVE  /\ attempt[t].at \notin {"punching", "dialling"}
                        /\ \A key \in Keys : peers[key] # t
    BY DEF FailedCallLeavesNothing
  <1>2. Followed(t)
    BY <1>1 DEF CallInv, Own
  <1>3. dial[t[1]].at \in {"none", "ended"}
    BY <1>1, <1>2 DEF Followed, Verdict
  <1>4. CASE dial[t[1]].at = "none"
    BY <1>2, <1>4 DEF Followed, Started, Entered
  <1>5. CASE dial[t[1]].at = "ended"
    BY <1>2, <1>5 DEF Followed, InTime, Settled
  <1>6. QED
    BY <1>3, <1>4, <1>5

-----------------------------------------------------------------------------
(***************************************************************************)
(* Theorems.                                                                *)
(***************************************************************************)
Inv == TypeOK /\ TimersBounded /\ NothingPunched /\ DialSuccessIsConnection /\ CallInv

\* The invariant, as the lemmas above divide it.
LEMMA InvSplit ==
    Inv <=> OtherType /\ DialType /\ NothingPunched /\ DialSuccessIsConnection /\ CallInv
  BY DEF Inv, TypeOK, OtherType, DialType, NothingPunched

\* The invariant holds when the node starts.
LEMMA InitInv ==
    ASSUME Init
    PROVE  Inv
  <1>1. [at |-> "none", age |-> 0] \in Dial /\ [at |-> "none", age |-> 0] \in Attempt
    BY TimesAssumption DEF Dial, Attempt
  <1>2. TypeOK
    <2>1. /\ dial \in [Dials -> Dial]
          /\ attempt \in [Attempts -> Attempt]
      BY <1>1 DEF Init
    <2>2. up \in BOOLEAN /\ connectedCh \in BOOLEAN
      BY Zenon DEF Init
    <2>3. udp \in SUBSET Udp /\ deletes \in 0 .. MaxDeletes
      BY DeletesAssumption DEF Init
    <2>4. /\ call \in [Calls -> {"idle", "asking", "dialling", "ok", "failed"}]
          /\ conn \in [Conns -> {"none", "open", "registered"}]
          /\ peers \in [Keys -> {NULL} \cup Conns]
      BY DEF Init
    <2>5. QED
      BY <2>1, <2>2, <2>3, <2>4 DEF TypeOK
  <1>3. TimersBounded /\ NothingPunched /\ DialSuccessIsConnection
    BY <1>1 DEF Init, TimersBounded, NothingPunched, DialSuccessIsConnection
  <1>4. ASSUME NEW t \in Own
        PROVE  Followed(t)
    <2>1. /\ attempt[t].at = "none" /\ dial[t[1]].at = "none"
          /\ conn[t] = "none" /\ call[t[1][1]] = "idle"
      BY OwnShape DEF Init
    <2>2. \A key \in Keys : peers[key] # t
      BY OwnShape DEF Init
    <2>3. QED
      BY <2>1, <2>2 DEF Followed, Started, InTime, Entered, Settled, Verdict
  <1>5. QED
    BY <1>2, <1>3, <1>4 DEF Inv, CallInv

\* The invariant is inductive.
LEMMA NextInv ==
    ASSUME Inv, [Next]_vars
    PROVE  Inv'
  <1>1. CASE Next
    <2>1. OtherType' /\ DialType' /\ NothingPunched'
      BY <1>1, StepKeepsTypes, InvSplit
    <2>2. DialSuccessIsConnection'
      BY <1>1, StepKeepsDone, InvSplit
    <2>3. CallInv'
      BY <1>1, StepKeepsCalls, InvSplit
    <2>4. QED
      BY <2>1, <2>2, <2>3 DEF Inv, TypeOK, OtherType, DialType, NothingPunched
  <1>2. CASE UNCHANGED vars
    <2>1. UNCHANGED <<up, call, dial, attempt, conn, peers, connectedCh, udp, deletes>>
      BY <1>2 DEF vars, dialVars, connVars
    <2>2. /\ TypeOK' /\ TimersBounded' /\ NothingPunched'
          /\ DialSuccessIsConnection'
      BY <2>1 DEF Inv, TypeOK, TimersBounded, NothingPunched,
                  DialSuccessIsConnection, Done, AttemptsOf
    <2>3. CallInv'
      BY <2>1, Untouched DEF Inv, CallInv, Own
    <2>4. QED
      BY <2>2, <2>3 DEF Inv
  <1>3. QED
    BY <1>1, <1>2

\* The inductive invariant holds throughout.
LEMMA InvHolds == Spec => []Inv
  BY InitInv, NextInv, PTL DEF Spec

\* connectToAllPeers, Dial and the connections keep their types: in particular
\* no timer of p2p/tcp_transport.go runs past its end, because time waits for
\* the goroutine whose timer is due.
THEOREM TypeCorrect == Spec => []TypeOK
  <1>1. Inv => TypeOK
    BY DEF Inv
  <1>2. QED
    BY <1>1, InvHolds, PTL

\* The hole-punching channel that all dials share never makes a Dial return nil
\* for a connection it has not made, whatever the calls, addresses, messages and
\* timeouts.
THEOREM SuccessIsConnection == Spec => []DialSuccessIsConnection
  <1>1. Inv => DialSuccessIsConnection
    BY DEF Inv
  <1>2. QED
    BY <1>1, InvHolds, PTL

\* A call of connectToAllPeers that has failed left no goroutine that still dials
\* and no entry of s.peers, for any lengths of the timers of Dial, of the TCP dial
\* and of the pause with which the first is longer than the punches and the TCP
\* dial together.
THEOREM FailuresAreClean == Spec => []FailedCallLeavesNothing
  <1>1. Inv => FailedCallLeavesNothing
    BY FailedLeavesNothing DEF Inv
  <1>2. QED
    BY <1>1, InvHolds, PTL
=============================================================================
