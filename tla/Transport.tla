----------------------------- MODULE Transport ------------------------------
(***************************************************************************)
(* How a node gets its connections: connectToAllPeers, onPeer and           *)
(* bootstrapNetwork (server.go), Dial with its goroutines, the accept loop  *)
(* and the start and end of handleConn (p2p/tcp_transport.go), and the UDP  *)
(* messages of hole punching (p2p/udp_hole.go).                             *)
(*                                                                          *)
(* connectToAllPeers is called by the main loop of a download, by its       *)
(* refresh goroutine and by its workers, so that calls overlap: each reads  *)
(* s.peers first and dials for seconds afterwards.  The remote nodes run    *)
(* the same code.                                                           *)
(*                                                                          *)
(* Timers matter here: a Tick passes only when no timer is due and no       *)
(* goroutine that could go on has been left waiting.  A UDP message arrives  *)
(* before the next Tick or is lost.                                         *)
(***************************************************************************)
EXTENDS Naturals, FiniteSets

CONSTANTS
    Calls,        \* calls of connectToAllPeers
    BOOT,         \* the caller of the bootstrap node's Dial
    Bootstrap,    \* addresses of the bootstrap node, {} if there is none
    Addrs,        \* addresses that are dialled, as strings
    Public,       \* those with a literal public IP
    Invalid,      \* those that are no host and port
    MyAddr,       \* "localhost" and the listening port
    Entries,      \* what peers announce: sets of addresses (joined by "|")
    Remotes(_),   \* remote addresses a connection to an address may have
    LOOPBACK6,    \* the remote address [::1]:port, and
    LOCALHOST,    \* what NormalizeAddress makes of it
    Inbound,      \* connections that other nodes open
    ListenColons, \* colons in ListenAddr
    PunchTime,    \* the five punches and their back-off (3.1 s)
    ConnectTime,  \* timeout of the TCP dial (5 s)
    DialTime,     \* timeout of Dial (20 s)
    SettleTime,   \* the pause before a connection is looked up (1 s)
    MaxDeletes,   \* bound: peers that workers drop in a behaviour
    NULL          \* no entry in s.peers

Dials    == {<<c, {a}>> : c \in Calls, a \in Addrs} \cup {<<BOOT, Bootstrap>>}
Attempts == {t \in Dials \X Addrs : t[2] \in t[1][2]}
Conns    == Attempts \cup Inbound

\* The key under which a remote address is entered in s.peers.
NormalizeAddress(r) == IF r = LOOPBACK6 THEN LOCALHOST ELSE r

Keys == {NormalizeAddress(r) : r \in UNION {Remotes(a) : a \in Addrs}} \cup Inbound

ASSUME CallsAssumption   == BOOT \notin Calls
ASSUME AddrsAssumption   ==
    /\ Public \cup Invalid \cup Bootstrap \subseteq Addrs
    /\ Public \cap Invalid = {}
    /\ Entries \subseteq SUBSET Addrs
    /\ \A e1, e2 \in Entries : e1 = e2 \/ e1 \cap e2 = {}
    /\ MyAddr \notin UNION Entries
ASSUME LiteralAssumption == \A a \in UNION Entries : Remotes(a) = {a} /\ a # LOOPBACK6
ASSUME ListenAssumption  == ListenColons \in Nat \ {0}
ASSUME TimesAssumption   ==
    /\ {PunchTime, ConnectTime, DialTime, SettleTime} \subseteq Nat \ {0}
    /\ PunchTime + ConnectTime < DialTime
    /\ SettleTime < DialTime
ASSUME DeletesAssumption == MaxDeletes \in Nat
ASSUME NullAssumption    == NULL \notin Conns
ASSUME InboundAssumption == Inbound \cap Attempts = {}

VARIABLES
    up,           \* the process runs
    call,         \* call -> progress of connectToAllPeers
    dial,         \* dial -> the goroutine that called Dial
    attempt,      \* attempt -> the goroutine that Dial started for an address
    conn,         \* connection -> its handleConn
    peers,        \* key -> connection in s.peers
    connectedCh,  \* the channel of capacity 1 that all dials share is full
    udp,          \* UDP messages under way
    deletes       \* peers dropped so far

dialVars == <<call, dial, attempt, connectedCh, udp>>
connVars == <<conn, peers>>
vars     == <<up, dialVars, connVars, deletes>>

Dial    == [at : {"none", "waiting", "settling", "counted", "ended"}, age : 0 .. DialTime]
Attempt == [at : {"none", "bad", "punching", "dialling", "connected", "failed"},
            age : 0 .. PunchTime + ConnectTime]
Udp     == [type : {"PUNCH", "ACK"}, addr : Addrs]

TypeOK ==
    /\ up          \in BOOLEAN
    /\ call        \in [Calls -> {"idle", "asking", "dialling", "ok", "failed"}]
    /\ dial        \in [Dials -> Dial]
    /\ attempt     \in [Attempts -> Attempt]
    /\ conn        \in [Conns -> {"none", "open", "registered"}]
    /\ peers       \in [Keys -> {NULL} \cup Conns]
    /\ connectedCh \in BOOLEAN
    /\ udp         \in SUBSET Udp
    /\ deletes     \in 0 .. MaxDeletes

Init ==
    /\ up          = TRUE
    /\ call        = [c \in Calls |-> "idle"]
    /\ dial        = [d \in Dials |-> [at |-> "none", age |-> 0]]
    /\ attempt     = [t \in Attempts |-> [at |-> "none", age |-> 0]]
    /\ conn        = [k \in Conns |-> "none"]
    /\ peers       = [k \in Keys |-> NULL]
    /\ connectedCh = FALSE
    /\ udp         = {}
    /\ deletes     = 0

AttemptsOf(d) == {t \in Attempts : t[1] = d}

-----------------------------------------------------------------------------
(***************************************************************************)
(* Starting to dial.                                                        *)
(***************************************************************************)

\* Dial returns an error if there is no UDP listener and none can be set up.
\* Otherwise every address gets a goroutine, which checks the address and then
\* starts to punch.  The five punches differ in nothing, so they are one message.
StartDials(ds, listening) ==
    LET ts == {t \in Attempts : t[1] \in ds /\ listening}
    IN  /\ dial' = [d \in Dials |->
              IF d \in ds THEN [at |-> IF listening THEN "waiting" ELSE "ended", age |-> 0]
              ELSE dial[d]]
        /\ attempt' = [t \in Attempts |->
              IF t \in ts
              THEN [at |-> IF t[2] \in Invalid THEN "bad" ELSE "punching", age |-> 0]
              ELSE attempt[t]]
        /\ udp' = udp \cup {[type |-> "PUNCH", addr |-> t[2]] : t \in
              {u \in ts : u[2] \notin Invalid}}

\* Public addresses if there are any, otherwise all of them.
filterPeerList(list) ==
    LET all    == UNION list
        public == all \cap Public
    IN  IF public = {} THEN all ELSE public

\* connectToAllPeers asks the tracker, with an http.Get that has no timeout.
connectToAllPeers(c) ==
    /\ up
    /\ call[c] = "idle"
    /\ call' = [call EXCEPT ![c] = "asking"]
    /\ UNCHANGED <<up, dial, attempt, connectedCh, udp, connVars, deletes>>

\* The rest up to wg.Wait, with the list that the tracker returned; {} is also
\* an error.
ReceivePeerList(c, list, listening) ==
    LET new == {a \in filterPeerList(list) : a # MyAddr /\ peers[a] = NULL}
    IN  /\ up
        /\ call[c] = "asking"
        /\ call' = [call EXCEPT ![c] = IF list = {} THEN "failed" ELSE "dialling"]
        /\ StartDials({<<c, {a}>> : a \in new}, listening)
        /\ UNCHANGED <<up, connVars, connectedCh, deletes>>

\* Start calls it once, when it has set up the UDP listener.  The string goes
\* to Dial as it is, "|" included.
bootstrapNetwork ==
    /\ up
    /\ Bootstrap # {}
    /\ dial[<<BOOT, Bootstrap>>].at = "none"
    /\ StartDials({<<BOOT, Bootstrap>>}, TRUE)
    /\ UNCHANGED <<up, call, connVars, connectedCh, deletes>>

-----------------------------------------------------------------------------
(***************************************************************************)
(* Hole punching.  A message is "PUNCH:" or "ACK:" and the sender's         *)
(* ListenAddr; the receiver splits it at every colon.                       *)
(***************************************************************************)
Fields(colons)       == colons + 1
SplitHostPort(colons) == colons >= 1

\* Mutation: the message is split at its first colon only.
SplitOnce(type) == TRUE

\* The receiver wants two fields, and in a PUNCH the second one, which holds
\* no colon any more, must be host and port.
Accepted(type) ==
    /\ Fields(1 + ListenColons) = 2
    /\ type = "PUNCH" => SplitHostPort(0)

\* A PUNCH that the remote node accepts is acknowledged; an ACK that this node
\* accepts fills the channel, unless it is full.  Anything else is dropped.
\* (A node that accepted a PUNCH would also dial back: one of Inbound.)
handleUDPMessages(m) ==
    /\ up
    /\ m \in udp
    /\ udp' = (udp \ {m}) \cup
          IF m.type = "PUNCH" /\ Accepted("PUNCH")
          THEN {[m EXCEPT !.type = "ACK"]} ELSE {}
    /\ connectedCh' = (connectedCh \/ (m.type = "ACK" /\ Accepted("ACK")))
    /\ UNCHANGED <<up, call, dial, attempt, connVars, deletes>>

-----------------------------------------------------------------------------
(***************************************************************************)
(* The goroutine of an address.                                             *)
(***************************************************************************)
BeginConnect(t) ==
    /\ up
    /\ attempt[t] = [at |-> "punching", age |-> PunchTime]
    /\ attempt' = [attempt EXCEPT ![t] = [at |-> "dialling", age |-> PunchTime]]
    /\ UNCHANGED <<up, call, dial, connVars, connectedCh, udp, deletes>>

\* close(doneCh) has been called for dial d.
Done(d) == \E t \in AttemptsOf(d) : attempt[t].at = "connected"

\* The TCP dial succeeds: start handleConn, close doneCh.  The second address
\* of one Dial that connects closes it again, which ends the process.
Connect(t) ==
    /\ up
    /\ attempt[t].at = "dialling"
    /\ attempt' = [attempt EXCEPT ![t] = [at |-> "connected", age |-> 0]]
    /\ conn' = [conn EXCEPT ![t] = "open"]
    /\ up' = ~Done(t[1])
    /\ UNCHANGED <<call, dial, peers, connectedCh, udp, deletes>>

\* The TCP dial fails.  The goroutine tells nobody.
ConnectFails(t) ==
    /\ up
    /\ attempt[t].at = "dialling"
    /\ attempt' = [attempt EXCEPT ![t] = [at |-> "failed", age |-> 0]]
    /\ UNCHANGED <<up, call, dial, connVars, connectedCh, udp, deletes>>

-----------------------------------------------------------------------------
(***************************************************************************)
(* The select in Dial, and what its callers make of the result.             *)
(***************************************************************************)

\* The cases of the select that return nil.
Successes(d) ==
    {x \in {"done", "punched"} : IF x = "done" THEN Done(d) ELSE connectedCh}

\* What the caller does next: connectToAllPeers pauses, bootstrapNetwork ends.
AfterSuccess(d) == IF d[1] = BOOT THEN "ended" ELSE "settling"

\* Mutation: the pause is measured from the start of the dial.
SettleFromStart(d, x) ==
    /\ up
    /\ dial[d].at = "waiting"
    /\ x \in Successes(d)
    /\ dial' = [dial EXCEPT ![d].at = AfterSuccess(d)]
    /\ connectedCh' = (connectedCh /\ x # "punched")
    /\ UNCHANGED <<up, call, attempt, udp, connVars, deletes>>

DialSucceeds(d, x) ==
    /\ up
    /\ dial[d].at = "waiting"
    /\ x \in Successes(d)
    /\ dial' = [dial EXCEPT ![d] = [at |-> AfterSuccess(d), age |-> 0]]
    /\ connectedCh' = (connectedCh /\ x # "punched")
    /\ UNCHANGED <<up, call, attempt, udp, connVars, deletes>>

\* case err := <-errCh.  The goroutines of the other addresses go on.
DialErrs(d) ==
    /\ up
    /\ dial[d].at = "waiting"
    /\ \E t \in AttemptsOf(d) : attempt[t].at = "bad"
    /\ dial' = [dial EXCEPT ![d] = [at |-> "ended", age |-> 0]]
    /\ UNCHANGED <<up, call, attempt, connectedCh, udp, connVars, deletes>>

\* Mutation: no time.After case.
WaitForEver(d) == dial[d].at = "waiting" /\ FALSE

\* Mutation: the timeout of Dial does not cover that of the TCP dial.
TimeoutEarly(d) ==
    /\ up
    /\ dial[d].at = "waiting"
    /\ dial[d].age >= PunchTime
    /\ dial' = [dial EXCEPT ![d] = [at |-> "ended", age |-> 0]]
    /\ UNCHANGED <<up, call, attempt, connectedCh, udp, connVars, deletes>>

DialTimeout(d) ==
    /\ up
    /\ dial[d] = [at |-> "waiting", age |-> DialTime]
    /\ dial' = [dial EXCEPT ![d] = [at |-> "ended", age |-> 0]]
    /\ UNCHANGED <<up, call, attempt, connectedCh, udp, connVars, deletes>>

\* After the pause: the connection counts if the address is a key of s.peers.
CountConnection(d) ==
    LET found == \E a \in d[2] : peers[a] # NULL
    IN  /\ up
        /\ dial[d] = [at |-> "settling", age |-> SettleTime]
        /\ dial' = [dial EXCEPT ![d] =
              [at |-> IF found THEN "counted" ELSE "ended", age |-> 0]]
        /\ UNCHANGED <<up, call, attempt, connectedCh, udp, connVars, deletes>>

DialsOf(c) == {d \in Dials : d[1] = c}

\* wg.Wait, then the verdict: a call that had nothing to dial fails too.
ReturnFromCall(c) ==
    /\ up
    /\ call[c] = "dialling"
    /\ \A d \in DialsOf(c) : dial[d].at \in {"none", "counted", "ended"}
    /\ call' = [call EXCEPT ![c] =
          IF \E d \in DialsOf(c) : dial[d].at = "counted" THEN "ok" ELSE "failed"]
    /\ UNCHANGED <<up, dial, attempt, connectedCh, udp, connVars, deletes>>

-----------------------------------------------------------------------------
(***************************************************************************)
(* Connections.                                                             *)
(***************************************************************************)

\* The address under which a connection is entered: an inbound one has a port
\* of its own.
KeysOf(k) ==
    IF k \in Inbound THEN {k} ELSE {NormalizeAddress(r) : r \in Remotes(k[2])}

\* The start of handleConn: the handshake does nothing, onPeer overwrites.
Register(k) ==
    /\ \E key \in KeysOf(k) : peers' = [peers EXCEPT ![key] = k]
    /\ conn' = [conn EXCEPT ![k] = "registered"]
    /\ UNCHANGED <<up, dialVars, deletes>>

onPeer(k) ==
    /\ up
    /\ conn[k] = "open"
    /\ Register(k)

\* startAcceptLoop.  Nothing else happens to the key of the connection before
\* its handleConn has started.
AcceptConn(k) ==
    /\ up
    /\ conn[k] = "none"
    /\ Register(k)

\* A downloadChunk worker drops the peer after a wrong payload; its connection
\* stays open.  The worker deletes the remote address as it is, which is never
\* the key that NormalizeAddress makes.
DeletePeer(key) ==
    /\ up
    /\ deletes < MaxDeletes
    /\ deletes' = deletes + 1
    /\ peers[key] # NULL
    /\ key # LOCALHOST
    /\ peers' = [peers EXCEPT ![key] = NULL]
    /\ UNCHANGED <<up, dialVars, conn>>

-----------------------------------------------------------------------------
(***************************************************************************)
(* Time.                                                                    *)
(***************************************************************************)

\* A timer that is due, or a goroutine that can go on.
Urgent ==
    \/ \E t \in Attempts :
          \/ attempt[t].at = "punching" /\ attempt[t].age = PunchTime
          \/ attempt[t].at = "dialling" /\ attempt[t].age = PunchTime + ConnectTime
    \/ \E d \in Dials :
          \/ /\ dial[d].at = "waiting"
             /\ \/ dial[d].age = DialTime
                \/ Successes(d) # {}
                \/ \E t \in AttemptsOf(d) : attempt[t].at = "bad"
          \/ dial[d].at = "settling" /\ dial[d].age = SettleTime
    \/ \E k \in Conns : conn[k] = "open"

Tick ==
    /\ up
    /\ ~Urgent
    /\ \/ \E t \in Attempts : attempt[t].at \in {"punching", "dialling"}
       \/ \E d \in Dials : dial[d].at \in {"waiting", "settling"}
    /\ attempt' = [t \in Attempts |->
          IF attempt[t].at \in {"punching", "dialling"}
          THEN [attempt[t] EXCEPT !.age = @ + 1] ELSE attempt[t]]
    /\ dial' = [d \in Dials |->
          IF dial[d].at \in {"waiting", "settling"}
          THEN [dial[d] EXCEPT !.age = @ + 1] ELSE dial[d]]
    /\ udp' = {}
    /\ UNCHANGED <<up, call, connectedCh, connVars, deletes>>

-----------------------------------------------------------------------------
AttemptStep(t) == BeginConnect(t) \/ Connect(t) \/ ConnectFails(t)

DialStep(d) ==
    \/ \E x \in {"done", "punched"} : DialSucceeds(d, x)
    \/ DialErrs(d)
    \/ DialTimeout(d)
    \/ CountConnection(d)

Next ==
    \/ \E c \in Calls :
          \/ connectToAllPeers(c)
          \/ \E list \in SUBSET Entries, listening \in BOOLEAN :
                ReceivePeerList(c, list, listening)
          \/ ReturnFromCall(c)
    \/ bootstrapNetwork
    \/ \E m \in Udp : handleUDPMessages(m)
    \/ \E t \in Attempts : AttemptStep(t)
    \/ \E d \in Dials : DialStep(d)
    \/ \E k \in Inbound : AcceptConn(k)
    \/ \E k \in Attempts : onPeer(k)
    \/ \E key \in Keys : DeletePeer(key)
    \/ Tick

Spec == Init /\ [][Next]_vars

(***************************************************************************)
(* Some goroutine that can go on does, or time passes.  Nobody has to call, *)
(* to open a connection to this node or to deliver a message, and the       *)
(* tracker does not have to answer.                                         *)
(***************************************************************************)
Progress ==
    \/ \E c \in Calls : ReturnFromCall(c)
    \/ \E t \in Attempts : AttemptStep(t)
    \/ \E d \in Dials : DialStep(d)
    \/ \E k \in Attempts : onPeer(k)
    \/ Tick

Fairness == WF_vars(Progress)

FairSpec == Spec /\ Fairness

-----------------------------------------------------------------------------
(***************************************************************************)
(* Properties.                                                              *)
(***************************************************************************)

\* A Dial that returns nil has made a connection of its own.  It also listens
\* to connectedCh, which all dials share and which names no connection.
DialSuccessIsConnection ==
    \A d \in Dials : dial[d].at \in {"settling", "counted"} => Done(d)

\* A call of connectToAllPeers that fails leaves nothing behind: none of its
\* goroutines still dials, and no entry of s.peers is a connection it made.
\* The timeouts inside Dial, the pause after it and onPeer are only related
\* by their lengths.
FailedCallLeavesNothing ==
    \A c \in Calls : call[c] = "failed" =>
        \A t \in Attempts : t[1][1] = c =>
            /\ attempt[t].at \notin {"punching", "dialling"}
            /\ \A key \in Keys : peers[key] # t

\* A call of connectToAllPeers returns if the tracker answers it, though a TCP
\* dial that fails tells nobody: the download's main loop and workers wait for
\* it.  Without an answer it does not return: http.Get has no timeout.
EveryCallReturns ==
    \A c \in Calls :
        <>[](call[c] # "asking") =>
            (call[c] = "asking" ~> call[c] \in {"ok", "failed"} \/ ~up)
=============================================================================
