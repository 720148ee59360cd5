------------------------------ MODULE Tracker ------------------------------
(***************************************************************************)
(* The tracker (p2p/tracker.go): an in-memory directory from file IDs to    *)
(* the addresses of the peers that share them, served over HTTP.            *)
(*                                                                          *)
(* Every handler but two runs under t.mu, so it is one action.  The two     *)
(* that are not:                                                            *)
(*   - HandleGetPeers releases t.mu before it iterates over the inner map   *)
(*     of peerIndex, so it is a locked step (HandleGetPeers) and a later    *)
(*     unlocked one (ReplyPeers).  A handler that writes the same map in    *)
(*     between races with the iteration: the Go runtime either lets the     *)
(*     iteration see any mixture of the old and the new entries or kills    *)
(*     the process (ConcurrentMapFault).                                    *)
(*   - HandleGetMetadata and HandleListFiles only read.                     *)
(*                                                                          *)
(* Time is the age of each peerLastSeen entry in clock ticks, saturated one *)
(* tick above the threshold: the code only asks whether an age exceeds it.  *)
(***************************************************************************)
EXTENDS Naturals, FiniteSets

CONSTANTS
    Files,      \* file IDs
    Addrs,      \* peer addresses, as announced
    Hashes,     \* values of TotalHash
    Clients,    \* concurrent /peers requests
    Threshold,  \* InactivityThreshold = the 2 minutes of cleanupStalePeers
    NULL        \* a missing map entry, or an idle client

ASSUME AddrsAssumption     == IsFiniteSet(Addrs)
ASSUME ThresholdAssumption == Threshold \in Nat
ASSUME NullAssumption ==
    /\ \A peers \in SUBSET Addrs : NULL # peers
    /\ NULL \notin 0 .. Threshold + 1
    /\ NULL \notin [TotalHash : Hashes, NumPeers : Nat]
    /\ NULL \notin [file : Files, may : SUBSET Addrs, raced : BOOLEAN, live : BOOLEAN]

VARIABLES
    fileIndex,     \* fileID -> metadata of the file, with its peer count
    peerIndex,     \* fileID -> set of peer addresses
    peerLastSeen,  \* address -> ticks since its last announce or heartbeat
    readers,       \* client -> the unlocked part of its /peers request
    up             \* FALSE after the runtime killed the tracker process

vars == <<fileIndex, peerIndex, peerLastSeen, readers, up>>

(***************************************************************************)
(* A FileInfo keeps TotalHash and NumPeers; the descriptive fields change   *)
(* exactly when TotalHash does.                                             *)
(***************************************************************************)
FileInfo == [TotalHash : Hashes, NumPeers : Nat]

(***************************************************************************)
(* A request between t.mu.Unlock and the end of the iteration: the map it   *)
(* holds belongs to `file'; `may' bounds what the iteration can yield;      *)
(* `raced' says whether the map was written meanwhile; `live' whether the   *)
(* map is still the one in peerIndex.                                       *)
(***************************************************************************)
Reader == [file : Files, may : SUBSET Addrs, raced : BOOLEAN, live : BOOLEAN]

Stale == Threshold + 1

TypeOK ==
    /\ fileIndex    \in [Files -> {NULL} \cup FileInfo]
    /\ peerIndex    \in [Files -> {NULL} \cup SUBSET Addrs]
    /\ peerLastSeen \in [Addrs -> {NULL} \cup 0 .. Stale]
    /\ readers      \in [Clients -> {NULL} \cup Reader]
    /\ up           \in BOOLEAN

\* NewTracker: nothing is persisted, every process starts with empty maps.
EmptyMap(Keys) == [k \in Keys |-> NULL]

Init ==
    /\ fileIndex    = EmptyMap(Files)
    /\ peerIndex    = EmptyMap(Files)
    /\ peerLastSeen = EmptyMap(Addrs)
    /\ readers      = EmptyMap(Clients)
    /\ up           = TRUE

-----------------------------------------------------------------------------
(***************************************************************************)
(* Helpers.                                                                 *)
(***************************************************************************)

\* The entries of a peer list; ranging over a missing list yields nothing.
Listed(f) == IF peerIndex[f] = NULL THEN {} ELSE peerIndex[f]

IsStale(p) == peerLastSeen[p] = Stale

\* The entry of fileIndex for f once its peer list has become `peers':
\* the count follows the list and a file nobody shares is forgotten.
CountedInfo(f, peers) ==
    IF fileIndex[f] = NULL \/ peers = {}
    THEN NULL
    ELSE [fileIndex[f] EXCEPT !.NumPeers = Cardinality(peers)]

\* The entry of peerIndex for f once its peer list has become `peers': an
\* empty list is only deleted along with the file's metadata.
KeptList(f, peers) ==
    IF fileIndex[f] # NULL /\ peers = {} THEN NULL ELSE peers

\* `gone' leave the lists of the files where they are listed.
Unlist(gone) ==
    LET hit(f) == Listed(f) \cap gone # {}
    IN  /\ peerIndex' = [f \in Files |->
              IF hit(f) THEN KeptList(f, Listed(f) \ gone) ELSE peerIndex[f]]
        /\ fileIndex' = [f \in Files |->
              IF hit(f) THEN CountedInfo(f, Listed(f) \ gone) ELSE fileIndex[f]]

\* The iterations under way once peerIndex has become peerIndex' by writes
\* to the maps of `written': a map still in the index yields its new entries
\* too, a map dropped from it is written no more.
TrackedReaders(written) ==
    [c \in Clients |->
        LET r   == readers[c]
            now == IF peerIndex'[r.file] = NULL THEN {} ELSE peerIndex'[r.file]
        IN  IF r = NULL THEN r
            ELSE IF ~r.live THEN r
            ELSE [r EXCEPT !.may   = @ \cup now,
                           !.raced = @ \/ r.file \in written,
                           !.live  = peerIndex'[r.file] # NULL]]

-----------------------------------------------------------------------------
(***************************************************************************)
(* Handlers.                                                                *)
(***************************************************************************)

\* Mutation: an announcement that does not refresh the peer's timestamp.
UntimedAnnounce(f, p, h) ==
    /\ up
    /\ peerIndex' = [peerIndex EXCEPT ![f] = Listed(f) \cup {p}]
    /\ fileIndex' = [fileIndex EXCEPT ![f] =
          [TotalHash |-> h, NumPeers |-> Cardinality(Listed(f) \cup {p})]]
    /\ readers' = TrackedReaders({f})
    /\ UNCHANGED <<peerLastSeen, up>>

\* The metadata is replaced when the file is unknown or its TotalHash
\* changed, so it always ends with the announced hash.
HandleAnnounce(f, p, h) ==
    /\ up
    /\ peerIndex' = [peerIndex EXCEPT ![f] = Listed(f) \cup {p}]
    /\ fileIndex' = [fileIndex EXCEPT ![f] =
          [TotalHash |-> h, NumPeers |-> Cardinality(Listed(f) \cup {p})]]
    /\ peerLastSeen' = [peerLastSeen EXCEPT ![p] = 0]
    /\ readers' = TrackedReaders({f})
    /\ UNCHANGED up

\* Mutation: a heartbeat that only recounts the files the peer has left.
UncountedHeartbeat(p, sharing) ==
    /\ up
    /\ peerLastSeen' = [peerLastSeen EXCEPT ![p] = 0]
    /\ peerIndex' = [f \in Files |->
          IF f \in sharing         THEN Listed(f) \cup {p}
          ELSE IF p \in Listed(f)  THEN KeptList(f, Listed(f) \ {p})
          ELSE peerIndex[f]]
    /\ fileIndex' = [f \in Files |->
          IF f \notin sharing /\ p \in Listed(f)
          THEN CountedInfo(f, Listed(f) \ {p}) ELSE fileIndex[f]]
    /\ readers' = TrackedReaders(sharing \cup {f \in Files : p \in Listed(f)})
    /\ UNCHANGED up

\* `sharing' is the FileIDs field of the heartbeat.
HandleHeartbeat(p, sharing) ==
    /\ up
    /\ peerLastSeen' = [peerLastSeen EXCEPT ![p] = 0]
    /\ peerIndex' = [f \in Files |->
          IF f \in sharing         THEN Listed(f) \cup {p}
          ELSE IF p \in Listed(f)  THEN KeptList(f, Listed(f) \ {p})
          ELSE peerIndex[f]]
    /\ fileIndex' = [f \in Files |->
          IF f \in sharing         THEN CountedInfo(f, Listed(f) \cup {p})
          ELSE IF p \in Listed(f)  THEN CountedInfo(f, Listed(f) \ {p})
          ELSE fileIndex[f]]
    /\ readers' = TrackedReaders(sharing \cup {f \in Files : p \in Listed(f)})
    /\ UNCHANGED up

\* Mutation: NumPeers-- instead of a recount, listed or not.
DecrementingRemove(f, p) ==
    /\ up
    /\ peerIndex[f] # NULL
    /\ peerIndex' = [peerIndex EXCEPT ![f] = KeptList(f, Listed(f) \ {p})]
    /\ fileIndex' = [fileIndex EXCEPT ![f] =
          IF @ = NULL \/ Listed(f) \ {p} = {} THEN NULL
          ELSE [@ EXCEPT !.NumPeers = @ - 1]]
    /\ readers' = TrackedReaders(IF Listed(f) = {} THEN {} ELSE {f})
    /\ UNCHANGED <<peerLastSeen, up>>

HandleRemove(f, p) ==
    /\ up
    /\ peerIndex[f] # NULL
    /\ peerIndex' = [peerIndex EXCEPT ![f] = KeptList(f, Listed(f) \ {p})]
    /\ fileIndex' = [fileIndex EXCEPT ![f] = CountedInfo(f, Listed(f) \ {p})]
    /\ readers' = TrackedReaders(IF Listed(f) = {} THEN {} ELSE {f})
    /\ UNCHANGED <<peerLastSeen, up>>

\* RemovePeer: every listing of one peer and its timestamp.
RemovePeer(p) ==
    /\ up
    /\ Unlist({p})
    /\ peerLastSeen' = [peerLastSeen EXCEPT ![p] = NULL]
    /\ readers' = TrackedReaders({f \in Files : p \in Listed(f)})
    /\ UNCHANGED up

UpdatePeerActivity(p) ==
    /\ up
    /\ peerLastSeen' = [peerLastSeen EXCEPT ![p] = 0]
    /\ UNCHANGED <<fileIndex, peerIndex, readers, up>>

\* Mutation: a cleanup that forgets the timestamps and leaves the listings.
TimestampCleanup ==
    LET gone == {p \in Addrs : IsStale(p)}
    IN  /\ up
        /\ gone # {}
        /\ peerLastSeen' = [p \in Addrs |->
              IF p \in gone THEN NULL ELSE peerLastSeen[p]]
        /\ UNCHANGED <<fileIndex, peerIndex, readers, up>>

\* The cleanup loop.  Unlike cleanupStalePeers it also drops the lists left
\* empty, those of files without metadata included, if any peer was stale.
cleanupInactivePeers ==
    LET gone    == {p \in Addrs : IsStale(p)}
        hit(f)  == Listed(f) \cap gone # {}
        rest(f) == Listed(f) \ gone
    IN  /\ up
        /\ gone # {}
        /\ peerIndex' = [f \in Files |->
              IF rest(f) = {} THEN NULL ELSE rest(f)]
        /\ fileIndex' = [f \in Files |->
              IF hit(f) THEN CountedInfo(f, rest(f)) ELSE fileIndex[f]]
        /\ peerLastSeen' = [p \in Addrs |->
              IF p \in gone THEN NULL ELSE peerLastSeen[p]]
        /\ readers' = TrackedReaders({f \in Files : hit(f)})
        /\ UNCHANGED up

\* Mutation: no sweep before the answer.
NoSweep == UNCHANGED <<fileIndex, peerIndex, peerLastSeen>>

\* Mutation: a sweep with >= for >, which takes peers at the threshold too.
EagerSweep ==
    LET gone == {p \in Addrs : peerLastSeen[p] \in {Threshold, Stale}}
    IN  /\ Unlist(gone)
        /\ peerLastSeen' = [p \in Addrs |->
              IF p \in gone THEN NULL ELSE peerLastSeen[p]]

\* The sweep HandleGetPeers makes under the lock before it answers.
cleanupStalePeers ==
    LET gone == {p \in Addrs : IsStale(p)}
    IN  /\ Unlist(gone)
        /\ peerLastSeen' = [p \in Addrs |->
              IF p \in gone THEN NULL ELSE peerLastSeen[p]]

\* The locked part of HandleGetPeers: sweep, then keep a reference to the
\* map.  The sweep may itself write maps that other requests are reading.
HandleGetPeers(c, f) ==
    LET swept == {g \in Files : \E p \in Listed(g) : IsStale(p)}
        held  == peerIndex'[f] # NULL
    IN  /\ up
        /\ readers[c] = NULL
        /\ cleanupStalePeers
        /\ readers' = [TrackedReaders(swept) EXCEPT ![c] =
              [file |-> f, may |-> IF held THEN peerIndex'[f] ELSE {},
               raced |-> FALSE, live |-> held]]
        /\ UNCHANGED up

\* The unlocked part of HandleGetPeers: a list drawn from `may' is encoded.
ReplyPeers(c) ==
    /\ up
    /\ readers[c] # NULL
    /\ readers' = [readers EXCEPT ![c] = NULL]
    /\ UNCHANGED <<fileIndex, peerIndex, peerLastSeen, up>>

\* "fatal error: concurrent map iteration and map write": the runtime kills
\* the process, and with it all the tracker knew.
ConcurrentMapFault(c) ==
    /\ up
    /\ readers[c] # NULL
    /\ readers[c].raced
    /\ up' = FALSE
    /\ fileIndex'    = EmptyMap(Files)
    /\ peerIndex'    = EmptyMap(Files)
    /\ peerLastSeen' = EmptyMap(Addrs)
    /\ readers'      = EmptyMap(Clients)

\* The operator starts the tracker again.
Restart ==
    /\ ~up
    /\ up' = TRUE
    /\ UNCHANGED <<fileIndex, peerIndex, peerLastSeen, readers>>

\* Wall-clock time passes.
Tick ==
    /\ up
    /\ peerLastSeen' = [p \in Addrs |->
          IF peerLastSeen[p] = NULL \/ IsStale(p)
          THEN peerLastSeen[p] ELSE peerLastSeen[p] + 1]
    /\ UNCHANGED <<fileIndex, peerIndex, readers, up>>

-----------------------------------------------------------------------------
Next ==
    \/ \E f \in Files, p \in Addrs, h \in Hashes : HandleAnnounce(f, p, h)
    \/ \E p \in Addrs, sharing \in SUBSET Files : HandleHeartbeat(p, sharing)
    \/ \E f \in Files, p \in Addrs : HandleRemove(f, p)
    \/ \E p \in Addrs : RemovePeer(p) \/ UpdatePeerActivity(p)
    \/ cleanupInactivePeers
    \/ \E c \in Clients, f \in Files : HandleGetPeers(c, f)
    \/ \E c \in Clients : ReplyPeers(c) \/ ConcurrentMapFault(c)
    \/ Restart
    \/ Tick

Spec == Init /\ [][Next]_vars

(***************************************************************************)
(* The cleanup loop is a ticker that never stops, time passes, and a        *)
(* request's goroutine is scheduled.  Nobody has to announce, ask or        *)
(* restart.                                                                 *)
(***************************************************************************)
Fairness ==
    /\ WF_vars(cleanupInactivePeers)
    /\ WF_vars(Tick)
    /\ \A c \in Clients : WF_vars(ReplyPeers(c))

FairSpec == Spec /\ Fairness

-----------------------------------------------------------------------------
(***************************************************************************)
(* Properties.                                                              *)
(***************************************************************************)

\* A file with metadata has a non-empty peer list and NumPeers is its length:
\* what HandleGetMetadata and HandleListFiles report agrees with what
\* HandleGetPeers returns, whichever handlers ran in between.
PeerCountsMatch ==
    \A f \in Files : fileIndex[f] # NULL =>
        /\ peerIndex[f] # NULL
        /\ peerIndex[f] # {}
        /\ fileIndex[f].NumPeers = Cardinality(peerIndex[f])

\* Every listed peer has a timestamp.  Both sweeps walk peerLastSeen, so a
\* listed peer without an entry there could never expire.
ListedPeersAreTimed ==
    \A f \in Files : \A p \in Listed(f) : peerLastSeen[p] # NULL

\* An address that becomes visible to a /peers request was seen within the
\* threshold at that moment: the sweep comes before the list is taken, and a
\* later write through the unlocked reference only adds a fresh peer.
OnlyFreshPeersReplied ==
    [][\A c \in Clients : readers'[c] # NULL =>
          LET before == IF readers[c] = NULL THEN {} ELSE readers[c].may
          IN  \A p \in readers'[c].may \ before :
                 peerLastSeen'[p] \in 0 .. Threshold]_vars

\* A peer that went silent does not stay listed: the cleanup loop drops it from
\* every list, unless it is heard of again or the tracker itself dies.
SilentPeerUnlisted ==
    \A p \in Addrs :
        IsStale(p) /\ (\E f \in Files : p \in Listed(f)) ~>
            \/ \A f \in Files : p \notin Listed(f)
            \/ peerLastSeen[p] # NULL /\ ~IsStale(p)

\* HandleGetPeers says it will "Always return a JSON response": a request
\* only ever ends with its reply, never with the death of the process.
RequestsEndInReply ==
    [][\A c \in Clients :
          readers[c] # NULL /\ readers'[c] = NULL => up']_vars

(***************************************************************************)
(* The tracker seen as a directory: timestamps are reduced to who is        *)
(* stale, and an empty list is as good as none.                             *)
(***************************************************************************)
Dir == INSTANCE Directory WITH
    listing   <- [f \in Files |-> Listed(f)],
    catalogue <- [f \in Files |-> IF fileIndex[f] = NULL THEN NULL
                                  ELSE fileIndex[f].TotalHash],
    silent    <- {p \in Addrs : IsStale(p)},
    serving   <- up

\* The handlers, the two sweeps and the death of the process implement the
\* directory: no handler disturbs the listing of a peer other than its own or
\* a stale one, and metadata lives exactly as long as somebody is listed.
ImplementsDirectory == Dir!Spec
=============================================================================
