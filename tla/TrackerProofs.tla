--------------------------- MODULE TrackerProofs ---------------------------
(***************************************************************************)
(* Proofs about Tracker, for any finite set of addresses, any files, any    *)
(* number of concurrent requests and any threshold.                         *)
(***************************************************************************)
EXTENDS Tracker, FiniteSetTheorems, TLAPS

(***************************************************************************)
(* The inductive invariant.  The three parts need the typing; the counts    *)
(* and the timestamps are independent of each other.                        *)
(***************************************************************************)
Inv == TypeOK /\ PeerCountsMatch /\ ListedPeersAreTimed

-----------------------------------------------------------------------------
\* A set of addresses has a length, and only the empty one has length 0.
LEMMA AddrSets ==
    ASSUME NEW S \in SUBSET Addrs
    PROVE  /\ S # NULL
           /\ Cardinality(S) \in Nat
  <1>1. IsFiniteSet(S)
    BY AddrsAssumption, FS_Subset
  <1>2. QED
    BY <1>1, FS_CardinalityType, NullAssumption

\* Listed is a set of addresses, and it is the peer list if there is one.
LEMMA ListedType ==
    ASSUME TypeOK, NEW f \in Files
    PROVE  /\ Listed(f) \in SUBSET Addrs
           /\ peerIndex[f] # NULL => Listed(f) = peerIndex[f]
           /\ peerIndex[f] = NULL => Listed(f) = {}
  BY DEF TypeOK, Listed

\* The two halves of a list update agree: the metadata survives exactly when
\* the list is not empty, and then counts it.
LEMMA UpdateCounts ==
    ASSUME TypeOK, NEW f \in Files, NEW S \in SUBSET Addrs
    PROVE  /\ KeptList(f, S) \in {NULL} \cup SUBSET Addrs
           /\ KeptList(f, S) # NULL => KeptList(f, S) = S
           /\ CountedInfo(f, S) \in {NULL} \cup FileInfo
           /\ CountedInfo(f, S) # NULL =>
                 /\ KeptList(f, S) = S
                 /\ S # NULL
                 /\ S # {}
                 /\ CountedInfo(f, S).NumPeers = Cardinality(S)
  <1>1. S # NULL /\ Cardinality(S) \in Nat
    BY AddrSets
  <1>2. fileIndex[f] \in {NULL} \cup FileInfo
    BY DEF TypeOK
  <1>3. CASE fileIndex[f] = NULL \/ S = {}
    BY <1>1, <1>3 DEF KeptList, CountedInfo
  <1>4. CASE fileIndex[f] # NULL /\ S # {}
    <2>1. fileIndex[f] \in FileInfo
      BY <1>2, <1>4
    <2>2. CountedInfo(f, S) = [fileIndex[f] EXCEPT !.NumPeers = Cardinality(S)]
      BY <1>4 DEF CountedInfo
    <2>3. /\ CountedInfo(f, S) \in FileInfo
          /\ CountedInfo(f, S).NumPeers = Cardinality(S)
      BY <1>1, <2>1, <2>2 DEF FileInfo
    <2>4. KeptList(f, S) = S
      BY <1>4 DEF KeptList
    <2>5. QED
      BY <1>1, <1>4, <2>3, <2>4
  <1>5. QED
    BY <1>3, <1>4

\* Following the iterations under way keeps them well typed.
LEMMA TrackedReadersType ==
    ASSUME TypeOK, NEW written,
           peerIndex' \in [Files -> {NULL} \cup SUBSET Addrs]
    PROVE  TrackedReaders(written) \in [Clients -> {NULL} \cup Reader]
  <1> SUFFICES ASSUME NEW c \in Clients
               PROVE  TrackedReaders(written)[c] \in {NULL} \cup Reader
    BY DEF TrackedReaders
  <1> DEFINE r == readers[c]
             now == IF peerIndex'[r.file] = NULL THEN {} ELSE peerIndex'[r.file]
  <1>1. r \in {NULL} \cup Reader
    BY DEF TypeOK
  <1>2. CASE r = NULL \/ ~r.live
    BY <1>1, <1>2 DEF TrackedReaders
  <1>3. CASE r # NULL /\ r.live
    <2>1. r \in Reader
      BY <1>1, <1>3
    <2>2. now \in SUBSET Addrs
      BY <2>1 DEF Reader
    <2> DEFINE wasRaced == r.raced \/ r.file \in written
               isLive == peerIndex'[r.file] # NULL
    <2>3. TrackedReaders(written)[c] =
            [r EXCEPT !.may = @ \cup now, !.raced = wasRaced, !.live = isLive]
      BY <1>3 DEF TrackedReaders
    <2>4. wasRaced \in BOOLEAN /\ isLive \in BOOLEAN
      OBVIOUS
    <2> HIDE DEF wasRaced, isLive, now
    <2>5. QED
      BY <2>1, <2>2, <2>3, <2>4 DEF Reader
  <1>4. QED
    BY <1>2, <1>3

-----------------------------------------------------------------------------
(***************************************************************************)
(* Every action treats each file in one of three ways, and each of them     *)
(* keeps the typing and the counts of that file.                            *)
(***************************************************************************)
Counted(list, info) ==
    info # NULL => /\ list # NULL
                   /\ list # {}
                   /\ info.NumPeers = Cardinality(list)

\* PeerCountsMatch, file by file.
LEMMA CountsByFile ==
    /\ PeerCountsMatch  <=> \A f \in Files : Counted(peerIndex[f], fileIndex[f])
    /\ PeerCountsMatch' <=> \A f \in Files : Counted(peerIndex'[f], fileIndex'[f])
  BY DEF PeerCountsMatch, Counted

\* Unlist: the lists it hits are updated, the others stay.
LEMMA UnlistFiles ==
    ASSUME TypeOK, PeerCountsMatch, NEW gone, Unlist(gone)
    PROVE  /\ peerIndex' \in [Files -> {NULL} \cup SUBSET Addrs]
           /\ fileIndex' \in [Files -> {NULL} \cup FileInfo]
           /\ PeerCountsMatch'
           /\ \A f \in Files : Listed(f)' = Listed(f) \ gone
  <1> SUFFICES ASSUME NEW f \in Files
               PROVE  /\ peerIndex'[f] \in {NULL} \cup SUBSET Addrs
                      /\ fileIndex'[f] \in {NULL} \cup FileInfo
                      /\ Counted(peerIndex'[f], fileIndex'[f])
                      /\ Listed(f)' = Listed(f) \ gone
    BY CountsByFile DEF Unlist
  <1> DEFINE S == Listed(f) \ gone
  <1>1. S \in SUBSET Addrs
    BY ListedType
  <1>2. CASE Listed(f) \cap gone # {}
    <2>1. peerIndex'[f] = KeptList(f, S) /\ fileIndex'[f] = CountedInfo(f, S)
      BY <1>2 DEF Unlist
    <2>2. Listed(f)' = S
      <3>1. Listed(f)' = IF KeptList(f, S) = NULL THEN {} ELSE KeptList(f, S)
        BY <2>1 DEF Listed
      <3>2. KeptList(f, S) = NULL => S = {}
        BY <1>1, AddrSets DEF KeptList
      <3>3. QED
        BY <1>1, <3>1, <3>2, UpdateCounts
    <2>3. QED
      BY <1>1, <2>1, <2>2, UpdateCounts DEF Counted
  <1>3. CASE Listed(f) \cap gone = {}
    <2>1. peerIndex'[f] = peerIndex[f] /\ fileIndex'[f] = fileIndex[f]
      BY <1>3 DEF Unlist
    <2>2. Listed(f)' = Listed(f)
      BY <2>1 DEF Listed
    <2>3. QED
      BY <1>3, <2>1, <2>2, CountsByFile DEF TypeOK
  <1>4. QED
    BY <1>2, <1>3

\* HandleAnnounce keeps the invariant: the list it extends is counted anew.
LEMMA AnnounceInv ==
    ASSUME Inv, NEW f \in Files, NEW p \in Addrs, NEW h \in Hashes,
           HandleAnnounce(f, p, h)
    PROVE  Inv'
  <1> USE DEF Inv
  <1> DEFINE S == Listed(f) \cup {p}
             info == [TotalHash |-> h, NumPeers |-> Cardinality(S)]
  <1>1. S \in SUBSET Addrs /\ S # NULL /\ S # {} /\ Cardinality(S) \in Nat
    BY ListedType, AddrSets
  <1>2. info \in FileInfo /\ info.NumPeers = Cardinality(S)
    BY <1>1 DEF FileInfo
  <1> HIDE DEF info
  <1>3. /\ peerIndex' = [peerIndex EXCEPT ![f] = S]
        /\ fileIndex' = [fileIndex EXCEPT ![f] = info]
        /\ peerLastSeen' = [peerLastSeen EXCEPT ![p] = 0]
        /\ readers' = TrackedReaders({f})
        /\ up' = up
    BY DEF HandleAnnounce, info
  <1>4. peerIndex' \in [Files -> {NULL} \cup SUBSET Addrs]
    BY <1>1, <1>3 DEF TypeOK
  <1>5. TypeOK'
    <2>1. fileIndex' \in [Files -> {NULL} \cup FileInfo]
      BY <1>2, <1>3 DEF TypeOK
    <2>2. peerLastSeen' \in [Addrs -> {NULL} \cup 0 .. Stale]
      BY <1>3, ThresholdAssumption DEF TypeOK, Stale
    <2>3. readers' \in [Clients -> {NULL} \cup Reader]
      BY <1>3, <1>4, TrackedReadersType
    <2>4. QED
      BY <1>3, <1>4, <2>1, <2>2, <2>3 DEF TypeOK
  <1>6. PeerCountsMatch'
    <2> SUFFICES ASSUME NEW g \in Files
                 PROVE  Counted(peerIndex'[g], fileIndex'[g])
      BY CountsByFile
    <2>1. CASE g = f
      BY <1>1, <1>2, <1>3, <2>1 DEF Counted, TypeOK
    <2>2. CASE g # f
      BY <1>3, <2>2, CountsByFile DEF TypeOK
    <2>3. QED
      BY <2>1, <2>2
  <1>7. ListedPeersAreTimed'
    <2> SUFFICES ASSUME NEW g \in Files, NEW q \in Listed(g)'
                 PROVE  peerLastSeen'[q] # NULL
      BY DEF ListedPeersAreTimed
    <2>1. q \in Listed(g) \cup {p} /\ q \in Addrs
      BY <1>1, <1>3, ListedType DEF Listed, TypeOK
    <2>2. 0 # NULL
      BY NullAssumption, ThresholdAssumption
    <2>3. QED
      BY <1>3, <2>1, <2>2 DEF ListedPeersAreTimed, TypeOK
  <1>8. QED
    BY <1>5, <1>6, <1>7

\* HandleHeartbeat keeps the invariant: it extends the lists of the files it
\* names, leaves the others it was on, and recounts both.
LEMMA HeartbeatInv ==
    ASSUME Inv, NEW p \in Addrs, NEW sharing \in SUBSET Files,
           HandleHeartbeat(p, sharing)
    PROVE  Inv'
  <1> USE DEF Inv
  <1>1. /\ peerLastSeen' = [peerLastSeen EXCEPT ![p] = 0]
        /\ readers' = TrackedReaders(sharing \cup {f \in Files : p \in Listed(f)})
        /\ up' = up
    BY DEF HandleHeartbeat
  <1>2. ASSUME NEW f \in Files
        PROVE  /\ peerIndex'[f] \in {NULL} \cup SUBSET Addrs
               /\ fileIndex'[f] \in {NULL} \cup FileInfo
               /\ Counted(peerIndex'[f], fileIndex'[f])
               /\ Listed(f)' \subseteq Listed(f) \cup {p}
    <2>1. CASE f \in sharing
      <3> DEFINE S == Listed(f) \cup {p}
      <3>1. S \in SUBSET Addrs /\ S # NULL
        BY ListedType, AddrSets
      <3>2. peerIndex'[f] = S /\ fileIndex'[f] = CountedInfo(f, S)
        BY <2>1 DEF HandleHeartbeat
      <3>3. Listed(f)' = S
        BY <3>1, <3>2 DEF Listed
      <3>4. QED
        BY <3>1, <3>2, <3>3, UpdateCounts DEF Counted
    <2>2. CASE f \notin sharing /\ p \in Listed(f)
      <3> DEFINE S == Listed(f) \ {p}
      <3>1. S \in SUBSET Addrs
        BY ListedType
      <3>2. peerIndex'[f] = KeptList(f, S) /\ fileIndex'[f] = CountedInfo(f, S)
        BY <2>2 DEF HandleHeartbeat
      <3>3. Listed(f)' \subseteq S
        BY <3>1, <3>2, UpdateCounts DEF Listed
      <3>4. QED
        BY <3>1, <3>2, <3>3, UpdateCounts DEF Counted
    <2>3. CASE f \notin sharing /\ p \notin Listed(f)
      <3>1. peerIndex'[f] = peerIndex[f] /\ fileIndex'[f] = fileIndex[f]
        BY <2>3 DEF HandleHeartbeat
      <3>2. QED
        BY <3>1, CountsByFile DEF TypeOK, Listed
    <2>4. QED
      BY <2>1, <2>2, <2>3
  <1>3. peerIndex' \in [Files -> {NULL} \cup SUBSET Addrs]
    BY <1>2 DEF HandleHeartbeat
  <1>4. TypeOK'
    <2>1. fileIndex' \in [Files -> {NULL} \cup FileInfo]
      BY <1>2 DEF HandleHeartbeat
    <2>2. peerLastSeen' \in [Addrs -> {NULL} \cup 0 .. Stale]
      BY <1>1, ThresholdAssumption DEF TypeOK, Stale
    <2>3. readers' \in [Clients -> {NULL} \cup Reader]
      BY <1>1, <1>3, TrackedReadersType
    <2>4. QED
      BY <1>1, <1>3, <2>1, <2>2, <2>3 DEF TypeOK
  <1>5. PeerCountsMatch'
    BY <1>2, CountsByFile
  <1>6. ListedPeersAreTimed'
    <2> SUFFICES ASSUME NEW g \in Files, NEW q \in Listed(g)'
                 PROVE  peerLastSeen'[q] # NULL
      BY DEF ListedPeersAreTimed
    <2>1. q \in Listed(g) \cup {p} /\ q \in Addrs
      BY <1>2, ListedType
    <2>2. 0 # NULL
      BY NullAssumption, ThresholdAssumption
    <2>3. QED
      BY <1>1, <2>1, <2>2 DEF ListedPeersAreTimed, TypeOK
  <1>7. QED
    BY <1>4, <1>5, <1>6

\* HandleRemove keeps the invariant: the shortened list is recounted and no
\* timestamp goes away.
LEMMA RemoveInv ==
    ASSUME Inv, NEW f \in Files, NEW p \in Addrs, HandleRemove(f, p)
    PROVE  Inv'
  <1> USE DEF Inv
  <1> DEFINE S == Listed(f) \ {p}
  <1>1. S \in SUBSET Addrs
    BY ListedType
  <1>2. /\ peerIndex' = [peerIndex EXCEPT ![f] = KeptList(f, S)]
        /\ fileIndex' = [fileIndex EXCEPT ![f] = CountedInfo(f, S)]
        /\ readers' = TrackedReaders(IF Listed(f) = {} THEN {} ELSE {f})
        /\ UNCHANGED <<peerLastSeen, up>>
    BY DEF HandleRemove
  <1>3. peerIndex' \in [Files -> {NULL} \cup SUBSET Addrs]
    BY <1>1, <1>2, UpdateCounts DEF TypeOK
  <1>4. TypeOK'
    <2>1. fileIndex' \in [Files -> {NULL} \cup FileInfo]
      BY <1>1, <1>2, UpdateCounts DEF TypeOK
    <2>2. readers' \in [Clients -> {NULL} \cup Reader]
      BY <1>2, <1>3, TrackedReadersType
    <2>3. QED
      BY <1>2, <1>3, <2>1, <2>2 DEF TypeOK
  <1>5. PeerCountsMatch'
    <2> SUFFICES ASSUME NEW g \in Files
                 PROVE  Counted(peerIndex'[g], fileIndex'[g])
      BY CountsByFile
    <2>1. CASE g = f
      BY <1>1, <1>2, <2>1, UpdateCounts DEF Counted, TypeOK
    <2>2. CASE g # f
      BY <1>2, <2>2, CountsByFile DEF TypeOK
    <2>3. QED
      BY <2>1, <2>2
  <1>6. ListedPeersAreTimed'
    <2> SUFFICES ASSUME NEW g \in Files, NEW q \in Listed(g)'
                 PROVE  peerLastSeen'[q] # NULL
      BY DEF ListedPeersAreTimed
    <2>1. CASE g = f
      <3>1. q \in S
        BY <1>1, <1>2, <2>1, UpdateCounts DEF Listed, TypeOK
      <3>2. QED
        BY <1>2, <2>1, <3>1 DEF ListedPeersAreTimed
    <2>2. CASE g # f
      BY <1>2, <2>2 DEF Listed, TypeOK, ListedPeersAreTimed
    <2>3. QED
      BY <2>1, <2>2
  <1>7. QED
    BY <1>4, <1>5, <1>6

\* Forgetting a set of peers, lists and timestamps together, keeps the
\* invariant: RemovePeer and the sweep of HandleGetPeers.
LEMMA ForgetInv ==
    ASSUME Inv, NEW gone \in SUBSET Addrs, Unlist(gone),
           peerLastSeen' = [p \in Addrs |->
                              IF p \in gone THEN NULL ELSE peerLastSeen[p]],
           readers' \in [Clients -> {NULL} \cup Reader],
           up' = up
    PROVE  Inv'
  <1> USE DEF Inv
  <1>1. TypeOK'
    BY UnlistFiles DEF TypeOK
  <1>2. PeerCountsMatch'
    BY UnlistFiles
  <1>3. ListedPeersAreTimed'
    <2> SUFFICES ASSUME NEW g \in Files, NEW q \in Listed(g)'
                 PROVE  peerLastSeen'[q] # NULL
      BY DEF ListedPeersAreTimed
    <2>1. q \in Listed(g) /\ q \notin gone /\ q \in Addrs
      BY UnlistFiles, ListedType
    <2>2. QED
      BY <2>1 DEF ListedPeersAreTimed
  <1>4. QED
    BY <1>1, <1>2, <1>3

\* The cleanup loop keeps the invariant: it forgets the same peers, and the
\* lists it drops besides are empty, so no metadata counts them.
LEMMA InactiveInv ==
    ASSUME Inv, cleanupInactivePeers
    PROVE  Inv'
  <1> USE DEF Inv
  <1> DEFINE gone == {p \in Addrs : IsStale(p)}
             S(f) == Listed(f) \ gone
  <1>1. /\ peerLastSeen' = [p \in Addrs |->
                              IF p \in gone THEN NULL ELSE peerLastSeen[p]]
        /\ readers' = TrackedReaders({f \in Files : Listed(f) \cap gone # {}})
        /\ up' = up
    BY DEF cleanupInactivePeers
  <1>2. ASSUME NEW f \in Files
        PROVE  /\ peerIndex'[f] \in {NULL} \cup SUBSET Addrs
               /\ fileIndex'[f] \in {NULL} \cup FileInfo
               /\ Counted(peerIndex'[f], fileIndex'[f])
               /\ Listed(f)' = S(f)
    <2>1. S(f) \in SUBSET Addrs /\ S(f) # NULL
      BY ListedType, AddrSets
    <2>2. peerIndex'[f] = IF S(f) = {} THEN NULL ELSE S(f)
      BY DEF cleanupInactivePeers
    <2>3. Listed(f)' = S(f)
      BY <2>1, <2>2 DEF Listed
    <2>4. CASE Listed(f) \cap gone # {}
      <3>1. fileIndex'[f] = CountedInfo(f, S(f))
        BY <2>4 DEF cleanupInactivePeers
      <3>2. QED
        BY <2>1, <2>2, <2>3, <3>1, UpdateCounts DEF Counted
    <2>5. CASE Listed(f) \cap gone = {}
      <3>1. fileIndex'[f] = fileIndex[f] /\ S(f) = Listed(f)
        BY <2>5 DEF cleanupInactivePeers
      <3>2. fileIndex[f] # NULL => peerIndex'[f] = peerIndex[f]
        BY <2>2, <3>1, ListedType DEF PeerCountsMatch
      <3>3. QED
        BY <2>1, <2>2, <2>3, <3>1, <3>2, CountsByFile DEF TypeOK, Counted
    <2>6. QED
      BY <2>4, <2>5
  <1>3. peerIndex' \in [Files -> {NULL} \cup SUBSET Addrs]
    BY <1>2 DEF cleanupInactivePeers
  <1>4. TypeOK'
    <2>1. fileIndex' \in [Files -> {NULL} \cup FileInfo]
      BY <1>2 DEF cleanupInactivePeers
    <2>2. readers' \in [Clients -> {NULL} \cup Reader]
      BY <1>1, <1>3, TrackedReadersType
    <2>3. QED
      BY <1>1, <1>3, <2>1, <2>2 DEF TypeOK
  <1>5. PeerCountsMatch'
    BY <1>2, CountsByFile
  <1>6. ListedPeersAreTimed'
    <2> SUFFICES ASSUME NEW g \in Files, NEW q \in Listed(g)'
                 PROVE  peerLastSeen'[q] # NULL
      BY DEF ListedPeersAreTimed
    <2>1. q \in Listed(g) /\ q \notin gone /\ q \in Addrs
      BY <1>2, ListedType
    <2>2. QED
      BY <1>1, <2>1 DEF ListedPeersAreTimed
  <1>7. QED
    BY <1>4, <1>5, <1>6

-----------------------------------------------------------------------------
\* Initially nothing is listed, counted or timed.
LEMMA InitInv == Init => Inv
  BY DEF Init, EmptyMap, Inv, TypeOK, PeerCountsMatch, ListedPeersAreTimed, Listed

\* The locked part of HandleGetPeers is the sweep plus a well-typed reader.
LEMMA GetPeersInv ==
    ASSUME Inv, NEW c \in Clients, NEW f \in Files, HandleGetPeers(c, f)
    PROVE  Inv'
  <1> DEFINE gone == {p \in Addrs : IsStale(p)}
             held == peerIndex'[f] # NULL
             r == [file |-> f, may |-> IF held THEN peerIndex'[f] ELSE {},
                   raced |-> FALSE, live |-> held]
             swept == {g \in Files : \E p \in Listed(g) : IsStale(p)}
  <1>1. /\ Unlist(gone)
        /\ peerLastSeen' = [p \in Addrs |->
                              IF p \in gone THEN NULL ELSE peerLastSeen[p]]
        /\ up' = up
    BY DEF HandleGetPeers, cleanupStalePeers
  <1>2. readers' = [TrackedReaders(swept) EXCEPT ![c] = r]
    BY DEF HandleGetPeers
  <1>3. peerIndex' \in [Files -> {NULL} \cup SUBSET Addrs]
    BY <1>1, UnlistFiles DEF Inv
  <1>4. TrackedReaders(swept) \in [Clients -> {NULL} \cup Reader]
    BY <1>3, TrackedReadersType DEF Inv
  <1>5. r \in Reader
    BY <1>3 DEF Reader
  <1>6. readers' \in [Clients -> {NULL} \cup Reader]
    BY <1>2, <1>4, <1>5
  <1>7. gone \in SUBSET Addrs
    OBVIOUS
  <1>8. QED
    BY <1>1, <1>6, <1>7, ForgetInv

\* Every step of the tracker keeps the invariant.
LEMMA NextInv == Inv /\ [Next]_vars => Inv'
  <1> SUFFICES ASSUME Inv, [Next]_vars PROVE Inv'
    OBVIOUS
  <1>1. ASSUME NEW f \in Files, NEW p \in Addrs, NEW h \in Hashes,
               HandleAnnounce(f, p, h)
        PROVE  Inv'
    BY <1>1, AnnounceInv
  <1>2. ASSUME NEW p \in Addrs, NEW sharing \in SUBSET Files,
               HandleHeartbeat(p, sharing)
        PROVE  Inv'
    BY <1>2, HeartbeatInv
  <1>3. ASSUME NEW f \in Files, NEW p \in Addrs, HandleRemove(f, p)
        PROVE  Inv'
    BY <1>3, RemoveInv
  <1>4. ASSUME NEW p \in Addrs, RemovePeer(p)
        PROVE  Inv'
    <2>1. /\ Unlist({p})
          /\ peerLastSeen' = [q \in Addrs |->
                                IF q \in {p} THEN NULL ELSE peerLastSeen[q]]
          /\ up' = up
      BY <1>4 DEF RemovePeer, Inv, TypeOK
    <2>2. readers' = TrackedReaders({f \in Files : p \in Listed(f)})
      BY <1>4 DEF RemovePeer
    <2>3. readers' \in [Clients -> {NULL} \cup Reader]
      BY <2>1, <2>2, UnlistFiles, TrackedReadersType DEF Inv
    <2>4. QED
      BY <2>1, <2>3, ForgetInv
  <1>5. ASSUME NEW p \in Addrs, UpdatePeerActivity(p)
        PROVE  Inv'
    <2>1. /\ peerLastSeen' = [peerLastSeen EXCEPT ![p] = 0]
          /\ UNCHANGED <<fileIndex, peerIndex, readers, up>>
      BY <1>5 DEF UpdatePeerActivity
    <2>2. 0 # NULL /\ 0 \in 0 .. Stale
      BY NullAssumption, ThresholdAssumption DEF Stale
    <2>3. TypeOK'
      BY <2>1, <2>2 DEF Inv, TypeOK
    <2>4. PeerCountsMatch'
      BY <2>1 DEF Inv, PeerCountsMatch
    <2>5. ListedPeersAreTimed'
      BY <2>1, <2>2, ListedType DEF Inv, ListedPeersAreTimed, Listed, TypeOK
    <2>6. QED
      BY <2>3, <2>4, <2>5 DEF Inv
  <1>6. CASE cleanupInactivePeers
    BY <1>6, InactiveInv
  <1>7. ASSUME NEW c \in Clients, NEW f \in Files, HandleGetPeers(c, f)
        PROVE  Inv'
    BY <1>7, GetPeersInv
  <1>8. ASSUME NEW c \in Clients, ReplyPeers(c)
        PROVE  Inv'
    BY <1>8 DEF ReplyPeers, Inv, TypeOK, PeerCountsMatch, ListedPeersAreTimed, Listed
  <1>9. ASSUME NEW c \in Clients, ConcurrentMapFault(c)
        PROVE  Inv'
    BY <1>9 DEF ConcurrentMapFault, EmptyMap, Inv, TypeOK, PeerCountsMatch,
                ListedPeersAreTimed, Listed
  <1>10. CASE Restart
    BY <1>10 DEF Restart, Inv, TypeOK, PeerCountsMatch, ListedPeersAreTimed, Listed
  <1>11. CASE Tick
    <2>1. /\ peerLastSeen' = [p \in Addrs |->
                IF peerLastSeen[p] = NULL \/ IsStale(p)
                THEN peerLastSeen[p] ELSE peerLastSeen[p] + 1]
          /\ UNCHANGED <<fileIndex, peerIndex, readers, up>>
      BY <1>11 DEF Tick
    <2>2. ASSUME NEW p \in Addrs
          PROVE  /\ peerLastSeen'[p] \in {NULL} \cup 0 .. Stale
                 /\ peerLastSeen[p] # NULL => peerLastSeen'[p] # NULL
      BY <2>1, NullAssumption, ThresholdAssumption DEF Inv, TypeOK, IsStale, Stale
    <2>3. TypeOK'
      BY <2>1, <2>2 DEF Inv, TypeOK
    <2>4. PeerCountsMatch'
      BY <2>1 DEF Inv, PeerCountsMatch
    <2>5. ListedPeersAreTimed'
      BY <2>1, <2>2, ListedType DEF Inv, ListedPeersAreTimed, Listed
    <2>6. QED
      BY <2>3, <2>4, <2>5 DEF Inv
  <1>12. CASE UNCHANGED vars
    BY <1>12 DEF vars, Inv, TypeOK, PeerCountsMatch, ListedPeersAreTimed, Listed
  <1>13. QED
    BY <1>1, <1>2, <1>3, <1>4, <1>5, <1>6, <1>7, <1>8, <1>9, <1>10, <1>11, <1>12
       DEF Next

\* The invariant holds in every reachable state.
THEOREM SpecInv == Spec => []Inv
  BY InitInv, NextInv, PTL DEF Spec

\* Every map of the tracker keeps its type: ages stay within the threshold
\* plus one and every iteration under way refers to a known file.
THEOREM TypeCorrect == Spec => []TypeOK
  <1>1. Inv => TypeOK
    BY DEF Inv
  <1>2. QED
    BY <1>1, SpecInv, PTL

\* The peer count a client is shown is the length of the list it can fetch,
\* for any number of files, peers and requests.
THEOREM CountsAlwaysMatch == Spec => []PeerCountsMatch
  <1>1. Inv => PeerCountsMatch
    BY DEF Inv
  <1>2. QED
    BY <1>1, SpecInv, PTL

\* No listed peer is out of the sweeps' reach.
THEOREM ListedAlwaysTimed == Spec => []ListedPeersAreTimed
  <1>1. Inv => ListedPeersAreTimed
    BY DEF Inv
  <1>2. QED
    BY <1>1, SpecInv, PTL
-----------------------------------------------------------------------------
(***************************************************************************)
(* OnlyFreshPeersReplied.  An iteration under way is only handed what was   *)
(* added to its map, because it already had the rest: that is the extra     *)
(* invariant.                                                               *)
(***************************************************************************)
ReadersHaveList ==
    \A c \in Clients : readers[c] # NULL =>
        (readers[c].live => Listed(readers[c].file) \subseteq readers[c].may)

Fresh(p) == peerLastSeen'[p] \in 0 .. Threshold

\* One request's step of OnlyFreshPeersReplied.
GainsFresh(c) ==
    readers'[c] # NULL =>
        LET before == IF readers[c] = NULL THEN {} ELSE readers[c].may
        IN  \A p \in readers'[c].may \ before : Fresh(p)

\* One request's part of ReadersHaveList', and its step.
Follows(c) ==
    /\ GainsFresh(c)
    /\ (readers[c] # NULL =>
           (readers[c].live => Listed(readers[c].file) \subseteq readers[c].may))'

\* If what a step adds to the lists is fresh, every request it tracks follows.
LEMMA TrackedFollows ==
    ASSUME Inv, ReadersHaveList, NEW c \in Clients, NEW written,
           peerIndex' \in [Files -> {NULL} \cup SUBSET Addrs],
           \A f \in Files : \A p \in Listed(f)' \ Listed(f) : Fresh(p),
           readers'[c] = TrackedReaders(written)[c]
    PROVE  Follows(c)
  <1> DEFINE r == readers[c]
             now == IF peerIndex'[r.file] = NULL THEN {} ELSE peerIndex'[r.file]
             wasRaced == r.raced \/ r.file \in written
             isLive == peerIndex'[r.file] # NULL
  <1>1. r \in {NULL} \cup Reader
    BY DEF Inv, TypeOK
  <1>2. CASE r = NULL
    <2>1. readers'[c] = NULL
      BY <1>2 DEF TrackedReaders
    <2>2. QED
      BY <2>1 DEF Follows, GainsFresh
  <1>3. CASE r # NULL /\ ~r.live
    <2>1. readers'[c] = r
      BY <1>3 DEF TrackedReaders
    <2>2. QED
      BY <1>3, <2>1 DEF Follows, GainsFresh
  <1>4. CASE r # NULL /\ r.live
    <2>1. r \in Reader
      BY <1>1, <1>4
    <2>2. readers'[c] =
            [r EXCEPT !.may = @ \cup now, !.raced = wasRaced, !.live = isLive]
      BY <1>4 DEF TrackedReaders
    <2>3. PICK g \in Files : g = r.file
      BY <2>1 DEF Reader
    <2>4. Listed(g)' = now /\ Listed(g) \subseteq r.may
      BY <1>4, <2>3 DEF Listed, ReadersHaveList
    <2> HIDE DEF now, wasRaced, isLive
    <2>5. readers'[c].may = r.may \cup now /\ readers'[c].file = g
      BY <2>1, <2>2, <2>3 DEF Reader
    <2>7. \A p \in readers'[c].may \ r.may : Fresh(p)
      BY <2>4, <2>5
    <2>8. GainsFresh(c)
      BY <1>4, <2>7 DEF GainsFresh
    <2>9. QED
      BY <2>4, <2>5, <2>8 DEF Follows, Listed
  <1>5. QED
    BY <1>2, <1>3, <1>4

\* A step that leaves the lists and the requests alone is followed trivially.
LEMMA IdleFollows ==
    ASSUME ReadersHaveList, NEW c \in Clients,
           UNCHANGED <<peerIndex, readers>>
    PROVE  Follows(c)
  BY DEF ReadersHaveList, Follows, GainsFresh, Listed

\* Every step makes every request follow.
LEMMA NextFollows ==
    ASSUME Inv, ReadersHaveList, [Next]_vars, NEW c \in Clients
    PROVE  Follows(c)
  <1> DEFINE gone == {p \in Addrs : IsStale(p)}
  <1>0. peerIndex' \in [Files -> {NULL} \cup SUBSET Addrs]
    BY NextInv DEF Inv, TypeOK
  <1>00. 0 \in 0 .. Threshold
    BY ThresholdAssumption
  <1>1. ASSUME NEW f \in Files, NEW p \in Addrs, NEW h \in Hashes,
               HandleAnnounce(f, p, h)
        PROVE  Follows(c)
    <2>1. /\ peerIndex' = [peerIndex EXCEPT ![f] = Listed(f) \cup {p}]
          /\ peerLastSeen' = [peerLastSeen EXCEPT ![p] = 0]
          /\ readers' = TrackedReaders({f})
      BY <1>1 DEF HandleAnnounce
    <2>2. \A g \in Files : Listed(g)' \subseteq Listed(g) \cup {p}
      BY <2>1 DEF Listed, Inv, TypeOK
    <2>3. Fresh(p)
      BY <1>00, <2>1 DEF Fresh, Inv, TypeOK
    <2>4. QED
      BY <1>0, <2>1, <2>2, <2>3, TrackedFollows
  <1>2. ASSUME NEW p \in Addrs, NEW sharing \in SUBSET Files,
               HandleHeartbeat(p, sharing)
        PROVE  Follows(c)
    <2>1. /\ peerLastSeen' = [peerLastSeen EXCEPT ![p] = 0]
          /\ readers' = TrackedReaders(sharing \cup {f \in Files : p \in Listed(f)})
      BY <1>2 DEF HandleHeartbeat
    <2>2. ASSUME NEW g \in Files
          PROVE  Listed(g)' \subseteq Listed(g) \cup {p}
      <3>1. peerIndex'[g] \in
              {Listed(g) \cup {p}, KeptList(g, Listed(g) \ {p}), peerIndex[g]}
        BY <1>2 DEF HandleHeartbeat
      <3>2. KeptList(g, Listed(g) \ {p}) \in {NULL, Listed(g) \ {p}}
        BY DEF KeptList
      <3>3. QED
        BY <3>1, <3>2 DEF Listed
    <2>3. Fresh(p)
      BY <1>00, <2>1 DEF Fresh, Inv, TypeOK
    <2>4. QED
      BY <1>0, <2>1, <2>2, <2>3, TrackedFollows
  <1>3. ASSUME NEW f \in Files, NEW p \in Addrs, HandleRemove(f, p)
        PROVE  Follows(c)
    <2>1. /\ peerIndex' = [peerIndex EXCEPT ![f] = KeptList(f, Listed(f) \ {p})]
          /\ readers' = TrackedReaders(IF Listed(f) = {} THEN {} ELSE {f})
      BY <1>3 DEF HandleRemove
    <2>2. \A g \in Files : Listed(g)' \subseteq Listed(g)
      BY <2>1 DEF Listed, KeptList, Inv, TypeOK
    <2>3. QED
      BY <1>0, <2>1, <2>2, TrackedFollows
  <1>4. ASSUME NEW p \in Addrs, RemovePeer(p)
        PROVE  Follows(c)
    <2>1. /\ Unlist({p})
          /\ readers' = TrackedReaders({f \in Files : p \in Listed(f)})
      BY <1>4 DEF RemovePeer
    <2>2. \A g \in Files : Listed(g)' \subseteq Listed(g)
      BY <2>1, UnlistFiles DEF Inv
    <2>3. QED
      BY <1>0, <2>1, <2>2, TrackedFollows
  <1>5. ASSUME NEW p \in Addrs, UpdatePeerActivity(p)
        PROVE  Follows(c)
    BY <1>5, IdleFollows DEF UpdatePeerActivity
  <1>6. CASE cleanupInactivePeers
    <2>1. readers' = TrackedReaders({f \in Files : Listed(f) \cap gone # {}})
      BY <1>6 DEF cleanupInactivePeers
    <2>2. ASSUME NEW g \in Files
          PROVE  Listed(g)' \subseteq Listed(g)
      <3>1. peerIndex'[g] \in {NULL, Listed(g) \ gone}
        BY <1>6 DEF cleanupInactivePeers
      <3>2. QED
        BY <3>1 DEF Listed
    <2>3. QED
      BY <1>0, <2>1, <2>2, TrackedFollows
  <1>7. ASSUME NEW d \in Clients, NEW f \in Files, HandleGetPeers(d, f)
        PROVE  Follows(c)
    <2> DEFINE held == peerIndex'[f] # NULL
               r == [file |-> f, may |-> IF held THEN peerIndex'[f] ELSE {},
                     raced |-> FALSE, live |-> held]
               swept == {g \in Files : \E p \in Listed(g) : IsStale(p)}
    <2>1. /\ Unlist(gone)
          /\ peerLastSeen' = [p \in Addrs |->
                                IF p \in gone THEN NULL ELSE peerLastSeen[p]]
          /\ readers[d] = NULL
      BY <1>7 DEF HandleGetPeers, cleanupStalePeers
    <2>2. readers' = [TrackedReaders(swept) EXCEPT ![d] = r]
      BY <1>7 DEF HandleGetPeers
    <2>3. \A g \in Files : Listed(g)' = Listed(g) \ gone
      BY <2>1, UnlistFiles DEF Inv
    <2>4. CASE c # d
      <3>1. readers'[c] = TrackedReaders(swept)[c]
        BY <2>2, <2>4 DEF TrackedReaders
      <3>2. QED
        BY <1>0, <2>3, <3>1, TrackedFollows
    <2>5. CASE c = d
      <3>1. readers'[c] = r
        BY <2>2, <2>5 DEF TrackedReaders
      <3>2. r.may = Listed(f)' /\ r.file = f
        BY DEF Listed
      <3>3. ASSUME NEW p \in Listed(f)'
            PROVE  Fresh(p)
        <4>1. p \in Listed(f) /\ p \notin gone /\ p \in Addrs
          BY <2>3, <3>3, ListedType DEF Inv
        <4>2. peerLastSeen[p] # NULL /\ peerLastSeen[p] # Stale
          BY <4>1 DEF Inv, ListedPeersAreTimed, IsStale
        <4>3. peerLastSeen'[p] = peerLastSeen[p]
          BY <2>1, <4>1
        <4>4. QED
          BY <4>1, <4>2, <4>3, ThresholdAssumption DEF Fresh, Inv, TypeOK, Stale
      <3> HIDE DEF r
      <3>4. GainsFresh(c)
        BY <2>1, <2>5, <3>1, <3>2, <3>3 DEF GainsFresh
      <3>5. QED
        BY <3>1, <3>2, <3>4 DEF Follows, Listed
    <2>6. QED
      BY <2>4, <2>5
  <1>8. ASSUME NEW d \in Clients, ReplyPeers(d)
        PROVE  Follows(c)
    <2>1. readers'[c] \in {NULL, readers[c]} /\ peerIndex' = peerIndex
      BY <1>8 DEF ReplyPeers, Inv, TypeOK
    <2>2. QED
      BY <2>1 DEF ReadersHaveList, Follows, GainsFresh, Listed
  <1>9. ASSUME NEW d \in Clients, ConcurrentMapFault(d)
        PROVE  Follows(c)
    BY <1>9 DEF ConcurrentMapFault, EmptyMap, Follows, GainsFresh
  <1>10. CASE Restart
    BY <1>10, IdleFollows DEF Restart
  <1>11. CASE Tick
    BY <1>11, IdleFollows DEF Tick
  <1>12. CASE UNCHANGED vars
    BY <1>12, IdleFollows DEF vars
  <1>13. QED
    BY <1>1, <1>2, <1>3, <1>4, <1>5, <1>6, <1>7, <1>8, <1>9, <1>10, <1>11, <1>12
       DEF Next

\* The list a /peers request answers with never gains an address that was not
\* seen within the threshold, whatever other handlers do to the map after the
\* lock is released.
THEOREM RepliesAreFresh == Spec => OnlyFreshPeersReplied
  <1>1. Init => ReadersHaveList
    BY DEF Init, EmptyMap, ReadersHaveList
  <1>2. ASSUME Inv, ReadersHaveList, [Next]_vars
        PROVE  ReadersHaveList'
    BY <1>2, NextFollows DEF ReadersHaveList, Follows
  <1>3. ASSUME Inv, ReadersHaveList, [Next]_vars
        PROVE  [\A c \in Clients : readers'[c] # NULL =>
                   LET before == IF readers[c] = NULL THEN {} ELSE readers[c].may
                   IN  \A p \in readers'[c].may \ before :
                          peerLastSeen'[p] \in 0 .. Threshold]_vars
    BY <1>3, NextFollows DEF Follows, GainsFresh, Fresh
  <1>4. QED
    BY <1>1, <1>2, <1>3, SpecInv, PTL DEF Spec, OnlyFreshPeersReplied
=============================================================================
