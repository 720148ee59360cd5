-------------------------- MODULE DirectoryProofs ---------------------------
(***************************************************************************)
(* Tracker implements Directory, for every finite set of addresses, every   *)
(* set of files, hashes and clients and every threshold.  The invariant of  *)
(* TrackerProofs is all it needs: a file with a description has a peer, so  *)
(* that the description goes with the last one.                             *)
(***************************************************************************)
EXTENDS TrackerProofs

\* The description of f, and the stale peers, as Directory sees them.
Described(f) == IF fileIndex[f] = NULL THEN NULL ELSE fileIndex[f].TotalHash
Silent       == {p \in Addrs : IsStale(p)}

\* NULL is neither an age nor a list nor a FileInfo.
LEMMA NullIsNone ==
    /\ NULL # Stale /\ 0 # Stale
    /\ \A peers \in SUBSET Addrs : NULL # peers
    /\ \A info \in FileInfo : NULL # info
  BY NullAssumption, ThresholdAssumption DEF Stale, FileInfo

\* A recount keeps the description while the list has somebody in it.
LEMMA CountedDescribes ==
    ASSUME TypeOK, NEW f \in Files, NEW peers \in SUBSET Addrs,
           fileIndex'[f] = CountedInfo(f, peers)
    PROVE  Described(f)' = IF peers = {} THEN NULL ELSE Described(f)
  <1>1. CASE fileIndex[f] = NULL \/ peers = {}
    BY <1>1 DEF Described, CountedInfo
  <1>2. CASE fileIndex[f] # NULL /\ peers # {}
    <2>1. fileIndex[f] \in FileInfo
      BY <1>2 DEF TypeOK
    <2>2. Cardinality(peers) \in Nat
      BY AddrSets
    <2>3. fileIndex'[f] = [fileIndex[f] EXCEPT !.NumPeers = Cardinality(peers)]
      BY <1>2 DEF CountedInfo
    <2>4. fileIndex'[f] \in FileInfo /\ fileIndex'[f].TotalHash = fileIndex[f].TotalHash
      BY <2>1, <2>2, <2>3 DEF FileInfo
    <2>5. QED
      BY <1>2, <2>4, NullIsNone DEF Described
  <1>3. QED
    BY <1>1, <1>2

\* A file whose list was replaced has that list, and its description follows.
LEMMA FileBecomes ==
    ASSUME TypeOK, NEW f \in Files, NEW peers \in SUBSET Addrs,
           peerIndex'[f] = KeptList(f, peers), fileIndex'[f] = CountedInfo(f, peers)
    PROVE  /\ Listed(f)' = peers
           /\ Described(f)' = IF peers = {} THEN NULL ELSE Described(f)
  <1>1. Listed(f)' = peers
    BY NullIsNone DEF Listed, KeptList
  <1>2. QED
    BY <1>1, CountedDescribes

\* A file that was not touched keeps both, and has a description only with a
\* peer.
LEMMA FileStays ==
    ASSUME Inv, NEW f \in Files, peerIndex'[f] = peerIndex[f], fileIndex'[f] = fileIndex[f]
    PROVE  /\ Listed(f)' = Listed(f)
           /\ Described(f)' = Described(f)
           /\ Listed(f) = {} => Described(f) = NULL
  BY DEF Listed, Described, Inv, PeerCountsMatch

-----------------------------------------------------------------------------
(***************************************************************************)
(* The actions.                                                             *)
(***************************************************************************)

\* An announcement is one of Directory.
LEMMA AnnounceStep ==
    ASSUME Inv, NEW f \in Files, NEW p \in Addrs, NEW h \in Hashes, HandleAnnounce(f, p, h)
    PROVE  Dir!Announce(f, p, h)
  <1>1. TypeOK /\ Listed(f) \cup {p} \in SUBSET Addrs
    BY ListedType DEF Inv
  <1>2. /\ peerIndex' = [peerIndex EXCEPT ![f] = Listed(f) \cup {p}]
        /\ peerLastSeen' = [peerLastSeen EXCEPT ![p] = 0]
        /\ UNCHANGED up
    BY DEF HandleAnnounce
  <1>3. PICK n \in Nat : fileIndex' = [fileIndex EXCEPT ![f] = [TotalHash |-> h, NumPeers |-> n]]
    BY <1>1, AddrSets DEF HandleAnnounce
  <1>4. \A g \in Files : Listed(g)' = IF g = f THEN Listed(f) \cup {p} ELSE Listed(g)
    BY <1>1, <1>2, NullIsNone DEF TypeOK, Listed
  <1>5. \A g \in Files : Described(g)' = IF g = f THEN h ELSE Described(g)
    <2>1. [TotalHash |-> h, NumPeers |-> n] \in FileInfo
      BY <1>3 DEF FileInfo
    <2>2. QED
      BY <1>1, <1>3, <2>1, NullIsNone DEF TypeOK, Described
  <1>6. Silent' = Silent \ {p}
    BY <1>1, <1>2, NullIsNone DEF TypeOK, Silent, IsStale
  <1>7. QED
    BY <1>2, <1>4, <1>5, <1>6 DEF Dir!Announce, Described, Silent

\* The peers of `gone' leave every list, file by file.
LEMMA UnlistBecomes ==
    ASSUME Inv, NEW gone \in SUBSET Addrs, NEW f \in Files,
           \/ /\ peerIndex'[f] = KeptList(f, Listed(f) \ gone)
              /\ fileIndex'[f] = CountedInfo(f, Listed(f) \ gone)
           \/ /\ Listed(f) \cap gone = {}
              /\ peerIndex'[f] = peerIndex[f] /\ fileIndex'[f] = fileIndex[f]
    PROVE  /\ Listed(f)' = Listed(f) \ gone
           /\ Described(f)' = IF Listed(f) \ gone = {} THEN NULL ELSE Described(f)
  <1>1. PICK rest \in SUBSET Addrs : rest = Listed(f) \ gone
    BY ListedType DEF Inv
  <1>2. CASE peerIndex'[f] = KeptList(f, rest) /\ fileIndex'[f] = CountedInfo(f, rest)
    BY <1>1, <1>2, FileBecomes DEF Inv
  <1>3. CASE /\ Listed(f) \cap gone = {}
             /\ peerIndex'[f] = peerIndex[f] /\ fileIndex'[f] = fileIndex[f]
    BY <1>1, <1>3, FileStays
  <1>4. QED
    BY <1>1, <1>2, <1>3

\* Unlisting peers and forgetting their timestamps makes them leave.
LEMMA UnlistStep ==
    ASSUME Inv, NEW gone \in SUBSET Addrs, Unlist(gone), UNCHANGED up,
           peerLastSeen' = [p \in Addrs |-> IF p \in gone THEN NULL ELSE peerLastSeen[p]]
    PROVE  Dir!Leave(gone)
  <1>1. \A f \in Files :
           /\ Listed(f)' = Listed(f) \ gone
           /\ Described(f)' = IF Listed(f) \ gone = {} THEN NULL ELSE Described(f)
    BY UnlistBecomes DEF Unlist
  <1>2. Silent' = Silent \ gone
    BY NullIsNone DEF Silent, IsStale
  <1>3. QED
    BY <1>1, <1>2 DEF Dir!Leave, Dir!Become, Described, Silent

\* A heartbeat is a report.
LEMMA HeartbeatStep ==
    ASSUME Inv, NEW p \in Addrs, NEW sharing \in SUBSET Files, HandleHeartbeat(p, sharing)
    PROVE  Dir!Report(p, sharing)
  <1> DEFINE l(f) == IF f \in sharing THEN Listed(f) \cup {p} ELSE Listed(f) \ {p}
  <1>1. ASSUME NEW f \in Files
        PROVE  /\ Listed(f)' = l(f)
               /\ Described(f)' = IF l(f) = {} THEN NULL ELSE Described(f)
    <2>1. Listed(f) \in SUBSET Addrs
      BY ListedType DEF Inv
    <2>2. CASE f \in sharing
      <3>1. PICK new \in SUBSET Addrs : new = Listed(f) \cup {p}
        BY <2>1
      <3>2. peerIndex'[f] = KeptList(f, new) /\ fileIndex'[f] = CountedInfo(f, new)
        BY <2>2, <3>1 DEF HandleHeartbeat, KeptList
      <3>3. QED
        BY <2>2, <3>1, <3>2, FileBecomes DEF Inv
    <2>3. CASE f \notin sharing
      <3>1. \/ /\ peerIndex'[f] = KeptList(f, Listed(f) \ {p})
               /\ fileIndex'[f] = CountedInfo(f, Listed(f) \ {p})
            \/ /\ Listed(f) \cap {p} = {}
               /\ peerIndex'[f] = peerIndex[f] /\ fileIndex'[f] = fileIndex[f]
        BY <2>3 DEF HandleHeartbeat
      <3>2. QED
        BY <2>3, <3>1, UnlistBecomes
    <2>4. QED
      BY <2>2, <2>3
  <1>2. Silent' = Silent \ {p}
    BY NullIsNone DEF HandleHeartbeat, Silent, IsStale, Inv, TypeOK
  <1>3. UNCHANGED up
    BY DEF HandleHeartbeat
  <1>4. QED
    BY <1>1, <1>2, <1>3 DEF Dir!Report, Dir!Become, Described, Silent

\* A removal is a withdrawal.
LEMMA RemoveStep ==
    ASSUME Inv, NEW f \in Files, NEW p \in Addrs, HandleRemove(f, p)
    PROVE  Dir!Withdraw(f, p)
  <1>1. /\ Listed(f)' = Listed(f) \ {p}
        /\ Described(f)' = IF Listed(f) \ {p} = {} THEN NULL ELSE Described(f)
    <2>1. /\ peerIndex'[f] = KeptList(f, Listed(f) \ {p})
          /\ fileIndex'[f] = CountedInfo(f, Listed(f) \ {p})
      BY DEF HandleRemove, Inv, TypeOK
    <2>2. QED
      BY <2>1, UnlistBecomes
  <1>2. \A g \in Files \ {f} :
           /\ Listed(g)' = Listed(g)
           /\ Described(g)' = IF Listed(g) = {} THEN NULL ELSE Described(g)
    BY FileStays DEF HandleRemove, Inv, TypeOK
  <1>3. UNCHANGED <<peerLastSeen, up>>
    BY DEF HandleRemove
  <1>4. QED
    BY <1>1, <1>2, <1>3 DEF Dir!Withdraw, Dir!Become, Described, IsStale

\* The cleanup loop makes the silent peers leave.
LEMMA InactiveStep ==
    ASSUME Inv, cleanupInactivePeers
    PROVE  Dir!Leave(Silent)
  <1>1. PICK gone \in SUBSET Addrs : gone = Silent
    BY DEF Silent
  <1>2. ASSUME NEW f \in Files
        PROVE  /\ Listed(f)' = Listed(f) \ gone
               /\ Described(f)' = IF Listed(f) \ gone = {} THEN NULL ELSE Described(f)
    <2>1. PICK rest \in SUBSET Addrs : rest = Listed(f) \ gone
      BY ListedType DEF Inv
    <2>2. Listed(f)' = rest
      BY <1>1, <2>1, NullIsNone DEF cleanupInactivePeers, Silent, Listed
    <2>3. CASE Listed(f) \cap gone # {}
      <3>1. fileIndex'[f] = CountedInfo(f, rest)
        BY <1>1, <2>1, <2>3 DEF cleanupInactivePeers, Silent
      <3>2. Described(f)' = IF rest = {} THEN NULL ELSE Described(f)
        BY <3>1, CountedDescribes DEF Inv
      <3>3. QED
        BY <2>1, <2>2, <3>2
    <2>4. CASE Listed(f) \cap gone = {}
      <3>1. fileIndex'[f] = fileIndex[f] /\ rest = Listed(f)
        BY <1>1, <2>1, <2>4 DEF cleanupInactivePeers, Silent
      <3>2. QED
        BY <2>1, <2>2, <3>1 DEF Described, Listed, Inv, PeerCountsMatch
    <2>5. QED
      BY <2>3, <2>4
  <1>3. Silent' = Silent \ gone
    BY <1>1, NullIsNone DEF cleanupInactivePeers, Silent, IsStale
  <1>4. UNCHANGED up
    BY DEF cleanupInactivePeers
  <1>5. QED
    BY <1>1, <1>2, <1>3, <1>4 DEF Dir!Leave, Dir!Become, Described, Silent

-----------------------------------------------------------------------------
\* Every step is a step of Directory or invisible to it.
LEMMA NextDirects == Inv /\ [Next]_vars => [Dir!Next]_(Dir!vars)
  <1> SUFFICES ASSUME Inv, [Next]_vars PROVE [Dir!Next]_(Dir!vars)
    OBVIOUS
  <1>1. ASSUME NEW f \in Files, NEW p \in Addrs, NEW h \in Hashes, HandleAnnounce(f, p, h)
        PROVE  Dir!Next
    BY <1>1, AnnounceStep DEF Dir!Next, Dir!Serve, HandleAnnounce
  <1>2. ASSUME NEW p \in Addrs, NEW sharing \in SUBSET Files, HandleHeartbeat(p, sharing)
        PROVE  Dir!Next
    BY <1>2, HeartbeatStep DEF Dir!Next, Dir!Serve, HandleHeartbeat
  <1>3. ASSUME NEW f \in Files, NEW p \in Addrs, HandleRemove(f, p)
        PROVE  Dir!Next
    BY <1>3, RemoveStep DEF Dir!Next, Dir!Serve, HandleRemove
  <1>4. ASSUME NEW p \in Addrs, RemovePeer(p)
        PROVE  Dir!Next
    <2>1. peerLastSeen' = [q \in Addrs |-> IF q \in {p} THEN NULL ELSE peerLastSeen[q]]
      BY <1>4 DEF RemovePeer, Inv, TypeOK
    <2>2. Dir!Leave({p})
      BY <1>4, <2>1, UnlistStep DEF RemovePeer
    <2>3. QED
      BY <1>4, <2>2 DEF Dir!Next, Dir!Serve, RemovePeer
  <1>5. ASSUME NEW p \in Addrs, UpdatePeerActivity(p)
        PROVE  Dir!Next
    <2>1. Silent' = Silent \ {p}
      BY <1>5, NullIsNone DEF UpdatePeerActivity, Silent, IsStale, Inv, TypeOK
    <2>2. Dir!Seen(p)
      BY <1>5, <2>1 DEF UpdatePeerActivity, Dir!Seen, Silent, Listed
    <2>3. QED
      BY <1>5, <2>2 DEF Dir!Next, Dir!Serve, UpdatePeerActivity
  <1>6. CASE cleanupInactivePeers
    BY <1>6, InactiveStep DEF Dir!Next, Dir!Serve, Silent, cleanupInactivePeers
  <1>7. ASSUME NEW c \in Clients, NEW f \in Files, HandleGetPeers(c, f)
        PROVE  Dir!Next
    <2>1. PICK gone \in SUBSET Addrs : gone = Silent
      BY DEF Silent
    <2>2. /\ Unlist(gone) /\ UNCHANGED up
          /\ peerLastSeen' = [p \in Addrs |-> IF p \in gone THEN NULL ELSE peerLastSeen[p]]
      BY <1>7, <2>1 DEF HandleGetPeers, cleanupStalePeers, Silent
    <2>3. Dir!Leave(gone)
      BY <2>2, UnlistStep
    <2>4. Dir!Leave(Silent)
      BY <2>1, <2>3 DEF Dir!Leave, Dir!Become
    <2>5. QED
      BY <1>7, <2>4 DEF Dir!Next, Dir!Serve, Silent, HandleGetPeers
  <1>8. ASSUME NEW c \in Clients, ReplyPeers(c)
        PROVE  UNCHANGED Dir!vars
    BY <1>8 DEF ReplyPeers, Dir!vars, Listed, IsStale
  <1>9. ASSUME NEW c \in Clients, ConcurrentMapFault(c)
        PROVE  Dir!Next
    <2>1. Dir!Forget
      BY <1>9, NullIsNone
         DEF ConcurrentMapFault, Dir!Forget, Dir!Nobody, EmptyMap, Listed, IsStale
    <2>2. QED
      BY <1>9, <2>1 DEF Dir!Next, Dir!Serve, ConcurrentMapFault
  <1>10. CASE Restart
    BY <1>10 DEF Restart, Dir!Next, Dir!Restart, Listed, IsStale
  <1>11. CASE Tick
    <2>1. Silent \subseteq Silent'
      BY <1>11 DEF Tick, Silent, IsStale
    <2>2. Dir!TimePasses
      BY <1>11, <2>1 DEF Tick, Dir!TimePasses, Silent, Listed
    <2>3. QED
      BY <1>11, <2>2 DEF Dir!Next, Dir!Serve, Tick
  <1>12. CASE UNCHANGED vars
    BY <1>12 DEF vars, Dir!vars, Listed, IsStale
  <1>13. QED
    BY <1>1, <1>2, <1>3, <1>4, <1>5, <1>6, <1>7, <1>8, <1>9, <1>10, <1>11, <1>12 DEF Next

\* The tracker starts as an empty directory.
LEMMA InitDirects == Init => Dir!Init
  BY NullIsNone DEF Init, Dir!Init, Dir!Nobody, EmptyMap, Listed, IsStale

\* The tracker implements the directory: no handler, sweep or death of the
\* process moves a peer other than the one that posted or the stale ones, and
\* the description of a file lives exactly as long as somebody is listed.
THEOREM TrackerIsDirectory == Spec => ImplementsDirectory
  BY InitDirects, NextDirects, SpecInv, PTL DEF Spec, ImplementsDirectory, Dir!Spec
=============================================================================
