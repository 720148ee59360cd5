--------------------------- MODULE SeedingProofs ----------------------------
(***************************************************************************)
(* Proofs about Seeding, for any finite set of nodes, any files, period,    *)
(* threshold, number of tries and number of faults.  The tracker's part     *)
(* rests on the invariant of TrackerProofs, which every step of the         *)
(* composition keeps.                                                       *)
(***************************************************************************)
EXTENDS Seeding, TrackerProofs

(***************************************************************************)
(* The inductive invariant.  A file that is seeded has an announcement      *)
(* goroutine; and the tracker's timestamp of a seeder is not older than the *)
(* periods it missed, the one that is due or under way, and the time since  *)
(* its ticker last fired.                                                   *)
(***************************************************************************)
Active(s) == s[2] \in activeFiles[s[1]]
Late(s)   == s \in due \/ loop[s] = "posting"

Span(m) == m * PeriodTicks

AgeBound(s) == Span(missed[s]) + elapsed[s] + (IF Late(s) THEN PeriodTicks ELSE 0)

DueIsTicking == \A s \in due : loop[s] = "ticking"

ActiveAnnounces == \A s \in Seeds : Active(s) => loop[s] # "none"

AgeFollowsMissed ==
    \A s \in Seeds :
        /\ Active(s)
        /\ peerLastSeen[s[1]] # NULL
        /\ missed[s] < Rounds
        /\ loop[s] # "hung"
        => peerLastSeen[s[1]] <= AgeBound(s)

RemovalsAreSent == \A m \in posts : m.kind = "remove" => m.try = 0

SeedingInv ==
    /\ SeedingTypeOK
    /\ Inv
    /\ DueIsTicking
    /\ ActiveAnnounces
    /\ AgeFollowsMissed
    /\ RemovalsAreSent

-----------------------------------------------------------------------------
(***************************************************************************)
(* The tracker's part.                                                      *)
(***************************************************************************)

\* Multiples of the period.
LEMMA Spans ==
    /\ \A m \in Nat : Span(m) \in Nat /\ Span(m + 1) = Span(m) + PeriodTicks
    /\ \A m, k \in Nat : m <= k => Span(m) <= Span(k)
    /\ Span(Rounds) = Threshold
  <1>1. \A m \in Nat : Span(m) \in Nat /\ Span(m + 1) = Span(m) + PeriodTicks
    BY PeriodAssumption DEF Span
  <1>2. ASSUME NEW m \in Nat, NEW k \in Nat, m <= k
        PROVE  Span(m) <= Span(k)
    <2>1. PICK d \in Nat : k = m + d
      BY <1>2
    <2>2. d * PeriodTicks \in Nat /\ m * PeriodTicks \in Nat
      BY PeriodAssumption
    <2>3. (m + d) * PeriodTicks = m * PeriodTicks + d * PeriodTicks
      BY PeriodAssumption
    <2>4. QED
      BY <2>1, <2>2, <2>3 DEF Span
  <1>3. Span(Rounds) = Threshold
    BY RoundsAssumption DEF Span
  <1>4. QED
    BY <1>1, <1>2, <1>3

\* A post names a node and a file, and the posts of a seed are posts.
LEMMA Posts ==
    /\ \A m \in Post : /\ m.kind \in {"announce", "remove"}
                       /\ m.node \in Addrs /\ m.file \in Files
                       /\ <<m.node, m.file>> \in Seeds
    /\ \A s \in Seeds : /\ s[1] \in Addrs /\ s[2] \in Files
                        /\ s = <<s[1], s[2]>>
                        /\ Removal(s) \in Post /\ Removal(s).kind = "remove"
                        /\ Removal(s).try = 0
    /\ \A s \in Seeds, k \in 0 .. MaxTries :
          Announcement(s, k) \in Post /\ Announcement(s, k).kind = "announce"
  BY TriesAssumption DEF Post, Seeds, Removal, Announcement

\* What the tracker does in each step of the composition.
LEMMA TrackerStep ==
    ASSUME posts \in SUBSET Post, SeedingNext
    PROVE  [Next]_vars \/ TrackerCrash
  <1>1. /\ \A s \in Seeds, lookup \in Lookups : ShareFile(s, lookup) => UNCHANGED vars
        /\ \A s \in Seeds : NodeStep(s) \/ StopSeedingFile(s) => UNCHANGED vars
    BY DEF ShareFile, NodeStep, AnnounceTick, AnnounceTimeout, StopSeedingFile
  <1>2. ASSUME NEW n \in Addrs, Cleanup(n) \/ Crash(n) \/ Boot(n)
        PROVE  UNCHANGED vars
    BY <1>2 DEF Cleanup, Crash, Boot, Ends
  <1>3. ASSUME NEW m \in posts, Arrives(m)
        PROVE  [Next]_vars
    <2>1. m.node \in Addrs /\ m.file \in Files
      BY Posts
    <2>2. QED
      BY <1>3, <2>1 DEF Arrives, AnnounceArrives, RemoveArrives, Next
  <1>4. ASSUME NEW m \in posts, PostFails(m)
        PROVE  UNCHANGED vars
    BY <1>4 DEF PostFails
  <1>5. TrackerRestart \/ TrackerSweep => Next
    BY DEF TrackerRestart, TrackerSweep, Next
  <1>6. Period => [Next]_vars
    BY DEF Period, Next
  <1>7. QED
    BY <1>1, <1>2, <1>3, <1>4, <1>5, <1>6 DEF SeedingNext

\* The tracker keeps its own invariant, also when its process crashes.
LEMMA TrackerKept ==
    ASSUME SeedingInv, SeedingNext
    PROVE  Inv'
  <1>1. CASE [Next]_vars
    BY <1>1, NextInv DEF SeedingInv
  <1>2. CASE TrackerCrash
    <2>1. /\ fileIndex' = EmptyMap(Files) /\ peerIndex' = EmptyMap(Files)
          /\ peerLastSeen' = EmptyMap(Addrs)
          /\ readers' = readers /\ up' = FALSE
      BY <1>2 DEF TrackerCrash
    <2>2. TypeOK'
      BY <2>1 DEF SeedingInv, Inv, TypeOK, EmptyMap
    <2>3. PeerCountsMatch' /\ ListedPeersAreTimed'
      BY <2>1 DEF PeerCountsMatch, ListedPeersAreTimed, Listed, EmptyMap
    <2>4. QED
      BY <2>2, <2>3 DEF Inv
  <1>3. QED
    BY <1>1, <1>2, TrackerStep DEF SeedingInv, SeedingTypeOK

-----------------------------------------------------------------------------
(***************************************************************************)
(* The nodes' part, action by action.                                       *)
(***************************************************************************)
NodeInv ==
    /\ SeedingTypeOK
    /\ DueIsTicking
    /\ ActiveAnnounces
    /\ AgeFollowsMissed
    /\ RemovalsAreSent

\* The age of a node's timestamp is a number, if it has one, and so is its bound.
LEMMA Ages ==
    ASSUME SeedingInv, NEW s \in Seeds
    PROVE  /\ peerLastSeen[s[1]] # NULL => peerLastSeen[s[1]] \in Nat
           /\ missed[s] \in Nat /\ missed[s] <= Rounds
           /\ elapsed[s] \in Nat /\ elapsed[s] < PeriodTicks
           /\ Rounds \in Nat /\ PeriodTicks \in Nat \ {0}
           /\ Span(missed[s]) \in Nat
  <1>1. peerLastSeen[s[1]] # NULL => peerLastSeen[s[1]] \in Nat
    BY Posts, ThresholdAssumption DEF SeedingInv, Inv, TypeOK, Stale
  <1>2. /\ missed[s] \in Nat /\ missed[s] <= Rounds
        /\ elapsed[s] \in Nat /\ elapsed[s] < PeriodTicks
        /\ Rounds \in Nat /\ PeriodTicks \in Nat \ {0}
    BY RoundsAssumption, PeriodAssumption DEF SeedingInv, SeedingTypeOK
  <1>3. QED
    BY <1>1, <1>2, Spans

\* A fault is counted.
LEMMA FaultType ==
    ASSUME SeedingInv, Fault
    PROVE  faults' \in 0 .. MaxFaults
  BY FaultsAssumption DEF SeedingInv, SeedingTypeOK, Fault

\* What the beginning of a round does, whatever comes of the lookup.
LEMMA Announcing ==
    ASSUME SeedingInv, NEW s \in Seeds, NEW lookup \in Lookups,
           NEW round \in {"first", "posting"}, announceToTracker(s, lookup, round)
    PROVE  /\ loop' \in [Seeds -> {"none", "first", "ticking", "posting", "hung"}]
           /\ \A u \in Seeds : u # s => loop'[u] = loop[u]
           /\ loop'[s] # "none"
           /\ lookup = "ok" => loop'[s] = round
           /\ lookup = "fails" => loop'[s] = "ticking"
           /\ lookup = "hangs" => loop'[s] = "hung"
           /\ try' \in [Seeds -> 0 .. MaxTries]
           /\ posts' \in SUBSET Post
           /\ RemovalsAreSent'
           /\ faults' \in 0 .. MaxFaults
  <1>1. lookup = "ok" \/ lookup = "fails" \/ lookup = "hangs"
    BY DEF Lookups
  <1>2. 0 \in 0 .. MaxTries /\ 1 \in 0 .. MaxTries
    BY TriesAssumption
  <1>3. Announcement(s, 1) \in Post /\ Announcement(s, 1).kind = "announce"
    BY <1>2, Posts
  <1>4. faults' \in 0 .. MaxFaults
    BY FaultType DEF announceToTracker, SeedingInv, SeedingTypeOK
  <1>5. try' \in [Seeds -> 0 .. MaxTries]
    BY <1>2 DEF announceToTracker, SeedingInv, SeedingTypeOK
  <1>6. posts' = posts \/ posts' = posts \cup {Announcement(s, 1)}
    BY DEF announceToTracker
  <1>7. posts' \in SUBSET Post /\ RemovalsAreSent'
    BY <1>3, <1>6 DEF SeedingInv, SeedingTypeOK, RemovalsAreSent
  <1>8. loop \in [Seeds -> {"none", "first", "ticking", "posting", "hung"}]
    BY DEF SeedingInv, SeedingTypeOK
  <1>9. \/ lookup = "ok" /\ loop' = [loop EXCEPT ![s] = round]
        \/ lookup = "fails" /\ loop' = [loop EXCEPT ![s] = "ticking"]
        \/ lookup = "hangs" /\ loop' = [loop EXCEPT ![s] = "hung"]
    BY <1>1 DEF announceToTracker
  <1>10. QED
    BY <1>4, <1>5, <1>7, <1>8, <1>9

\* A file that is newly shared counts as missed until an announcement arrives.
LEMMA ShareInv ==
    ASSUME SeedingInv, NEW s \in Seeds, NEW lookup \in Lookups, ShareFile(s, lookup)
    PROVE  NodeInv'
  <1>1. /\ activeFiles' = [activeFiles EXCEPT ![s[1]] = @ \cup {s[2]}]
        /\ announceToTracker(s, lookup, "first")
        /\ elapsed' = [elapsed EXCEPT ![s] = 0]
        /\ missed' = [missed EXCEPT ![s] = Rounds]
        /\ UNCHANGED <<running, due, peerLastSeen>>
    BY DEF ShareFile, vars
  <1>2. s[1] \in Addrs /\ s[2] \in Files /\ s = <<s[1], s[2]>>
    BY Posts
  <1>3. /\ loop' \in [Seeds -> {"none", "first", "ticking", "posting", "hung"}]
        /\ \A u \in Seeds : u # s => loop'[u] = loop[u]
        /\ loop'[s] # "none"
        /\ try' \in [Seeds -> 0 .. MaxTries] /\ posts' \in SUBSET Post
        /\ RemovalsAreSent' /\ faults' \in 0 .. MaxFaults
    BY <1>1, Announcing
  <1>4. 0 \in 0 .. PeriodTicks - 1 /\ Rounds \in 0 .. Rounds
    BY PeriodAssumption, RoundsAssumption
  <1>5. SeedingTypeOK'
    BY <1>1, <1>2, <1>3, <1>4 DEF SeedingInv, SeedingTypeOK
  <1>6. ASSUME NEW u \in Seeds, Active(u)', u # s
        PROVE  /\ Active(u) /\ loop'[u] = loop[u] /\ missed'[u] = missed[u]
               /\ elapsed'[u] = elapsed[u]
    <2>1. u[1] \in Addrs /\ u = <<u[1], u[2]>>
      BY Posts
    <2>2. Active(u)
      BY <1>1, <1>2, <1>6, <2>1 DEF Active, SeedingInv, SeedingTypeOK
    <2>3. QED
      BY <1>1, <1>3, <1>6, <2>2 DEF SeedingInv, SeedingTypeOK
  <1>7. ActiveAnnounces' /\ DueIsTicking'
    <2>1. s \notin due
      BY DEF ShareFile, SeedingInv, DueIsTicking
    <2>2. due \in SUBSET Seeds
      BY DEF SeedingInv, SeedingTypeOK
    <2>3. QED
      BY <1>1, <1>3, <1>6, <2>1, <2>2 DEF ActiveAnnounces, DueIsTicking, SeedingInv
  <1>8. ~(missed'[s] < Rounds)
    BY <1>1, RoundsAssumption DEF SeedingInv, SeedingTypeOK
  <1>9. AgeFollowsMissed'
    BY <1>1, <1>6, <1>8 DEF AgeFollowsMissed, AgeBound, SeedingInv, Late
  <1>10. QED
    BY <1>3, <1>5, <1>7, <1>9 DEF NodeInv

\* A failed round moves the time it took from the period under way to the count.
LEMMA OneMoreMissed ==
    ASSUME SeedingInv, NEW s \in Seeds, OneMore(missed[s]) < Rounds
    PROVE  /\ missed[s] < Rounds
           /\ Span(OneMore(missed[s])) = Span(missed[s]) + PeriodTicks
  <1>1. missed[s] \in Nat /\ Rounds \in Nat
    BY Ages
  <1>2. missed[s] < Rounds /\ OneMore(missed[s]) = missed[s] + 1
    BY <1>1 DEF OneMore
  <1>3. QED
    BY <1>1, <1>2, Spans

\* OneMore stays in its range.
LEMMA OneMoreType ==
    ASSUME SeedingInv, NEW s \in Seeds
    PROVE  OneMore(missed[s]) \in 0 .. Rounds
  BY Ages DEF OneMore

\* A tick starts a round, or ends the goroutine of a file that is not seeded.
LEMMA TickInv ==
    ASSUME SeedingInv, NEW s \in Seeds, NEW lookup \in Lookups, AnnounceTick(s, lookup)
    PROVE  NodeInv'
  <1>1. /\ s \in due /\ due' = due \ {s}
        /\ UNCHANGED <<running, activeFiles, peerLastSeen>>
    BY DEF AnnounceTick, vars
  <1>2. \A u \in Seeds : Active(u)' <=> Active(u)
    BY <1>1 DEF Active
  <1>3. loop[s] = "ticking"
    BY <1>1 DEF SeedingInv, DueIsTicking
  <1>4. CASE Active(s)
    <2>1. /\ announceToTracker(s, lookup, "posting")
          /\ missed' = [missed EXCEPT ![s] = IF lookup = "fails" THEN OneMore(@) ELSE @]
          /\ UNCHANGED elapsed
      BY <1>4 DEF AnnounceTick, Active
    <2>2. /\ loop' \in [Seeds -> {"none", "first", "ticking", "posting", "hung"}]
          /\ \A u \in Seeds : u # s => loop'[u] = loop[u]
          /\ loop'[s] # "none"
          /\ lookup = "ok" => loop'[s] = "posting"
          /\ lookup = "hangs" => loop'[s] = "hung"
          /\ try' \in [Seeds -> 0 .. MaxTries] /\ posts' \in SUBSET Post
          /\ RemovalsAreSent' /\ faults' \in 0 .. MaxFaults
      BY <2>1, Announcing
    <2>3. missed' \in [Seeds -> 0 .. Rounds]
      BY <2>1, OneMoreType DEF SeedingInv, SeedingTypeOK
    <2>4. SeedingTypeOK'
      BY <1>1, <2>1, <2>2, <2>3 DEF SeedingInv, SeedingTypeOK
    <2>5. ActiveAnnounces' /\ DueIsTicking'
      BY <1>1, <1>2, <2>2 DEF ActiveAnnounces, DueIsTicking, SeedingInv, SeedingTypeOK
    <2>6. \A u \in Seeds : u # s => missed'[u] = missed[u] /\ (Late(u)' <=> Late(u))
      BY <1>1, <2>1, <2>2 DEF SeedingInv, SeedingTypeOK, Late
    <2>7. ASSUME NEW u \in Seeds, Active(u)', peerLastSeen'[u[1]] # NULL,
                 missed'[u] < Rounds, loop'[u] # "hung"
          PROVE  peerLastSeen'[u[1]] <= AgeBound(u)'
      <3>1. CASE u # s
        BY <1>1, <1>2, <2>1, <2>2, <2>6, <2>7, <3>1
           DEF AgeFollowsMissed, AgeBound, SeedingInv
      <3>2. CASE u = s /\ lookup = "ok"
        <4>1. missed'[s] = missed[s] /\ Late(s) /\ Late(s)'
          BY <1>1, <2>1, <2>2, <3>2 DEF SeedingInv, SeedingTypeOK, Late
        <4>2. QED
          BY <1>1, <1>2, <2>1, <2>2, <2>7, <3>2, <4>1, <1>3
             DEF AgeFollowsMissed, AgeBound, SeedingInv
      <3>3. CASE u = s /\ lookup = "fails"
        <4>1. missed'[s] = OneMore(missed[s]) /\ Late(s)
          BY <1>1, <2>1, <3>3 DEF SeedingInv, SeedingTypeOK, Late
        <4>2. /\ missed[s] < Rounds
              /\ Span(missed'[s]) = Span(missed[s]) + PeriodTicks
          BY <2>7, <3>3, <4>1, OneMoreMissed
        <4>3. peerLastSeen[s[1]] <= Span(missed[s]) + elapsed[s] + PeriodTicks
          BY <1>1, <1>2, <2>7, <3>3, <4>1, <4>2, <1>3
             DEF AgeFollowsMissed, AgeBound, SeedingInv
        <4>4. AgeBound(s)' >= Span(missed'[s]) + elapsed[s]
          BY <2>1, <4>2, Ages DEF AgeBound
        <4>5. /\ peerLastSeen[s[1]] \in Nat /\ Span(missed[s]) \in Nat
              /\ elapsed[s] \in Nat /\ PeriodTicks \in Nat
          BY <1>1, <2>7, <3>3, Ages
        <4>6. AgeBound(s)' \in Nat
          BY <2>1, <4>2, <4>5 DEF AgeBound
        <4>7. QED
          BY <1>1, <3>3, <4>2, <4>3, <4>4, <4>5, <4>6
      <3>4. QED
        BY <2>2, <2>7, <3>1, <3>2, <3>3 DEF Lookups
    <2>8. AgeFollowsMissed'
      BY <2>7 DEF AgeFollowsMissed
    <2>9. QED
      BY <2>2, <2>4, <2>5, <2>8 DEF NodeInv
  <1>5. CASE ~Active(s)
    <2>1. /\ loop' = [loop EXCEPT ![s] = "none"]
          /\ elapsed' = [elapsed EXCEPT ![s] = 0]
          /\ UNCHANGED <<try, posts, missed, faults>>
      BY <1>5 DEF AnnounceTick, Active
    <2>2. 0 \in 0 .. PeriodTicks - 1
      BY PeriodAssumption
    <2>3. SeedingTypeOK'
      BY <1>1, <2>1, <2>2 DEF SeedingInv, SeedingTypeOK
    <2>4. RemovalsAreSent'
      BY <2>1 DEF SeedingInv, RemovalsAreSent
    <2>5. \A u \in Seeds : u # s => /\ loop'[u] = loop[u] /\ elapsed'[u] = elapsed[u]
                                    /\ Late(u)' <=> Late(u)
      BY <1>1, <2>1 DEF SeedingInv, SeedingTypeOK, Late
    <2>6. ActiveAnnounces' /\ DueIsTicking'
      BY <1>1, <1>2, <1>5, <2>5 DEF ActiveAnnounces, DueIsTicking, SeedingInv, SeedingTypeOK
    <2>7. AgeFollowsMissed'
      BY <1>1, <1>2, <1>5, <2>1, <2>5 DEF AgeFollowsMissed, AgeBound, SeedingInv
    <2>8. QED
      BY <2>3, <2>4, <2>6, <2>7 DEF NodeInv
  <1>6. QED
    BY <1>4, <1>5

\* A try that timed out is followed by the next one or ends the round.
LEMMA TimeoutInv ==
    ASSUME SeedingInv, NEW s \in Seeds, AnnounceTimeout(s)
    PROVE  NodeInv'
  <1> DEFINE late == Announcement(s, try[s]) \in posts
  <1>1. /\ loop[s] \in {"first", "posting"}
        /\ late => faults < MaxFaults
        /\ faults' = IF late THEN faults + 1 ELSE faults
        /\ UNCHANGED <<running, activeFiles, due, peerLastSeen>>
    BY DEF AnnounceTimeout, InRound, vars
  <1>2. faults' \in 0 .. MaxFaults
    <2> HIDE DEF late
    <2>1. QED
      BY <1>1, FaultsAssumption DEF SeedingInv, SeedingTypeOK
  <1>3. \A u \in Seeds : Active(u)' <=> Active(u)
    BY <1>1 DEF Active
  <1>4. CASE try[s] < MaxTries
    <2>1. /\ try'   = [try EXCEPT ![s] = @ + 1]
          /\ posts' = posts \cup {Announcement(s, try[s] + 1)}
          /\ UNCHANGED <<loop, elapsed, missed>>
      BY <1>4 DEF AnnounceTimeout
    <2>2. try[s] + 1 \in 0 .. MaxTries
      BY <1>4, TriesAssumption DEF SeedingInv, SeedingTypeOK
    <2>3. /\ Announcement(s, try[s] + 1) \in Post
          /\ Announcement(s, try[s] + 1).kind = "announce"
      BY <2>2, Posts
    <2>4. SeedingTypeOK'
      BY <1>1, <1>2, <2>1, <2>2, <2>3 DEF SeedingInv, SeedingTypeOK
    <2>5. RemovalsAreSent'
      BY <2>1, <2>3 DEF SeedingInv, RemovalsAreSent
    <2>6. ActiveAnnounces' /\ AgeFollowsMissed' /\ DueIsTicking'
      BY <1>1, <1>3, <2>1 DEF ActiveAnnounces, AgeFollowsMissed, AgeBound, DueIsTicking,
                              SeedingInv, Late
    <2>7. QED
      BY <2>4, <2>5, <2>6 DEF NodeInv
  <1>5. CASE ~(try[s] < MaxTries)
    <2>1. /\ try'     = [try EXCEPT ![s] = 0]
          /\ loop'    = [loop EXCEPT ![s] = "ticking"]
          /\ elapsed' = [elapsed EXCEPT ![s] = IF loop[s] = "first" THEN 0 ELSE @]
          /\ missed'  = [missed EXCEPT ![s] = OneMore(@)]
          /\ UNCHANGED posts
      BY <1>5 DEF AnnounceTimeout, EndRound
    <2>2. /\ \A u \in Seeds : u # s => /\ loop'[u] = loop[u] /\ elapsed'[u] = elapsed[u]
                                       /\ missed'[u] = missed[u]
          /\ loop'[s] = "ticking"
          /\ missed'[s] = OneMore(missed[s])
          /\ elapsed'[s] = IF loop[s] = "first" THEN 0 ELSE elapsed[s]
      BY <2>1 DEF SeedingInv, SeedingTypeOK
    <2>3. 0 \in 0 .. MaxTries /\ 0 \in 0 .. PeriodTicks - 1
      BY TriesAssumption, PeriodAssumption
    <2>4. missed' \in [Seeds -> 0 .. Rounds]
      BY <2>1, OneMoreType DEF SeedingInv, SeedingTypeOK
    <2>5. SeedingTypeOK'
      BY <1>1, <1>2, <2>1, <2>3, <2>4 DEF SeedingInv, SeedingTypeOK
    <2>6. RemovalsAreSent'
      BY <2>1 DEF SeedingInv, RemovalsAreSent
    <2>7. ActiveAnnounces' /\ DueIsTicking'
      BY <1>1, <1>3, <2>2 DEF ActiveAnnounces, DueIsTicking, SeedingInv, SeedingTypeOK
    <2>8. ASSUME NEW u \in Seeds, Active(u)', peerLastSeen'[u[1]] # NULL,
                 missed'[u] < Rounds, loop'[u] # "hung"
          PROVE  peerLastSeen'[u[1]] <= AgeBound(u)'
      <3>1. CASE u # s
        BY <1>1, <1>3, <2>2, <2>8, <3>1 DEF AgeFollowsMissed, AgeBound, SeedingInv, Late
      <3>2. CASE u = s
        <4>1. /\ missed[s] < Rounds
              /\ Span(missed'[s]) = Span(missed[s]) + PeriodTicks
          BY <2>2, <2>8, <3>2, OneMoreMissed
        <4>2. s \notin due
          BY <1>1 DEF SeedingInv, DueIsTicking
        <4>3. ~Late(s)' /\ (Late(s) <=> loop[s] = "posting")
          BY <1>1, <2>2, <4>2 DEF Late
        <4>4. peerLastSeen[s[1]] <= AgeBound(s)
          BY <1>1, <1>3, <2>8, <3>2, <4>1 DEF AgeFollowsMissed, SeedingInv
        <4>5. AgeBound(s)' = Span(missed'[s]) + elapsed'[s] + 0
          BY <4>3 DEF AgeBound
        <4>6. AgeBound(s) = Span(missed[s]) + elapsed[s]
                               + (IF loop[s] = "posting" THEN PeriodTicks ELSE 0)
          BY <4>3 DEF AgeBound
        <4>7. /\ peerLastSeen[s[1]] \in Nat /\ Span(missed[s]) \in Nat
              /\ elapsed[s] \in Nat /\ elapsed[s] < PeriodTicks /\ PeriodTicks \in Nat
          BY <1>1, <2>8, <3>2, Ages
        <4>8. QED
          BY <1>1, <2>2, <3>2, <4>1, <4>4, <4>5, <4>6, <4>7
      <3>3. QED
        BY <3>1, <3>2
    <2>9. AgeFollowsMissed'
      BY <2>8 DEF AgeFollowsMissed
    <2>10. QED
      BY <2>5, <2>6, <2>7, <2>9 DEF NodeInv
  <1>6. QED
    BY <1>4, <1>5

\* A node that stops seeding posts a removal; its goroutine ends at the next tick.
LEMMA StopInv ==
    ASSUME SeedingInv, NEW s \in Seeds, StopSeedingFile(s)
    PROVE  NodeInv'
  <1>1. /\ activeFiles' = [activeFiles EXCEPT ![s[1]] = @ \ {s[2]}]
        /\ posts'  = posts \cup {Removal(s)}
        /\ missed' = [missed EXCEPT ![s] = Rounds]
        /\ UNCHANGED <<running, loop, try, elapsed, due, faults, peerLastSeen>>
    BY DEF StopSeedingFile, vars
  <1>2. /\ s[1] \in Addrs /\ Removal(s) \in Post /\ Removal(s).try = 0
        /\ Rounds \in 0 .. Rounds
    BY Posts, RoundsAssumption
  <1>3. SeedingTypeOK'
    BY <1>1, <1>2 DEF SeedingInv, SeedingTypeOK
  <1>4. RemovalsAreSent' /\ DueIsTicking'
    BY <1>1, <1>2 DEF SeedingInv, RemovalsAreSent, DueIsTicking
  <1>5. ASSUME NEW u \in Seeds, Active(u)'
        PROVE  Active(u) /\ missed'[u] = missed[u]
    <2>1. u[1] \in Addrs /\ u = <<u[1], u[2]>> /\ s = <<s[1], s[2]>>
      BY Posts
    <2>2. Active(u) /\ u # s
      BY <1>1, <1>2, <1>5, <2>1 DEF Active, SeedingInv, SeedingTypeOK
    <2>3. QED
      BY <1>1, <2>2 DEF SeedingInv, SeedingTypeOK
  <1>6. ActiveAnnounces'
    BY <1>1, <1>5 DEF ActiveAnnounces, SeedingInv
  <1>7. AgeFollowsMissed'
    BY <1>1, <1>5 DEF AgeFollowsMissed, AgeBound, SeedingInv, Late
  <1>8. QED
    BY <1>3, <1>4, <1>6, <1>7 DEF NodeInv

\* The end of a process takes all it seeds and all its goroutines along.
LEMMA EndsInv ==
    ASSUME SeedingInv, NEW n \in Addrs, Ends(n), faults' \in 0 .. MaxFaults
    PROVE  NodeInv'
  <1>1. /\ running' = [running EXCEPT ![n] = FALSE]
        /\ activeFiles' = [activeFiles EXCEPT ![n] = {}]
        /\ loop' = [s \in Seeds |-> IF s[1] = n THEN "none" ELSE loop[s]]
        /\ try'  = [s \in Seeds |-> IF s[1] = n THEN 0 ELSE try[s]]
        /\ elapsed' = [s \in Seeds |-> IF s[1] = n THEN 0 ELSE elapsed[s]]
        /\ due'  = {s \in due : s[1] # n}
        /\ missed' = [s \in Seeds |-> IF s[1] = n THEN Rounds ELSE missed[s]]
        /\ UNCHANGED <<posts, peerLastSeen>>
    BY DEF Ends, vars
  <1>2. 0 \in 0 .. MaxTries /\ 0 \in 0 .. PeriodTicks - 1 /\ Rounds \in 0 .. Rounds
    BY TriesAssumption, PeriodAssumption, RoundsAssumption
  <1>3. SeedingTypeOK'
    BY <1>1, <1>2 DEF SeedingInv, SeedingTypeOK
  <1>4. RemovalsAreSent' /\ DueIsTicking'
    BY <1>1 DEF SeedingInv, SeedingTypeOK, RemovalsAreSent, DueIsTicking
  <1>5. ASSUME NEW u \in Seeds, Active(u)'
        PROVE  /\ Active(u) /\ loop'[u] = loop[u] /\ elapsed'[u] = elapsed[u]
               /\ missed'[u] = missed[u] /\ (Late(u)' <=> Late(u))
    <2>1. u[1] \in Addrs /\ u[1] # n
      BY <1>1, <1>5, Posts DEF Active, SeedingInv, SeedingTypeOK
    <2>2. QED
      BY <1>1, <1>5, <2>1 DEF Active, Late, SeedingInv, SeedingTypeOK
  <1>6. ActiveAnnounces'
    BY <1>5 DEF ActiveAnnounces, SeedingInv
  <1>7. AgeFollowsMissed'
    BY <1>1, <1>5 DEF AgeFollowsMissed, AgeBound, SeedingInv
  <1>8. QED
    BY <1>3, <1>4, <1>6, <1>7 DEF NodeInv

\* The announcement that arrives makes the node fresh.
LEMMA ArriveInv ==
    ASSUME SeedingInv, NEW m \in posts, NEW h \in Hashes, NEW reply \in BOOLEAN,
           AnnounceArrives(m, h, reply)
    PROVE  NodeInv'
  <1>1. PICK s \in Seeds : s = <<m.node, m.file>>
    BY Posts DEF SeedingInv, SeedingTypeOK
  <1>2. s[1] = m.node /\ m.node \in Addrs
    BY <1>1, Posts DEF SeedingInv, SeedingTypeOK
  <1> DEFINE over == reply /\ InRound(s) /\ try[s] = m.try
  <1>3. /\ posts'  = posts \ {m}
        /\ missed' = [missed EXCEPT ![s] = IF m.file \in activeFiles[m.node] THEN 0 ELSE @]
        /\ IF over THEN EndRound(s) ELSE UNCHANGED <<loop, try, elapsed>>
        /\ peerLastSeen' = [peerLastSeen EXCEPT ![s[1]] = 0]
        /\ UNCHANGED <<running, activeFiles, due>>
    BY <1>1, <1>2 DEF AnnounceArrives, HandleAnnounce
  <1>4. faults' \in 0 .. MaxFaults
    <2>1. CASE ~reply
      BY <2>1, FaultType DEF AnnounceArrives
    <2>2. CASE reply
      BY <2>2 DEF AnnounceArrives, SeedingInv, SeedingTypeOK
    <2>3. QED
      BY <2>1, <2>2
  <1>5. 0 \in 0 .. MaxTries /\ 0 \in 0 .. PeriodTicks - 1 /\ 0 \in 0 .. Rounds
    BY TriesAssumption, PeriodAssumption, RoundsAssumption
  <1>6. over => s \notin due
    BY DEF InRound, SeedingInv, DueIsTicking
  <1> HIDE DEF over
  <1>7. missed' \in [Seeds -> 0 .. Rounds]
    BY <1>3, <1>5 DEF SeedingInv, SeedingTypeOK
  <1>8. /\ loop' \in [Seeds -> {"none", "first", "ticking", "posting", "hung"}]
        /\ try' \in [Seeds -> 0 .. MaxTries]
        /\ elapsed' \in [Seeds -> 0 .. PeriodTicks - 1]
        /\ \A u \in Seeds : u # s => loop'[u] = loop[u] /\ elapsed'[u] = elapsed[u]
        /\ loop'[s] = loop[s] \/ loop'[s] = "ticking"
    <2>1. CASE over
      BY <1>3, <1>5, <2>1 DEF EndRound, SeedingInv, SeedingTypeOK
    <2>2. CASE ~over
      BY <1>3, <2>2 DEF SeedingInv, SeedingTypeOK
    <2>3. QED
      BY <2>1, <2>2
  <1>9. SeedingTypeOK'
    BY <1>3, <1>4, <1>7, <1>8 DEF SeedingInv, SeedingTypeOK
  <1>10. RemovalsAreSent'
    BY <1>3 DEF SeedingInv, RemovalsAreSent
  <1>11. \A u \in Seeds : Active(u)' <=> Active(u)
    BY <1>3 DEF Active
  <1>12. ActiveAnnounces' /\ DueIsTicking'
    BY <1>3, <1>8, <1>11 DEF ActiveAnnounces, DueIsTicking, SeedingInv, SeedingTypeOK
  <1>13. ASSUME NEW u \in Seeds, Active(u)', peerLastSeen'[u[1]] # NULL,
                missed'[u] < Rounds, loop'[u] # "hung"
         PROVE  peerLastSeen'[u[1]] <= AgeBound(u)'
    <2>1. u[1] \in Addrs /\ missed'[u] \in Nat /\ elapsed'[u] \in Nat
      BY <1>7, <1>8, Posts, PeriodAssumption
    <2>2. CASE u[1] = s[1]
      <3>1. peerLastSeen'[u[1]] = 0
        BY <1>3, <2>1, <2>2 DEF SeedingInv, Inv, TypeOK
      <3>2. Span(missed'[u]) \in Nat /\ PeriodTicks \in Nat
        BY <2>1, Spans, PeriodAssumption
      <3>3. AgeBound(u)' \in Nat
        BY <2>1, <3>2 DEF AgeBound
      <3>4. QED
        BY <3>1, <3>3
    <2>3. CASE u[1] # s[1]
      <3>1. peerLastSeen'[u[1]] = peerLastSeen[u[1]]
        BY <1>3, <2>1, <2>3 DEF SeedingInv, Inv, TypeOK
      <3>2. /\ u # s /\ missed'[u] = missed[u] /\ loop'[u] = loop[u]
            /\ elapsed'[u] = elapsed[u]
        BY <1>3, <1>8, <2>3 DEF SeedingInv, SeedingTypeOK
      <3>3. QED
        BY <1>3, <1>11, <1>13, <3>1, <3>2 DEF AgeFollowsMissed, AgeBound, SeedingInv, Late
    <2>4. QED
      BY <2>2, <2>3
  <1>14. AgeFollowsMissed'
    BY <1>13 DEF AgeFollowsMissed
  <1>15. QED
    BY <1>9, <1>10, <1>12, <1>14 DEF NodeInv

\* A step that leaves the nodes alone, loses posts and at most drops
\* timestamps disturbs nothing.
LEMMA QuietInv ==
    ASSUME SeedingInv, UNCHANGED nodeVars, posts' \subseteq posts,
           faults' \in 0 .. MaxFaults,
           \A p \in Addrs : peerLastSeen'[p] \in {NULL, peerLastSeen[p]}
    PROVE  NodeInv'
  <1>1. UNCHANGED <<running, activeFiles, loop, try, elapsed, due, missed>>
    BY DEF nodeVars
  <1>2. SeedingTypeOK'
    BY <1>1 DEF SeedingInv, SeedingTypeOK
  <1>3. RemovalsAreSent'
    BY DEF SeedingInv, RemovalsAreSent
  <1>4. ActiveAnnounces' /\ DueIsTicking'
    BY <1>1 DEF SeedingInv, ActiveAnnounces, DueIsTicking, Active
  <1>5. ASSUME NEW u \in Seeds, peerLastSeen'[u[1]] # NULL
        PROVE  peerLastSeen'[u[1]] = peerLastSeen[u[1]]
    BY <1>5, Posts
  <1>6. AgeFollowsMissed'
    BY <1>1, <1>5 DEF SeedingInv, AgeFollowsMissed, AgeBound, Active, Late
  <1>7. QED
    BY <1>2, <1>3, <1>4, <1>6 DEF NodeInv

\* The tick at which a ticker fires finds no round of it open, and makes one due.
LEMMA PeriodInv ==
    ASSUME SeedingInv, Period
    PROVE  NodeInv'
  <1>1. /\ \A s \in Seeds : Busy(s) => elapsed[s] + 1 < PeriodTicks
        /\ elapsed' = [s \in Seeds |-> IF loop[s] \in {"none", "hung"} THEN 0
                                       ELSE (elapsed[s] + 1) % PeriodTicks]
        /\ due' = due \cup {s \in Seeds : loop[s] = "ticking" /\ elapsed[s] + 1 = PeriodTicks}
        /\ UNCHANGED <<running, activeFiles, loop, try, missed, posts, faults>>
    BY DEF Period
  <1>2. ASSUME NEW u \in Seeds
        PROVE  /\ 0 \in 0 .. PeriodTicks - 1
               /\ (elapsed[u] + 1) % PeriodTicks \in 0 .. PeriodTicks - 1
               /\ elapsed[u] + 1 < PeriodTicks =>
                     (elapsed[u] + 1) % PeriodTicks = elapsed[u] + 1
               /\ elapsed[u] + 1 = PeriodTicks => (elapsed[u] + 1) % PeriodTicks = 0
    <2>1. elapsed[u] \in Nat /\ elapsed[u] < PeriodTicks /\ PeriodTicks \in Nat \ {0}
      BY Ages
    <2>2. QED
      BY <2>1
  <1>3. elapsed' \in [Seeds -> 0 .. PeriodTicks - 1]
    BY <1>1, <1>2
  <1>4. SeedingTypeOK'
    BY <1>1, <1>3 DEF SeedingInv, SeedingTypeOK
  <1>5. RemovalsAreSent' /\ ActiveAnnounces' /\ DueIsTicking'
    BY <1>1 DEF SeedingInv, RemovalsAreSent, ActiveAnnounces, DueIsTicking, Active
  <1>6. ASSUME NEW u \in Seeds, Active(u)', peerLastSeen'[u[1]] # NULL,
               missed'[u] < Rounds, loop'[u] # "hung"
        PROVE  peerLastSeen'[u[1]] <= AgeBound(u)'
    <2>1. Active(u) /\ missed'[u] = missed[u] /\ loop'[u] = loop[u]
      BY <1>1, <1>6 DEF Active
    <2>2. loop[u] \in {"first", "ticking", "posting"}
      BY <1>6, <2>1 DEF SeedingInv, SeedingTypeOK, ActiveAnnounces
    <2>3. elapsed'[u] = (elapsed[u] + 1) % PeriodTicks
      BY <1>1, <2>2
    <2>4. u[1] \in Addrs
      BY Posts
    <2>5. /\ peerLastSeen[u[1]] # NULL
          /\ \/ peerLastSeen'[u[1]] = peerLastSeen[u[1]]
             \/ peerLastSeen'[u[1]] = peerLastSeen[u[1]] + 1
      BY <1>6, <2>4 DEF Period, Tick, vars
    <2>6. peerLastSeen[u[1]] <= AgeBound(u)
      BY <1>6, <2>1, <2>5 DEF SeedingInv, AgeFollowsMissed
    <2>7. /\ peerLastSeen[u[1]] \in Nat /\ Span(missed[u]) \in Nat
          /\ elapsed[u] \in Nat /\ elapsed[u] < PeriodTicks /\ PeriodTicks \in Nat
      BY <2>5, Ages
    <2>8. CASE elapsed[u] + 1 < PeriodTicks
      <3>1. elapsed'[u] = elapsed[u] + 1
        BY <1>2, <2>3, <2>8
      <3>2. Late(u)' <=> Late(u)
        BY <1>1, <2>7, <2>8 DEF Late
      <3>3. AgeBound(u)' = Span(missed[u]) + (elapsed[u] + 1)
                              + (IF Late(u) THEN PeriodTicks ELSE 0)
        BY <2>1, <3>1, <3>2 DEF AgeBound
      <3>4. AgeBound(u) = Span(missed[u]) + elapsed[u]
                             + (IF Late(u) THEN PeriodTicks ELSE 0)
        BY DEF AgeBound
      <3>5. QED
        BY <2>5, <2>6, <2>7, <3>3, <3>4
    <2>9. CASE elapsed[u] + 1 = PeriodTicks
      <3>1. elapsed'[u] = 0
        BY <1>2, <2>3, <2>9
      <3>2. ~Busy(u)
        BY <1>1, <2>7, <2>9
      <3>3. ~Late(u) /\ Late(u)'
        BY <1>1, <2>2, <2>9, <3>2 DEF Late, Busy, InRound
      <3>4. AgeBound(u)' = Span(missed[u]) + 0 + PeriodTicks
        BY <2>1, <3>1, <3>3 DEF AgeBound
      <3>5. AgeBound(u) = Span(missed[u]) + elapsed[u] + 0
        BY <3>3 DEF AgeBound
      <3>6. QED
        BY <2>5, <2>6, <2>7, <2>9, <3>4, <3>5
    <2>10. QED
      BY <2>7, <2>8, <2>9
  <1>7. AgeFollowsMissed'
    BY <1>6 DEF AgeFollowsMissed
  <1>8. QED
    BY <1>4, <1>5, <1>7 DEF NodeInv

-----------------------------------------------------------------------------
(***************************************************************************)
(* The invariant is inductive.                                              *)
(***************************************************************************)

\* Every step keeps the nodes' part.
LEMMA NodesKept ==
    ASSUME SeedingInv, SeedingNext
    PROVE  NodeInv'
  <1>1. /\ \A s \in Seeds, lookup \in Lookups : ShareFile(s, lookup) => NodeInv'
        /\ \A s \in Seeds : NodeStep(s) \/ StopSeedingFile(s) => NodeInv'
    BY ShareInv, TickInv, TimeoutInv, StopInv DEF NodeStep
  <1>2. ASSUME NEW n \in Addrs, Cleanup(n) \/ Crash(n)
        PROVE  NodeInv'
    <2>1. Ends(n)
      BY <1>2 DEF Cleanup, Crash
    <2>2. faults' \in 0 .. MaxFaults
      BY <1>2, FaultType DEF Cleanup, Crash, SeedingInv, SeedingTypeOK
    <2>3. QED
      BY <2>1, <2>2, EndsInv
  <1>3. ASSUME NEW n \in Addrs, Boot(n)
        PROVE  NodeInv'
    <2>1. /\ running' = [running EXCEPT ![n] = TRUE]
          /\ UNCHANGED <<activeFiles, loop, try, elapsed, due, posts, missed, faults,
                        peerLastSeen>>
      BY <1>3 DEF Boot, vars
    <2>2. SeedingTypeOK'
      BY <2>1 DEF SeedingInv, SeedingTypeOK
    <2>3. ActiveAnnounces' /\ AgeFollowsMissed' /\ RemovalsAreSent' /\ DueIsTicking'
      BY <2>1 DEF SeedingInv, ActiveAnnounces, AgeFollowsMissed, AgeBound,
                  RemovalsAreSent, DueIsTicking, Active, Late
    <2>4. QED
      BY <2>2, <2>3 DEF NodeInv
  <1>4. ASSUME NEW m \in posts, RemoveArrives(m) \/ PostFails(m)
        PROVE  NodeInv'
    <2>1. UNCHANGED nodeVars /\ posts' \subseteq posts
      BY <1>4 DEF RemoveArrives, PostFails
    <2>2. peerLastSeen' = peerLastSeen
      BY <1>4 DEF RemoveArrives, PostFails, HandleRemove, vars
    <2>3. faults' \in 0 .. MaxFaults
      BY <1>4, FaultType DEF RemoveArrives, PostFails, SeedingInv, SeedingTypeOK
    <2>4. QED
      BY <2>1, <2>2, <2>3, QuietInv
  <1>5. ASSUME NEW m \in posts, Arrives(m)
        PROVE  NodeInv'
    BY <1>4, <1>5, ArriveInv DEF Arrives
  <1>6. CASE TrackerCrash
    <2>1. UNCHANGED nodeVars /\ posts' \subseteq posts
      BY <1>6 DEF TrackerCrash
    <2>2. \A p \in Addrs : peerLastSeen'[p] = NULL
      BY <1>6 DEF TrackerCrash, EmptyMap
    <2>3. faults' \in 0 .. MaxFaults
      BY <1>6, FaultType DEF TrackerCrash
    <2>4. QED
      BY <2>1, <2>2, <2>3, QuietInv
  <1>7. CASE TrackerRestart \/ TrackerSweep
    <2>1. UNCHANGED nodeVars /\ posts' \subseteq posts /\ faults' = faults
      BY <1>7 DEF TrackerRestart, TrackerSweep
    <2>2. \A p \in Addrs : peerLastSeen'[p] \in {NULL, peerLastSeen[p]}
      BY <1>7 DEF TrackerRestart, TrackerSweep, Restart, cleanupInactivePeers
    <2>3. faults' \in 0 .. MaxFaults
      BY <2>1 DEF SeedingInv, SeedingTypeOK
    <2>4. QED
      BY <2>1, <2>2, <2>3, QuietInv
  <1>8. CASE Period
    BY <1>8, PeriodInv
  <1>9. QED
    BY <1>1, <1>2, <1>3, <1>4, <1>5, <1>6, <1>7, <1>8 DEF SeedingNext

\* The invariant of the composition holds when nobody shares anything.
LEMMA SeedingInitInv == SeedingInit => SeedingInv
  <1> SUFFICES ASSUME SeedingInit
               PROVE  SeedingInv
    OBVIOUS
  <1>1. Inv
    BY InitInv DEF SeedingInit
  <1>2. /\ 0 \in 0 .. MaxTries /\ 0 \in 0 .. MaxFaults
        /\ 0 \in 0 .. PeriodTicks - 1 /\ Rounds \in 0 .. Rounds
    BY TriesAssumption, FaultsAssumption, PeriodAssumption, RoundsAssumption
  <1>3. SeedingTypeOK
    BY <1>2 DEF SeedingInit, SeedingTypeOK
  <1>4. RemovalsAreSent /\ DueIsTicking
    BY DEF SeedingInit, RemovalsAreSent, DueIsTicking
  <1>5. \A s \in Seeds : ~Active(s)
    BY Posts DEF SeedingInit, Active
  <1>6. QED
    BY <1>1, <1>3, <1>4, <1>5 DEF SeedingInv, ActiveAnnounces, AgeFollowsMissed

\* The invariant of the composition is inductive.
LEMMA SeedingNextInv == SeedingInv /\ [SeedingNext]_allVars => SeedingInv'
  <1> SUFFICES ASSUME SeedingInv, [SeedingNext]_allVars
               PROVE  SeedingInv'
    OBVIOUS
  <1>1. CASE SeedingNext
    BY <1>1, TrackerKept, NodesKept DEF SeedingInv, NodeInv
  <1>2. CASE UNCHANGED allVars
    <2>1. UNCHANGED vars /\ UNCHANGED nodeVars /\ UNCHANGED <<posts, faults>>
      BY <1>2 DEF allVars
    <2>2. Inv'
      BY <2>1, NextInv DEF SeedingInv
    <2>3. peerLastSeen' = peerLastSeen
      BY <2>1 DEF vars
    <2>4. faults' \in 0 .. MaxFaults
      BY <2>1 DEF SeedingInv, SeedingTypeOK
    <2>5. NodeInv'
      BY <2>1, <2>3, <2>4, QuietInv
    <2>6. QED
      BY <2>2, <2>5 DEF SeedingInv, NodeInv
  <1>3. QED
    BY <1>1, <1>2

\* The inductive invariant of the composition holds throughout.
LEMMA SeedingInvHolds == SeedingSpec => []SeedingInv
  BY SeedingInitInv, SeedingNextInv, PTL DEF SeedingSpec

\* The nodes, their announcement goroutines and the posts under way keep their
\* types, for any number of nodes, files, tries and faults.
THEOREM SeedingTypeCorrect == SeedingSpec => []SeedingTypeOK
  <1>1. SeedingInv => SeedingTypeOK
    BY DEF SeedingInv
  <1>2. QED
    BY <1>1, SeedingInvHolds, PTL

\* The tracker's counts stay right in the composition, crashes of its process
\* included.
THEOREM SeedingCountsMatch == SeedingSpec => []PeerCountsMatch
  <1>1. SeedingInv => PeerCountsMatch
    BY DEF SeedingInv, Inv
  <1>2. QED
    BY <1>1, SeedingInvHolds, PTL

-----------------------------------------------------------------------------
(***************************************************************************)
(* Active seeders stay listed.                                              *)
(***************************************************************************)

\* A seeder only leaves a list for one of the reasons given.
LEMMA LeavesForAReason ==
    ASSUME SeedingInv, [SeedingNext]_allVars, NEW s \in Seeds, Active(s),
           s[1] \in Listed(s[2]), s[1] \notin Listed(s[2])'
    PROVE  \/ ~up'
           \/ Removal(s) \in posts \ posts'
           \/ missed[s] = Rounds
           \/ missed[s] = Rounds - 1 /\ Busy(s)
           \/ loop[s] = "hung"
  <1>1. s[1] \in Addrs /\ s[2] \in Files /\ s = <<s[1], s[2]>>
    BY Posts
  <1>2. TypeOK /\ peerIndex \in [Files -> {NULL} \cup SUBSET Addrs]
    BY DEF SeedingInv, Inv, TypeOK
  <1>3. peerIndex' # peerIndex
    BY DEF Listed
  <1>4. ASSUME NEW m \in posts, NEW h \in Hashes, NEW reply \in BOOLEAN,
               AnnounceArrives(m, h, reply)
        PROVE  FALSE
    <2>1. m.node \in Addrs /\ m.file \in Files
      BY Posts DEF SeedingInv, SeedingTypeOK
    <2>2. peerIndex' = [peerIndex EXCEPT ![m.file] = Listed(m.file) \cup {m.node}]
      BY <1>4 DEF AnnounceArrives, HandleAnnounce
    <2>3. Listed(m.file) \cup {m.node} # NULL
      BY <1>2, <2>1, ListedType, AddrSets
    <2>4. Listed(s[2]) \subseteq Listed(s[2])'
      BY <1>1, <1>2, <2>2, <2>3 DEF Listed
    <2>5. QED
      BY <2>4
  <1>5. ASSUME NEW m \in posts, RemoveArrives(m)
        PROVE  Removal(s) \in posts \ posts'
    <2>1. m \in Post /\ m.kind = "remove" /\ m.try = 0 /\ posts' = posts \ {m}
      BY <1>5 DEF RemoveArrives, SeedingInv, SeedingTypeOK, RemovalsAreSent
    <2>2. m.node \in Addrs /\ m.file \in Files
      BY <2>1, Posts
    <2>3. HandleRemove(m.file, m.node)
      BY <1>3, <1>5 DEF RemoveArrives, vars
    <2>4. peerIndex' = [peerIndex EXCEPT ![m.file] =
                           KeptList(m.file, Listed(m.file) \ {m.node})]
      BY <2>3 DEF HandleRemove
    <2>5. m.file = s[2] /\ m.node = s[1]
      <3>1. m.file = s[2]
        BY <1>1, <1>2, <2>4 DEF Listed
      <3>2. ASSUME m.node # s[1]
            PROVE  FALSE
        <4>1. /\ Listed(s[2]) \ {m.node} \in SUBSET Addrs
              /\ s[1] \in Listed(s[2]) \ {m.node}
          BY <1>1, <1>2, <3>2, ListedType
        <4>2. peerIndex'[s[2]] = Listed(s[2]) \ {m.node}
          BY <1>1, <1>2, <2>4, <3>1, <4>1 DEF KeptList
        <4>3. QED
          BY <4>1, <4>2, AddrSets DEF Listed
      <3>3. QED
        BY <3>1, <3>2
    <2>6. m = Removal(s)
      BY <2>1, <2>5 DEF Post, Removal
    <2>7. QED
      BY <2>1, <2>6
  <1>6. CASE TrackerSweep
    <2>1. peerIndex' = [f \in Files |->
              IF Listed(f) \ {p \in Addrs : IsStale(p)} = {} THEN NULL
              ELSE Listed(f) \ {p \in Addrs : IsStale(p)}]
      BY <1>6 DEF TrackerSweep, cleanupInactivePeers
    <2>2. IsStale(s[1])
      <3>1. ASSUME ~IsStale(s[1])
            PROVE  FALSE
        <4>1. /\ s[1] \in Listed(s[2]) \ {p \in Addrs : IsStale(p)}
              /\ Listed(s[2]) \ {p \in Addrs : IsStale(p)} \in SUBSET Addrs
          BY <1>1, <1>2, <3>1, ListedType
        <4>2. peerIndex'[s[2]] = Listed(s[2]) \ {p \in Addrs : IsStale(p)}
          BY <1>1, <2>1, <4>1
        <4>3. QED
          BY <4>1, <4>2, AddrSets DEF Listed
      <3>2. QED
        BY <3>1
    <2>3. peerLastSeen[s[1]] # NULL /\ peerLastSeen[s[1]] = Threshold + 1
      BY <1>1, <2>2 DEF SeedingInv, Inv, ListedPeersAreTimed, IsStale, Stale
    <2>4. ASSUME missed[s] < Rounds, loop[s] # "hung"
          PROVE  missed[s] = Rounds - 1 /\ Busy(s)
      <3>1. Threshold + 1 <= AgeBound(s)
        BY <2>3, <2>4 DEF SeedingInv, AgeFollowsMissed
      <3>2. /\ missed[s] \in Nat /\ Rounds \in Nat /\ PeriodTicks \in Nat
            /\ elapsed[s] \in Nat /\ elapsed[s] < PeriodTicks
            /\ Span(missed[s]) \in Nat /\ Threshold \in Nat
        BY Ages, ThresholdAssumption
      <3>3. missed[s] = Rounds - 1
        <4>1. ASSUME missed[s] + 2 <= Rounds
              PROVE  FALSE
          <5>1. Span(missed[s] + 2) <= Threshold
            <6>1. \A m, k \in Nat : m <= k => Span(m) <= Span(k)
              BY Spans
            <6>2. missed[s] + 2 \in Nat
              BY <3>2
            <6>3. Span(missed[s] + 2) <= Span(Rounds)
              BY <3>2, <4>1, <6>1, <6>2
            <6>4. QED
              BY <6>3, Spans
          <5>2. Span(missed[s] + 2) = Span(missed[s]) + PeriodTicks + PeriodTicks
            <6>1. missed[s] + 1 \in Nat /\ missed[s] + 2 = (missed[s] + 1) + 1
              BY <3>2
            <6>2. QED
              BY <3>2, <6>1, Spans
          <5>3. AgeBound(s) <= Span(missed[s]) + elapsed[s] + PeriodTicks
            BY <3>2 DEF AgeBound
          <5>4. AgeBound(s) \in Nat
            BY <3>2 DEF AgeBound
          <5>5. QED
            BY <3>1, <3>2, <5>1, <5>2, <5>3, <5>4
        <4>2. QED
          BY <2>4, <3>2, <4>1
      <3>4. Late(s)
        <4>1. ASSUME ~Late(s)
              PROVE  FALSE
          <5>1. AgeBound(s) = Span(missed[s]) + elapsed[s] + 0
            BY <4>1 DEF AgeBound
          <5>2. Span(missed[s]) + PeriodTicks = Threshold
            <6>1. Rounds = missed[s] + 1
              BY <3>2, <3>3
            <6>2. QED
              BY <3>2, <6>1, Spans
          <5>3. QED
            BY <3>1, <3>2, <5>1, <5>2
        <4>2. QED
          BY <4>1
      <3>5. QED
        BY <3>3, <3>4 DEF Late, Busy, InRound
    <2>5. missed[s] < Rounds \/ missed[s] = Rounds
      BY Ages
    <2>6. QED
      BY <2>4, <2>5
  <1>7. CASE TrackerCrash
    BY <1>7 DEF TrackerCrash
  <1>8. \/ \E m \in posts, h \in Hashes, reply \in BOOLEAN : AnnounceArrives(m, h, reply)
        \/ \E m \in posts : RemoveArrives(m)
        \/ TrackerSweep
        \/ TrackerCrash
    <2>1. /\ \A u \in Seeds, lookup \in Lookups : ~ShareFile(u, lookup)
          /\ \A u \in Seeds : ~NodeStep(u) /\ ~StopSeedingFile(u)
      BY <1>3 DEF ShareFile, NodeStep, AnnounceTick, AnnounceTimeout,
                        StopSeedingFile, vars
    <2>2. ASSUME NEW n \in Addrs, Cleanup(n) \/ Crash(n) \/ Boot(n)
          PROVE  FALSE
      BY <1>3, <2>2 DEF Cleanup, Crash, Boot, Ends, vars
    <2>3. ASSUME NEW m \in posts, PostFails(m)
          PROVE  FALSE
      BY <1>3, <2>3 DEF PostFails, vars
    <2>4. ~TrackerRestart /\ ~Period /\ ~UNCHANGED allVars
      BY <1>3 DEF TrackerRestart, Restart, Period, Tick, allVars, vars
    <2>5. QED
      BY <2>1, <2>2, <2>3, <2>4 DEF SeedingNext, Arrives
  <1>9. QED
    BY <1>4, <1>5, <1>6, <1>7, <1>8

\* A node that keeps seeding a file stays listed for it: whatever posts are
\* lost, late or reordered, it leaves the list only through a removal of its
\* own, with the tracker's process, when the tracker has missed it for Rounds
\* rounds in a row, the last of which may be under way, or while it hangs in the
\* lookup of its own address.
THEOREM ActiveSeedersStay == SeedingSpec => ActiveSeederKept
  <1>1. ASSUME SeedingInv, [SeedingNext]_allVars
        PROVE  [\A s \in Seeds :
                   /\ s[2] \in activeFiles[s[1]]
                   /\ s[1] \in Listed(s[2])
                   /\ s[1] \notin Listed(s[2])'
                   => \/ ~up'
                      \/ Removal(s) \in posts \ posts'
                      \/ missed[s] = Rounds
                      \/ missed[s] = Rounds - 1 /\ Busy(s)
                      \/ loop[s] = "hung"]_allVars
    BY <1>1, LeavesForAReason DEF Active
  <1>2. QED
    BY <1>1, SeedingInvHolds, PTL DEF SeedingSpec, ActiveSeederKept
=============================================================================
