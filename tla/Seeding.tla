------------------------------ MODULE Seeding ------------------------------
(***************************************************************************)
(* Seeders and the tracker: ShareFile with its announcement goroutine,      *)
(* StopSeedingFile, Cleanup and crashes (server.go), composed with the      *)
(* handlers of Tracker through HTTP posts.  A post is applied, late, lost,  *)
(* or refused by a tracker that is down; posts of different goroutines      *)
(* overtake each other.  Posts of one goroutine that differ only in their   *)
(* round are one post: what the tracker does with them is the same.         *)
(*                                                                          *)
(* PeriodTicks ticks are the 30 s of an announcement ticker, and Threshold  *)
(* is Rounds such periods: 4 in the code, 120 s.  Each goroutine has a      *)
(* ticker of its own, which starts when the first announcement is over.     *)
(***************************************************************************)
EXTENDS Tracker

CONSTANTS
    PeriodTicks,  \* ticks of the announcement period
    Rounds,       \* periods in the tracker's threshold
    MaxTries,     \* tries of one round of announceToTracker
    MaxShares,    \* bound: announcement goroutines of a process; main starts one
    MaxFaults     \* bound: faults in a behaviour

ASSUME PeriodAssumption == PeriodTicks \in Nat \ {0}
ASSUME RoundsAssumption == Rounds \in Nat \ {0} /\ Threshold = Rounds * PeriodTicks
ASSUME TriesAssumption  == MaxTries \in Nat \ {0}
ASSUME SharesAssumption == MaxShares \in Nat
ASSUME FaultsAssumption == MaxFaults \in Nat

VARIABLES
    running,      \* node -> its process runs
    activeFiles,  \* node -> files it seeds
    loop,         \* <<node, file>> -> its announcement goroutine
    try,          \* <<node, file>> -> try of the round under way, or 0
    elapsed,      \* <<node, file>> -> ticks since its ticker last fired
    due,          \* goroutines whose ticker has fired
    posts,        \* HTTP posts under way
    missed,       \* <<node, file>> -> rounds failed since the tracker last
                  \* applied an announcement, saturated; history, kept only
                  \* while the node seeds the file
    faults        \* faults so far

nodeVars == <<running, activeFiles, loop, try, elapsed, due, missed>>
allVars  == <<vars, nodeVars, posts, faults>>

Seeds == Addrs \X Files

Post == [kind : {"announce", "remove"}, node : Addrs, file : Files, try : 0 .. MaxTries]

Announcement(s, k) == [kind |-> "announce", node |-> s[1], file |-> s[2], try |-> k]
Removal(s)         == [kind |-> "remove", node |-> s[1], file |-> s[2], try |-> 0]

(***************************************************************************)
(* A goroutine is in the first announcement, which ShareFile makes itself,  *)
(* waits for its ticker, is in a later round, or hangs in GetPublicIP.      *)
(***************************************************************************)
SeedingTypeOK ==
    /\ running     \in [Addrs -> BOOLEAN]
    /\ activeFiles \in [Addrs -> SUBSET Files]
    /\ loop        \in [Seeds -> {"none", "first", "ticking", "posting", "hung"}]
    /\ try         \in [Seeds -> 0 .. MaxTries]
    /\ elapsed     \in [Seeds -> 0 .. PeriodTicks - 1]
    /\ due         \in SUBSET Seeds
    /\ posts       \in SUBSET Post
    /\ missed      \in [Seeds -> 0 .. Rounds]
    /\ faults      \in 0 .. MaxFaults

SeedingInit ==
    /\ Init
    /\ running     = [n \in Addrs |-> TRUE]
    /\ activeFiles = [n \in Addrs |-> {}]
    /\ loop        = [s \in Seeds |-> "none"]
    /\ try         = [s \in Seeds |-> 0]
    /\ elapsed     = [s \in Seeds |-> 0]
    /\ due         = {}
    /\ posts       = {}
    /\ missed      = [s \in Seeds |-> Rounds]
    /\ faults      = 0

Fault == faults < MaxFaults /\ faults' = faults + 1

-----------------------------------------------------------------------------
(***************************************************************************)
(* A node.                                                                  *)
(***************************************************************************)

\* A round under way.
InRound(s) == loop[s] \in {"first", "posting"}

\* A round is due or under way.
Busy(s) == s \in due \/ InRound(s)

\* What a failed round adds to `missed'.
OneMore(m) == IF m < Rounds THEN m + 1 ELSE m

\* The outcomes of getPeerAddress, whose http.Get has no timeout.
Lookups == {"ok", "fails", "hangs"}

\* announceToTracker: look up the own address, then post the first try.  The
\* round `round' ends at once if the lookup fails.
announceToTracker(s, lookup, round) ==
    /\ IF lookup = "ok" THEN UNCHANGED faults ELSE Fault
    /\ loop' = [loop EXCEPT ![s] = CASE lookup = "ok"    -> round
                                     [] lookup = "fails" -> "ticking"
                                     [] lookup = "hangs" -> "hung"]
    /\ try'   = [try EXCEPT ![s] = IF lookup = "ok" THEN 1 ELSE 0]
    /\ posts' = IF lookup = "ok" THEN posts \cup {Announcement(s, 1)} ELSE posts

\* Seed the file, announce it, start the goroutine and its ticker.  Bounds: the
\* goroutine of an earlier ShareFile of the same file has ended, and MaxShares.
ShareFile(s, lookup) ==
    /\ running[s[1]]
    /\ s[2] \notin activeFiles[s[1]]
    /\ loop[s] = "none"
    /\ Cardinality({f \in Files : loop[<<s[1], f>>] # "none"}) < MaxShares
    /\ activeFiles' = [activeFiles EXCEPT ![s[1]] = @ \cup {s[2]}]
    /\ announceToTracker(s, lookup, "first")
    /\ elapsed' = [elapsed EXCEPT ![s] = 0]
    /\ missed'  = [missed EXCEPT ![s] = Rounds]
    /\ UNCHANGED <<vars, running, due>>

\* Mutation: the goroutine ends at its first tick, active or not.
AnnounceOnce(s, lookup) ==
    /\ s \in due
    /\ due'  = due \ {s}
    /\ loop' = [loop EXCEPT ![s] = "none"]
    /\ UNCHANGED <<vars, running, activeFiles, try, elapsed, posts, missed, faults>>

\* Mutation: the goroutine does not look at activeFiles.
AnnounceForever(s, lookup) ==
    /\ s \in due
    /\ due' = due \ {s}
    /\ announceToTracker(s, "ok", "posting")
    /\ UNCHANGED <<vars, running, activeFiles, elapsed, missed>>

\* The goroutine's ticker: announce again, or end if the file was stopped.
\* The file may be stopped between this look and the arrival of the post.
AnnounceTick(s, lookup) ==
    /\ s \in due
    /\ due' = due \ {s}
    /\ \/ /\ s[2] \in activeFiles[s[1]]
          /\ announceToTracker(s, lookup, "posting")
          /\ missed' = [missed EXCEPT ![s] = IF lookup = "fails" THEN OneMore(@) ELSE @]
          /\ UNCHANGED elapsed
       \/ /\ s[2] \notin activeFiles[s[1]]
          /\ loop'    = [loop EXCEPT ![s] = "none"]
          /\ elapsed' = [elapsed EXCEPT ![s] = 0]
          /\ UNCHANGED <<try, posts, missed, faults>>
    /\ UNCHANGED <<vars, running, activeFiles>>

\* The round of s is over; after the first one the ticker starts.
EndRound(s) ==
    /\ try'     = [try EXCEPT ![s] = 0]
    /\ loop'    = [loop EXCEPT ![s] = "ticking"]
    /\ elapsed' = [elapsed EXCEPT ![s] = IF loop[s] = "first" THEN 0 ELSE @]

\* Mutation: one try too many.
ExtraTry(s) ==
    LET late == Announcement(s, try[s]) \in posts
    IN  /\ InRound(s)
        /\ late => faults < MaxFaults
        /\ faults' = IF late THEN faults + 1 ELSE faults
        /\ IF try[s] <= MaxTries
           THEN /\ try'   = [try EXCEPT ![s] = @ + 1]
                /\ posts' = posts \cup {Announcement(s, try[s] + 1)}
                /\ UNCHANGED <<loop, elapsed, missed>>
           ELSE /\ EndRound(s)
                /\ missed' = [missed EXCEPT ![s] = OneMore(@)]
                /\ UNCHANGED posts
        /\ UNCHANGED <<vars, running, activeFiles, due>>

\* The client gives up on a try: its post or the reply is lost, or it is only
\* late and may still arrive, which is a fault.
AnnounceTimeout(s) ==
    LET late == Announcement(s, try[s]) \in posts
    IN  /\ InRound(s)
        /\ late => faults < MaxFaults
        /\ faults' = IF late THEN faults + 1 ELSE faults
        /\ IF try[s] < MaxTries
           THEN /\ try'   = [try EXCEPT ![s] = @ + 1]
                /\ posts' = posts \cup {Announcement(s, try[s] + 1)}
                /\ UNCHANGED <<loop, elapsed, missed>>
           ELSE /\ EndRound(s)
                /\ missed' = [missed EXCEPT ![s] = OneMore(@)]
                /\ UNCHANGED posts
        /\ UNCHANGED <<vars, running, activeFiles, due>>

\* Stop seeding, whether the file is seeded or not, then post the removal;
\* main's -stop-seeding does so in a process that never shared the file.
\* Nothing repeats the post if it is lost or, with no own address, not made.
StopSeedingFile(s) ==
    /\ running[s[1]]
    /\ activeFiles' = [activeFiles EXCEPT ![s[1]] = @ \ {s[2]}]
    /\ posts'  = posts \cup {Removal(s)}
    /\ missed' = [missed EXCEPT ![s] = Rounds]
    /\ UNCHANGED <<vars, running, loop, try, elapsed, due, faults>>

\* The process of node n ends, with all its goroutines.
Ends(n) ==
    /\ running' = [running EXCEPT ![n] = FALSE]
    /\ activeFiles' = [activeFiles EXCEPT ![n] = {}]
    /\ loop' = [s \in Seeds |-> IF s[1] = n THEN "none" ELSE loop[s]]
    /\ try'  = [s \in Seeds |-> IF s[1] = n THEN 0 ELSE try[s]]
    /\ elapsed' = [s \in Seeds |-> IF s[1] = n THEN 0 ELSE elapsed[s]]
    /\ due'  = {s \in due : s[1] # n}
    /\ missed' = [s \in Seeds |-> IF s[1] = n THEN Rounds ELSE missed[s]]
    /\ UNCHANGED <<vars, posts>>

\* The end of Cleanup, after StopSeedingFile of every active file, each of
\* which waited for its post.
Cleanup(n) ==
    /\ running[n]
    /\ activeFiles[n] = {}
    /\ \A m \in posts : m.node = n => m.kind # "remove"
    /\ Ends(n)
    /\ UNCHANGED faults

Crash(n) ==
    /\ Fault
    /\ running[n]
    /\ Ends(n)

Boot(n) ==
    /\ ~running[n]
    /\ running' = [running EXCEPT ![n] = TRUE]
    /\ UNCHANGED <<vars, activeFiles, loop, try, elapsed, due, posts, missed, faults>>

-----------------------------------------------------------------------------
(***************************************************************************)
(* Posts.                                                                   *)
(***************************************************************************)

\* The tracker applies an announcement.  If the reply arrives and the client
\* still waits for this try, the round is over.
AnnounceArrives(m, h, reply) ==
    LET s == <<m.node, m.file>>
        over == reply /\ InRound(s) /\ try[s] = m.try
    IN  /\ m.kind = "announce"
        /\ ~reply => Fault
        /\ reply => UNCHANGED faults
        /\ HandleAnnounce(m.file, m.node, h)
        /\ posts'  = posts \ {m}
        /\ missed' = [missed EXCEPT ![s] = IF m.file \in activeFiles[m.node] THEN 0 ELSE @]
        /\ IF over THEN EndRound(s) ELSE UNCHANGED <<loop, try, elapsed>>
        /\ UNCHANGED <<running, activeFiles, due>>

\* The tracker applies a removal; it ignores one for an unknown file.
RemoveArrives(m) ==
    /\ m.kind = "remove"
    /\ up
    /\ \/ HandleRemove(m.file, m.node)
       \/ peerIndex[m.file] = NULL /\ UNCHANGED vars
    /\ posts' = posts \ {m}
    /\ UNCHANGED <<nodeVars, faults>>

\* A post is lost on its way, or refused because the tracker is down.
PostFails(m) ==
    /\ IF up THEN Fault ELSE UNCHANGED faults
    /\ posts' = posts \ {m}
    /\ UNCHANGED <<vars, nodeVars>>

-----------------------------------------------------------------------------
(***************************************************************************)
(* The tracker's process and time.                                          *)
(***************************************************************************)
TrackerCrash ==
    /\ Fault
    /\ up
    /\ up' = FALSE
    /\ fileIndex'    = EmptyMap(Files)
    /\ peerIndex'    = EmptyMap(Files)
    /\ peerLastSeen' = EmptyMap(Addrs)
    /\ UNCHANGED <<readers, nodeVars, posts>>

TrackerRestart == Restart /\ UNCHANGED <<nodeVars, posts, faults>>

\* A sweep comes at any moment: the cleanup loop every 15 s, and another with
\* each /peers request.
TrackerSweep == cleanupInactivePeers /\ UNCHANGED <<nodeVars, posts, faults>>

\* A tick passes.  A round makes at most 3 tries of 5 s and pauses 3 s: it is
\* over before the ticker fires again.  The tracker's clock does not matter
\* while it is down.
Period ==
    /\ \A s \in Seeds : Busy(s) => elapsed[s] + 1 < PeriodTicks
    /\ Tick \/ (~up /\ UNCHANGED vars)
    /\ elapsed' = [s \in Seeds |-> IF loop[s] \in {"none", "hung"} THEN 0
                                   ELSE (elapsed[s] + 1) % PeriodTicks]
    /\ due' = due \cup {s \in Seeds : loop[s] = "ticking" /\ elapsed[s] + 1 = PeriodTicks}
    /\ UNCHANGED <<running, activeFiles, loop, try, missed, posts, faults>>

-----------------------------------------------------------------------------
NodeStep(s) == (\E lookup \in Lookups : AnnounceTick(s, lookup)) \/ AnnounceTimeout(s)

Arrives(m) ==
    \/ \E h \in Hashes, reply \in BOOLEAN : AnnounceArrives(m, h, reply)
    \/ RemoveArrives(m)

SeedingNext ==
    \/ \E s \in Seeds, lookup \in Lookups : ShareFile(s, lookup)
    \/ \E s \in Seeds : NodeStep(s) \/ StopSeedingFile(s)
    \/ \E n \in Addrs : Cleanup(n) \/ Crash(n) \/ Boot(n)
    \/ \E m \in posts : Arrives(m) \/ PostFails(m)
    \/ TrackerCrash
    \/ TrackerRestart
    \/ TrackerSweep
    \/ Period

SeedingSpec == SeedingInit /\ [][SeedingNext]_allVars

(***************************************************************************)
(* Goroutines are scheduled, a post under way ends, time passes, and the    *)
(* cleanup loop runs.  The end of a period waits for the rounds, and nodes  *)
(* may come and go meanwhile: hence strong fairness of Period.  Nobody has  *)
(* to share, stop or restart.                                               *)
(***************************************************************************)
SeedingFairness ==
    /\ \A s \in Seeds : WF_allVars(NodeStep(s))
    /\ \A m \in Post : WF_allVars(m \in posts /\ (Arrives(m) \/ PostFails(m)))
    /\ WF_allVars(TrackerSweep)
    /\ SF_allVars(Period)

SeedingFairSpec == SeedingSpec /\ SeedingFairness

-----------------------------------------------------------------------------
(***************************************************************************)
(* Properties.                                                              *)
(***************************************************************************)

\* A seeder that keeps announcing is not dropped: while it seeds a file it is
\* listed for, it only leaves the list through a removal of its own, with the
\* tracker's process, or when the tracker has missed it for Rounds rounds in a
\* row, the last of which may still be under way, or hangs for good.  With the
\* code's numbers three failed rounds are enough if the fourth is late.
ActiveSeederKept ==
    [][\A s \in Seeds :
          /\ s[2] \in activeFiles[s[1]]
          /\ s[1] \in Listed(s[2])
          /\ s[1] \notin Listed(s[2])'
          => \/ ~up'
             \/ Removal(s) \in posts \ posts'
             \/ missed[s] = Rounds
             \/ missed[s] = Rounds - 1 /\ Busy(s)
             \/ loop[s] = "hung"]_allVars

\* A file that a node seeds comes to be listed, also after lost posts, crashes
\* of the node and a restart of the tracker, which starts with empty maps.  Only
\* a lookup of the node's own address that never ends keeps it from that.
SeededFileGetsListed ==
    \A s \in Seeds :
        s[2] \in activeFiles[s[1]] ~>
            \/ s[1] \in Listed(s[2])
            \/ s[2] \notin activeFiles[s[1]]
            \/ loop[s] = "hung"
            \/ ~up

\* The listings of a node that seeds nothing go away, however they came to stay:
\* a crash, a lost removal, or an announcement that arrived after the removal.
\* The timestamp is the node's: while it seeds another file they stay.
GhostListingExpires ==
    \A s \in Seeds :
        s[1] \in Listed(s[2]) /\ activeFiles[s[1]] = {} ~>
            s[1] \notin Listed(s[2]) \/ activeFiles[s[1]] # {}
=============================================================================
