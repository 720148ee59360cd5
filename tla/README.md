# Verification of file-share-p2p

TLA+ models, TLC runs and TLAPS proofs for the peer-to-peer file sharing program
in this repository: a tracker that knows who shares which file, nodes that seed
files and announce them, and nodes that download files in 16 MB pieces.

## The system

| Part | State | Operations | Interacts with |
|---|---|---|---|
| Tracker (`p2p/tracker.go`) | `fileIndex`, `peerIndex`, `peerLastSeen`, lock `t.mu` | `/announce`, `/heartbeat`, `/remove`, `/peers`, `/metadata`, `/files`, cleanup loop | nodes, over HTTP |
| Seeding (`server.go`) | `activeFiles`, one announcement goroutine per file | `ShareFile`, ticker, `StopSeedingFile`, `Cleanup` | tracker |
| Download (`server.go`) | local piece table, `activeDownloads`, semaphore, output file | `DownloadFile`, `downloadChunk` workers, refresh goroutine | tracker, connections, RPC loop |
| Piece table (`piece_manager.go`) | status and holders of each piece, lock `pm.mu` | `UpdatePeerPieces`, `GetNextPieces`, `MarkPieceStatus`, `IsComplete` | download |
| RPC loop (`server.go`) | `peers`, `responseHandlers`, lock `s.mu` | `consumeRPCMessages`, `handleRPCMessage`, `onPeer` | transport, download, serving |
| Serving (`store.go`) | reads `activeFiles`, `responseHandlers` | `handleChunkRequest`, `ReadChunk` | RPC loop, connection |
| Framing (`p2p/`) | RPC channel of 1024 | `Send`, `handleConn`, `DefaultDecoder` | RPC loop, serving, download |
| Dialling (`server.go`, `p2p/`) | `peers`, `connectedCh`, timers | `connectToAllPeers`, `bootstrapNetwork`, `Dial`, accept loop, `onPeer`, hole punching | tracker, download |
| File contents (`store.go`, `piece_verification.go`, `server.go`) | the user's file, hashes, output file | `generateFileID`, `generateFileHashes`, `ReadChunk`, `writeAndVerifyChunk` | seeding, serving, download |
| Unused | | `crypto.go`, UPnP, `ChunkAndStore`, `handleMessage`, `verifyChunk`, `verifyDownloadedFile` | |

What is hard in it:

* the tracker answers `/peers` from a live map after it has released its lock;
* a listing outlives its seeder through crashes, lost removals and announcements
  that arrive late; it ends through a timestamp that belongs to the peer, not to
  the file; the tracker itself persists nothing;
* pieces are handed out again while they are still being downloaded, answers
  arrive after their timeout, and workers share the peer set, the piece table and
  the table of active downloads with the main loop, the refresher and the RPC loop;
* one RPC goroutine per node does all the serving, over connections on which the
  node's own workers also write, and blocks in those writes;
* connections break without anyone being told, and requests to the tracker and to
  the web service for the own address have no timeout;
* calls that dial overlap, each with a goroutine and a timer per address that
  outlive the call's decision, and all share one channel for punched holes;
* the seeder serves the user's own file, which may be edited between any two reads.

`PROJECT.json` lists each hazard with its line and the properties about it.

## Modules

**`Tracker`** has one action per handler, since handlers run under `t.mu`. The
exception is `HandleGetPeers`: its locked part takes a reference to the peer map
and its unlocked part (`ReplyPeers`) iterates over it. A reader records what the
iteration may yield and whether a writer touched the map meanwhile; if so the Go
runtime may end the process (`ConcurrentMapFault`). Times are ages in ticks,
saturated one above the threshold, because the code only compares an age with
the threshold. A `FileInfo` keeps its hash and its count. `HandleGetMetadata` and
`HandleListFiles` change nothing and are not actions.

**`Directory`** is what the tracker promises: who is listed for which file, each
file's description, who has been silent for too long. `Tracker!ImplementsDirectory`
maps `peerIndex` to the lists (a missing list is an empty one), `fileIndex` to the
descriptions and the ages to the set of stale peers; counts, readers and the
timestamps themselves are hidden.

**`Listing`** extends `Tracker` with the answer of `/files`: the set of orders the
unstable sort may leave, and the page cut out of each.

**`PieceManager`** is the piece table as operators on two variables, and
**`Download`** extends it with one download. Its processes are the main loop
(`pc`), the workers (one per slot of the semaphore, each with a program counter
inside `downloadChunk`), the refresh goroutine and the RPC loop. A step is what
happens between two acquisitions of a lock or two channel operations. `peers` is
`s.peers`; `alive` says which of these connections really work, which the code
does not know. `written` says whether nothing, some bytes or all of a piece were written
at its offset: a write may fail half-way (`WriteSome`, `WriteFails`), and what it wrote
keeps the output from being removed (`Return`). When the loop has no peers left it returns
without waiting, and its workers go on until `main` exits (`Exit`): a write that began
before the file was closed may still end, a new one fails. The seeders and the tracker are
environment: answers are under way (`inflight`), get lost, or come late, and writes fail,
as often as they like until the environment is `calm`; it need never be. A peer is one
address that can be dialled; inbound connections, which `s.peers` holds under ephemeral
ports, are not in this module. `connectToAllPeers` is one step here, and many in
`Transport`; what an overlapping call does to its verdict is left open here (`ok`).

**`Transfer`** is what a download promises: pieces are added in any order, then one
verdict, success only with every piece and with the file kept. After success and
"incomplete" the file does not change; after "no peers" only writes under way end. A file
without a piece may be removed, but not after success, as the comment at `server.go:749`
says ("If download failed, remove the empty file"). The code removes the output of a
successful download of an empty file too, so `Download` implements `Transfer` for files
that are not empty. `Download!ImplementsTransfer` maps the completely written pieces and
the result to it; workers, peers, piece table and answers are hidden.

**`Seeding`** extends `Tracker` with the nodes: `ShareFile`, the announcement
goroutine with the tries of `announceToTracker`, `StopSeedingFile`, `Cleanup`,
crashes, and HTTP posts that are applied late, lost or refused, or whose reply is
lost. `PeriodTicks` ticks are the 30 s of the announcement ticker; the tracker's threshold
of 120 s is `Rounds` such periods, its ages count ticks, and a sweep may come at any
moment. Each goroutine has its own ticker (`elapsed`), which starts when the first
announcement is over. A round begins with the lookup of the own address (`Lookups`): it
answers, fails, or hangs, because `GetPublicIP` has no timeout; a goroutine that hangs
there announces no more.

**`Serving`** is two nodes and the connection between them. A request is one write
(`peer.Send`); an answer is a write of its length and one per megabyte of its body.
The reader (`handleConn` with `DefaultDecoder`) turns writes back into messages and
loses its place when another frame's bytes arrive inside an answer. The RPC loop
goes through `handleChunkRequest` lock by lock while `Cleanup` may remove the file.
At the start a node may or may not share the file it is asked for.

**`Transport`** is how one node gets its connections. `call` is a call of
`connectToAllPeers`, which waits for the tracker (`asking`) until `ReceivePeerList`,
perhaps for ever, since `http.Get` has no timeout; `dial` the goroutine that it starts for an address and that
waits in the `select` of `Dial`, `attempt` the goroutine that punches and dials, and
`conn` the start of `handleConn`, which enters `peers`. A `Dial` that can set up no UDP
listener returns at once (`StartDials`). Timers are ages in ticks. A
tick passes only when no timer is due and no goroutine that can go on is waiting: the
model takes a goroutine to be scheduled within the 0.1 s that the shortest of these
timers has. Hole punching is modelled by what the receiver does with a message: it
splits `PUNCH:` or `ACK:` and the sender's `ListenAddr` at every colon and wants two
fields. `ListenAddr` always has a colon, so no message is accepted and `connectedCh`
stays empty; `DialSuccessIsConnection` holds because of that.

**`Store`** is the bytes of one file. A byte is the edit that wrote it and the place it
was written at; a hash is the content it was taken of. `ShareFile` reads the file for
its ID, its size, its total hash and each chunk hash, the user edits it between any
two reads, `ReadChunk` takes the size and then the bytes, and `writeAndVerifyChunk`
writes at an offset, or fails after some of the bytes. `OutputKept` is what the deferred
function of `DownloadFile` leaves: an output of length 0 is removed. Edits are in place.

**`MCTracker`, `MCDownload`, `MCSeeding`, `MCServing`, `MCTransport`, `MCStore`** are
the modules TLC runs.
**`TrackerProofs`, `DirectoryProofs`, `ListingProofs`, `DownloadProofs`,
`SeedingProofs`, `ServingProofs`, `TransportProofs`, `StoreProofs`** hold the theorems.

Definitions whose comment begins with "Mutation:" are slips a programmer might
make in the definition that follows; none is part of a specification. Each is
there because some property is violated when it takes that definition's place.

## Runs

Passing runs:

| Run | Configuration | Shows |
|---|---|---|
| `tracker` | `MCTracker.cfg` | counts, lists and timestamps agree; clients are shown fresh peers only; a silent peer is unlisted; pages of `/files` cover the files; `Tracker` implements `Directory` |
| `download` | `MCDownload.cfg` | success means every piece written; no stranded piece; a piece is given up only if no holder is known; `Download` implements `Transfer` |
| `download_live` | `MCDownloadLive.cfg` | without faults the download succeeds; while connections stand it ends if the faults do |
| `seeding` | `MCSeeding.cfg` | a seeder that keeps announcing stays listed; seeded files get listed after any fault but a hung lookup; listings of a node that seeds nothing expire |
| `serving` | `MCServing.cfg` | frames stay intact when each direction has one writer; no request is answered twice, half-written answers and broken connections included; a request ends a process only while it shuts down |
| `serving_mutual` | `MCServingMutual.cfg` | two nodes serving each other do not block for ever |
| `transport` | `MCTransport.cfg` | a dial that succeeds has a connection of its own; a call that fails leaves no goroutine and no entry behind; every call returns if the tracker answers |
| `store` | `MCStore.cfg` | an unedited file arrives as it was announced, unless it is empty; edits never move a byte; a complete download has gaps only if the file became shorter |

Runs in which TLC finds the code to differ from what a comment or message in the
repository says; `PROJECT.json` quotes the line for each:

| Run | What happens |
|---|---|
| `tracker_race` | an announcement during the unlocked iteration ends the tracker instead of the request |
| `download_duplicate` | a duplicate worker fails late and turns a finished download into "incomplete" |
| `download_dead` | a dead connection is never removed, so losing all peers is never reported |
| `serving_interleave` | a request that a worker sends inside an answer is read as part of it |

More behaviours are in the models and have no run of their own, because one guard or
assignment decides them: a node that has sent five requests refuses to serve for good
(`CheckFlow`), a request handled during shutdown may panic before the removal is
posted (`Panic`), the output of a successful download of an empty file is removed
(`Return`, and stated by `HonestTransferVerifies`), nothing compares data with the announced hashes (`writeAndVerifyChunk` in
`Store`; hence the hypothesis of `HonestTransferVerifies`), a bootstrap node given as
two addresses that both connect ends the process (`Connect` in `Transport`), and a
node that announces one file keeps its listing for another (one timestamp per peer, in
the seeding run with two files).

### Bounds, and why they are enough

* Tracker: two files, two peers, two clients, threshold one tick. Two of each is
  what it takes for a peer to leave one list and stay on another, for a list to
  keep one peer of two, and for one request's sweep to hit the map another request
  reads. One hash: an announcement stores the one it carries. One file on a page,
  so that two files need two pages; with two files `UntiedFileOnOnePage` is about
  files of different popularity, and ties among others would take a third. The proofs
  lift the bounds for the safety properties, ties included.
* Download: two pieces, two slots, one peer and one attempt for the safety run, with any
  number of faults; two slots on one piece are a duplicate, and the only peer may be
  dropped and dialled again while workers run, which is where the loop returns early. The
  liveness run has one piece, two slots and two attempts, which faults can exhaust again
  and again. With one peer no worker goes on to a second one; the proofs of the safety
  properties cover any number of peers, as of everything else. `MaxInFlight` merges
  answers of one peer for one piece that are under way together.
* Seeding: one node and two files, shared one after the other as `main`'s processes do
  (`MaxShares`), a period of two ticks, a threshold of two periods instead of four, two
  tries instead of three, and two faults: one round can fail and the next be late, which
  is where a seeder that still announces is dropped. A goroutine of an earlier `ShareFile`
  of the same file has ended before the next one.
* Serving: the RPC channel holds one message instead of 1024 and TCP one or two
  writes, so that both fill up. Two nodes block each other when each has a request
  in its RPC loop, one in the channel and one with the reader: `serving_mutual`
  therefore allows three requests a side, and limits sends to two so that the flow
  control refuses as well. `Leaving` bounds who shuts down.
* Transport: two overlapping calls, a bootstrap dial, one inbound connection, one
  dropped peer. Three announced addresses and a malformed one: a public address that
  hides a local one, an address dialled because none is public, an address that is
  refused. Each timer is one tick and `DialTime` the shortest that exceeds the two
  timers it must cover; the assumption `PunchTime + ConnectTime < DialTime` is the
  code's 3.1 s + 5 s < 20 s. No two announced entries share an address.
* Store: chunks of two bytes and files of up to five, hence no chunk, a short one, a
  full one, two and a half; two edits (cut off and grow again); two requests or answers
  at once, which may be for the same chunk.

`CHECK_DEADLOCK FALSE` appears in the configurations of `Serving`, `Transport` and
`Store`: once the bounded number of requests, calls or edits is over, the nodes may
fall silent. A finished download stutters (`Returned`).

### Fairness

Weak fairness is assumed of goroutines that are scheduled, tickers that fire and
answers that arrive: the cleanup loop, time, the goroutine of a request;
the main loop, each worker and each answer of a download; a node's announcement
goroutine, posts, the sweep and the period; readers on an open connection and RPC
loops. `Transport` only assumes that some goroutine that can go on does, or else time
passes, which is weaker than fairness to each. Nothing is assumed of people (sharing,
stopping, asking, restarting), of dials that might succeed, of faults, or of the tracker's
answers to a download or to `connectToAllPeers`, whose requests have no timeout; only
`download_dead` assumes a tracker that answers, so that its silence is no excuse. What a
liveness property needs beyond that is its hypothesis. `FaultyDownloadEnds` supposes that
connections stand (`download_dead` shows what happens otherwise) and that there is calm at
last: a seeder that refuses for good, as `handleChunkRequest` does past its flow control,
or a disk that stays full keeps `DownloadFile` trying for ever. `EveryCallReturns` supposes
that the tracker answers, `SeededFileGetsListed` that the lookup does not hang. A post
under way ends, by arriving or by failing, since its client has a timeout. The
period of `Seeding` is strongly fair: it waits until no announcement round is under
way, and a node that shared and stopped files for ever within one period would
otherwise stop time. The Go scheduler, `time.Ticker` and TCP justify the rest.

## Proofs

`TrackerProofs` proves for every finite set of addresses, every set of files,
hashes and clients and every threshold:

* `TypeCorrect`, `CountsAlwaysMatch`, `ListedAlwaysTimed`: `TypeOK`,
  `PeerCountsMatch` and `ListedPeersAreTimed` are invariants. Together they are
  inductive (`Inv`): the count of a list needs its finiteness from the type, and a
  list stays timed because the sweeps drop a timestamp only together with every
  listing of that peer.
* `RepliesAreFresh`: the action property `OnlyFreshPeersReplied`, with one further
  invariant: a reader whose map is still in the index belongs to a file that has a
  list, and what it may yield includes that list.

`DirectoryProofs` proves under the same assumptions:

* `TrackerIsDirectory`: the tracker implements `Directory`. Every action is one of
  the directory's (announce, leave, expire, end of the process) or a stutter under the
  mapping that forgets counts, ages and readers. The invariant `Inv` is all it needs:
  because a described file has a peer, its description goes with the last one.

`ListingProofs` proves for every finite set of files and every page length:

* `UntiedFilesStay`: `UntiedFileOnOnePage`, which follows from the types alone. An order
  that the sort may leave is a bijection from positions to files. In each of them a file
  without an equal stands right behind the files with more peers, so that its position
  is one more than their number (`UntiedPosition`), the same in every answer. The pages
  cut the positions into intervals, so that each position is on one page (`OnePage`).

`DownloadProofs` proves for any number of pieces, peers, workers, attempts and
answers, and any faults:

* `TypeCorrect`, `SuccessIsWritten`, `NoStrandedPiece`: `TypeOK`, `SuccessMeansWritten`
  and `RequestedHasWorker` are invariants. They are not inductive alone. `Inv` adds
  that a Verified piece was written, that a worker that succeeded has written its
  piece, that a worker inside an attempt has attempts left (which keeps the
  attempt counter in its type), that a verdict is given only at the end, and that
  pieces wait in the batch only while the loop dispatches.
* `NoHeldPieceGivenUp`: `GivesUpOnlyUnheld`. The loop leaves when `GetNextPieces` gave it
  nothing and, read later, no download is recorded as active. What was nothing stays
  nothing: a piece with a holder was Verified by then, hence written, and nothing that is
  written is undone.
* `DownloadIsTransfer`: a download of at least one piece implements `Transfer`. Beyond
  `Inv` it needs that the output file is made when the loop starts, that no worker exists
  without it, and that it stays open until the verdict (`OutputFollowsLoop`). `Inv` has
  that a worker which outlives the verdict was left behind by "no peers". So every
  completed write is an addition to a transfer that allows it and everything else
  stutters; success has written a piece, so its output is kept.

`TransportProofs` proves for any calls, addresses, entries, connections and timers
that `TimesAssumption` allows:

* `TypeCorrect`: `TypeOK`. It contains that no timer runs past its end, which needs a
  bound on the age in each state of a goroutine (`TimersBounded`): a dial that settles
  is bounded by `SettleTime`, a waiting one by `DialTime`.
* `SuccessIsConnection`: `DialSuccessIsConnection`. It is inductive together with
  `connectedCh` being empty (`NothingPunched`), which holds because a message with a
  `ListenAddr` in it has at least three fields.

* `FailuresAreClean`: `FailedCallLeavesNothing`. `CallInv` follows each dial of a call
  together with its only attempt. Their timers agree while the attempt runs, so the
  attempt is over before the dial can time out; that is where
  `PunchTime + ConnectTime < DialTime` is used. A dial that waits takes note of a
  connection before time passes. The connection is entered, under the address that was
  dialled, before the pause is over. So a dial that ends without having found it ends
  when it is not in `peers`, and a connection is entered only once.

`SeedingProofs` proves about the composition of the nodes with the tracker, for any
number of nodes, files, tries and faults:

* `SeedingTypeCorrect` and `SeedingCountsMatch`: `SeedingTypeOK`, and `PeerCountsMatch`
  of the tracker. A step of the composition is one of the tracker's, a stutter of it or
  the end of its process (`TrackerStep`), so the tracker's invariant carries over.
* `ActiveSeedersStay`: the action property `ActiveSeederKept`. The inductive invariant
  adds that a file that is seeded has an announcement goroutine, and that the tracker's
  timestamp of a seeder is not older than the periods of the rounds it missed, the ticks
  of the current period and, if a round is due or under way, one period more
  (`AgeFollowsMissed`). A sweep that drops the seeder then means that `Rounds` rounds were
  missed, or all but the one that is late: with the code's numbers three failed rounds and
  a fourth that comes after 120 s.

`ServingProofs` proves for two nodes with any roles, any sizes of the buffers, of the
channel and of an answer, and any number of requests and faults:

* `TypeCorrect`, `AnsweredOnce`: `TypeOK` and `NoAnswerTwice`. The second adds up a
  request over its stations (wire, reader, channel, loop) and its answer over the same
  ones on the way back; each step moves one along or drops it.
* `FramesStayIntact`: `FramesIntact` if no node both serves and downloads over the
  connection. The invariant `FramesInv` says that the writes on the wire lead from the
  reader's place in a frame to the writer's. It needs the hypothesis where a request is
  written: `serving_interleave` shows what happens without it.
* `RequestsDoNotKill`: the action property `SeederSurvivesRequests`, because the two
  looks at `activeFiles` agree until `Cleanup` has started (`LooksAgree`).

`StoreProofs` proves for every file size, chunk size, number of edits and of requests:

* `TypeCorrect`, `PlacesKept`: `TypeOK` and `BytesKeepTheirPlace`, from an invariant that
  places every byte of the file and of each answer (`PlaceInv`). Lengths and offsets are
  typed by it as well: an answer ends within the largest size a file had.
* `GapsOnlyIfShrunk`: `GapsMeanShrunk`. Until an edit makes the file shorter, the file is
  as long as announced, every answer fills its chunk or reaches the announced end, and
  the output is solid on every chunk that counts as written (`GapInv`).
* `HonestVerifies`: `HonestTransferVerifies`. While nobody edits, whatever was hashed, is
  under way or is written equals the file at its place (`HonestInv`); with no gap left the
  output is the file, and it is kept exactly if it has a byte.

The assumptions are those named in the modules: constants are naturals or finite
sets, there are two nodes on a connection, an inbound connection is none of this node's
attempts, and `NULL` and the byte `ZERO` of a gap are not ordinary values. TLC evaluates
them in every run.

Every safety property that a passing run checks is also proved. Only model-checked are
the liveness properties (`SilentPeerUnlisted`, `CleanDownloadSucceeds`,
`FaultyDownloadEnds`, `SeededFileGetsListed`, `GhostListingExpires`, `RpcLoopReturns`,
`EveryCallReturns`): fairness and `ENABLED` are outside the prover.

## Not modelled

* What `getPeerAddress`, `GetLocalIP` and `GetPublicIP` return: they ask the operating
  system and a web service. Addresses are the constant `Entries` of `Transport`; that the
  lookup fails or hangs is in `Seeding`. A lookup that hangs and answers after all, and one
  that hangs in `StopSeedingFile` and so holds the shutdown, are not modelled: the first
  only makes a round late, the second is a removal that is lost.
* Overflow of `(page-1)*perPage` in `HandleListFiles` for page numbers near the largest
  integer: `UntiedFileOnOnePage` asks for as many pages as there are files.
* `saveMetadata`: it writes a file that nothing reads back (`GetMetadata` has no caller).
* `crypto.go`, `GOBDecoder`, `setupUPnP`, `ChunkAndStore`, `writeChunk`,
  `PieceManager.RemovePeer`, `handleMessage`, `handleMetadataRequest`,
  `getMetadataFromTracker`, `startTrackerAnnouncements`: no code that runs calls them.
* Flags, logging, progress output.

## Plan

1. Done: `Tracker` with `Directory` and `Listing`, `Download` with `PieceManager` and
   `Transfer`, `Seeding`, `Serving`, `Transport`, `Store`; proofs of the safety
   properties of all of them, and of the two refinements (that of `Transfer` for files
   that are not empty).
2. Next proofs: the safety steps that the liveness properties rest on, as far as they are
   invariants or action properties. In `Transport`: a call that is dialling has a dial
   whose timer is bounded. In `Download`: each round of a worker lowers its attempts.
