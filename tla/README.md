# ChainMon in TLA+

ChainMon records what happens to a fleet of machines on a small private
blockchain. *Agents* push heartbeats, metrics and hardware assets to *servers*;
each server pools what it receives, the servers take turns to seal their pools
into blocks, vote on each other's blocks over HTTP, and show the chain on a web
dashboard from which IPMI commands can be sent. These modules model that code,
TLC checks them on small instances, and TLAPS proves the main results for every
value of the constants.

Paths are those of the repository (`src/blockchain/chain.py` is
`blockchain/chain.py` of a checkout). `PROJECT.json` maps each definition to the
lines it stands for, lists the runs, and lists the hazards with the properties
that cover them.

## 1. The system

| component | state | operations | speaks to |
|---|---|---|---|
| ledger, `blockchain/chain.py`, `block.py` | `chain`, `pending_data`, `chain.json` | add_data, create_block, add_block, sync_chain, load, save, query | called by every thread of a server |
| consensus, `blockchain/consensus.py` | `pending_blocks` (votes, status), `confirmed_block_hashes`, `active_node_ids` | propose, receive, vote, verdict, turn, cleanup | main loop and request threads |
| network, `blockchain/network.py`, `p2p_server.py` | which peers are online | broadcast proposal and vote, handlers, chain fetch, heartbeat | synchronous HTTP between servers |
| server, `monitor_client.py` | agent registry, stop event | main loop, signal handler, agent operations, IPMI audit | ledger, consensus, network |
| agent, `agent_client.py` | time of the last hardware push, stop flag | register, heartbeat, push metrics, push assets | HTTP to its upstream server |
| collector, `client/collector.py` | digest of the last asset of each agent, last FRU of each device the server asks itself | suppress what did not change | called by the server's handlers and by its collecting main loop |
| IPMI executor, `client/ipmi_executor.py` | `command_history` | check, run ipmitool with a timeout, record | called by web threads |
| web server, `web_server.py` | none of its own; in the browser page, key and dialogs | agent API, dashboard reads, block list, asset and block dialogs, IPMI requests | reads the ledger with no lock |
| crypto, `client/crypto.py` | a key derived from the web password | encrypt an asset for the page | called by the web server |
| config loader | none | YAML | not modelled |

Everything shares one process per server and **no lock is taken anywhere**. The
main loop, one thread per HTTP request on two servers (P2P and web), and a
signal handler on the main thread work on the same lists and dictionaries.

What is hard here:

* *Interleaving*: copy and clear of the pool, check and append of a block,
  check and two writes of a verdict, each between two threads.
* *Crashes*: the only copy of the chain is truncated before it is rewritten; the
  pool, votes, registries and digests are in memory only.
* *Messages*: votes that come before their proposal are dropped, nothing is sent
  twice, a caller may give up on a handler that goes on. The page shows answers
  in whatever order they arrive.
* *Views*: leader and quorum are computed from each server's own opinion of who
  is online.
* *Liveness*: the turn moves only when the chain grows.
* *Stale memory*: what is suppressed as unchanged is decided from tables in
  memory, whatever the chain holds; the page keeps the key it got when it was
  loaded.
* *Arithmetic*: when an approval percentage confirms, and when it rejects.
* *Reads while the ledger moves*: chain and pool are read one after the other.

What makes each part correct: the ledger loses, repeats and reorders no record
and keeps its chain well formed over crashes; consensus decides a block once, and as the
votes say; servers agree on a common chain; the
dashboard overlooks nothing but what moves under a request, and catches up after
any failure; a dialog shows what its title says; commands and audit trail agree;
the hardware a device keeps comes to be on the chain.

## 2. The modules

| module | models | interleaves |
|---|---|---|
| `Block`, `BlockProofs` | blocks, hashes, validation and chain selection as operators; lemmas about them | – |
| `AuditTrail` | abstract specification of one server's ledger | – |
| `Ledger` | one server: pool, create_block, add_block, save, load, signal handler, crashes | main loop, web threads, signal handler, crash |
| `LedgerProofs` | theorems about `Ledger` | |
| `Voting` | percentages, verdict, whose turn | – |
| `Consensus`, `MCConsensus` | `SimpleConsensus` on one node | request threads inside vote_block, the cleanup, changing views |
| `ConsensusProofs` | theorems about `Voting` and `Consensus` | |
| `SharedLog` | abstract specification of a cluster whose calls arrive | – |
| `Cluster` | several servers: proposals, votes, append, sync, heartbeat; composes `Block` and `Voting` | main loops, request handlers, lost and late calls |
| `ClusterProofs` | theorems about `Cluster`, with the refinement of `SharedLog` | |
| `Feed`, `FeedProofs` | agents, server registry, digests, pool and chain, what is shown; its theorems | agents, sealing, restarts, lost and late posts |
| `Views` | the metric history, the latest metrics, the asset of a device | a request against reporting and sealing |
| `Pages` | the block list of the dashboard | a reader and several requests against the growing chain |
| `DashboardProofs` | theorems about `Views` and `Pages` | |
| `Dialogs`, `DialogsProofs` | the asset and block dialogs, the key of the page, what is encrypted; its theorems | requests, lost answers, restarts of the server |
| `Commands` | IPMI requests, executor, history, audit | request threads, the device, end of the process |
| `Collection` | the main loop of a collecting server; composes with `Commands` | main loop, the threads of `Commands`, devices that are exchanged or do not answer |
| `CollectionProofs` | theorems about `Collection` and, within it, `Commands` | |

Definitions keep the names of the code (`pending_data`, `create_block` is
`CreateBlock` and `ClearPool`, or the like; `_check_consensus` is `CheckConsensus`,
`WriteVerdict` and `AddConfirmedHash`). History variables, which the code does not
have, are marked *history* where they are declared. Definitions commented *Mutant of
X* are wrong variants of X; each checked property is paired with one of them that
violates it, in `PROJECT.json`, to show that the property speaks of the code.

### How they correspond to the code

**Block.** A hash is the sequence of everything fed to SHA-256, so different
contents never share one. Timestamps, signature, nonce are left out.
`ValidateBlock` is `_validate_block`, `IsChainValid` the check at sync,
`Outweighs` the condition under which `sync_chain` replaces a chain.

**Ledger.** The main thread has a program counter for the points where something
else gets in: after the copy of the pool, after `clear()`, before the append,
after `open(..., "w")` has truncated the file, after the dump. `_save_chain` is
therefore two actions; a write that raises is swallowed as in the code.
`LoadChain` is absent, torn, or parsed file; anything unreadable leads to
`CreateNewChain`, which overwrites the file. The signal handler saves in the
middle of whatever the main thread does. `LoopRaises` is an exception that leaves
the body of the loop, after which `finally` saves and ends the process. `Crash`
may happen at every step. The history `mishap` tells whether there has been a
crash, or a file that was not read or written; `AuditTrail` has it too, since its
restarts may lose the end of the trail, or shelve all of it, only then.

**Sealing.** `create_block` copies the pool (`chain.py:116`) and clears it (`:124`),
and `add_block` comes later; the threads of the web server add to the pool at any
time. These are three steps in every module that seals: `CreateBlock`, `ClearPool`,
`AddBlock` in `Feed` and `Views`, `CopyAudits`, `ClearAudits`, `AppendAudits` in
`Commands`, `CreateBlock`, `ClearPool`, `AppendOwnBlock` in `Cluster`, and a step
more in `Ledger`. What comes in between copy and clearing is lost. A
property that speaks of losses names it by a history variable, `late` in
`Cluster`, `dropped` in `Feed`, `overrun` in `Commands`, and claims that there is no
other way; that the loss does happen is `ledger_lost_record`.

**Consensus.** `CastVote`, `CheckConsensus`, `WriteVerdict` and
`AddConfirmedHash` are the unlocked steps of a thread in `vote_block`: append the
vote, read votes, view and status, write the status, add the hash to the set of
confirmed ones. `SetActiveNodes` takes any view the network may report. The cleanup
collects (`CollectOldPending`) and removes (`RemoveOldPending`); it removes an
entry that was settled in between. A proposal comes in once (`Propose`): its leader
posts it once to each peer and nothing in the code posts it again. Two histories:
`counted`, the view a block's votes were last counted in, and `strained`, the blocks
that were counted in a view in which one approval rejects.

**Cluster.** A synchronous call is the unit of interleaving: a leader is stuck in
`PostProposal` until the handler of the peer has posted its own votes to everybody,
or until the leader gives up. `create_block` (copy, then clear), `add_block` and
`sync_chain` (check, then assignment) are two steps each. The finer races are in the
two modules above, so that a `Cluster` state is one between calls.
`ImplementsSharedLog` maps each server's chain, without the genesis block and as
sets of records, to what it knows of the shared log: an own append is `Extend`, a
vote handler's append or a sync is `Follow`. `FindBestPeer` may come out with any
online peer whose chain is longer: the peers are asked one after the other, any of
them may fail to answer, and the chains grow meanwhile.

**Feed.** One action per post; the handler runs inside it, or (fault `late`)
later and in any order with others, or never (fault `lost`). `RecordsOf` is what
the handler of a request puts into the pool, and `Fresh` the part of it that
passes the digest check of `receive_agent_hardware_assets`. Time is counted in
collect intervals. `disturbed` is a history variable: when the agent's hardware
last changed, a post of its was lost or late, an asset of its was cleared away with
the pool, or the server was started again.

**Views.** A request reads one record per step, first of the chain and then of the
pool (`Lists`), at the position its iterator has reached, while the other threads
append to the chain and clear and fill the pool under it. Which block a record is
in does not matter to the handlers, so the chain is the sequence of its records.
The three handlers differ in the direction and in what ends the iteration:
`ReadPoint` goes forward and collects all; `ReadMetric` goes backward, keeps the
first of the chain but lets each of the pool take the place of the one before,
and so ends with the oldest of the pool; `ReadAsset` stops at the first of each
list. `ByTime` says what `sorted` returns, the stable arrangement by time, and not
how.

**Pages.** A block is its height. `PageEnd`, `PageStart`, `TotalPages` are the
expressions of `api_blocks`. Requests are a set: `Serve` counts from the length at
that moment, `Display` shows whatever answer comes, and both page number and the
buttons follow the answer on display. A failed request (`Lose`) is logged and
displays nothing: an error of the web server is an HTML page, which `r.json()`
refuses. (`api_blocks` has an error with a JSON body, for a server with no client,
but `set_web_client` precedes `start_web`, `monitor_client.py:167` and `:175`.) The
buttons are not yet disabled when nothing was displayed. `Reload` is a load of the
dashboard, `BeginReading` (history) the moment from which `PagesCover` counts.
Initial states, steps and type invariant are `PagesInit`, `PagesNext` and
`PagesTypeOK`, as one module extends both this and `Views`.

**Dialogs.** A ciphertext is its algorithm, its key and what it says.
`CanDecrypt` is what `decryptAesCbc` needs: a key that was loaded, the browser's
`crypto.subtle`, which is missing on plain HTTP, the AES algorithm, and the
server's password. What cannot be decrypted is asked for again in plain
(`AskAgain`). A dialog's title is set when it is opened and its body by whichever
answer comes last.

**Commands and Collection.** A command is the number of its request. What the
device does (`Perform`, `Drop`) is outside the repository; ipmitool's outcome is
related to it only where exit status 0 says so. `Commands` has the request
threads; `Collection` puts them beside the main loop of a server that asks its
devices itself, in the legacy and the all-in-one mode: `CollectDevice` for each
device, `CollectLocal`, `CreateBlock`, `AddBlock`. Sensor readings are left out, and
of what the loop puts on the chain only the newest FRU of each device is kept;
`Latest` looks for it in what is collected for the next block first. The main thread
collects and seals, so of its own records none comes between copy and clearing.

## 3. The runs

Passing runs:

| run | instance | shows |
|---|---|---|
| `ledger_faults` | 4 records, all faults, fair main thread | `ChainWellFormed`, `SealedInOrder`, `DiskBehindChain`, `EventuallySealed`, `EventuallyPersisted`; `Ledger` implements `AuditTrail` |
| `consensus_views` | 5 nodes, 80 %, 3 threads, any number of nodes online, cleanup | `RejectedInSmallViewsMeansOpposed`, `SettledForGood`, `ConfirmedHashesMatch`, `NoLostConfirmation` |
| `cluster_three` | 3 nodes, 3 records, no faults, fair | `Agreement`, `ChainsWellFormed`, `NothingLost`, `EventuallyEverywhere`; `Cluster` implements `SharedLog` |
| `cluster_late` | 2 nodes, 2 records, lost and abandoned calls | `OnlyConfirmedBlocks`, `VotesAreCast`, `SealedOnce` |
| `feed_faults` | 1 agent, 3 intervals; lost posts, late posts, restarts | `SuppressedIsRecorded`, `NothingTwice`, `Recovers` |
| `views_reads` | 4 records, history limit 2 | `NoPointTwice`, `OnlyMovingOverlooked` |
| `pages_turning` | pages of 2, up to 6 blocks, 2 requests at a time | `PagesCover` |
| `dialogs_open` | 2 devices, 1 block, 2 passwords, 2 openings; lost fetches, restarts, fair | `ShowsItsOwn`, `EventuallyShown` |
| `commands_audit` | 2 threads, 2 commands, 1 device beside the server itself; all faults, fair | `AuditedOnce`, `SuccessIsTrue`, `HistoryIsAudited`, `EventuallyAudited`, `FruRecorded` |

The first run of each module also checks its type invariant (`CollectionTypeOK`
includes `Commands!TypeOK`, that of `Pages` is `PagesTypeOK`). `cluster_late` takes two
minutes and a half, `consensus_views`, `cluster_three`, `feed_faults`,
`dialogs_open` and `commands_audit` about one, the others half a minute at most.

Three runs end in a violation of the one property they check. They are
disagreements between the code and what it says of itself, and `findings` in
`PROJECT.json` quotes the lines:

| run | property | what happens |
|---|---|---|
| `ledger_lost_record` | `NothingDropped` | a request thread adds a record after `create_block` has copied the pool and before it clears it: the record is in no block, although the pool is said to be sealed whole |
| `consensus_five` | `RejectedMeansOpposed` | whoever has not voted yet counts as opposed, so that of five nodes the first approval rejects the block |
| `views_latest` | `LatestIsLatest` | the pool is walked from its newest metric to its oldest and each takes the place of the one before: of two metrics in the pool the older one is answered as the latest |

What the properties say of the code's weak spots, and what they leave out:

* `NothingLost`, `Agreement` and `ImplementsSharedLog` are checked where all calls
  arrive, since a block that misses its threshold takes its records with it and
  views may differ. `NothingLost` leaves out `late`.
* `ChainsWellFormed` of `Cluster` needs the same. When a caller gives up, a vote
  handler and the main loop of one server may both append the same block. When a
  heartbeat fails, two servers may both believe it is their turn; one of them may
  then append the other's block between validating and appending its own.
* `ImplementsAuditTrail`, `DiskBehindChain` and `EventuallyPersisted` hold under all
  faults; what a crash, an unreadable file or a failed write may do is said by
  `mishap`, and everything else (signals inside a save, exceptions in the loop,
  threads) may do nothing of the kind. `DiskBehindChain` lets the file hold a chain
  that could not be read, beside the new one: then all of it is older.
* `SettledForGood` begins when no thread is about to write a verdict for the block.
  Until then one verdict may overwrite the other: at five nodes, a thread that
  counted one approval and one that counted four both find the status pending.
* `ConfirmedHashesMatch`: between its two writes a thread's hash is not in the set
  yet. Where such an overwrite can happen (`strained`), a hash may be in the set
  although the entry ends as rejected.
* `NoLostConfirmation` and `RejectedInSmallViewsMeansOpposed` leave out `strained`
  blocks; what happens to those is `consensus_five`.
* `SuppressedIsRecorded` and `Recovers`: an asset cleared away with the pool stays
  suppressed. The dashboard catches up with the next push, because an agent stamps
  its assets and so no two digests are the same. While a block is under way, the asset
  may be in it and not on display.
* `HistoryIsAudited` and `EventuallyAudited`: a command's audit record is lost when
  the process ends or when it came between copy and clearing; nothing else loses it.
* `ShowsItsOwn` makes an exception for a dialog that was opened while a request of
  an earlier opening was under way (`crossed`): such an answer may show under the
  title of another device.
* `OnlyMovingOverlooked` is about the asset. An asset may be answered as not
  reported, or as an older one, while its block is under way. The same claim for the
  latest metric is `LatestIsLatest`, which the code violates.

### Bounds

Four records let two be in a block or on the chain while the others arrive in the
window under test, and give chains of five blocks, enough for a rollback past a
block that was itself built after a rollback. Three threads in `vote_block` are two
that overwrite each other and one that comes later. Four nodes at 80 % are the
largest view in which one approval rejects nothing, five the smallest in which it
does; `consensus_views` has both, as its views range from one node to five. A
block's votes, entry and threads touch no other block's, so one proposal is enough.
Two nodes are enough for what lost and late calls do between a proposer and a voter;
`cluster_three` adds a bystander who may learn of a block by sync only. One agent
suffices, as devices do not touch each other's entries. Three intervals of
`feed_faults` hold two asset pushes, with a loss, a restart or a late post before
the second one, after which the dashboard has to have caught up. Six blocks with
pages of two give three pages, so that the chain can grow by more than a page while
somebody is in the middle, and two requests can be answered in the wrong order. Two
openings of a dialog are what it takes for an answer to meet the wrong title; two
devices and a block give both the other device and the other dialog. Two commands on
two threads are under way together, or one is pooled or sealed while the other is
under way. One device with two FRUs can be exchanged and exchanged back between two
rounds; devices do not touch each other's entries.

`MaxTime`, `MaxHardware`, `MaxLate`, `MaxRecords`, `MaxBlocks`, `MaxRequests`,
`MaxAssets`, `MaxOpened` and `MaxCommands` are such bounds; `Records` bounds
`Ledger` and `Cluster`; each vote and each proposal comes once in `Consensus`.

`CHECK_DEADLOCK FALSE` is said for `Cluster`, `Feed`, `Dialogs` and `Collection`,
where a bounded number of records, ticks, openings or commands may be used up
and nothing is left to do. The other modules always have a step and are checked
for deadlock.

### Fairness

* `Ledger!FairSpec`: weak fairness of the main thread's steps. The loop of
  `MonitorClient.start` runs until the stop event and waits a bounded time
  between rounds. Nothing is assumed of agents, signals, crashes or of somebody
  starting a server again.
* `Cluster!FairSpec`: weak fairness of every main loop's proposing step and
  syncing step, and of the request threads taken together; the loop comes round
  to `_sync_chain_from_peers` every minute. Only runs without faults use it.
* `Collection!FairSpec`: weak fairness of every request thread (ipmitool ends by
  the subprocess timeout at the latest) and of the main loop, which comes round
  every collect interval. `FruRecorded` assumes in addition that the process
  ends only finitely often, that the device stays as it is and that it answers
  again and again.
* `Dialogs!FairSpec`: weak fairness of the requests under way taken together: the
  server answers, the browser handles answers as they come. Each request takes a
  bounded number of steps and openings are bounded, so none is passed over for
  ever. Nothing is assumed of the fetch of the key, nor that an answer arrives.

## 4. The proofs

`tlapm` checks all of them; each holds for every value of the constants that
satisfies the modules' `ASSUME`s, and assumes nothing else unless stated.

**LedgerProofs.** `Inv` is `TypeOK`, `ChainWellFormed` and `HandlerScope` (a
handler runs only in a running process; a process that is down has no chain in
memory). The well-formedness of the file and of the block under way are part of
`ChainWellFormed`, because a restart turns the file into the chain and
`AddBlock` puts the block onto it. From it follow `TypeCorrect` and
`ChainAlwaysWellFormed`. `OrderInv` adds that every record
anywhere was accepted (`AllAccepted`): without it the next accepted number might
already be on the chain; it gives `RecordsSealedInOrder`. `FileInv` adds
`DiskBehindChain`, and that a block about to be appended is newer than all the file
holds (`FileBehindBlock`), which the file may do without being the chain's past; it
gives `FileBehindChain`. With `ExitSaved` (without a mishap, where the process is
about to exit the file is the chain) follows `LedgerImplementsAuditTrail`, which
maps each step to a step of `AuditTrail` or to a stutter. None of these assumes
anything of files or faults.

**ConsensusProofs.** `OpenBlocksNeedUnanimity` is arithmetic about `Voting`. The
results about `Consensus` hold in clusters of every size and for every sequence of
views. `GInv` says what needs no assumption on the answers: a confirmed entry has
its hash in the set or a thread about to add it (`Followed`), and nothing is settled
that was not proposed. `SettledVerdictsStand` follows: a settled block of which no
thread is about to write (`Rests`) stays so, since whoever counts its votes from now
on finds it settled, and its removal is final as no proposal comes twice. The others
assume approving nodes. `SInv` adds of each block that its votes approve and that,
unless it is `strained`, it is not rejected, nor is a thread about to reject it, and
its hash in the set means it is confirmed or gone (`Sound`, `SoundStep`); and that a
pending block with enough approvals for the view they were last counted in has a
thread that will settle it (`Attended`). They give `NoFalseRejection`,
`ConfirmedHashesAgree` and `ConfirmationsAreNotLost`. That `strained` cannot be
dropped from the first of them is the violated run `consensus_five`.

**DashboardProofs** is about the two modules in which somebody reads a chain that
grows.

*Views.* What an answer says depends on what was read many steps ago, while the
records moved on. `LedgerInOrder` is the ledger's part: chain, block under way and
pool, one after the other, are in the order of time, so that a record that moves
stays where it was among the others. Of a request, `WellFormedRequest` keeps that
the chain of its beginning is still the start of the chain. For the history,
`ChainFirst` and `FoundInOrder` say that what was found is older than all that is
still to be read, also than what may yet move: reading the chain before the pool
is what this needs, and it gives `HistoryHasNoPointTwice`. For the asset,
`ChainCovered` and `PoolCovered` say that nothing behind the position is newer than
what was found, that on the chain what was found is newer than all before the
position, and that a pool which was emptied under the iteration holds only what
came after the request. `AnswersOverlookOnlyMoving`, about the asset, follows at the
answer, and `ViewsTypeCorrect` needs `LastPointsInOrder` for the slice that is answered.

*Pages.* `PagesCover` is not inductive: in the middle of the list it says
nothing. `SeenFromStart` is: from the start of the page on display upwards,
everything that was there when somebody began to read has been seen. It needs
`RequestsReach`, which says the same of every answer that may still come: whatever
was there at the beginning above the end of its page has been seen, so that
displaying it, even out of order, leaves no gap. A new request satisfies it by
`EndsAboveStart`: the page after the one on display, counted from a chain that
only grew, ends no lower than the page on display starts. The theorems are
`PagesTypeCorrect` and `PagesCoverTheChain`.

**BlockProofs** has no theorem of its own: lemmas about `Block` that the proofs of
`Ledger` and `Cluster` cite, of what a valid block is to the one before, how a
chain stays well formed when a block is appended, and what a prefix of a well
formed chain is.

**ClusterProofs**, for any number of servers, in two layers. The first assumes
nothing of the network: calls may be lost, and callers may give up on them. Its
invariant `Inv` says where everything is. `Sealing`: every record is in one place,
a pool or a sealed block (in the pool and its copy until the pool is cleared), and
was accepted, so that no number is handed out
twice. `Casting`: whoever is counted somewhere has counted itself, and a server
broadcasts only a vote it has cast. `Vouching`: what is on a chain, in a fetched
chain or about to be appended is confirmed somewhere; the statement has to
reach into the rounds and the calls, as a chain is copied without a vote. It gives
`TypeCorrect`, `RecordsSealedOnce`, `CountedVotesAreCast` and
`ChainsHoldConfirmedBlocks`.

The second layer assumes `Faults = {}` and `SmallCluster`, and proves
`ServersAgree`, `ChainsAreWellFormed`, `RecordsAreKept` and
`ClusterImplementsSharedLog` from `LogInv`. Both assumptions are needed: a caller
who gives up, or a heartbeat that fails, makes a chain ill formed, and in a larger
cluster the first vote rejects the block and its records go with it. The argument
is:

1. Everybody is online for everybody (`FullViews`), and since no verdict falls
   before the last vote (the arithmetic is that of `OpenBlocksNeedUnanimity`), a
   block is confirmed exactly when all have voted (`Unanimous`).
2. The leader votes last, when it has the votes of all its peers (`Asking`). The
   vote of a peer overtakes the proposal to those asked later, who drop it, so
   that of two peers at most one counts the other (`OneWay`): beside the leader
   one peer at most confirms a block by itself, the others get it by sync.
3. A height has one leader. A block that is under way is what everybody's next
   block is going to be: the *tips*, chains with the block a leader is at, are
   prefixes of one another (`ChainsInv`, with `InOrder`: who has filled a height
   did so after its leader began to).
4. So each append or sync is a step along one log: the owner of the block extends
   it (`Extend`), everybody else follows (`Follow`), and all else stutters.

**FeedProofs.** `Recovers` counts from the last disturbance, and to prove it one
has to know what holds on the way: the server has heard from the agent in this
interval (`Heard`), the agent has pushed its hardware within the last
`HardwareInterval` (`PushedLately`), and a push later than the last disturbance
is the newest asset of the device on record (`PushIsNewest`). The last of these
needs `SuppressedIsRecorded`, as a push may put nothing on record because the asset
is there already. On record is what is on the chain, in the block under way or in
the pool; while the block is only a copy, `Copied` says that the pool begins with
it, so that the clearing takes away what was copied and what came since.
`NothingTwice` needs that a late post is of a time that was (`NothingEarly`), that
nothing of it is on record and no other late post brings the same (`LateOnce`). The
theorems are `TypeCorrect`,
`SuppressedAssetsAreRecorded`, `NothingRecordedTwice` and `FeedRecovers`.

**DialogsProofs.** `ShowsItsOwn` speaks of what is in a dialog; `RequestsAreItsOwn`
says the same of every request that may still write there: unless the dialog was
opened across an older request, it is about the item of the title, and no
older than the opening. A dialog that was `crossed` is left out until it is opened
again with nothing under way, and that this is enough for every number of
openings is what `DialogsShowTheirOwn` adds to the run.

**CollectionProofs** is about the whole of `Collection`, the request threads of
`Commands` beside the main loop. That a command is audited once
(`CommandsAuditedOnce`) needs that what a thread has still to audit is not on the
trail, nor at another thread (`ToBeAuditedOnce`), and that no number on the trail is
still to come (`NoneToCome`). That an audited success is true
(`AuditedSuccessIsTrue`) needs the same of the threads' own records
(`ThreadsAreTruthful`). `HistoryReachesTrail` is inductive with these and with
`Copied`: until the pool is cleared it begins with the copy, and what follows the
copy is in `overrun`. `SuppressedFruIsOnRecord` is the safety half of `FruRecorded`,
whose liveness stays with TLC: a FRU that would be suppressed is the newest one on
record, in the pool, in a block or on the chain, of its device.

TLC finds the inductive invariants of `Ledger`, `Consensus`, `Cluster`, `Views`,
`Feed`, `Dialogs` and `Collection` true on the instances of the components' runs.

### Only model-checked

* Liveness: `EventuallySealed`, `EventuallyPersisted`, `EventuallyEverywhere`,
  `EventuallyShown`, `EventuallyAudited` and `FruRecorded`. The prover has no
  `ENABLED`, which fairness is made of.
* Clusters that are not small, and clusters whose calls fail, as far as agreement
  and the shared log go: there `Agreement` is not true, and `consensus_five`
  shows why for the votes.

## 5. What is not modelled

Several upstreams of one agent, and the IPMI devices an agent may ask on behalf of
its upstream; peer discovery and health, which only read; `query_data`, the audit
log and the device list, which are sequential filters over the chain; lookups of
single blocks beyond their dialog; `get_status`; login, the ciphers themselves and
HTML; psutil and ipmitool output; the YAML loader. `mine_block`, `next_leader`,
`update_peers`, `execute_raw` and `FRUCrypto.decrypt` are never called. An
exception in the main loop is modelled by its effect, the end of the process, at
the point between two rounds only.

## 6. Plan

Done, in this order: `Block`, `AuditTrail`, `Ledger` and its proofs (the records
are what the system is for); `Voting`, `Consensus` and its proofs; `Cluster`;
`Feed`; the reads and the commands; `SharedLog`, implemented by `Cluster`; the
exception that ends the main loop; recovery of the feed; requests under way in
`Pages`, with its proof; `Dialogs`; `Collection`; the proofs of `Cluster` with the
refinement of `SharedLog`, of `Feed`, of `Dialogs`, of `Collection` and of `Views`.

Every safety property that a passing run checks is a theorem; what the proofs
leave to TLC is listed in section 4. What the model could still grow by: an agent
with two upstreams; restarts of a server inside `Cluster`.
