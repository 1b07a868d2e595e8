# Plurx: models, model checking and proofs

Plurx is a self-hosted media server written in Rust.  This directory holds TLA+
models of the parts of it whose correctness depends on interleavings, crashes,
lost replies and retries, the TLC configurations that check them on small
instances, and TLAPS proofs of the properties that matter most.

Every definition is a translation of code under `src/`; `PROJECT.json` names the
lines each definition stands for, the runs, the mutation that shows each property
can fail, the hazards the properties are aimed at, and the proved theorems.

## 1. Inventory

Paths are relative to `src/crates/`.

| Component | State it keeps | Operations | What is hard | What makes it correct |
|---|---|---|---|---|
| Job leases (`plurx-core/src/cluster/coordination.rs`, `store/*/coordination.rs`) | one `job_leases` row per resource: owner, fence, revision, expiry | acquire, renew, release, each one conditional statement | callers' clocks disagree and step; replies are lost after the commit | one current token at a time; a replaced or released token is dead for good |
| Publication fence and heartbeat (`store/publication.rs`, `plurxd/src/state.rs`) | token behind a read/write lock, loss token, heartbeat task | publish, renew, invalidate, release, drop | renewal racing publications, expiry racing the renewal | effects of a superseded owner never land; a lost job stops |
| Watch progress coalescer (`plurxd/src/progress.rs`, `store/sqlite/watch.rs`) | per (user, item) entry: committed row, pending beat, worker flag | put, flush loop, drain, sweep | a flush racing a manual change of the same row, lost replies, shutdown | an accepted beat is flushed, superseded or given up loudly; a manual change is never undone by an older beat |
| Admission (`plurxd/src/admission.rs`) | hardware slots, software thread pool split live/background, live waiters | admit, wait, try-acquire, forced take, guard drops | live starts pre-empting background work | no permit leaks, background yields, budgets hold |
| Offline packages (`plurxd/src/offline.rs`, `store/sqlite/offline.rs`, `http/offline.rs`) | package rows (queued, preparing, ready, failed, expired), leases on them, the producer map | create, claim, requeue, ready, delete, cancel, lease put/renew/touch, expiry sweep | cancel racing the claim, crash between claim and publish | quotas hold, a package is produced by one producer, a deleted one is not served |
| Cache keeper (`plurxd/src/cachekeep.rs`, `store/sqlite/cache.rs`) | cache rows, directories on disk, in-memory reader and eviction guards | sweep stale claims, evict to budget, remove orphans, begin_read, begin_eviction | deletion in two steps, stale listings, producers and readers running | nothing a reader holds is deleted, no live claim is swept |
| Watched outbox (`plurxd/src/watched.rs`, `store/*/outbox.rs`) | rows pending/ok/failed with attempts, next time, claim; per node the batch in memory | enqueue, claim batch, post, settle | slow batches outliving the claim, a crash between post and settle, lost settlements | one node settles an attempt, at-least-once delivery, a bounded number of attempts |
| Trakt sync (`plurxd/src/trakt.rs`, `plurx-core/src/trakt.rs`, `store/*/trakt.rs`) | the rotating token of each link, time and activities of the last sync, scrobble sessions | link, refresh, pull, push, scrobble, unlink | callers on several nodes refresh one token; passes plan on rows and a history that change under them | a live token is never lost, no pass undoes what the user did, both sides agree in the end |
| Transcode sessions (`plurxd/src/transcode.rs`) | session table, request claims, per session a child, a verdict, a motion clock, a scratch directory and the gate `child_transition` | create, claim, recover, supersede, watch, downgrade, fall back, suspend, resume, judge, retire, reap | a client repeats a create or goes away in it; five kinds of task act on one child | a repeat finds its session, a verdict is true, a stall is noticed, an ended session lets go, every create ends |
| Cache production (`plurxd/src/transcode.rs`, `produce.rs`) | parts, playlists, cache claim | claim, run part, resume, assemble, complete | pre-emption between parts, resume point | an assembled entry is complete and contiguous |
| Job manager (`plurxd/src/state.rs`) | scan statuses, queued targeted scans, request records | trigger, request, queue, drain, retry | a request queued while the running scan ends | no accepted request is lost |
| Schedule (`plurxd/src/schedule.rs`) | due times | due, mark | clock steps | a due job runs |
| SQLite to Hiqlite migration (`plurx-core/src/cluster/migration.rs`, `store/hiqlite_import.rs`) | names of the data directory (`incoming`, `hiqlite`, `backup`), breadcrumb, readdress record, `membership.json`, the attempt marker, each target's rows, log, marker and lock | choose the store, stage, import, activate, readdress, recover, finish | a crash between any two renames, a power loss that undoes unsynced ones, an address or a peer that changed | exactly one authoritative store after any crash, and a node that comes up again |
| Membership (`plurx-core/src/cluster/membership.rs`, `store/hiqlite_durable.rs`) | voters, tombstones, package rows and their owners, source probes | join, remove, leave, resolve a removed node's packages, probe | a removal of many awaits beside clients, producers, joins and other removals | nothing waits in the name of a node that is gone; a package moves to a node that can read its source |
| Store (`plurx-core/src/store`) | the SQLite or replicated database | the store traits | two backends with one contract | contract tests; modelled where a component uses it |
| Scanner and metadata (`plurx-core/src/scan`, `metadata`) | files and items | walk, probe, match, reconcile | roots that vanish | a missing root never prunes the library |
| Playback decision (`plurx-core/src/playback`, `transcode`) | none (pure) | decide, build arguments | case analysis | not concurrent; unit-tested |
| Subtitles, PGS overlay (`plurxd/src/subtitles.rs`, `pgs_overlay.rs`, `plurx-pgs`) | extraction caches | extract, render | bitmap formats | not modelled |
| fMP4 and segmenting (`plurx-core/src/fmp4`, `plurxd/src/copyseg.rs`) | parser state | box parsing, cutting | byte formats | not modelled |
| HTTP surface (`plurxd/src/http`) | none of its own | handlers over the components above | - | modelled where a handler drives a component |
| Clients, web UI, scripts, vendored crates | - | - | - | not modelled |

How they meet: every job that may run on one node of a cluster only (scans, artwork,
cache production, backups) takes a *job lease* and publishes through its *fence*; the
*job manager* decides which job to start; a player's beats reach the store through
the *coalescer*; a *transcode session* gets its permit from *admission*, which parks
the *cache production* that fills the *cache*; *offline packages* are rows that cache
production turns into entries and the *cache keeper* must spare; all of them share one
*store*, SQLite or replicated, whose calls are the atomic steps of the models.

## 2. Modules

| Module | Models | Proofs in | Runs |
|---|---|---|---|
| `LeaseRow` | the row of a lease and the conditional statements on it | - | through `ClusterJob` |
| `ClusterJob` | `ActiveJobLease`, its heartbeat, `PublicationFence`, requests in flight | `ClusterJob_proofs` | `cluster_job` |
| `ExclusivePublisher` | abstract: numbered epochs, the latest one publishes | refined by `ClusterJob` | `cluster_job` |
| `ProgressCoalescer` | `put`, `flush_loop`, `drain`, the sweep, shutdown | `ProgressCoalescer_proofs` | `progress_coalescer` |
| `Admission` | `PermitState`, its guards, live starts, downgrade, retirement, producers | `Transcode_proofs` | `admission` |
| `TranscodeCache` | cache rows, directories, the producer, the keeper, readers | `OfflinePackages_proofs` | through `OfflinePackages` |
| `OfflinePackages` | the coordinator, package rows, cancellation, kill switch, restarts, over `TranscodeCache` | `OfflinePackages_proofs` | `offline_*` |
| `SessionProducer` | `Session`: its child and the tasks that watch, replace, hold, judge and end it | `Transcode_proofs` | through `SessionRequests` |
| `SessionRequests` | `create_session`, `claim_request`, `reap_superseded`, over `SessionProducer` | `Transcode_proofs` | `transcode_sessions` |
| `ScanRequests` | full and targeted scans of a library, the queue and its drains | `ScanRequests_proofs` | `scan_requests` |
| `DataDirectory` | `select_daemon_store`: activation, readdress, recovery, start-up, over a directory with crashes and power losses | `DataDirectory_proofs` | `data_directory` |
| `DurableStore` | abstract: one set of answered writes that only grows | refined by `DataDirectory` | `data_directory` |
| `NodeRemoval` | `remove_voter`, `leave_voter`, the source probes, beside clients and producers | `NodeRemoval_proofs` | `node_removal` |
| `WatchedOutbox` | the outbox, the claimed batches of every node, posts and settlements | `Integrations_proofs` | `watched_outbox` |
| `DeliveryLedger` | abstract: attempts counted one by one, a settled row stays settled | refined by `WatchedOutbox` | `watched_outbox` |
| `TraktLink` | one account's rotating token and its callers | `Integrations_proofs` | `trakt_link` |
| `TraktSync` | the two-way sync of an account, beside scrobbles, marks and other devices | `Integrations_proofs` | `trakt_sync` |

`MC*` modules give the constants their values; each definition that models code is
listed under `map` in `PROJECT.json` with the lines it stands for. A definition whose
comment begins "Plausible bug" is not part of a specification: it is what one of the
mutations puts in the place of a mapped definition, and the run must then fail.

### ClusterJob and LeaseRow

State: the `job_leases` row; per slot the token behind the fence, the heartbeat's place
in its `select!`, its renewal future, the worker's publication; the requests in flight.
A request is executed once, late or never, and its reply may be lost, because a future
that is dropped does not call back what it sent. Clocks are not related at all: every
reading is any time in `0 .. MaxTime`. Actions are the awaits of `start_with_policy`
(`Beat`, `QueueRenewal`, `SendRenewal`, `RenewalAccepted`, `RenewalFailed`, `Expire`,
`Invalidate`, `StopHeartbeat`), of the publication store (`BeginPublish`, `EndPublish`),
of the job (`Acquire`, `Finish`, `Release`), of the back end (`ExecRenew`, `ExecPublish`,
`ExecRelease`), and `Crash`. The read/write lock of the fence is the predicate
`Writing`: tokio's lock is fair, so a queued writer already keeps readers out.

What makes it correct: one accepted token (`SingleCurrentOwner`), no publication lost
to a renewal of its own job (`NoSelfStalePublication`), a released lease that is dead
even for a caller whose clock stepped back (`ReleasedStaysReleased`), publications in
the order of the grants (`PublishedInFenceOrder`), counters that only move forward
(`RowMovesForward`), and the refinement of `ExclusivePublisher` (`PublisherSpec`:
the epoch is the row's fence). Liveness: `JobEnds`, in `MCClusterJobLive.cfg`.

### ProgressCoalescer

State: the durable rows with an id per write, the map of entries, each entry's fields
as in `Entry`, its worker, the calls of `put` and the shutdown sequence of `main.rs`.
A step that keeps an entry's mutex and calls the store once is one action; `put` calls
it twice and is two. Store errors come with and without the write having happened.
Other writers (`Compete`) change or delete rows. Two tests say whether a beat completes
its item, over different inputs: `put`'s own (`complete`, progress.rs:188-201) decides
that the beat does not wait, the store's (sqlite/watch.rs:116-145, 198-217) sets the mark; in
`WriteBeat` the second is free. A beat is reduced to its key, `complete`,
and the ghost `seen`: how many writes of others its baseline
already contains.

What makes it correct: a waiting beat has its worker and committed row
(`PendingIsServed`: the code calls `expect` on it), the sweep detaches nobody
(`OneEntryPerKey`), a waiting beat never lands over a later write of another
(`StaleBeatNeverLands`), it leaves its entry only for a reason
(`AcceptedBeatAccounted`), one that `put` found completing is not left to a flush
(`CompletingBeatDoesNotWait`), a successful drain with no call running leaves nothing
(`DrainLeavesNothing`), and every beat leaves in the end (`PendingEnds`, in
`MCProgressCoalescerLive.cfg`).

### Admission

State: the seven counters of `PermitState`; who holds a `LiveWait`, `HwSlot` or
`SwPermit`; where each start is (`stage`), its watcher (`watch`), its encoder and who
has `child_transition` (`gate`); each producer's part. What happens under the permit
mutex is atomic, nothing else is. A start chooses its encoder by settings that are
constants of the instance (`Wanted`), and the speed history may answer either way. Not
modelled: the average `record()` keeps; a caller that drops `retire_session` half way is in
`SessionRequests`. Killing a child takes effect at once.

What makes it correct: counters equal the guards alive (`PermitsMatchGuards`), the
hardware cap (`HardwareWithinCap`), the software budget but for forced permits
(`OnlyForceOvercommits`), an encoder in service runs under the permit of its pool
(`EncodersArePaidFor`), no background encoder beside a viewer (`ViewersEncodeAlone`), no
grant to a producer while a start is served (`NoHandoffGap`), producers yield
(`ProducersYield`) and come back (`ProducersComeBack`).

### TranscodeCache and OfflinePackages

State: per recipe the row, the generation its `relative_dir` names, whether it is over
the stale age, whether the library still has the file; per directory `tmp/HASH[-fN]` and
`HASH[-fN]`, generation 0 being the plain name and `N` the fence of a scheduled pass;
the producer (one record, since `background_producer` serialises producers), what each
keeper has listed and has in hand, viewers and their guards; package rows; the
coordinator's step, the kill switch, releases in progress. The coordinator's steps are
the awaits of `OfflineCoordinator::run` and `prepare`; the producer's those of
`produce_normalized`, `produce_into` and `publish_from`; a keeper's those of
`sweep_with_readers` and `sweep_orphan_dirs`. A store call, a rename and a removal of a
directory are one step each. `Crash` clears what is in memory. `Faults` names what may
go wrong in an instance: encoders fail, files vanish, leases are lost, claims age, a
user releases a package, the kill switch is thrown, packages expire, a call of the store fails.
The last (`StoreFails`) is any call of the coordinator, or of the producer on `set_recipe`, look-up,
claim, completion and forgetting; what it asked for may have been done. The coordinator only logs
its failures, and `dropped` keeps the packages that one left "preparing" (its claim, its settlement, the
recovery at boot).

Abstractions: one recipe per file, one node, sizes (a budget pass is over its ceiling or
not), the contents of parts (whole, torn or absent), every pass is its own fence.

What makes it correct: nothing a viewer reads from a package's directory is deleted
(`PlainReadersKeepTheirBytes`), no package is "preparing" in nobody's hands unless a failed
call of the store left it so (`PreparingIsOwned`), ready packages and complete rows have their bytes (`ReadyIsServed`,
`HitHasBytes`), queued packages settle (`QueueMovesUnlessClaimed`). Section 6 says which
of these hold only without passes or sweeps around, and why.

### SessionProducer and SessionRequests

A session has the name of the create that makes it. Its state in `SessionProducer`: whether
the map has it, the child in its slot and how that ended, the first verdict, the permit, the
scratch directory (`dir`: gone, empty, or with a first playlist), whether the motion clock spans
`PROGRESS_STALL` (`still`), the `suspended` flag beside what SIGSTOP did to the child
(`frozen`), who has `child_transition`, and where each task is: the startup watch of a hardware
start with its one downgrade (`ladder`), the reader of a copy, the watchdog, a playlist request
that judges the producer, `retire_session`, and any number of runs of `apply_ahead_window`
(`flow`). Each await under the gate or between a look and its consequence separates two
actions. ffmpeg is external: it publishes, finishes, breaks, wedges, and fails without its directory.

`SessionRequests` has the table of request ids and for each create its step, the sessions its
supersession listed, the live sessions it read last. A caller may vanish at any await
(`Abandon`); what its future holds goes with it: a reservation, a producer not yet registered,
but not a session that is in the map, which then has no tasks until the idle reaper finds it
(`ReapIdle`). Permits are only which pool a session occupies; who gets one is `Admission`. Left out:
the arithmetic of the ahead window (any producer with a playlist may be held, and let go), the
serving and retention of segments, the deadline `INFLIGHT_WAIT` (creates end without it), a
playlist request beside another.

What makes it correct: a request id is reserved anew only when nothing of the same intent works
or lives (`ReplayFindsItsSession`), a session is failed for what its child did and not for what
the server did to it (`VerdictsAreTrue`), a retired copy or software session never encodes again
(`RetiredIsQuiet`), a wedged encoder does not stay in a live session (`StallIsNoticed`), a
retired one loses encoder and permit (`EndedIsReleased`), and creates end (`CreateEnds`).

### ScanRequests

State: `running` (the status of the library), its lease, the `pending` queue, what each
drainer (the task of a full scan, or the retry loop) does next and has in hand, each
request's handler and record. Each await of `trigger`, `request_scan`,
`drain_pending_once` and `schedule_pending_retry` separates two actions, except where
only the handler's own record is touched in between. A handler is a future its caller
may drop (`Abandon`): its lease is then not released but runs out. `Lapse` is a lease
that runs out under its owner. The history `late` marks requests that are queued, or left
in the queue, when nobody is going to drain it. Left out: what a scan does, the ring
of 256 records, the grouping of requests by path (they share a scan and are recorded
one by one, as in the model).

What makes it correct: what waits is attended to (`PendingIsServed`) and answered in the
end (`PendingIsAnswered`), an answer is not overwritten but by the handler's own late
"queued" (`AnswerStays`), a request waits in one place (`WaitsOnce`), one full scan runs at
a time (`OneFullScan`); the last two are theorems.

### DataDirectory and DurableStore

State: `plurx.db` (its rows), three *targets* (a target is one Hiqlite directory: the rows
of its state machine, the rows its Raft log can rebuild, its marker, Hiqlite's lock file, the
address its Raft membership names), the names of the data directory that point to them,
and `pc`, the step of `select_daemon_store` the process is at. What the code writes into
the directory goes through `Change`, which also keeps in `behind` every earlier state of
the directory since the last sync: `PowerLoss` goes back to one of them, `Crash` to none.
Each rename, sync, removal and file that is written is an action; the recovery of an
interrupted readdress is read from the record and the names that exist, as in the code.
Hiqlite is external and modelled by what migration.rs:920-934 says of it: it locks a target it
runs from and, finding one locked, rebuilds the rows from the log and its snapshots
(`Healed`). Rows are writes, the instance id and the row of an admitted peer; the import
copies all of them or fails. The comment at migration.rs:924-925 says that it bypasses Raft;
`hiqlite_import.rs` runs it through the client's transactions, so the model puts the imported
rows in the log, and the log loses them only in a readdress. Left out: `join_fresh_store`, the daemon lock, table hashes.

What makes it correct: the rows of the authoritative store never change but by a client's
write (`OneStore`, the refinement of `DurableStore`; `StoreOf` says which directory is
authoritative), a voter runs at the address everything names (`AddressesAgree`), a boot on
SQLite leaves nothing that makes the next boot another (`RecoveryBootIsConsumed`), and the
daemon serves again and again unless one of three named conditions needs the operator
(`ServesUnlessParked`).

### NodeRemoval

State: the rows of `offline_packages` (state, owner, recipe), `offline_source_probes`, what each
node's source prober is reading, each producer's work, the bytes on each node, downloads,
the Raft voters, tombstones, and for each removal its step and everything it has read. A
statement or transaction of `hiqlite_durable.rs` is one action and so is each await of
`settle_offline_work`, `resolve_offline_work`, `change_membership` and what follows the commit;
statements carry the WHERE they have, and a producer that lost its package still runs its
own. Raft is a set of voters that a change replaces or refuses; who leads it is left out
(`Handoff` only takes time). `Interrupted` drops a removal before its commit; `HalfwaySpec` adds
what can fail after it.

What makes it correct: `NothingStranded`, `ReadyBytesAtOwner`, `MovedOnlyToReaders`,
`DownloadsAreNotCut`.

### WatchedOutbox and DeliveryLedger

State: the columns of `watched_outbox`; per node the batch in memory, the claim and attempts it
came with, the post in flight and how long it has taken. Times are *relative*: a deadline
is how many seconds lie before it and `TimePasses` moves all of them, which makes the state space
finite without a bound on time. A deadline further back than a batch can last stays at
`Past`: two claims that were different stay different as long as somebody compares them
(which the theorem `KeepsTheLedger` shows, it is what `Early` is for). A post takes any time up to its
timeout; monarr may have taken what looks failed. A settlement may be lost, a node may
crash between a post and its settlement, an admin may unpair monarr in between.

What makes it correct: `ClaimHasOneHolder`, `LedgerSpec`, `EveryNotificationEnds`.

### TraktLink and TraktSync

`TraktLink` has the row of `trakt_auth` and any number of callers of `access()`; a token is its
number, and Trakt keeps the set of tokens it takes (`live`): a refresh makes one useless and
issues the next, also when its answer is lost. What makes it correct: `LiveTokenIsKept`.

`TraktSync` has the passes of each node, one action per call they make (`sync_user_inner`), and
`plan_sync` as the operator `Plan`; the rows of the items with `watched` and `updated_at`, Trakt's history
and playback, the scrobble session of an item, the last sync and its activities. The
user marks, un-marks and plays here, watches, pauses and forgets elsewhere, unlinks and
links anew. A player that was offline replays what it recorded (`Replay`: a past `updated_at`, never over
a newer row), plays may be entered at Trakt with a past date (`DeviceWatch`), and an older play may remain
when the newest is removed (`DeviceForget`). The strings of `last_activities` are only compared, so a copy of one is TRUE while it
is what Trakt would answer. A pass may break off at any call. `missed` and `hidden` are history
variables: what changed under a pass, and what changed while any ran or with a date that is not after
`last_sync_at`, until an undisturbed pass. What makes it correct: `SkipIsSafe` (the gate hides
no difference of the other items), `NothingErased`, `UnwatchStands` (an un-watch newer than the last
sync the pass began from and than the watch of Trakt is not overridden), and `ChangesArrive` for
liveness.

## 3. Runs, bounds and fairness

| Run | Configuration | Instance | Checks |
|---|---|---|---|
| `cluster_job` | `MCClusterJob.cfg` | two job slots of one process (their owner id does not tell them apart), other owners through the row, 3 grants or revisions, clock readings 0..2, TTL 2 | `SingleCurrentOwner`, `NoSelfStalePublication`, the refinement of `ExclusivePublisher` |
| `progress_coalescer` | `MCProgressCoalescer.cfg` | two keys, two calls, two entries, `SweepAt = 1`, 3 beats, 1 foreign write, 2 attempts | the safety properties but type correctness |
| `admission` | `MCAdmission.cfg` | two starts that may choose either pool and do not fit beside each other in software, one producer in each pool, one hardware slot | the safety properties, `ProducersYield` |
| `offline_readers` | `MCOfflinePackages.cfg` | a package, a keeper, a viewer, one scheduled pass; files vanish, claims age, leases are lost, the package is released | `PlainReadersKeepTheirBytes` |
| `offline_queue` | `MCOfflineQueue.cfg` | two packages of one recipe and two users; encoders fail, files vanish, the switch is thrown, packages are released and expire, calls of the store fail; one crash | `PreparingIsOwned`, `ReadyIsServed`, `QueueMovesUnlessClaimed` |
| `scan_requests` | `MCScanRequests.cfg` | two requests, two tasks of full scans, a queue of one, two grants to others; the store fails, callers go away | `PendingIsServed`, `PendingIsAnswered` |
| `data_directory` | `MCDataDirectory.cfg` | one write, one address besides the loopback, two changes of the configuration, three faults out of crashes, power losses, failed steps and a moved target | `AddressesAgree`, `RecoveryBootIsConsumed`, the refinement of `DurableStore`, `ServesUnlessParked` |
| `node_removal` | `MCNodeRemoval.cfg` | three nodes, one of which joins, with two encoders, a package, one removal of three rounds that is dropped once or not | `NothingStranded`, `ReadyBytesAtOwner`, `DownloadsAreNotCut` |
| `watched_outbox` | `MCWatchedOutbox.cfg` | two nodes, two notifications, batches of two posts of two seconds under a claim of three, two attempts, one fault | `ClaimHasOneHolder`, the refinement of `DeliveryLedger`, `EveryNotificationEnds` |
| `trakt_link` | `MCTraktLink.cfg` | three callers, four tokens, two faults | `LiveTokenIsKept` |
| `trakt_sync` | `MCTraktSync.cfg` | two nodes, one item, three seconds, two changes of any kind, one pass that breaks off | `SkipIsSafe`, `NothingErased`, `UnwatchStands` |
| `transcode_sessions` | `MCSessionRequests.cfg` | eight scenes: one session of each kind that may be held once; a hardware or copy session that is superseded; a repeat beside a new create, a stall reopen, an id used for something else | `RetiredIsQuiet`, `ReplayFindsItsSession`, `VerdictsAreTrue`, `StallIsNoticed`, `EndedIsReleased`, `CreateEnds` |

`PermitsMatchGuards` of `Admission`, `AnswerStays` of `ScanRequests`, `MovedOnlyToReaders` of `NodeRemoval`
and every `TypeOK` pass too when they are added to their configurations. They are left out of the
runs because they are proved (Section 4) or follow the shape of the code closely.

Two more configurations pass and are kept for the liveness they check:
`MCClusterJobLive.cfg` (one slot; `JobEnds`) and `MCProgressCoalescerLive.cfg` (one key, one call, 3
beats; `PendingEnds`). Of `TraktSync`, `ChangesArrive` passes under `FairSpec` with one node and no
symmetry, and the safety properties with two items and one change.

Why these bounds are enough to be worth something:

* `ClusterJob`. Three counter values give a grant, a renewal and a takeover, so that a
  token can be one revision or one fence behind while its late requests are still on
  their way. The clock readings are unrelated, so 0..2 with a TTL of 2 already holds
  every comparison: expired, current, stepped back. Two slots with the *same* owner id
  are the harder case: only the fence tells their tokens apart.
* `ProgressCoalescer`. `SweepAt = 1` makes every `put` of a second key sweep, so entries
  are detached and reused all the time (the code's 1024 would never be reached). Three
  beats are one that opens the window, one that waits and one that replaces it or
  completes the item. Keys, calls and entries are symmetric in every safety property;
  the run with liveness uses no symmetry.
* `Admission`. The spill, the forced overcommit, the hand-off gap between the permit of a
  viewer and the next part of a producer, and a downgrade racing a retirement all occur
  with two starts and two producers. Nothing is bounded but the number of actors.
* `OfflinePackages`. `MaxFence` counts the scheduled passes with a name of their own;
  one pass is enough to leave an incomplete row and parts under another name.
  Faults are divided between two runs: the readers' run has a keeper and a viewer, the
  queue's run has crashes and two users who share an entry. Together in one instance
  they do not fit, and Section 6 shows what their combination breaks.
* `SessionRequests`. What the creates ask for is a constant that varies: `Init` chooses one scene
  of `MainScenes`, so that each pair of behaviours meets without the product of all of them. One
  create is enough for the tasks of a producer, whose sessions are independent; two for a session
  that is superseded while its tasks act; three for two repeats of which one comes back after the
  session was superseded by somebody else's create. The number of holds is the one bound, and
  one flow-control caller the one restriction; Section 6 shows what two do.
* `ScanRequests`. A queue of one is at its limit with the second request; two tasks let
  a new full scan start while the previous one drains. `MaxGrants` bounds how often
  another node takes the lease, the one unbounded thing in the system.
* `DataDirectory`. Every name has a target of its own, so three targets are as many as there
  can be. Three faults are a crash in a recovery from a crash in a readdress; the two changes
  bring an address and take it away. The state space is that of one process: nothing but
  faults and changes is bounded.
* `NodeRemoval`. Three rounds are one that moves the package, one that finds another that
  arrived meanwhile, and one that finds nothing; the code has the same loop with more. The
  node that joins answers probes and takes packages. The `VIEW` leaves out `proved` and
  `fresh`, the record of which answers were read after the last question: no step reads
  them and none of the run's properties does, only `MovedOnFreshProof` of Section 6.
* `WatchedOutbox`. A claim of 3 seconds on a batch that may take 4 is what 60 seconds are to
  twenty posts of ten: the last post may begin under a claim that has run out and been
  taken by the other node.
* `TraktLink`. Three callers: one that wins the refresh, one that lost it, and one whose
  answer is lost; four tokens let the user link anew and the race begin again.
* `TraktSync`. One item is enough for the gate and the plan, which treat items one by one (the
  instance with two shows nothing else); two nodes, because a node keeps its own passes
  apart. Three seconds are one for the state before a pass, one for the pass and one after:
  a replay or a foreign play after the pass can be older than it, of its second, or newer.

`CHECK_DEADLOCK FALSE` stands where the modelled system really may stop: the counters of
`ClusterJob` are used up, `ProgressCoalescer` exits or has no beat left,
`ScanRequests` has one-shot requests, `NodeRemoval` may end with nobody left to remove,
`TraktLink` and `TraktSync` reach the end of their tokens and of their time,
`SessionRequests` has creates that end.
`Admission`, the `offline_*` runs, `DataDirectory` and `WatchedOutbox` check it.

**Fairness.** A weak fairness condition says one of three things: a tokio task that is
ready is polled, a store call that was sent returns (with or without success), an
encoder that was started ends. To these `ScanRequests` adds that a lease held by nobody
of this node is given back or runs out. `DataDirectory` is the start-up of a supervised
process: a step of it that is enabled is taken, the boot after a crash too. `WatchedOutbox` adds that
time passes (`TimePasses`), and `TraktSync` in its extra instance that the sync loop comes back.
`SessionRequests` adds that time passes for a motionless child and that the idle reaper comes to
a session whose client is gone; all its conditions are weak: a waiter for `child_transition` needs
it to be free for good, which the tasks' finite work gives it.
No user, operator, failure or crash is fair. The strong ones:

* `SF(Finish)` in `ClusterJob`: a job computes for a finite time; its publications may
  interrupt it any number of times, but it does not publish for ever.
* `SF(EncodeFinishes \/ (~Whole /\ EncodeFails))` in `OfflinePackages`: an encoder that
  is stopped and started again any number of times ends some time, in a part or in an
  error, since each part that is finished is kept and the rest is shorter.
* `SF(ClaimNext)` and `SF(Prepare)` in `OfflinePackages`: a coordinator whose call of the store
  failed asks again two seconds later, and the store does not refuse every one of its claims and
  look-ups for ever. A settlement that fails is not asked again, and is excepted.
* `SF(Granted(Loop))` in `ScanRequests`: the retry loop asks for the lease every few
  seconds and other holders let go of it; it does not find it taken on every single
  attempt. Without this the loop may always lose, and the code promises nothing.

## 4. Proofs

The theorems hold for every value of the constants that satisfies the named
assumptions: any number of jobs, nodes, keys, calls, entries, starts, producers, requests
and tasks, any weight of an encoder, any cap. The assumptions say only that names that
stand for different things differ, that sets which are counted are finite, and that
bounds are natural numbers.

**`ClusterJob_proofs`** (`LeaseAssumption`, `JobAssumption`). Type correctness needs
`HeartbeatInv`: a running heartbeat has a token, a positive reply a lease. The
safety properties follow from `TokenFacts`:

* `TokenInv`: every token anybody holds, in a fence, in a request or in a reply, is
  behind the row in fence and revision, is *equal* to the row's lease where fence and
  revision are equal, and is never the row once that is released. This is the part that
  `SingleCurrentOwner` and `ReleasedStaysReleased` lack: both speak of tokens held, and
  tokens come out of requests that were sent long ago.
* `FenceOwnerInv`: two slots with tokens of the same fence are one slot.
* `HistoryInv`: nothing was published by a fence the row has not reached.

A step either leaves the row alone, replaces it by its owner (`RowReplaced`) or grants it
(`RowGranted`); the three lemmas are the whole argument. `SingleOwner`, `ReleaseIsFinal`,
`FenceOrder` and `CountersMoveForward` follow; `ImplementsPublisher` maps each step to a
step of `ExclusivePublisher` or to a stutter. `PublicationsStayFresh` needs the job's side as
well (`SelfInv`): while a publication is out, the read lock keeps the renewal in its queue
(`LocksInv`); of all requests still in flight at most one renews the very token of the
job, and the job awaits it or has left it behind by ending (`RequestInv`); so the token is the
row unless the row is a reply not yet looked at (`RowInv`, `AnswerInv`).

**`ProgressCoalescer_proofs`** (`CoalescerAssumption`). In layers: types, with
`AttemptInv` and `CallInv`; `MapInv` (an entry in use is the entry of its key in the
map: what the sweep tests, a strong count of one, has to imply nobody uses it) and
`EntryInv`; from these `WaitingBeatIsServed` and `NobodyIsDetached`. Then `IdInv` (every
remembered row is one that was written), `SeenInv` (if the row is still the one a beat
will be compared to, then no foreign write happened since that beat was judged) and
`NumberInv` (a beat is in one place), from which `NoStaleBeat`,
`CompletionIsNotDeferred` and `NoBeatVanishes`. `DrainIsComplete` adds `DrainInv`:
with no late call, what waits is on the list the drain works through.

**`Transcode_proofs`** is about both parts of transcode.rs; their variables differ, and the theorems of one say nothing
of the other. The permits (`AdmissionAssumption`): `CountInv` ties the counters of `PermitState`
to the guards alive; `StartInv` and `SwapInv` say which guards a start holds by how far
it and its watcher have come; `ProducerInv` the same for producers; `AloneInv` that no
producer has a permit beside a start that is served. `CapHolds` and
`NoBackgroundBesideViewers` need all of them, because `try_acquire` looks at counters
and the properties speak of guards; `SessionsArePaidFor` is `StartInv` and `SwapInv` read
for the encoder in service, `HandoffIsClosed` an action property of the same invariant.
`NothingLeaks` and `BudgetHolds` are about sums of weights. What a fold over a finite set
returns is a fact about a recursive definition; here it is not proved by induction over
sets but by taking, among the sets the fold would be wrong for, one of least size
(`UnfoldingExists` and the lemmas before it). With the weight of a set with one member
more or less, `SumInv` (every reserved thread belongs to a guard) goes through step by step.

The sessions (`ProducerAssumption`). `Base` has the types, `Gated` (whoever holds `child_transition` is at the
step that took it, and a retirement holds it to its end) and `Phased` (what a create has made of its
session by how far it is); `SessionTypesHold` is read off it. Each task is shown to keep what is known of the
record of its session (`Kept`), the creates and the flow control to keep it for all.

* `RetirementIsQuiet` adds `Silent`: a copy or a software session has no running child between the
  kill and the end of its retirement, nor after. It has the hypothesis `"cut" \notin Faults`: Section 6 shows
  what a create cut off between the two leaves behind.
* `VerdictsHold` adds `Judged` (what is killed in a live session was killed under a gate that is still held, and
  what a watchdog has killed was wedged) and `Timed`: a motion clock that stands still on a producer that is
  not suspended is that of a wedged one, and while SIGSTOP is out without the flag, a run of the
  flow control is about to store it. It has the hypothesis that there is one such run at a time: with two,
  Section 6 shows a false verdict.
* `OneCreateWorks` and `ReplayHolds` are about the request ids. `Ledger` says what an entry means: an id in flight
  is that of the one create that works with it (`Booked`), a ready one has a create that
  finished (`Finished`), and a repeat that is told of a session, or is about to forget it, was told so by one
  (`Found`). `Remembers` is the converse: a session that serves is in the table, and in the list
  by which a completion is about to prune it. Only a second create that completes in between
  breaks that, which is the hypothesis of `ReplayHolds` (`CompleteApart`) and the entry of Section 6.

**`ScanRequests_proofs`** (`ScanAssumption`). Types and the cap of the queue (`Capped`, with the
finite-set theorems); `PendingIsServed` is inductive with the types;
`AnswersStay` needs `Waits`: a request in the queue or in a drainer's hand is not
answered, its handler will not answer it, and it is in one place only (which is
`NobodyWaitsTwice`). `OneScanAtATime` is inductive with the types.

**`DataDirectory_proofs`** (the assumptions of `DataDirectory`, and `NoLoneCrash`: no crash meets a sole voter
with an admitted peer, the state Section 6 shows the code loses). The invariant is about
every directory a power loss may leave (`Recoverable`): its names are different targets, it
has the same writes as the one the process sees, and a parked target has its record. To
it come `BeforeActivation` (SQLite is the authority only while nothing is recorded),
`Shelved`, and what the process knows at each step. `OneStoreRefinement` shows that every step keeps
or extends the writes of `StoreOf(dir)`; a power loss does because all of `behind` agree.
Types, `AddressAgreement` and `RecoveryBootConsumption` are read off the invariant.

**`NodeRemoval_proofs`** (the assumptions of `NodeRemoval`, and `OneAtATime`: `Removals` has one element, because
Section 6 shows that two removals strand a package). `Knowledge` says what a removal knows
at each await: of the nodes it asked (`KnowsReaders`: an answer it has seen is still there when it
moves the package, unless the package is gone), of its target (`KnowsTarget`: when it
commits nothing unresolved is left but what it will read again behind the tombstone), of
downloads (`KnowsDownloads`). `ReadyIsWhereItSays` and `TypesHold` need none of this and hold for any
number of removals.

**`OfflinePackages_proofs`** (`CacheAssumption`, `PackageAssumption`). `ReadersAreServed` holds with any
number of sweeps, viewers and passes: a sweep removes what is published only under the guard
that a reader of the recipe keeps from it, and whoever reads a plain directory has that guard.
`NobodyIsForgotten` follows the coordinator through its loop: only it makes a package
"preparing", and it settles it, or dies and requeues it, or has a call of the store fail, which is
the one way a package is left behind. `ReadyCanBeDownloaded` has a
hypothesis, `Keepers = {} /\ MaxFence = 0`: no sweeps and no scheduled passes, which is
what the run `offline_queue` has and what Section 6 shows it needs. Its invariant
`AloneInv`: the coordinator's producer is the only one (`HeldInv`), the row it works on is
its own from the claim to the end and a complete row has its file (`RowInv`).
`CacheAssumption` wants at least one recipe and one package, because `current` is some package.

**`Integrations_proofs`** is about the three modules of the integrations (in `WatchedOutbox` and `TraktLink` the
names that all three would have, `Init` and `Next` among them, begin with `Outbox` and `Link`).

* The outbox (`OutboxAssumption`). `Early`: the claim of a batch does not fall to `Past` before the
  batch can have ended, so that equality of claims means what it means for timestamps;
  `Held`: a node whose batch came with the claim the row still has knows its attempts, and
  while that claim is ahead nobody else takes the row; `Apart` and `Counted` are bookkeeping.
  `OneHolder` and the refinement `KeepsTheLedger` follow.
* The link (`LinkAssumption`). `Numbered` (tokens are not used twice) and `Spent` (the token a
  caller is about to replace or drop was dead when it got there, and dead tokens stay dead):
  the compare in the store then spares every other token (`CallersKeepLiveTokens`).
* The sync (the assumption of `TraktSync`: any items, nodes and times). `Recent`: no
  time is of the future (`NothingIsOfTheFuture`). `Told`:
  what changes an item during a pass (`hidden`) is known to each pass that overlaps it (`missed`).
  `PassInv` says, for an item that nobody but other passes has touched, what a pass may still hold about
  it at each of its calls: what it read is what is there, or what another pass made of it
  (`SeenFits`, `RemoteFits`), and its plan fits the rows it will write (`PlanFits`). `SyncInv` says
  what the last sync and its activities promise about an item: an un-watch that Trakt does not have
  is newer than it, and where a pass may skip, both sides agree. Each of them is needed for
  the other: a pass that ends moves the last sync for all later ones. `HiddenInv` says of a hidden
  item that did not change under a pass that it is as the pass read it, because no other pass runs.
  `SkippingIsSafe` is read off `SyncInv`, `PassesNeverErase` off `PassInv` and `UnwatchesStand` off
  `PassInv` and `HiddenInv` at the action `Pull`. The longest part is
  the lemmas about one item: what a write of one pass means for each of the others.

Type invariants that no run lists (`ClusterJob`, `ProgressCoalescer`, `Admission`, `ScanRequests`, `DataDirectory`,
`NodeRemoval`, `OfflinePackages`, `SessionRequests`, `WatchedOutbox`, `TraktLink`, `TraktSync`) are theorems, as are `AnswersStay`, `PackagesGoToReaders`, `ReleaseIsFinal`, `FenceOrder`, `CountersMoveForward`,
`CompletionIsNotDeferred`, `NobodyWaitsTwice` and `OneScanAtATime`: TLC adds nothing to them.

## 5. Only model-checked

* Liveness: `JobEnds`, `PendingEnds`, `ProducersYield`, `QueueMovesUnlessClaimed`,
  `PendingIsAnswered`, `ServesUnlessParked`, `EveryNotificationEnds`, `ChangesArrive`, `StallIsNoticed`,
  `EndedIsReleased`, `CreateEnds`. The prover does
  not treat fairness.
* Everything under the configurations of Section 6, whose properties are false.

## 6. What the code does against its own words

Each of these states what a comment or a document says, and TLC shows that the code does
otherwise. Most have a configuration of their own beside the runs'; the rest differ from one by
the property and the constants that are named. TLC finds each in
seconds.

**Playing an item removes it from Trakt's history** (`MCTraktSyncBeat.cfg`, `HistoryKept`,
`plurx-core/src/trakt.rs:176`). `plan_sync` takes every unwatched row that is newer than the remote watch
and than the last sync for an un-watch. A progress beat, or a resume from another device,
writes just such a row: an item watched elsewhere and begun here is removed from Trakt's
history by the next pass, and by the very first one after linking, whose last sync is 0. FEATURES.md:576
and trakt.rs:153 speak of an explicit un-watch.

**What was watched offline may never reach Trakt** (`EveryChangeArrives` with only `"replay"`,
`plurxd/src/trakt.rs:562`). The gate calls this side dirty when a row's `updated_at` is after
`last_sync_at`. A replay of offline progress keeps the time it was recorded (sqlite/watch.rs:147): a
play that was finished before the last sync and sent after it leaves a watched row which the gate
takes for an old one, no pass plans again until something else changes, and Trakt does not learn of
it: "nothing changed on either side" (trakt.rs:571). `SkipIsSafe` is stated for the items that
no such date touched; `ChangesArrive` likewise.

**The expiry arm of a heartbeat deadlocks** (`MCClusterJobExpiry.cfg`,
`plurxd/src/state.rs:737`). The renewal is a future pinned outside the `select!`. When the
lease's deadline wins, the arm awaits `heartbeat_fence.invalidate(..)`, which needs
the write lock of the fence; the renewal, not dropped and no longer polled, holds that
lock or is first in its queue. `invalidate` does not return, `lost` is never cancelled,
every later publication and `release()` of the job wait for the same lock. `JobEnds` says
that this is the *only* way a job does not end.

**A downgrade starts an encoder for a retired session** (`MCAdmission.cfg` under
`Spec` with `RetiredRunsNothing`, `MCSessionRequests.cfg` under `SessionSpec` with
`LateReplacementSeesRetired`, `plurxd/src/transcode.rs:6285`). `downgrade_one_step` waits for
`child_transition`; if `retire_session` held it first, the downgrade kills nothing, spawns the successor and, on the software path, takes a forced permit, for a session nobody can
reach any more. transcode.rs:6858 says that "a late replacement sees `retired`"; the copy path looks
at it (`RetiredIsQuiet`), this one does not. The scratch directory is gone by then, so that the encoder
fails when it opens its first segment, and the permit goes back with the session: `EndedIsReleased`.

**A package behind a claim that is not its own waits until it expires**
(`MCOfflineBehindPass.cfg`, `plurxd/src/transcode.rs:4391`). The claim of a row is `DO NOTHING` on
conflict and an attempt that did not win it resumes only if `tmp/HASH` is there. Three
histories lead to a claimed row without that directory: a scheduled pass with parts under
`tmp/HASH-fN` yields to the package; the process stops between the claim and
`create_dir_all`; the package that made the claim is cancelled at
that point and another user asks for the same recipe. Each attempt then ends
`ClaimedElsewhere`, the package goes back to the queue every two seconds, and the sweep of
stale claims spares the row because a queued package needs it. A call of the producer that fails
after the claim was taken leaves the same row. `QueueMovesUnlessClaimed` says that a package waits for
ever in one other way only, while the switch is on: a call of the store that leaves it preparing.

**A package whose settlement failed is preparing until the next restart**
(`plurxd/src/offline.rs:622-692`). `publish_ready`, `requeue` and `fail` log an error of the store and the
loop goes on to the next package; so does a claim that was made and not answered. No call of this
process looks at a "preparing" row again, and a release by its user or its expiry is the only way out before
`reset_interrupted_offline_packages` of the next start. If that one fails (374-386), the coordinator runs
all the same and the packages wait for another restart. `PreparingIsOwned` and `QueueMovesUnlessClaimed` except
what such a failure left, `dropped`; `StartupRequeues` does not, and fails.

**A targeted scan is queued when nobody will drain it** (`MCScanRequestsLate.cfg`,
`plurxd/src/state.rs:1060`). Between the look at `running` and the push onto the queue, the
running scan may end and drain an empty queue. The branch for a contended lease
starts the retry loop; the branch for a busy library does not. The request remains
"queued" until another scan of that library. In the same gap the handler writes "queued"
over an answer the drain may already have recorded (`state.rs:1065`). The runs that
pass count such requests in `late` and show that every *other* request is served and
answered.

**A removal that fails after its commit cannot be repeated** (`MCNodeRemovalHalf.cfg`,
`plurx-core/src/cluster/membership.rs:885`). membership.rs:869-872 says that offline work is resolved first because "a
removal that half-commits leaves packages owned by a node that no longer exists", "strictly
worse than refusing". The process, the store or the answer may fail between the
commit and the tombstone. The roster then no longer has the node, a second call is answered
`NodeNotFound`, and what was requested on it since the last count stays in its name.

**A sole voter that dies during a readdress does not come back**
(`MCDataDirectoryParked.cfg`, `plurx-core/src/cluster/migration.rs:999`). migration.rs:928-931 says that the repair "turns that
into an ordinary crash recovery". A crash between the start of a readdressed voter and
`finish_readdress` leaves the parked target and the lock; each later boot must readdress
and refuses to, because the recovery directory already exists.

**A sole voter with an admitted peer loses its rows** (`MCDataDirectoryLone.cfg`,
`plurx-core/src/cluster/migration.rs:978`). `redeem` inserts a row for a peer before it has joined, and the row
outlives the voter until its tombstone. When the only real voter dies in that state, the repair is
skipped for the peer's sake and the rows of a target that was rebuilt without its log are
lost. migration.rs:933 says "a node with peers is left to Hiqlite, whose catch-up from the
leader is the correct recovery there": there is no leader.

**A node drops the link another has just renewed** (`MCTraktLinkRace.cfg`,
`plurx-core/src/store/mod.rs:858`). "Delete a rejected OAuth link only if no other voter has already rotated
the refresh token": the loser of a refresh is refused by Trakt and deletes the row before the winner
has stored its new token; the winner then finds no row to update.

The other counterexamples. They explain why the properties of Section 2 are stated as they are.

| Configuration, or what to change | Property it violates | What happens |
|---|---|---|
| `MCProgressCoalescer.cfg` with one key, one call, two beats, no moves | `DrainFlushesEveryBeat` | a `put` still running at shutdown accepts a beat after the drain has passed its entry; `DrainLeavesNothing` therefore speaks of drains with no call running |
| the same | `CompletionIsSynchronous` | progress.rs:6 "A newly completed item bypasses the wait so its watched transition and notification stay synchronous": `put` tests the position against the duration in the committed row, or the longest file's; the store tests it against the files it finds when it writes (their sum, for an audiobook). A beat that was not completing by the first may be by the second when it is flushed, and the item is marked with no call to notify. docs/PR90-CLUSTERING-M1D-REVIEW.md:238 saw it happen after a re-probe |
| `MCOfflineQueue.cfg` with one package, no faults, one crash | `QueueMoves` | the crash between the claim and the directory, above |
| `MCOfflineQueue.cfg` with `Spec`, one package, `MaxFence = 1`, no faults or crashes | `ReadyIsServed` | a package yields with its parts in `tmp/HASH`; a pass takes the claim over and the row now names `HASH-fN`; it yields too, and the package resumes, publishes `HASH` and completes the row, which names a directory that is not there |
| the same with two recipes, no package, a keeper, a viewer, `MaxFence = 2`, files that vanish | `ReadersKeepTheirBytes` | the orphan pass knows readers by `HASH`, not by `HASH-fN`: a fenced directory whose row has gone is removed under its reader |
| the same with one recipe, no viewer, `MaxFence = 1`, no faults, one crash | `HitHasBytes` | `forget` removes the directory before the row; a crash between the two leaves a hit without bytes |
| the same with two recipes, `MaxFence = 2`, no crash | `HitHasBytes` | the orphan pass lists the rows before the directories; an entry that a newer pass claimed and published in between, under a name of its own, is removed as an orphan |
| `MCOfflineQueue.cfg` with `Spec`, one user, a keeper, only `"release"`, no crashes | `SweepsSpareReady` | the budget pass lists an entry no package needs, a new package takes it as a hit and is ready, and the pass evicts what it listed |
| `MCOfflineQueue.cfg` with `Spec`, one package, only `"switch"`, no crashes | `SwitchStopsProducer` | the kill switch cancels producers that are registered; a package claimed just before registers after it, and its producer is not told |
| `MCOfflineQueue.cfg` with `Spec`, one package, only `"store"` | `StartupRequeues` | OFFLINE-VIEWING-PLAN.md:612 "On startup, rows left `preparing` by a process death become `queued`": a recovery that fails is logged and the coordinator starts without it |
| `MCNodeRemoval.cfg` with three founders, two rounds, no faults | `NoDownloadIsCut` | OPERATIONS.md:521 "The removal still refuses while a client is downloading from that node right now": it looks once per round, and a client that begins in the waits that follow is cut |
| `MCNodeRemoval.cfg` with four voters, two removals, two rounds, no faults | `NothingStranded` | OPERATIONS.md:478 "it leaves nothing owned by a machine that no longer exists": one removal moves a package to the node the other removes |
| `MCNodeRemoval.cfg` with three founders of four nodes, two rounds, no faults | `OnlyTheTargetGoes` | the voters are read once; a node that joins during the waits is not among those the change keeps, and is dropped from the membership |
| `MCNodeRemovalHalf.cfg` | `NothingStranded` | the packages of the half removed node, above |
| `MCNodeRemoval.cfg` with three founders, two rounds | `MovedOnFreshProof` | hiqlite_durable.rs:2073 "a non-NULL answer on a row this removal asked for can only be this removal's answer": a prober that began to read for an earlier removal answers the question of this one |
| `MCNodeRemoval.cfg` with three founders, two rounds, no faults | `MovedWorkIsKept` | `set_offline_package_recipe` does not ask for the owner; the old owner's late recipe makes the new owner fail a package OPERATIONS.md:505 says loses nothing |
| `MCWatchedOutbox.cfg` with `OutboxSpec` | `GivenUpForCause` | INTEGRATION.md:457 "`failed` is terminal — the delivery was classified as permanently unfixable": a setting that cannot be read counts as not configured, and transient errors use up the attempts too |
| `MCTraktSync.cfg` with `FairSpec`, one node, only `"unmark"`, no errors | `EveryChangeArrives` | http/watch.rs:134 "an explicit un-watch removes on Trakt too": a pass records the time of its end, so an un-watch made while it ran is older than the last sync and never pushed |
| the same with only `"replay"` | `EveryChangeArrives` | the replay of a play that was finished offline before the last sync, above |
| `MCTraktSync.cfg` with one node, only `"unmark"` and `"watch"`, no errors | `UnwatchWins` | FEATURES.md:576 "a local un-watch that's newer than the remote watch wins": the un-watch that a sync has passed no longer counts as newer (trakt.rs:176 asks for both), so that a play entered later with an older date marks the item again |
| `MCTraktSync.cfg` with one node, only `"mark"`, no errors | `LocalHistoryKept` | trakt.rs:156 "can never erase local history": a resume point that was planned before the user marked the item un-watches it |
| `MCTraktSync.cfg` with one node, only `"play"`, no errors | `StopOnCrossing` | FEATURES.md:566 "crossing plurx's 95% watched threshold": the first beat of an item that is watched already sends the stop, and Trakt records another play |
| `MCSessionRequests.cfg` with `SessionSpec` | `SuccessorIsWatched` | transcode.rs:1260 "without leaving a scheduler-sized gap": a watchdog that saw the copy's child exit leaves the loop, and drops the gate, before it gives its claim back; a fallback in between finds the claim taken, starts no watchdog of its own, and its successor has none |
| the same with two callers and `Scenes <- HeldTwice` | `VerdictsAreTrue` | two requests run the flow control at once: a hold decided before a release sends its SIGSTOP after it, and the release stores `suspended = false`; the watchdog fails a session the server itself has stopped |
| the same with `Scenes <- Beside` | `ReplayFindsItsSession` | transcode.rs:4761 "A repeated `request_id` now returns the same session": a create reads the live sessions and prunes the table with them later; the entry of a session that was registered in between is pruned, and its repeat makes another. In `Beside` the two are of different players; two ids of one player do it too, when both creates are past `reap_superseded` |
| `MCSessionRequests.cfg` with `"cut"` in `Faults` | `EndedIsReleased` | a caller that vanishes in `reap_superseded` between the removal of the old session and its kill leaves the old session's directory, and what still refers to it keeps its encoder |

Three more observations of the same code. Two creates of one player may both list the sessions to
supersede before either registers its own (transcode.rs:5823-5827): both then run. A hardware
session whose renderer has no fallback is killed without the gate (6253-6260), so that a playlist
request may call that an exit before the refusal is recorded; `VerdictsAreTrue` excepts it. And the
tasks of a session are spawned after an await on its start event (6074-6103): a caller that
vanishes there leaves it unwatched until the idle reaper comes, which `StallIsNoticed` relies on.

`ReadyIsServed` is thus a property of a node without passes and sweeps
(`offline_queue`): the coordinator, its crashes and restarts, and several users of one
entry and calls of the store that fail do not break it. `PlainReadersKeepTheirBytes` holds with sweeps and passes around.

A comment also understates the code: membership.rs:1155 says that `create_offline_package` "consults no
tombstone"; the statement in hiqlite_durable.rs (1256-1298) does, and `NothingStranded` depends on it.

## 7. What is not modelled, and why

* Components whose difficulty is not in their states: playback decision and encoder
  arguments, fMP4 parsing, PGS bitmaps, subtitles, metadata matching. Their code is
  sequential and data-heavy; unit tests reach it.
* The store itself. Its calls are atomic steps, as the SQLite write lock and a replicated
  statement make them; a call that fails may have happened or not. Raft and Hiqlite are external.
* Of transcode sessions the serving of segments, their retention, and the bytes of the ahead window;
  join tokens. The latter are within reach and planned below.
* Within modelled components: the history average (`Admission`); sizes and several nodes, the checks of a
  finished file (duration, sidecar) and errors of the store in sweeps and in `touch_cache_claim` (`OfflinePackages`); download leases
  of packages; what a scan does, the ring of old records, and a trigger that is dropped while it waits for
  the list of scans with `running` already set (state.rs:995-1009; a request it leaves behind would be one of
  those `PendingIsServed` excepts, but `OneFullScan` would not hold in that window) (`ScanRequests`); the
  refusal of a repeat that asks for another height, and a playlist that is listed below its start-up cushion
  (transcode.rs:4927, 7052; `SessionRequests`, `SessionProducer`); joining with a
  token file, the daemon lock and what the import verifies (`DataDirectory`); what a
  notification says (`WatchedOutbox`); the device-code dialogue, the match of items to
  Trakt's ids, and replays dated before the first second (`TraktLink`, `TraktSync`). Time is abstract but in `WatchedOutbox` and
  `TraktSync`: a timer may fire at any moment after it is set.

## 8. Plan

Modules, in order:

1. Download leases and quotas of `OfflinePackages`.
2. Join tokens: issue, redeem and expiry, composed with `NodeRemoval`.
3. `join_fresh_store` in `DataDirectory`.

Proofs: every safety property of the runs is a theorem, some under a hypothesis that
Section 6 shows to be needed; Section 5 lists the rest. Next are the theorems that go with the modules above.
