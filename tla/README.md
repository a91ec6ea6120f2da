# A TLA+ verification of kahawai

kahawai is a self-hosted media server in three kinds of process: a **hub**
(accounts, library, playback sessions, HTTP API), **mediahosts** (boxes that own
media files, scan and analyse them, and serve their bytes) and **transcoders**
(boxes that run pipelines for the hub). Satellites dial the hub and keep one
control link open each. This directory holds TLA+ models of the parts where those
processes meet, the TLC runs that check them and the TLAPS proofs about them.
Paths below are relative to `crates/`.

## 1. Inventory

| Component (source) | State it keeps | Operations | What makes it correct |
|---|---|---|---|
| Catalogue journal (`kahawai-mediahost/src/catalog.rs`) | per collection: epoch, version counter, files table, one journal row per (source, kind), job claims, the watch channel with the newest version | `upsert_file`, `record_error`, `remove_file`, `finish_scan`, `claim_sources`, `store_fact`, `publish_version`, opening the database | a row's version is its own; an answer about a file is behind the file; the watch ends at the committed version |
| Mediahost hub link (`kahawai-mediahost/src/lib.rs`) | per link: offer sent, running stream, version sent so far | Hello, offer, cursor, paged delta streams, acknowledgement, reaction to a new version | every commit reaches the hub; a stream is cut only where the hub can resume |
| Catalogue projection (`kahawai-mediadb/src/catalogue.rs`) | collection row with cursor and open snapshot, files, facts | `offer_collection`, `apply_catalogue` | the cursor never passes a row the projection lacks; an interrupted snapshot loses nothing |
| Mediahost link service (`kahawai-hub/src/link_service.rs`) | one task and one catalogue worker per link | handshake, worker, read loop, `forget_link` | at most one writer per host; a dead link changes nothing; absence is noticed |
| Registry (`kahawai-hub/src/registry.rs`) | `links`, `connected`, catalogue gates, transcoder links, capabilities and load, allowlist | register/unregister, `delete_satellite`, placement and reservation, renewal | maps agree; a revoked host is out; slots equal running sessions |
| Sessions (`kahawai-hub/src/sessions/`) | `active`, `reserved`, `pending_ready`, source leases, seek generation and intent, idle flag | admit, start, dispatch, seek, reschedule, end | the cap holds; a burst of seeks ends at the last one; an ended session leaves no worker; one owner per slot and per verdict |
| Transcoder runner (`kahawai-transcoder/src/sessions.rs`) | pending starts, generations, running sessions | start, end, link teardown, renewal of the link | nothing survives its end; a superseded start is silent; any other start is answered |
| Enrollment and renewal (`enrollment*.rs`, `renewal_service.rs`, `registry.rs`, `kahawai-transport`) | satellites row with current and pending fingerprint, allowlist mirror, the identity on the satellite's disk | submit, approve, poll, renew, settle, delete | a satellite is never locked out by a renewal, a deleted one is refused |
| Mediahost scheduler (`scheduler.rs`) | pending and active jobs, interactive guards, hints, per-job control flags | acquire, dispatch, checkpoint/yield, cancel, enter/leave, hint | capacity is neither exceeded nor left idle; viewers and valuable work are made way for; no wake-up is lost |
| Subtitle work (`subtitles/*`, `subtitles_work.rs`, `link_service.rs`, `hasher.rs`) | `subtitle_jobs` rows, the cache directory, events, leases, gathered transfers, the mediahost's tiers | claim, dispatch, walk, land, reconcile, release, rerun | rows and directory agree; what is missing is asked for and eventually extracted or parked |
| Leases and byte plane (`leases.rs`, `bytes.rs`, `serve.rs`) | pooled channels and their owners | open, read, release | a channel has one reader; a lost host frees its leases |
| Other background work (`queue.rs`, `gate.rs`, `enrich*.rs`) | queues, cool-downs | claim, run, retry | no work is lost or done twice |
| Accounts, grants, secrets, API, web UI, backup, metrics | request-scoped | | request handling, no protocol of their own |
| Media pipelines, negotiation, intro detection, name parsing | data | | pure computation and GStreamer: out of TLC's reach |

**How they interact.** A scan or a worker commits a transaction in the journal and
publishes its version on a watch channel. Every hub link of the mediahost is woken
by it and streams the rows above the version it last sent. The hub's link task
queues catalogue messages to a worker, which takes the host's *catalogue gate* (a
mutex shared with handshakes and deletion), checks that its link is still the
registered one, applies the message in one SQL transaction and answers. Playback
sessions open byte leases over the same link and are ended when it goes.
A session that needs a pipeline elsewhere is dispatched: the hub reserves a slot on
a transcoder, sends `StartSession` over that box's link and waits for one verdict;
a seek, a worker that dies and a lost link each dispatch the session again. The
catalogue's commits also create the rows of subtitle work, which a driver on the hub
turns into requests to the mediahost; the results come back over the link into a
cache directory that a watcher compares with the rows.

**What is hard.** Links that die silently and come back while the old one is still
being torn down; snapshots and replays cut anywhere; answers measured before a file
changed and stored after; commits that race with the decision to go back to sleep;
handler futures that are dropped at an await; database steps that fail between two
in-memory changes; a verdict keyed by a session id that a second dispatch shares; a
cancelled start that is past its last await; a flag published after the table it
describes was unlocked; a row read, decided upon and written in separate
transactions. `PROJECT.json` lists these as hazards, each at its line, with
the properties that would catch it.

## 2. Modules

| Module | Models |
|---|---|
| `CatalogJournal` | the mediahost's tables for one collection and every transaction that writes them |
| `CatalogProjection` | `offer_collection` and `apply_catalogue` as operators from one hub projection to the next (each is one SQL transaction) |
| `CatalogSync` | composition: the journal, the link in both directions, the mediahost's stream tasks, the hub's message handlers over the projection; breaks and restarts |
| `HostLink` | connections of one mediahost against the registry's maps, the gate, deletion and sessions |
| `TranscoderBox` | abstract specification: what a transcoder promises about one session over one link |
| `TranscoderRunner` | the runner of one box for one session id, between any two locks or awaits; implements `TranscoderBox` |
| `TranscodeFleet` | composition: sessions, slots and verdicts on the hub, with one `TranscoderBox` behind every transcoder link |
| `SessionTable` | admission, the table of active sessions with its idle flag, seek coalescing, end |
| `SatelliteCerts` | one satellite's certificate: row, allowlist, renewal, settlement, deletion |
| `WorkScheduler` | the mediahost's admission of background work |
| `SubtitleWork` | composition: rows, cache directory, driver, watcher, link worker and the mediahost's tiers |
| `CatalogProofs` | the theorems about `CatalogJournal`, `CatalogProjection` and `CatalogSync`, with their proofs (section 5) |
| `HostLinkProofs`, `SessionTableProofs`, `WorkSchedulerProofs`, `TranscoderRunnerProofs`, `TranscodeFleetProofs`, `SubtitleWorkProofs`, `SatelliteCertsProofs` | the theorems about the module each is named for, with their proofs (section 5) |
| `MC...` | one per checked module: values for constants that a configuration cannot write |

Definitions whose comment begins with *Mutant* or *Variant* are not part of the specification.
Each is a plausible bug in the definition after it, with the same parameters, kept
to show that the property named for it in `PROJECT.json` would notice.

### CatalogJournal
`files`, `journal` and `current`/`epoch`/`completed` are `catalog_files`,
`catalog_records` and the `catalog_collections` row; `claims` is the running part of
`catalog_jobs`. A revision stands for the guarded content identity of a file;
the rest of a probe is identified by the version that wrote it, so a re-probe with
other metadata is visible. `Commit` is the end of a transaction; the task that ran
it reaches `publish_version` later (`unpublished`, `Publish`), in any order.
`UpsertFile`, `RecordError` and `RemoveFile` hand out versions in the order the code
does: one `next_version` per row, derived rows in the order of the SELECT
(`KindRank`). `StoreFact` takes the revision the worker really measured, which need
not be the one it was asked about. `Reopen` is a restart, with or without a newer
analyzer; `Recreate` a collection that was retired and configured again. The four fact kinds that are
left out (segments, attachments, geometry, keyframes) are stored by the same
`store_source_fact` as the two that are kept, one with and one without an mtime check.

### CatalogProjection and CatalogSync
A projection is the collection's row (epoch, version, open snapshot, largest version
of the attempt), the files and the facts. The code stamps every row it touches with
`sync_generation` and asks only whether the stamp is the current one: `seen` is that
answer. Every `ensure!` of `apply_catalogue` is a case that rejects the chunk and
leaves the projection as it was. The media type of a collection is not modelled.

The link is one bounded FIFO each way. `Break` loses what is in flight; `RestartHost`
also reopens the catalogue. A stream takes one read transaction
(`BeginPages`), sends between one row and a page per message (payload bytes may cut a
message anywhere), file rows first in a snapshot, and ends in `SyncJoined`, which
reads the watch again before sleeping. `wake` is the unseen mark of the link's watch
receiver.

### HostLink
Each connection goes through the stages of `MediahostLinkService::link` and its task:
dialled, waiting for the gate, registered, settling the renewal, acking, serving,
closing, forgetting, ending. `links` and `present` are the two registry maps;
`gate` is the tokio mutex with its queue, which is fair and which a dropped future
leaves. `delete_satellite` has one step per await. Three constants switch behaviours
that real deployments meet:

* `FailingDelete`: a database step of the deletion may fail;
* `DroppedHandler`: the client may go while the handler awaits `settle_renewal`;
* `HellosInOrder`: an older connection's Hello is never read after a newer one's. With FALSE, an old
  connection can replace the newer registration and its teardown then hides a host
  that is being served; nothing in the code orders the two. `HealthyHostVisible`
  and `LinksAgree` are therefore checked with TRUE.

### TranscoderBox, TranscoderRunner and TranscodeFleet
`TranscoderRunner` has one process per `StartSession` task and one for the link loop,
which runs `end` inline. A process moves from one lock or await to the next; an aborted
task is dropped at its next await and runs on until then, which is where a start can
register after its end. `pending`, `latest`/`ended` and `entry` are `Starting.pending`,
`Generations` and `sessions`. `TheBox` maps that state to the abstract box: a start that
can still register is *waiting*, one that came up but has not sent its Ready is *due*, one
that will go quietly (or fail noisily, as the code's error path does even for a stale
start) is *stale*. `KeepsContract` is the refinement. A link ends in one of two ways: `CloseLink` is `end_all`, which
closes admission, cancels what comes up and stops what runs; `RenewalDue` is the timer in `run` that drops `link_once`
at the await where it stands, so that `end_all` is not called, or not finished. The start tasks are detached and go on; `DropRunner` is the last
of them letting go of the `Runner`, whose registered `Run` stops its worker when it is dropped.

`TranscodeFleet` puts that box behind each link through the operators of `TranscoderBox`
(`Contract!Begun`, `Contract!Readied`, ...). Up to four tasks may dispatch one session: the
starting request, the seek executor, the reschedule after an error and the one after a link
loss. They share one entry of `pending_ready`. Messages to a link that is registered but
dead are lost; the teardown of a link that was replaced leaves the registration alone but
still reschedules. A link that is lost takes its box's runs with it in one step; what a renewal leaves
behind for a while (section 4) runs under a Runner no later link can reach and is not part of the fleet model.

### SessionTable
`reserved` and `active` with the critical sections the code has; the idle flag is set in a
step of its own, after the table is unlocked. A seek draws its generation, merges its intent under another lock
(`Merge`), then subscribes to outcomes and spawns its executor (`Subscribe`), then waits. The executor takes the newest
intent under `seek_lock`. It may fail at once, with run and plan as they were (`Refuse`: every `?`, `ensure!` and panic of
`execute_seek` before its first write); otherwise it records the plan and takes the old run (`Stop`; there is no await between the
two), and then restarts or gives up, which leaves the session without a run. `Publish` is `watch::Sender::send`, which
stores the outcome only while somebody is subscribed. `end` removes, cancels, and collects the
run once it has the lock. A run is named by the seek that positioned it; an intent also carries the seeks merged into it
(`covers`), which only the properties read.

### SatelliteCerts
A certificate is a serial number. Approval, `record_renewal`, `settle_renewal` and
`delete_satellite` each change row and allowlist in two steps; a hub restart reloads
the allowlist from the rows, a dropped handler stops between its steps. A mediahost's
handshake takes the catalogue gate and checks the row; a transcoder's does neither.

### WorkScheduler
Entry points take the state mutex; the dispatch loop is a phase of its own because workers
read their flags without it. Async waiters and blocked threads differ in when a wake-up
reaches them (`Listening`).

### SubtitleWork
A disk check and the row update it leads to are two steps. `version` and `rev` separate a
commit that rewrites a file's row from one that changes its bytes; in between, a file that was `replaced` on
the mediahost's disk yields replies of another size, which the hub discards without touching the row
(`link_service.rs:660`). While the collection is inside a `snapshot` none of its rows can be claimed. `imageLists` is
the capability of the linked host: without it the driver skips image work, the rows stay as they are
(`work.rs:282`), and a batch that reaches an older host all the same, connected since the driver looked, costs it its link (`LoseOldHost`). Time is two
actions: a lease lapses and a retry falls due.

### Histories
Some variables are not state of the program but record that something happened, so that a
property can say precisely under what circumstances it holds: `crossed` (runner: two starts of one
id in flight; session table: a start and an end between table and flag; certificates:
a handler across a deletion), `raced`, `misread`, `needless`, `late`, `told` (fleet),
`overtaken`, `refused`, `unheard` (seeks), `doubled` (transfers), `lapses`, `chained`, `torn` (certificates).
No guard reads them, except that a box may treat crossed starts as the runner does. Section 4
lists what happens in the circumstances they exclude.

## 3. Runs

| Run | Bounds | What it shows |
|---|---|---|
| `journal` | 1 source, 3 revisions (two of one size), 2 fact kinds, 2 error texts, 7 versions, 2 epochs, 2 tasks before their publish | the journal's invariants for every order of scans, errors, claims, late answers, publications, restarts |
| `sync` | 1 source, 2 revisions, 4 versions, 2 epochs, messages of 1 or 2 rows, terminal hash failures on, 1 break or restart | the cursor's promise, facts that fit their file, chunks refused (and rolled back) only for a hash failure and snapshots that keep the old projection |
| `sync_live` | as `sync`, 3 versions, 1 epoch, no hash failures | `Converges`: no commit is stranded |
| `sync_hash_failure` (violation) | as `sync_live`, hash failures on | the finding |
| `host_link` | 3 connections, 1 session, 1 deletion and re-enrollment, every failure on | no dead or revoked link is registered or applied |
| `host_link_ordered` | 3 connections, 1 deletion, hellos in order, no failures | the maps agree, a served host is visible, absence is noticed and the gate is always passed on |
| `scheduler` | 3 jobs of 2 owners in two workloads, 1 CPU slot, 2 disks, 1 exclusive resource, 1 viewer, 1 hint, 1 cancelled owner, 1 yield per job | capacity, preemption and wake-ups |
| `subtitle_work` | 1 file with one text or one image track, transfers of 2 messages, 2 walks, a host with or without image worklists, 1 disturbance (commit, replaced file, snapshot, deletion, cut, crash, early lapse, request, rerun) | rows and directory stay true to each other; missing work is resolved, or waits for an upgrade of its host |
| `runner` | 2 starts, 2 ends, 1 worker death, teardown or renewal | an end is final, a teardown reaches everything, a link cut for a renewal leaves nothing for good, every other start is answered, and the refinement of `TranscoderBox` |
| `fleet` | 1 session, 2 boxes of one slot, one of which loses its link and returns; 3 StartSessions, 1 seek, 1 death, timeouts, abandoned requests | no leaked slot, no run of a session that is over, no frozen session |
| `satellite_certs` | 3 certificates, 2 connections, 1 restart, drop or lost answer; either kind of satellite | never locked out, verifier's set equals the row, renewals settle |
| `session_table` | 2 sessions under a cap of 1, 2 seeks of one of them, one naming a track | cap, idle flag, the last seek not refused plays, every seek that could be heard is answered, no run after the end |

**Why the bounds are enough to be interesting.** Seven versions let a source be probed, answered by
both workers, re-versioned and tombstoned in one run; two revisions of equal size make the
loudness mtime check necessary; two unpublished commits can be published in either
order. In the sync runs a link queue of one message forces every sender to wait, four
versions cover a file, a fact, their re-versioning and one tombstone, and one break may
hit any of those points; two epochs let the hub hold a cursor of a journal that no
longer exists. Two starts are a run being replaced and its replacement, two ends one that
catches a start and one after it; a third start adds only more of the pairs. One session on
two boxes of one slot makes every slot this session's own, so that a leak shows as a load above
its holders. Three certificates are the current one, a pending one and the one that
supersedes it. Three jobs are one that runs, one that outranks it and one that fills what is
freed. Three connections are a link that is dying, its successor, and the successor's
successor. Of `subtitle_work`'s disturbances one happens per behaviour, at any point: a replaced file has two
effects, its discarded reply and its commit. With two disturbances `MissingIsResolved` also holds, in a longer check (782,000 states, 7 minutes) of
single-message transfers, one walk and parking after one failure; beyond that nothing is known of its liveness. The safety properties do
not depend on the bound: they are theorems for any number, and TLC also passes them with two at the run's other bounds. Deadlock checking is off in every run: the bounds on versions, breaks,
connections, sessions and deletions end every behaviour.

**Fairness.** In `CatalogSync`, a runnable protocol task runs, a task that committed
reaches its publish, and a scan completes; nothing obliges files to change or links to
break, and both are bounded, so `Converges` speaks about a quiet system. In `HostLink`,
a handler, a teardown and a deletion run on; a worker finishes its message only while its host is
there to read the answer, and a link whose host is gone is eventually closed: that is
`LINK_LIVENESS_TIMEOUT`. Nothing forces a host to dial or to go away. In
`TranscoderRunner`, tokio polls ready tasks and drops aborted ones, and `executor.start` and
the end of a run have deadlines; a Runner nobody holds is dropped. Nothing obliges a link to end. In `SessionTable` and `SatelliteCerts`, handlers and
executors run on, the mutexes are fair (strong fairness for whoever waits for one), and in
the latter a satellite reconnects and the day of grace passes. In `SubtitleWork` tasks run,
leases lapse, retries fall due and a lost link is dialled again; the driver's strong fairness per
kind is its loop over all kinds. That a running snapshot ends and that a replaced file is committed (strong fairness, as a cut
link interrupts both) is what `Converges` and a rescan of the mediahost provide; image worklists never become available by fairness. `WorkScheduler` and `TranscodeFleet` are checked for safety only.

## 4. Findings and limits of the guarantees

**A terminal hash failure stops replication** (run `sync_hash_failure`). `hasher.rs:509`
reports it with the default size 0, the journal stores it like an answer, and
`apply_catalogue` (`catalogue.rs:319`) refuses the chunk; the link closes and the same chunk is
refused after every reconnect.

The properties hold outside the following cases. Most are behaviours TLC reaches when the
constant or history that names them is lifted; a few were met while reading the code and lie
outside the models, which the text then says. Several are at odds with a comment in the code:

* **Mediahost links.** A deletion whose database step fails leaves `links` and `connected`
  disagreeing (`registry.rs:1581`, against `link_service.rs:46`); a handler dropped while it settles the
  renewal leaves a link nobody watches (`link_service.rs:259`); a replaced link's sessions are never
  ended (`link_service.rs:69`, against line 26); a Hello read after its successor's hides a served host.
* **Slots.** A seek releases its slot and does not take it back (`seek.rs:510`), a link loss drops the load entry under
  sessions that later release it (`registry.rs:1232`): `NoLeakedSlot` is the direction that holds. An abandoned start leaks its
  slot and its run (`start.rs:457`).
* **Reschedules.** They share no lock with seek and end (`reschedule.rs:78`): a session that ends meanwhile leaves
  its new run or slot behind. A reschedule while a box still has a run of the session leaves that
  run as an orphan (`transcoder_link.rs:336`). A link torn down between a box's Ready and the insertion into `active`
  leaves a frozen session (`start.rs:598`).
* **Verdicts** are keyed by session id (`dispatch.rs:119`): a late one answers the wrong start. A rejected start sends no
  `EndSession` (`dispatch.rs:139`).
* **Two starts of one id in flight** share one entry of the runner's table (`kahawai-transcoder/src/sessions.rs:237`); the hidden one
  escapes its end and the teardown. A stale start that fails still reports its failure (lines 276-287).
* **A link cut for a renewal** (`kahawai-transcoder/src/lib.rs:60`) is not torn down. Starts under way go on, register and play
  on the old Runner, which no EndSession reaches any more, until the last of them is through; that no start escapes `end_all`
  (`sessions.rs:216`) and that nothing writes to the scratch root when the next Runner sweeps it (`sessions.rs:529`) holds only for links
  that end otherwise. `CutLeavesNothing` is what holds here. From reading: the sweep can remove the directory such a start writes
  to; scratch directories are not modelled, and `TranscodeFleet` does not have the remnant.
* **Seeks** draw their generation before they merge (`seek.rs:139`): two that cross there end at the older
  position. A restart that fails before the old run is taken (lines 220-389) leaves the older position playing, and the
  burst ends at the newest seek not so `refused`. An outcome sent (line 182) between the merge of a seek and its subscription
  (line 154), when the client of the executor's own seek has gone, is kept by nobody: the `unheard` seek waits out its
  60 s, the hang that the comment at line 166 means to exclude. The burn-in choice is set across awaits before that and is not modelled.
* **The idle flag** is sent after the table is unlocked, by starts and ends (`sessions/mod.rs:608`): when two cross it stays wrong.
* **Certificates.** A renewal asked for with a certificate that is itself pending, whose answer is
  lost, locks the satellite out (`registry.rs:543`, against `renewal_service.rs:5`). So does a renewal whose certificate is
  not presented within the day of grace (`lapses`): a restart of the hub sweeps it (`registry.rs:477`), or a link still on the old
  certificate drops it (`registry.rs:611`). Settlements and deletions act on a
  row read earlier (`registry.rs:591`, `1574`). An approval offers its certificate before it is recorded
  (`enrollment_service.rs:81`), and a second one leaves the fingerprint it replaces allowed (`registry.rs:989`).
* **Scheduler.** `wake` does not take the mutex a blocked thread sleeps under (`scheduler.rs:90`), so `wait_blocking` can miss its
  wake-up. `Reschedule` leaves out that `dispatch` refreshes demand priorities once more (`scheduler.rs:683`), which no property
  depends on. From reading: nothing bounds how often a wide job is passed over by narrow ones.
* **Subtitles.** A track of more messages than the hub's limit and one is stored without its head (section 5). Two transfers of one track and revision are gathered under one key
  (`link_service.rs:551`). A file deleted from the cache between a check and its row update is missed
  until the next event. Image work of a host without image worklists waits for its upgrade (`work.rs:282`, as the test at
  `work.rs:977` wants): `MissingIsResolved` excuses it while such a host is linked. Outside the model: versions and revisions only
  grow, so neither a revision that is restored during a transfer (A, B, then A again) nor a new epoch, which
  renumbers rows (`catalogue.rs:564`), is covered; hosts too old for revisioned subtitles; files that leave the collection; and the
  `reconcile_file` that a viewer's cache miss runs before it extracts (`subtitles.rs:523`). From reading: a text file offered again while its walk is being joined keeps only the
  refreshed revision (`hasher.rs:100`).

## 5. Proofs

Every theorem holds for all values of the module's constants that satisfy its named
`ASSUME`s (in the module that declares the constants; TLC
evaluates them in the run of that module). Besides that they assume only what the statement
says. The `Spec` of a theorem is the one the run checks; fairness is not used.

| Module | Theorem | Statement | Assuming |
|---|---|---|---|
| `CatalogProofs` | `TypeCorrect` | `Spec => []TypeOK` | |
| | `UniqueVersions` | `Spec => []VersionsAreUnique` | |
| | `JournalAgrees` | `Spec => []JournalMatchesFiles` | |
| | `FactsAreReplayable` | `Spec => []FactsFollowTheirFile` | `~FailedHashes` |
| | `EveryCommitAdvertised` | `Spec => []NothingUnadvertised` | |
| | `SyncImplementsJournal` | `SyncSpec => Spec` (the composition refines its first component) | |
| | `LinkInvariant` | `SyncSpec => [](JournalInv /\ LinkInv)` | |
| | `AcksAreDurable` | `SyncSpec => []AckIsDurable` | |
| | `AnswersFitTheirFiles` | `SyncSpec => []ProjectedFactsFit` | |
| | `SnapshotsKeep` | `SyncSpec => SnapshotKeepsProjection` (an action property) | |
| | `FlowInvariant`, `ShowInvariant` | the same box with `FlowInv`, then with `ShowInv` | |
| | `CursorIsAPromise` | `SyncSpec => []CursorCovers` | |
| | `FitInvariant` | `SyncSpec => [](JournalInv /\ LinkInv /\ FlowInv /\ ShowInv /\ FitInv)` | |
| | `OnlyHashesAreRefused` | `SyncSpec => []RefusedOnlyForHashes` | |
| `HostLinkProofs` | `LinkInvariant`, `TypeCorrect` | `Spec => []LinkInv`, `Spec => []TypeOK` | |
| | `OnlyTheCurrentLinkWrites` | `Spec => []WorkerIsCurrent` | |
| | `NoLinkOutlivesItsCertificate` | `Spec => []LinkedIsEnrolled` | |
| | `MapsNeverDisagree` | `Spec => []LinksAgree` | `~FailingDelete` |
| | `ServedHostIsVisible` | `Spec => []HealthyHostVisible` | `HellosInOrder`, `~FailingDelete` |
| `SessionTableProofs` | `TableInvariant`, `SeekInvariant` | `Spec => []TableInv`, `Spec => []SeekInv` | |
| | `CapIsKept` | `Spec => []CapHolds` | |
| | `FlagTellsTheTruth` | `Spec => []IdleIsTruth` | |
| | `EndsLeaveNoRun` | `Spec => []NoRunAfterEnd` | |
| | `BurstsEndAtTheLastSeek` | `Spec => []LastSeekPlays` | |
| `WorkSchedulerProofs` | `SchedulerInvariant`, `TypeCorrect` | `Spec => []SchedInv`, `Spec => []TypeOK` | |
| | `CapacityIsKept` | `Spec => []WithinCapacity` | |
| | `CapacityIsUsed` | `Spec => []NoIdleCapacity` | |
| | `ValuableWorkIsHeard` | `Spec => []PauseIsHeard` | |
| | `WakeUpsArrive` | `Spec => []NoLostWakeup` | |
| `TranscoderRunnerProofs` | `RunnerInvariant`, `TypeCorrect` | `Spec => []RunnerInv`, `Spec => []TypeOK` | |
| | `EndsAreFinal` | `Spec => []EndIsFinal` | |
| | `TeardownsReachAll` | `Spec => []TeardownReachesAll` | |
| | `ImplementsBox` | `Spec => KeepsContract` | |
| `TranscodeFleetProofs` | `FleetInvariant`, `FleetTypeOK` | `Spec => []FleetInv`, `Spec => []TypeOK` | |
| | `FleetNoOrphanRun` | `Spec => []NoOrphanRun` | |
| | `FleetNoFrozenSession` | `Spec => []NoFrozenSession` | |
| | `FleetNoLeakedSlot` | `Spec => []NoLeakedSlot` | |
| `SubtitleWorkProofs` | `SubtitleInvariant` | `Spec => []SubtitleInv` | `~DeletesRace` |
| | `MissingIsAskedFor` | `Spec => []MissingIsOutstanding` | `~DeletesRace` |
| | `OnlyTheDiskSettles` | `Spec => RowsAreSettledByDisk` (an action property) | `~DeletesRace` |
| | `TransferInvariant` | `Spec => []TransferInv` | `Chunks <= MaxParts + 1` |
| | `StoredTracksAreWhole` | `Spec => []TornOnlyWhenDoubled` | |
| `SatelliteCertsProofs` | `CertInvariant`, `TypeCorrect` | `Spec => []CertInv`, `Spec => []TypeOK` | |
| | `RenewalsNeverLockOut` | `Spec => []NotLockedOut` | |
| | `AllowlistFollowsTheTable` | `Spec => []AllowlistMirrors` | |

The conditions on constants are the circumstances of section 4: what they exclude is refuted
by TLC, not merely unproved. The runs `host_link_ordered` and `subtitle_work` set the same ones.
The remaining parts of the `ASSUME`s say that a stand-in for "nothing" (`NoIntent`, `NoRow`, `NoCert`, `"none"`) is not
one of the values it stands in for.

**CatalogJournal.** `JournalInv` is inductive: `TypeOK`, `VersionsAreUnique`,
`JournalMatchesFiles`, `RowsFollow` and `CurrentIsPending`. The last two
are the strengthenings. `RowsFollow` says that an answer is behind the live file row it was measured on and a diagnostic behind the
tombstone of the file it replaces; it exempts a journalled hash failure (size 0) from the size comparison, so that it holds whether or not failures happen, and
`FactsFollowTheirFile` follows from it when they do not. It needs
`JournalMatchesFiles`, because `StoreFact` compares its claim with `files` while the property
speaks of the journal. `CurrentIsPending` says that the committed version is
advertised or among the unpublished ones: `NothingUnadvertised` alone does not
survive a `Publish` that leaves others pending. Uniqueness rests on lemma
`NthVersions`: the versions one transaction hands out are pairwise different and
fill the interval it advances by, a fact about the cardinality of the kinds up to a
rank. `RewriteKeepsUnique` lifts it to a whole transaction, and each action has one
lemma.

**CatalogSync.** The composition changes the journal only by the journal's own steps (`SyncImplementsJournal`), so
`JournalInv` comes for free. The rest is in four layers, each inductive given the ones before it.

* `LinkInv`: types; the hub's row is never ahead of the collection it copies, nor an acknowledgement ahead of the
  hub's row (`RowInv`); and a link is quiet, or its offer is on the way (`Asked`), or the cursor is (`Answered`), or it is
  `Running` with messages of the current epoch only (`PhaseInv`). It gives `AckIsDurable`, which the bounded runs
  leave to this proof, and, as an offer is answered once per
  link, `SnapshotKeepsProjection`. `ProjectedFactsFit` is inductive by itself on top of the types: a file row that changes the stamp
  takes the answers with it.
* `FlowInv`: between the hub's cursor, the messages on the wire and the rows still to be sent there is no gap. An incremental message
  (`Increment`) holds, in order, every row the journal still has between the version before it and its own (`Covers`). The
  journal moves on meanwhile, but a transaction gives the rows it writes versions above all of them: what was read earlier is either
  still the current row or superseded above the version the message reaches (`Genuine`, kept by `MovesMoved`, `CoversMoved`).
* `ShowInv`: up to its cursor the projection shows the journal (`CoverInv`). While a snapshot is open the cursor promises
  nothing, so `Progress` says it of the version the snapshot will end at: what is not shown yet is still to come, and what is
  marked seen is true. This needs that file rows come first (`FilesFirst`): a file row that arrives late would clear
  the answers hung on it. It gives `CursorCovers`.
* `FitInv`: the records of one source reach the hub in version order (`InOrder`, `Rising`), a live file row that the stream has got to
  is shown or on the wire (`Reaches`), and every answer that is on the wire or still to be sent finds its file ahead of it or already
  shown, with nothing in between that changes it (`Fitted`). No `ensure!` of `apply_catalogue` can then fail except the
  stamp of a hash failure, which is `RefusedOnlyForHashes`.

What a chunk does is a recursive function over its records. Facts about all of it are proved for a chunk of any
length by the least record at which they would fail (`AlongChunk`), which needs no induction rule; for the same reason the order of a
chunk and the application of its records are written as a set of orderings and a recursive function.

**HostLink.** The gate is a queue without repetitions whose head is the one party that is in a
critical section (`IsQueue`, `GateIsHeld`). That exclusion gives `WorkerIsCurrent`: a worker that checked its
link keeps the gate until its message is applied, so no handshake or deletion can re-register
meanwhile. `LinkedIsEnrolled` needs that a handler past its check holds the gate
(`HandlersRegister`) and that a deletion past its unlink left nothing registered
(`DeletionUnlinks`). Visibility needs an order: with hellos in order, an older connection is past its
registration when a newer one is the peer (`DialledInOrder`, `GreetedInOrder`).

**SessionTable.** The cap is a count: starts that hold a reservation and sessions in the table
are disjoint sets of a total size of at most the cap, and admission adds one under the lock. The
seek proofs use that `seek_lock` has one holder, that an end cancels before it waits for the lock
(`EndsCancel`), and, for bursts, that the pending intent is the merge of the seeks merged
since the executor last took it. `BurstInv` says so for every session, by way of the newest generation that is set, and adds
what the restarts that fail early need: generations of one session's seeks differ (`GenerationsDiffer`), a refused seek had
been merged (`RefusedWereMerged`), and run and plan are those of the newest seek taken and not refused.

**WorkScheduler.** `Fits(active)` is kept by `Admit`, whose guard counts what is active before the
job it admits; work at a checkpoint stays active, so what is at work fits. `NoIdleCapacity`,
`ViewersHeard`, `WaitersHeard` and `NoLostWakeup` hold outside the dispatch loop and are restored by its
last step; the lemma behind them is that the used capacity only falls when a job leaves.

**TranscoderRunner.** `RunnerInv` places every start task relative to the table
(`Places`, `Alone`, `Held`), says which of them a generation check will still let through
(`FreshWhenReady`, `BehindIsOver`) and which have a watcher (`Watched`). A link that was cut promises nothing about the table, so
these parts hold for its leftovers as they do for a link that is served; `TeardownReachesAll` speaks of the link
loop having come through `end_all`, which closed admission. To the box a cut is silence, and `DropRunner` the stop of whatever plays
(`CutPromises`, `BoxDropped`). `ImplementsBox` maps each action to
one action of `TranscoderBox` or to a stutter under `TheBox`; it is a full refinement of the box's safety
specification. The proof corrected the model: `crossed` did not yet count an aborted start between its
cancellation and its registration as in flight, and with four starts `EndIsFinal` failed; two starts,
the bound of the run, do not show it. `Rising` now does.

**TranscodeFleet.** `FleetInv` follows every start number. `LinkInv`: an open link is the registered one and has a watcher; a
box without a link has nothing to run and nothing to say. `TaskInv` and `AloneInv` place the four tasks of a session: without a
race one of them dispatches at a time. `StartInv`: a start is known to the box and link it was sent over and nowhere
else, which is what keeps a verdict from answering a start of an earlier link. `RunInv`: in a session with no race, misread verdict or
needless reschedule only the last start can run, at the one box its task or its own record names; `NoOrphanRun` is the case of a
session that is gone. `ServeInv` adds where the hub will learn that a run is over and gives `NoFrozenSession`. `SlotInv` bounds a box's
load by the number of session tasks, and sessions between tasks, that own a slot of it (`Owned`); a step changes the two sides by
one of five cases (`SlotCase`), which carries `NoLeakedSlot`. It is an inequality because the equality is false (section 4). The
box is used only through what `TranscoderBox` promises, and `ImplementsBox` proves that promise of the runner.

**SubtitleWork.** `SubtitleInv` says what a check in progress remembers (`ChecksHold`), which capture
of a file is current (`CapturesHold`) and that whatever is missing is asked for (`AllAsked`). Rows are deleted only after a
check found the artifacts; without a deletion in between the check is still true. Snapshots, older hosts and discarded replies
change no row and only withhold steps, so they add cases and no invariant. `TransferInv` follows each
transfer from the mediahost's queue to the hub's partial: the chunks gathered, in flight and still to be sent make up the track.
The proof found the limit of the property: an upload of `MaxParts + 2` or more messages is dropped by
`accept_chunk` when it outgrows the limit, but gathering then starts anew with the rest and its tail is stored as
the whole track (`link_service.rs:546`, against the comment "`m.blocks` now holds the whole track"). `TornOnlyWhenDoubled` is therefore
conditional on `Chunks <= MaxParts + 1`; the run's transfers are within it.

**SatelliteCerts.** `CertInv` has four parts: types; no record names a certificate that was not issued; one enrollment at a
time, during which only a deletion touches the satellite; and, while no renewal was chained and no settlement was stale,
the order of renewals (`InOrder`): the one in flight is the newest certificate, its row entry is still pending, and a
settlement retires something older than what was presented. On top of it `KeptIn` (no handler owes the
withdrawal of the satellite's own certificate) gives `NotLockedOut`, and `Mirrored` (row and allowlist differ exactly by
what arrives and what leaves with the handlers under way) gives `AllowlistMirrors`.

Each inductive invariant was checked by TLC on the bounds of its run before it was proved. Only `GateIsHeld`
and the type invariants live in the modules; the strengthenings are defined in the proof modules.

**Only model-checked** is all liveness: `Converges`, `AbsenceNoticed`, `HandshakeProceeds`, `Answered`, `CutLeavesNothing`, `SeekAnswered`,
`RenewalSettles` and `MissingIsResolved`. The prover has no rule for fairness and `ENABLED`. Every safety property of a passing run,
invariant or action property, is a theorem.

## 6. Not modelled

Pipelines, negotiation, container parsing, name parsing, enrichment providers, the web
UI, TLS and certificate encoding, backup and metrics: computation on data or requests that share no
state, and most of the repository's lines. Byte channels and their pool, the provider gate and the scan's
directory walk are I/O around a few locks. Of what is modelled: occurrence
resolution and root bookkeeping behind `apply_catalogue`; the all-in-one in-process
link; OCR of display sets; the ranking of transcoders; burn-in choices. Collections,
mediahosts, satellites, users and runner sessions are independent of each other in the code, so
the models have one of each. `PROJECT.json` records this per component.

## 7. What could come next

Nothing that a run checks and the prover can reach is unproved. What would add most:

1. More of the system: byte leases with their channel pool, the hub's work queues and provider gate, the scan's walk.
2. In `TranscodeFleet`, the composition is with the abstract box of one session; a composition with several sessions per link would let
   `SlotCase` speak about a box's own capacity too.
3. The finding and the limits of section 4, as changes to the code: each names the assumption or history that would
   then fall away from a theorem's statement.
