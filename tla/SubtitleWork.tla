----------------------------- MODULE SubtitleWork -----------------------------
(***************************************************************************)
(* Subtitle prewarm: which extraction work is outstanding is a table of    *)
(* rows on the hub (subtitles_work.rs), what has been extracted is the     *)
(* hub's cache directory, and the two are kept together by a queue driver  *)
(* (subtitles/work.rs), a directory watcher (subtitles/recovery.rs), the   *)
(* worker of the mediahost's link (link_service.rs) and the commits of the *)
(* catalogue.  The mediahost (hasher.rs) walks files for the hub and sends *)
(* the results back, display sets in several messages.                     *)
(*                                                                         *)
(* Everything between two awaits is one action: a disk check and the row   *)
(* update it leads to are two.  Time is two actions: a retry becomes due   *)
(* and a lease lapses.                                                     *)
(***************************************************************************)
EXTENDS Integers, Sequences, FiniteSets

CONSTANTS
    Files,
    TextTracks,   \* embedded text tracks of every file
    ImageTracks,  \* image tracks of every file
    Chunks,       \* messages one image track is sent in
    MaxParts,     \* MAX_SETS_BYTES, in messages
    Window,       \* WINDOW: leases per kind
    RefillAt,     \* REFILL_AT
    BlockAfter,   \* BLOCK_AFTER_ATTEMPTS
    MaxWalks,     \* bound: walks on the mediahost at once
    MaxDisturbances, \* bound: commits, deletions, cuts, crashes, requests...
    KindSets,     \* the sets of kinds a behaviour may follow
    DeletesRace   \* the cache may lose a file between a check and its update

SubtitleKinds == {"text", "sets"}
TextFile == "text file"  \* what the walk of the text kind is asked for

ASSUME SubtitleAssumption ==
    /\ "none" \notin Files
    /\ IsFiniteSet(Files) /\ IsFiniteSet(TextTracks) /\ IsFiniteSet(ImageTracks)
    /\ TextTracks \cap ImageTracks = {} /\ TextFile \notin TextTracks \cup ImageTracks
    /\ Chunks \in Nat \ {0} /\ MaxParts \in Nat \ {0}
    /\ RefillAt \in Nat /\ Window \in Nat /\ RefillAt < Window
    /\ BlockAfter \in Nat \ {0} /\ MaxWalks \in Nat \ {0} /\ MaxDisturbances \in Nat
    /\ KindSets \subseteq SUBSET SubtitleKinds /\ DeletesRace \in BOOLEAN

TracksOf(k) == IF k = "text" THEN TextTracks ELSE ImageTracks
KindOf(t) == IF t \in ImageTracks THEN "sets" ELSE "text"

VARIABLES
    kinds,         \* SUBTITLE_KINDS, or those of them this behaviour follows
    snapshot,      \* collections.snapshot_active, of the one they are all in
    imageLists,    \* the link's host takes image worklists
    replaced,      \* files replaced on the mediahost that are yet to be committed
    version, rev,  \* files: the row's version, and the identity of its bytes
    jobs,          \* subtitle_jobs
    cache,         \* artifacts on disk, <<file, revision, track>>
    torn,          \* those whose blocks are not the track's, whole and in order
    dpc, batch,    \* the queue driver and the jobs it has claimed
    watching,      \* the directory watcher is installed
    started,       \* the driver has been spawned
    events,        \* CacheEvents: files whose directory changed
    touched, page, \* files the watcher must still read; sources it has captured
    wjob,          \* the file it is reconciling
    up, reconnected, \* the link; a connected event the listener has not handled
    toHost, toHub, \* messages on the link
    landing,       \* what the link's worker is doing about a message
    partial,       \* transfers being gathered, by <<file, revision, track>>
    seen, meta, queued, \* the mediahost's text tier
    images,        \* its background image queue, and the keys seen in it
    walks,         \* walks under way
    doubled,       \* history: artifacts with two transfers under way at once
    disturbances

world   == <<kinds, snapshot, imageLists, replaced>>
durable == <<world, version, rev, jobs, cache, torn>>
driver  == <<dpc, batch>>
watcher == <<watching, started, events, touched, page, wjob>>
link    == <<up, reconnected, toHost, toHub, landing, partial>>
host    == <<seen, meta, queued, images, walks, doubled>>
vars == <<durable, driver, watcher, link, host, disturbances>>

Revs == 1 .. MaxDisturbances + 1
Artifacts == Files \X Revs \X (TextTracks \cup ImageTracks)

(***************************************************************************)
(* Rows.  `ripe` is due_at <= now, or lease_until <= now of a running row. *)
(***************************************************************************)

NoRow == [state |-> "none", attempts |-> 0, ripe |-> FALSE]
Fresh == [state |-> "pending", attempts |-> 0, ripe |-> TRUE]
RowStates == {"none", "pending", "running", "retry", "blocked"}

Leased(f, k) == jobs[f][k].state = "running" /\ ~jobs[f][k].ripe
Leases(k) == Cardinality({f \in Files : Leased(f, k)})

(* Mutant of Claimable: a lapsed lease does not make a row claimable.      *)
ClaimableUnleased(f, k) ==
    ~snapshot /\ jobs[f][k].state \in {"pending", "retry"} /\ jobs[f][k].ripe

(* No row of a collection inside a snapshot is.                            *)
Claimable(f, k) ==
    ~snapshot /\ jobs[f][k].state \in {"pending", "retry", "running"} /\ jobs[f][k].ripe

Capped(n) == IF n > BlockAfter THEN BlockAfter ELSE n
Smaller(a, b) == IF a < b THEN a ELSE b

(* A captured source, as every disk check and row update carries it.       *)
Captured(f) == [file |-> f, version |-> version[f], rev |-> rev[f]]

(* text_item, sets_items: the tracks of kind k that are not on disk.       *)
Missing(c, k) == {t \in TracksOf(k) : <<c.file, c.rev, t>> \notin cache}

(* Mutant of Reconciled: the captured version is not compared.             *)
ReconciledAnyVersion(c, k, missing) ==
    [jobs EXCEPT ![c.file][k] =
        IF missing THEN IF @ = NoRow THEN Fresh ELSE @ ELSE NoRow]

(* reconcile_subtitle_job                                                  *)
Reconciled(c, k, missing) ==
    IF version[c.file] # c.version THEN jobs
    ELSE [jobs EXCEPT ![c.file][k] =
            IF missing THEN IF @ = NoRow THEN Fresh ELSE @ ELSE NoRow]

(* fail_subtitle_job                                                       *)
Failed(c, k) ==
    IF version[c.file] # c.version \/ jobs[c.file][k] = NoRow THEN jobs
    ELSE LET spent == jobs[c.file][k].attempts >= BlockAfter
         IN [jobs EXCEPT ![c.file][k].state = IF spent THEN "blocked" ELSE "retry",
                         ![c.file][k].ripe = FALSE]

(* release_subtitle_host                                                   *)
Released ==
    [f \in Files |-> [k \in SubtitleKinds |->
        IF jobs[f][k].state = "running" THEN Fresh ELSE jobs[f][k]]]

NoJob == [file |-> "none"]
NoWalk == [file |-> "none"]

(***************************************************************************)
(* What may go wrong from outside, within one budget.                      *)
(***************************************************************************)

Disturb == disturbances < MaxDisturbances /\ disturbances' = disturbances + 1

Init ==
    /\ kinds \in KindSets
    /\ snapshot \in BOOLEAN /\ imageLists = FALSE /\ replaced = {}
    /\ version = [f \in Files |-> 1]
    /\ rev = [f \in Files |-> 1]
    /\ jobs = [f \in Files |-> [k \in SubtitleKinds |-> IF k \in kinds THEN Fresh ELSE NoRow]]
    /\ cache = {} /\ torn = {}
    /\ dpc = "ready" /\ batch = {}
    /\ watching = FALSE /\ started = FALSE
    /\ events = {} /\ touched = {} /\ page = {} /\ wjob = NoJob
    /\ up = FALSE /\ reconnected = FALSE
    /\ toHost = <<>> /\ toHub = <<>> /\ landing = NoJob /\ partial = <<>>
    /\ seen = {} /\ meta = [f \in Files |-> 0] /\ queued = {} /\ images = {}
    /\ walks = [w \in 1 .. MaxWalks |-> NoWalk]
    /\ doubled = {}
    /\ disturbances = 0

(* apply_catalogue on a file record, with upsert_subtitle_jobs in the same *)
(* transaction: a row per kind, reset when the bytes changed.  It is a     *)
(* message of the link, so its worker is not busy with another.            *)
Commit(f, changed) ==
    /\ IF changed /\ f \in replaced THEN UNCHANGED disturbances ELSE Disturb
    /\ up /\ landing = NoJob
    /\ version' = [version EXCEPT ![f] = @ + 1]
    /\ rev' = IF changed THEN [rev EXCEPT ![f] = @ + 1] ELSE rev
    /\ jobs' = [jobs EXCEPT ![f] = [k \in SubtitleKinds |->
                    IF k \in kinds /\ (changed \/ @[k] = NoRow) THEN Fresh ELSE @[k]]]
    /\ replaced' = IF changed THEN replaced \ {f} ELSE replaced
    /\ UNCHANGED <<kinds, snapshot, imageLists, cache, torn, driver, watcher, link, host>>

(* Other bytes take the file's place, and the hub does not know yet.  Only *)
(* text replies carry a size.                                              *)
Replace(f) ==
    /\ Disturb
    /\ "text" \in kinds /\ f \notin replaced
    /\ replaced' = replaced \cup {f}
    /\ UNCHANGED <<kinds, snapshot, imageLists, version, rev, jobs, cache, torn, driver,
                   watcher, link, host>>

(* offer_catalogue asks for a snapshot; its last chunk is applied.         *)
BeginSnapshot ==
    /\ Disturb
    /\ up /\ landing = NoJob /\ ~snapshot
    /\ snapshot' = TRUE
    /\ UNCHANGED <<kinds, imageLists, replaced, version, rev, jobs, cache, torn, driver,
                   watcher, link, host>>

EndSnapshot ==
    /\ up /\ landing = NoJob /\ snapshot
    /\ snapshot' = FALSE
    /\ UNCHANGED <<kinds, imageLists, replaced, version, rev, jobs, cache, torn, driver,
                   watcher, link, host, disturbances>>

(* Somebody is between a disk check of f and the update that follows it.   *)
Settling(f) ==
    \/ \E b \in batch : b.file = f /\ b.verdict = "cached"
    \/ landing.file = f /\ landing.op = "settle"
    \/ wjob.file = f

(* The cache directory loses a file: an operator, or a cleaner.            *)
DeleteArtifact(a) ==
    /\ Disturb
    /\ a \in cache
    /\ DeletesRace \/ ~Settling(a[1])
    /\ cache' = cache \ {a}
    /\ torn' = torn \ {a}
    /\ events' = IF watching THEN events \cup {a[1]} ELSE events
    /\ UNCHANGED <<world, version, rev, jobs, driver, watching, started, touched, page,
                   wjob, link, host>>

(* Work on one track is somewhere between the offer and its landing.       *)
Underway(f, k) ==
    \/ \E b \in batch : b.file = f /\ b.kind = k
    \/ \E i \in DOMAIN toHost : toHost[i].file = f /\ KindOf(toHost[i].track) = k
    \/ k = "text" /\ f \in seen
    \/ k = "sets" /\ \E x \in images : x[1] = f
    \/ \E w \in DOMAIN walks : walks[w].file = f /\ KindOf(walks[w].track) = k
    \/ \E i \in DOMAIN toHub : toHub[i].file = f /\ KindOf(toHub[i].track) = k
    \/ landing.file = f /\ landing.kind = k

(* LEASE_SECS runs out.  That it does so before the walk has landed is     *)
(* rare enough to count as a disturbance.                                  *)
LeaseLapses(f, k) ==
    /\ Leased(f, k)
    /\ IF Underway(f, k) THEN Disturb ELSE UNCHANGED disturbances
    /\ jobs' = [jobs EXCEPT ![f][k].ripe = TRUE]
    /\ UNCHANGED <<world, version, rev, cache, torn, driver, watcher, link, host>>

(* HOST_ERROR_RETRY_SECS runs out.                                         *)
RetryDue(f, k) ==
    /\ jobs[f][k].state = "retry" /\ ~jobs[f][k].ripe
    /\ jobs' = [jobs EXCEPT ![f][k].ripe = TRUE]
    /\ UNCHANGED <<world, version, rev, cache, torn, driver, watcher, link, host, disturbances>>

(* rerun_subtitle_jobs: an administrator releases failed work.             *)
Rerun(k) ==
    /\ Disturb
    /\ jobs' = [f \in Files |-> [jobs[f] EXCEPT ![k] =
                    IF @.state \in {"blocked", "retry"} THEN Fresh ELSE @]]
    /\ jobs' # jobs
    /\ UNCHANGED <<world, version, rev, cache, torn, driver, watcher, link, host>>

(***************************************************************************)
(* The queue driver: Subtitles::step.                                      *)
(***************************************************************************)

(* subtitle_dispatch_state: a host above the refill mark is left alone, and *)
(* an older one with its image rows.                                       *)
BeginRefill(k) ==
    /\ started /\ up
    /\ k = "sets" => imageLists
    /\ dpc = "ready"
    /\ Leases(k) <= RefillAt
    /\ \E f \in Files : Claimable(f, k)
    /\ dpc' = k
    /\ UNCHANGED <<durable, batch, watcher, link, host, disturbances>>

ClaimLimit(k) == IF Leases(k) < Window THEN Window - Leases(k) ELSE 0

(* claim_subtitle_jobs, one transaction; the order of the rows is left     *)
(* open.                                                                   *)
Claim(k) ==
    /\ dpc = k /\ batch = {}
    /\ LET due == {f \in Files : Claimable(f, k)}
           n   == Smaller(ClaimLimit(k), Cardinality(due))
       IN IF n = 0
          THEN dpc' = "ready" /\ UNCHANGED <<jobs, batch>>
          ELSE \E s \in SUBSET due :
                /\ Cardinality(s) = n
                /\ jobs' = [f \in Files |-> IF f \notin s THEN jobs[f]
                              ELSE [jobs[f] EXCEPT ![k] =
                                    [state |-> "running", ripe |-> FALSE,
                                     attempts |-> Capped(@.attempts + 1)]]]
                /\ batch' = {[file |-> f, version |-> version[f], rev |-> rev[f],
                              kind |-> k, verdict |-> "claimed", items |-> {}] : f \in s}
                /\ UNCHANGED dpc
    /\ UNCHANGED <<world, version, rev, cache, torn, watcher, link, host, disturbances>>

(* Is it on disk already?                                                  *)
CheckJob(b) ==
    /\ b \in batch /\ b.verdict = "claimed"
    /\ LET items == Missing(b, b.kind)
       IN batch' = (batch \ {b}) \cup
            {[b EXCEPT !.verdict = IF items = {} THEN "cached" ELSE "offered",
                       !.items = items]}
    /\ UNCHANGED <<durable, dpc, watcher, link, host, disturbances>>

SettleJob(b) ==
    /\ b \in batch /\ b.verdict = "cached"
    /\ jobs' = Reconciled(b, b.kind, FALSE)
    /\ batch' = (batch \ {b}) \cup {[b EXCEPT !.verdict = "settled"]}
    /\ UNCHANGED <<world, version, rev, cache, torn, dpc, watcher, link, host, disturbances>>

(* A text walk takes the whole file; image tracks are walked one by one.   *)
WorkItems(b) ==
    {[file |-> b.file, rev |-> b.rev, track |-> t, urgent |-> FALSE] :
        t \in IF b.kind = "sets" THEN b.items
              ELSE IF b.items # {} THEN {TextFile} ELSE {}}

(* The worklist goes out, and the loop claims again if something settled;  *)
(* when the send fails every running row of the host is released.          *)
Dispatch ==
    /\ batch # {}
    /\ \A b \in batch : b.verdict \in {"offered", "settled"}
    /\ LET items == UNION {WorkItems(b) : b \in batch}
       IN /\ \E order \in {s \in [1 .. Cardinality(items) -> items] :
                            \A x \in items : \E i \in DOMAIN s : s[i] = x} :
                toHost' = IF up THEN toHost \o order ELSE toHost
          /\ jobs' = IF items = {} \/ up THEN jobs ELSE Released
          /\ dpc' = IF /\ items = {} \/ up
                       /\ \E b \in batch : b.verdict = "settled"
                    THEN dpc ELSE "ready"
    /\ batch' = {}
    /\ UNCHANGED <<world, version, rev, cache, torn, watcher, up, reconnected, toHub,
                   landing, partial, host, disturbances>>

(***************************************************************************)
(* The directory watcher: Subtitles::watch_cache.                          *)
(***************************************************************************)

(* The watcher is installed before the pass reads its page of sources.     *)
InstallWatcher ==
    /\ ~watching
    /\ watching' = TRUE
    /\ page' = {Captured(f) : f \in Files}
    /\ UNCHANGED <<durable, driver, started, events, touched, wjob, link, host,
                   disturbances>>

(* Mutant of TakeEvents: the events are dropped once the work is done,     *)
(* not when it begins.                                                     *)
TakeEventsLate ==
    /\ watching /\ started
    /\ page = {} /\ wjob = NoJob
    /\ events # {}
    /\ IF touched = {} THEN touched' = events /\ UNCHANGED events
       ELSE touched' = {} /\ events' = {}
    /\ UNCHANGED <<durable, driver, watching, started, page, wjob, link, host,
                   disturbances>>

TakeEvents ==
    /\ watching /\ started
    /\ touched = {} /\ page = {} /\ wjob = NoJob
    /\ events # {}
    /\ touched' = events /\ events' = {}
    /\ UNCHANGED <<durable, driver, watching, started, page, wjob, link, host,
                   disturbances>>

ReadFile(f) ==
    /\ f \in touched /\ page = {} /\ wjob = NoJob
    /\ touched' = touched \ {f}
    /\ page' = {Captured(f)}
    /\ UNCHANGED <<durable, driver, watching, started, events, wjob, link, host,
                   disturbances>>

(* reconcile_file: the disk checks, then a row update per kind.            *)
CheckFile(c) ==
    /\ c \in page /\ wjob = NoJob
    /\ page' = page \ {c}
    /\ wjob' = [file |-> c.file, version |-> c.version, rev |-> c.rev,
                missing |-> {k \in kinds : Missing(c, k) # {}}, left |-> kinds]
    /\ UNCHANGED <<durable, driver, watching, started, events, touched, link, host,
                   disturbances>>

WriteFile(k) ==
    /\ wjob # NoJob
    /\ k \in wjob.left
    /\ k = "sets" => "text" \notin wjob.left
    /\ jobs' = Reconciled(wjob, k, k \in wjob.missing)
    /\ wjob' = IF wjob.left = {k} THEN NoJob ELSE [wjob EXCEPT !.left = @ \ {k}]
    /\ UNCHANGED <<world, version, rev, cache, torn, driver, watching, started, events,
                   touched, page, link, host, disturbances>>

StartDriver ==
    /\ watching /\ ~started
    /\ page = {} /\ wjob = NoJob
    /\ started' = TRUE
    /\ UNCHANGED <<durable, driver, watching, events, touched, page, wjob, link,
                   host, disturbances>>

(* An error, or a cache directory that moved: everything taken is lost and *)
(* the watcher is installed again, with a pass.                            *)
WatcherFails ==
    /\ Disturb
    /\ watching
    /\ watching' = FALSE
    /\ events' = {} /\ touched' = {} /\ page' = {} /\ wjob' = NoJob
    /\ UNCHANGED <<durable, driver, started, link, host>>

(***************************************************************************)
(* The link.                                                               *)
(***************************************************************************)

(* The link's tasks, the mediahost's queues and walks, and the transfers   *)
(* being gathered are per connection.                                      *)
LoseLink ==
    /\ up' = FALSE
    /\ toHost' = <<>> /\ toHub' = <<>> /\ landing' = NoJob /\ partial' = <<>>
    /\ seen' = {} /\ meta' = [f \in Files |-> 0] /\ queued' = {} /\ images' = {}
    /\ walks' = [w \in DOMAIN walks |-> NoWalk]
    /\ imageLists' = FALSE
    /\ UNCHANGED <<doubled, kinds, snapshot, replaced, version, rev, jobs, cache, torn>>

Cut ==
    /\ Disturb
    /\ up
    /\ LoseLink
    /\ UNCHANGED <<driver, watcher, reconnected>>

(* An older host loses its link to a batch of image tracks: the driver      *)
(* looked at the host before it.                                            *)
LoseOldHost ==
    /\ toHost # <<>> /\ ~imageLists
    /\ ~Head(toHost).urgent /\ Head(toHost).track # TextFile
    /\ LoseLink
    /\ UNCHANGED <<driver, watcher, reconnected, disturbances>>

HubRestart ==
    /\ Disturb
    /\ LoseLink
    /\ reconnected' = FALSE
    /\ dpc' = "ready" /\ batch' = {}
    /\ watching' = FALSE /\ started' = FALSE
    /\ events' = {} /\ touched' = {} /\ page' = {} /\ wjob' = NoJob

(* A mediahost of this protocol, or of one without image worklists, which  *)
(* only matters to display sets.                                           *)
Connect ==
    /\ ~up
    /\ up' = TRUE
    /\ reconnected' = TRUE
    /\ imageLists' \in IF "sets" \in kinds THEN BOOLEAN ELSE {TRUE}
    /\ UNCHANGED <<kinds, snapshot, replaced, version, rev, jobs, cache, torn, driver,
                   watcher, toHost, toHub, landing, partial, host, disturbances>>

(* The reconnect listener.                                                 *)
ReleaseHost ==
    /\ reconnected
    /\ reconnected' = FALSE
    /\ jobs' = IF up THEN Released ELSE jobs
    /\ UNCHANGED <<world, version, rev, cache, torn, driver, watcher, up, toHost, toHub,
                   landing, partial, host, disturbances>>

(* A viewer asks for a track that is not cached: image_sets_state,         *)
(* request_extraction.                                                     *)
Request(f, t) ==
    /\ Disturb
    /\ up
    /\ <<f, rev[f], t>> \notin cache
    /\ toHost' = Append(toHost,
            [file |-> f, rev |-> rev[f], urgent |-> TRUE,
             track |-> IF t \in ImageTracks THEN t ELSE TextFile])
    /\ UNCHANGED <<durable, driver, watcher, up, reconnected, toHub, landing, partial,
                   host>>

(***************************************************************************)
(* The mediahost.                                                          *)
(***************************************************************************)

FreeWalks == {w \in DOMAIN walks : walks[w] = NoWalk}
FirstFree == CHOOSE w \in FreeWalks : \A v \in FreeWalks : w <= v

(* A transfer of this artifact is being walked, sent or gathered.          *)
InTransfer(a) ==
    \/ \E w \in DOMAIN walks : walks[w] # NoWalk
            /\ <<walks[w].file, walks[w].rev, walks[w].track>> = a
    \/ \E i \in DOMAIN toHub : <<toHub[i].file, toHub[i].rev, toHub[i].track>> = a

Doubling(a) == IF InTransfer(a) THEN doubled \cup {a} ELSE doubled

Started(f, r, t, tier) ==
    [walks EXCEPT ![FirstFree] =
        [file |-> f, rev |-> r, track |-> t, tier |-> tier, sent |-> 0]]

(* intake of one item.  A text file already in the tier only has its       *)
(* revision refreshed, even while its walk runs.                           *)
Intake ==
    /\ toHost # <<>>
    /\ toHost' = Tail(toHost)
    /\ LET m == Head(toHost)
       IN \/ /\ m.urgent
             /\ FreeWalks # {}
             /\ walks' = Started(m.file, m.rev, m.track, FALSE)
             /\ doubled' = Doubling(<<m.file, m.rev, m.track>>)
             /\ UNCHANGED <<seen, meta, queued, images>>
          \/ /\ ~m.urgent /\ m.track = TextFile
             /\ meta' = [meta EXCEPT ![m.file] = m.rev]
             /\ seen' = seen \cup {m.file}
             /\ queued' = IF m.file \in seen THEN queued ELSE queued \cup {m.file}
             /\ UNCHANGED <<images, walks, doubled>>
          \/ /\ ~m.urgent /\ m.track # TextFile /\ imageLists
             /\ images' = images \cup {<<m.file, m.rev, m.track>>}
             /\ UNCHANGED <<seen, meta, queued, walks, doubled>>
    /\ UNCHANGED <<durable, driver, watcher, up, reconnected, toHub, landing, partial,
                   disturbances>>

SpawnText(f) ==
    /\ f \in queued /\ FreeWalks # {}
    /\ queued' = queued \ {f}
    /\ walks' = Started(f, meta[f], TextFile, TRUE)
    /\ UNCHANGED <<durable, driver, watcher, link, seen, meta, images, doubled, disturbances>>

SpawnImage(x) ==
    /\ x \in images /\ FreeWalks # {}
    /\ images' = images \ {x}
    /\ walks' = Started(x[1], x[2], x[3], FALSE)
    /\ doubled' = Doubling(x)
    /\ UNCHANGED <<durable, driver, watcher, link, seen, meta, queued, disturbances>>

Reply(w, part, last, result) ==
    [file |-> w.file, rev |-> w.rev, track |-> w.track,
     part |-> part, last |-> last, result |-> result]

(* extract_and_send: the tracks of one file, an error, or a reply that     *)
(* omits some of them.  Of a file that was replaced the size may be another *)
(* than the hub knows.  The tier forgets the file when the task is joined.  *)
SendText(w, result) ==
    /\ walks[w] # NoWalk /\ walks[w].track = TextFile /\ walks[w].sent = 0
    /\ result = "resized" => walks[w].file \in replaced
    /\ toHub' = Append(toHub, Reply(walks[w], 1, TRUE, result))
    /\ walks' = [walks EXCEPT ![w] = IF @.tier THEN [@ EXCEPT !.sent = 1] ELSE NoWalk]
    /\ UNCHANGED <<durable, driver, watcher, up, reconnected, toHost, landing, partial,
                   seen, meta, queued, images, doubled, disturbances>>

JoinText(w) ==
    /\ walks[w] # NoWalk /\ walks[w].track = TextFile /\ walks[w].sent = 1
    /\ walks' = [walks EXCEPT ![w] = NoWalk]
    /\ seen' = seen \ {walks[w].file}
    /\ meta' = [meta EXCEPT ![walks[w].file] = 0]
    /\ UNCHANGED <<durable, driver, watcher, link, queued, images, doubled, disturbances>>

(* extract_image_and_send, send_chunked.                                   *)
SendSets(w) ==
    /\ walks[w] # NoWalk /\ walks[w].track # TextFile
    /\ LET part == walks[w].sent + 1
       IN /\ toHub' = Append(toHub, Reply(walks[w], part, part = Chunks, "ok"))
          /\ walks' = [walks EXCEPT ![w] =
                        IF part = Chunks THEN NoWalk ELSE [@ EXCEPT !.sent = part]]
    /\ UNCHANGED <<durable, driver, watcher, up, reconnected, toHost, landing, partial,
                   seen, meta, queued, images, doubled, disturbances>>

FailSets(w) ==
    /\ walks[w] # NoWalk /\ walks[w].track # TextFile /\ walks[w].sent = 0
    /\ toHub' = Append(toHub, Reply(walks[w], 1, TRUE, "error"))
    /\ walks' = [walks EXCEPT ![w] = NoWalk]
    /\ UNCHANGED <<durable, driver, watcher, up, reconnected, toHost, landing, partial,
                   seen, meta, queued, images, doubled, disturbances>>

(***************************************************************************)
(* The link's worker on the hub: handle_host_msg.                          *)
(***************************************************************************)

Gathered(x) == IF x \in DOMAIN partial THEN partial[x] ELSE <<>>
Without(x) == [y \in DOMAIN partial \ {x} |-> partial[y]]
With(x, parts) == [y \in DOMAIN partial \cup {x} |-> IF y = x THEN parts ELSE partial[y]]

Whole == [i \in 1 .. Chunks |-> i]

Landing(f, k, op) ==
    [file |-> f, version |-> version[f], rev |-> rev[f], kind |-> k, op |-> op]

Noticed(f) == IF watching THEN events \cup {f} ELSE events

(* accepts_extraction fails.                                               *)
Stale(m) == m.rev # rev[m.file]

(* Tracks of another size are discarded, and the row keeps its lease.      *)
ReceiveText ==
    /\ landing = NoJob /\ toHub # <<>> /\ Head(toHub).track = TextFile
    /\ toHub' = Tail(toHub)
    /\ LET m == Head(toHub)
       IN IF Stale(m) \/ m.result = "resized" THEN UNCHANGED <<cache, events, landing>>
          ELSE IF m.result = "error"
          THEN /\ landing' = Landing(m.file, "text", "fail")
               /\ UNCHANGED <<cache, events>>
          ELSE /\ \E s \in IF m.result = "ok" THEN {TextTracks}
                           ELSE SUBSET TextTracks \ {TextTracks} :
                    cache' = cache \cup {<<m.file, m.rev, t>> : t \in s}
               /\ events' = Noticed(m.file)
               /\ landing' = Landing(m.file, "text", "check")
    /\ UNCHANGED <<world, version, rev, jobs, torn, driver, watching, started, touched, page,
                   wjob, up, reconnected, toHost, partial, host, disturbances>>

(* Mutant of PartialKey: transfers are gathered per track, whatever the    *)
(* revision.                                                               *)
PartialKeyOfTrack(m) == <<m.file, 1, m.track>>

PartialKey(m) == <<m.file, m.rev, m.track>>

(* accept_chunk                                                            *)
ReceiveSets ==
    /\ landing = NoJob /\ toHub # <<>> /\ Head(toHub).track # TextFile
    /\ toHub' = Tail(toHub)
    /\ LET m     == Head(toHub)
           x     == PartialKey(m)
           a     == <<m.file, m.rev, m.track>>
           parts == Append(Gathered(x), m.part)
       IN \/ /\ Stale(m)
             /\ partial' = Without(x)
             /\ UNCHANGED <<cache, torn, events, landing>>
          \/ /\ ~Stale(m) /\ m.result = "error"
             /\ partial' = Without(x)
             /\ landing' = Landing(m.file, "sets", "fail")
             /\ UNCHANGED <<cache, torn, events>>
          \/ /\ ~Stale(m) /\ m.result = "ok" /\ Len(parts) > MaxParts
             /\ partial' = Without(x)
             /\ landing' = Landing(m.file, "sets", "fail")
             /\ UNCHANGED <<cache, torn, events>>
          \/ /\ ~Stale(m) /\ m.result = "ok" /\ Len(parts) <= MaxParts /\ ~m.last
             /\ partial' = With(x, parts)
             /\ UNCHANGED <<cache, torn, events, landing>>
          \/ /\ ~Stale(m) /\ m.result = "ok" /\ Len(parts) <= MaxParts /\ m.last
             /\ partial' = Without(x)
             /\ cache' = cache \cup {a}
             /\ torn' = IF parts = Whole THEN torn \ {a} ELSE torn \cup {a}
             /\ events' = Noticed(m.file)
             /\ landing' = Landing(m.file, "sets", "check")
    /\ UNCHANGED <<world, version, rev, jobs, driver, watching, started, touched, page,
                   wjob, up, reconnected, toHost, host, disturbances>>

(* text_landed, sets_landed: what is still missing?                        *)
CheckLanding ==
    /\ landing # NoJob /\ landing.op = "check"
    /\ landing' = IF Missing(landing, landing.kind) = {}
                  THEN [landing EXCEPT !.op = "settle"]
                  ELSE IF landing.kind = "text"
                  THEN [landing EXCEPT !.op = "fail"]
                  ELSE NoJob
    /\ UNCHANGED <<durable, driver, watcher, up, reconnected, toHost, toHub, partial,
                   host, disturbances>>

WriteLanding ==
    /\ landing # NoJob /\ landing.op \in {"settle", "fail"}
    /\ jobs' = IF landing.op = "settle"
               THEN Reconciled(landing, landing.kind, FALSE)
               ELSE Failed(landing, landing.kind)
    /\ landing' = NoJob
    /\ UNCHANGED <<world, version, rev, cache, torn, driver, watcher, up, reconnected, toHost,
                   toHub, partial, host, disturbances>>

(***************************************************************************)

DriverStep(k) ==
    \/ Claim(k)
    \/ \E b \in batch : b.kind = k /\ (CheckJob(b) \/ SettleJob(b))
    \/ dpc = k /\ Dispatch

WatcherStep ==
    \/ InstallWatcher \/ TakeEvents \/ StartDriver
    \/ \E f \in touched : ReadFile(f)
    \/ \E c \in page : CheckFile(c)
    \/ \E k \in kinds : WriteFile(k)

HostStep ==
    \/ Intake
    \/ \E f \in queued : SpawnText(f)
    \/ \E x \in images : SpawnImage(x)

WalkStep(w) ==
    \/ \E r \in {"ok", "omits", "error", "resized"} : SendText(w, r)
    \/ JoinText(w) \/ SendSets(w) \/ FailSets(w)

WorkerStep == ReceiveText \/ ReceiveSets \/ CheckLanding \/ WriteLanding

Next ==
    \/ \E k \in kinds : BeginRefill(k) \/ DriverStep(k) \/ Rerun(k)
    \/ WatcherStep \/ WatcherFails
    \/ HostStep \/ WorkerStep
    \/ \E w \in DOMAIN walks : WalkStep(w)
    \/ Cut \/ LoseOldHost \/ HubRestart \/ Connect \/ ReleaseHost
    \/ BeginSnapshot \/ EndSnapshot
    \/ \E a \in cache : DeleteArtifact(a)
    \/ \E f \in Files :
        \/ \E changed \in BOOLEAN : Commit(f, changed)
        \/ Replace(f)
        \/ \E k \in SubtitleKinds : LeaseLapses(f, k) \/ RetryDue(f, k)
        \/ \E k \in kinds : \E t \in TracksOf(k) : Request(f, t)

(* Every task keeps running, clocks advance, and a mediahost that lost its *)
(* link dials again.  One step of the driver visits every kind, so a kind  *)
(* with claimable rows is not passed over for ever.  The link's messages   *)
(* come in order: a snapshot comes to its end between extraction replies,  *)
(* and a file that was replaced to its commit.                             *)
Fairness ==
    /\ \A k \in SubtitleKinds : SF_vars(BeginRefill(k)) /\ WF_vars(DriverStep(k))
    /\ WF_vars(WatcherStep) /\ WF_vars(HostStep) /\ WF_vars(WorkerStep)
    /\ \A w \in 1 .. MaxWalks : WF_vars(WalkStep(w))
    /\ WF_vars(Connect) /\ WF_vars(LoseOldHost) /\ WF_vars(ReleaseHost)
    /\ SF_vars(EndSnapshot) /\ \A f \in Files : SF_vars(f \in replaced /\ Commit(f, TRUE))
    /\ \A f \in Files, k \in SubtitleKinds : WF_vars(LeaseLapses(f, k)) /\ WF_vars(RetryDue(f, k))

Spec == Init /\ [][Next]_vars /\ Fairness

(***************************************************************************)
(* Properties.                                                             *)
(***************************************************************************)

(* The types of the variables; a link that is down carries nothing.        *)
SubtitleTypeOK ==
    /\ kinds \in KindSets
    /\ snapshot \in BOOLEAN /\ replaced \subseteq Files /\ (imageLists => up)
    /\ version \in [Files -> Nat] /\ rev \in [Files -> Revs]
    /\ \A f \in Files, k \in kinds :
        jobs[f][k] \in [state : RowStates, attempts : 0 .. BlockAfter, ripe : BOOLEAN]
    /\ cache \subseteq Artifacts /\ torn \subseteq cache
    /\ dpc \in {"ready"} \cup kinds
    /\ \A b \in batch : b.kind = dpc
    /\ seen \subseteq Files /\ queued \subseteq seen
    /\ DOMAIN partial \subseteq Artifacts /\ doubled \subseteq Files \X Revs \X (ImageTracks \cup {TextFile})
    /\ ~up => toHost = <<>> /\ toHub = <<>> /\ landing = NoJob

(* What is missing for the current bytes is asked for: it has a row, or    *)
(* the watcher has yet to look at the file.  A commit, a landing, a        *)
(* settlement from disk and a deletion meet in any order, over crashes and *)
(* a watcher that is down for a while.                                     *)
MissingIsOutstanding ==
    \A f \in Files, k \in kinds :
        \/ Missing(Captured(f), k) = {}
        \/ jobs[f][k] # NoRow
        \/ ~watching
        \/ f \in events \cup touched
        \/ Captured(f) \in page
        \/ wjob.file = f /\ k \in wjob.left /\ k \in wjob.missing

(* A row goes away only when everything it asks for is on disk: an answer  *)
(* about earlier bytes, or a check of them, never settles their            *)
(* replacement.                                                            *)
RowsAreSettledByDisk ==
    [][\A f \in Files, k \in kinds :
        jobs[f][k] # NoRow /\ jobs'[f][k] = NoRow => Missing(Captured(f), k) = {}]_vars

(* Display sets on disk are the track's blocks, all of them, once and in   *)
(* order, whatever cut, replaced or refused the transfers before, unless   *)
(* two transfers of that very track and revision were under way at once.   *)
(* accept_chunk keeps this for a track that passes the limit with its last *)
(* message; of a longer one the hub gathers the rest anew and stores it.   *)
TornOnlyWhenDoubled == Chunks <= MaxParts + 1 => torn \subseteq doubled

(* What is missing is extracted, or parked after repeated failures: no     *)
(* order of crashes, cuts, snapshots, replaced files, discarded replies    *)
(* and lost requests strands it.  Display sets wait while the host is too   *)
(* old for them, and no longer.                                            *)
MissingIsResolved ==
    \A f \in Files, k \in SubtitleKinds :
        k \in kinds /\ Missing(Captured(f), k) # {} ~>
            \/ Missing(Captured(f), k) = {}
            \/ jobs[f][k].state = "blocked"
            \/ k = "sets" /\ up /\ ~imageLists
=============================================================================
