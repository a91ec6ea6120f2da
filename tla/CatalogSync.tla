---------------------------- MODULE CatalogSync ----------------------------
(***************************************************************************)
(* Replication of one collection from a mediahost to a hub (protocol 4).   *)
(*                                                                         *)
(* The mediahost half is link_once_v4, schedule_catalog_updates,           *)
(* send_catalog_pages and delta_pages; the hub half is the CatalogOffer    *)
(* and CatalogDelta arms of handle_host_msg over the projection.  The link *)
(* is an ordered stream each way that may break at any moment: what was in *)
(* flight is then lost, and only the two databases survive.  A restart of  *)
(* the hub is such a break; a restart of the mediahost is one that also    *)
(* reopens its catalogue.                                                  *)
(***************************************************************************)
EXTENDS CatalogProjection

CONSTANTS
    PageSize,   \* RECORDS_PER_PAGE and RECORDS_PER_MESSAGE (256 in the code)
    LinkCap,    \* messages a direction of the link holds before it blocks
    MaxBreaks,  \* bound: times the link breaks or a process restarts
    NoSync,     \* no catalogue stream is running on this link
    NoCursor    \* nothing has been sent on this link yet

WireRecords ==
    [src : Sources, kind : Kinds, version : Nat \ {0}, deleted : BOOLEAN,
     payload : Payloads]
Streams ==
    [stage : {"queued", "streaming", "joined"}, start : Nat, snapshot : BOOLEAN,
     epoch : Nat, current : Nat, rows : SUBSET WireRecords, first : BOOLEAN]

ASSUME SyncAssumption ==
    /\ PageSize \in Nat \ {0}
    /\ LinkCap \in Nat \ {0}
    /\ MaxBreaks \in Nat
    /\ NoSync \notin Streams
    /\ NoCursor \notin Nat

VARIABLES
    link,       \* "down", "open" (HelloAck received) or "offered"
    toHub,      \* messages on their way to the hub
    toHost,     \* messages on their way to the mediahost
    sync,       \* the running catalogue stream, or NoSync
    sent,       \* the version the last stream ended at, or NoCursor
    wake,       \* the link's watch receiver has an unseen version
    hub,        \* the hub's projection
    hostAck,    \* catalog_hub_acks: the last acknowledgement recorded
    breaks      \* counts link breaks and restarts, up to MaxBreaks

linkVars == <<link, toHub, toHost, sync, sent, wake>>
vars == <<journalVars, linkVars, hub, hostAck, breaks>>

-----------------------------------------------------------------------------
(* Messages.                                                               *)

OfferMsg == [type |-> "offer", epoch |-> epoch, current |-> current]

CursorMsg(row) ==
    [type |-> "cursor", epoch |-> row.epoch, version |-> row.version, snap |-> row.snap]

DeltaMsg(records, through, snapshot, done) ==
    [type |-> "delta", epoch |-> sync.epoch, records |-> records,
     through |-> through, snapshot |-> snapshot, done |-> done]

AckMsg(e, v) == [type |-> "ack", epoch |-> e, version |-> v]

(* The rows one read transaction sees, as wire records.                    *)
AsRecord(s, k) ==
    [src |-> s, kind |-> k, version |-> journal[s][k].version,
     deleted |-> journal[s][k].deleted, payload |-> journal[s][k].payload]

ReplayRows(cursor) ==
    {AsRecord(x[1], x[2]) : x \in {y \in Sources \X Kinds :
        journal[y[1]][y[2]] # NoRecord /\ journal[y[1]][y[2]].version > cursor}}

(* Mutant: a snapshot carries tombstones as well.                          *)
AllRows == ReplayRows(0)

SnapshotRows == {r \in ReplayRows(0) : ~r.deleted}

Records(chunk) == {chunk[i] : i \in DOMAIN chunk}

(* ORDER BY version: the n first rows of a read, as a sequence.            *)
InVersionOrder(rows, n) ==
    {chunk \in [1 .. n -> rows] :
        /\ \A i, j \in 1 .. n : i < j => chunk[i].version < chunk[j].version
        /\ \A i \in 1 .. n : \A r \in rows \ Records(chunk) :
                chunk[i].version < r.version}

-----------------------------------------------------------------------------
(* The link.                                                               *)

LinkDown ==
    /\ link' = "down"
    /\ toHub' = <<>>
    /\ toHost' = <<>>
    /\ sync' = NoSync
    /\ sent' = NoCursor
    /\ wake' = FALSE

(* run_hub reconnects: Hello, HelloAck.                                    *)
Connect ==
    /\ link = "down"
    /\ link' = "open"
    /\ wake' = TRUE
    /\ UNCHANGED <<toHub, toHost, sync, sent, hub, hostAck, breaks, journalVars>>

(* ready_catalog_offer: no offer leaves before one scan has completed.      *)
SendOffer ==
    /\ link = "open"
    /\ completed
    /\ link' = "offered"
    /\ toHub' = Append(toHub, OfferMsg)
    /\ UNCHANGED <<toHost, sync, sent, wake, hub, hostAck, breaks, journalVars>>

(* Power, cable, a liveness or send timeout, or the hub process.            *)
Break ==
    /\ link # "down"
    /\ breaks < MaxBreaks
    /\ breaks' = breaks + 1
    /\ LinkDown
    /\ UNCHANGED <<hub, hostAck, journalVars>>

RestartHost ==
    /\ breaks < MaxBreaks
    /\ breaks' = breaks + 1
    /\ OpenStep
    /\ LinkDown
    /\ UNCHANGED <<hub, hostAck>>

-----------------------------------------------------------------------------
(* The hub, one message at a time, under the host's catalogue gate.        *)

(* CatalogOffer: commit, then answer with the durable cursor.              *)
HubOffer ==
    /\ toHub # <<>>
    /\ Head(toHub).type = "offer"
    /\ Len(toHost) < LinkCap
    /\ hub' = OfferCollection(hub, Head(toHub))
    /\ toHub' = Tail(toHub)
    /\ toHost' = Append(toHost, CursorMsg(hub'.row))
    /\ UNCHANGED <<link, sync, sent, wake, hostAck, breaks, journalVars>>

(* CatalogDelta: commit, then acknowledge the last chunk.                  *)
HubApply ==
    /\ toHub # <<>>
    /\ Head(toHub).type = "delta"
    /\ Len(toHost) < LinkCap
    /\ LET out == ApplyCatalogue(hub, Head(toHub))
       IN  /\ out.ok
           /\ hub' = out.proj
           /\ toHost' = IF out.ack = NoAck THEN toHost
                        ELSE Append(toHost, AckMsg(hub'.row.epoch, out.ack))
    /\ toHub' = Tail(toHub)
    /\ UNCHANGED <<link, sync, sent, wake, hostAck, breaks, journalVars>>

(* An error rolls the chunk back and closes the link with a status.        *)
HubReject ==
    /\ toHub # <<>>
    /\ Head(toHub).type = "delta"
    /\ ~ApplyCatalogue(hub, Head(toHub)).ok
    /\ LinkDown
    /\ UNCHANGED <<hub, hostAck, breaks, journalVars>>

-----------------------------------------------------------------------------
(* The mediahost's link task.                                              *)

(* A stream that has been spawned, before its read transaction begins.     *)
Queued(start, snapshot) ==
    [stage |-> "queued", start |-> start, snapshot |-> snapshot, epoch |-> 0,
     current |-> 0, rows |-> {}, first |-> TRUE]

(* CatalogCursor: the hub says where it stands.  A second stream for the   *)
(* collection is a protocol error and ends the link.                       *)
HostCursor ==
    /\ toHost # <<>>
    /\ Head(toHost).type = "cursor"
    /\ LET m == Head(toHost)
           snapshot == m.snap \/ m.epoch # epoch \/ m.version > current
       IN  IF sync # NoSync THEN LinkDown
           ELSE /\ sync' = Queued(IF snapshot THEN 0 ELSE m.version, snapshot)
                /\ toHost' = Tail(toHost)
                /\ UNCHANGED <<link, toHub, sent, wake>>
    /\ UNCHANGED <<hub, hostAck, breaks, journalVars>>

(* CatalogAck: acknowledge(), whose checks end the link when they fail.    *)
AckAcceptable(m) == m.epoch = epoch /\ m.version <= current

HostAck ==
    /\ toHost # <<>>
    /\ Head(toHost).type = "ack"
    /\ LET m == Head(toHost)
       IN  IF ~AckAcceptable(m) THEN LinkDown /\ UNCHANGED hostAck
           ELSE /\ hostAck' = [epoch |-> m.epoch,
                               version |-> IF hostAck.epoch = m.epoch
                                              /\ hostAck.version > m.version
                                           THEN hostAck.version ELSE m.version]
                /\ toHost' = Tail(toHost)
                /\ UNCHANGED <<link, toHub, sync, sent, wake>>
    /\ UNCHANGED <<hub, breaks, journalVars>>

(* delta_pages opens its read transaction: one consistent view for every    *)
(* page of the stream.                                                      *)
BeginPages ==
    /\ sync # NoSync
    /\ sync.stage = "queued"
    /\ sync' = [sync EXCEPT
            !.stage = "streaming", !.epoch = epoch, !.current = current,
            !.rows = IF sync.snapshot THEN SnapshotRows ELSE ReplayRows(sync.start)]
    /\ UNCHANGED <<link, toHub, toHost, sent, wake, hub, hostAck, breaks, journalVars>>

(* send_catalog_pages / send_catalog_delta: the next message, at most a page *)
(* of rows and at least one (payload bytes may cut it anywhere in between).  *)
(* A snapshot sends every file row before the first derived row, and closes  *)
(* with a message that is not made of file rows.                             *)
SendChunk ==
    /\ sync # NoSync
    /\ sync.stage = "streaming"
    /\ sync.rows # {}
    /\ Len(toHub) < LinkCap
    /\ LET fileRows == {r \in sync.rows : r.kind = "file"}
           inFiles  == sync.snapshot /\ fileRows # {}
           pool     == IF inFiles THEN fileRows ELSE sync.rows
       IN  \E n \in 1 .. PageSize : \E chunk \in InVersionOrder(pool, n) :
            LET rest    == sync.rows \ Records(chunk)
                done    == rest = {} /\ ~inFiles
                through == IF done THEN sync.current
                           ELSE IF sync.snapshot THEN 0 ELSE chunk[n].version
            IN  /\ toHub' = Append(toHub,
                        DeltaMsg(chunk, through, sync.snapshot /\ sync.first, done))
                /\ sync' = [sync EXCEPT !.rows = rest, !.first = FALSE,
                                        !.stage = IF done THEN "joined" ELSE @]
    /\ UNCHANGED <<link, toHost, sent, wake, hub, hostAck, breaks, journalVars>>

(* The same, when no rows are left to send: a snapshot still needs its done  *)
(* marker, an incremental stream that starts at the current version sends    *)
(* nothing at all.                                                           *)
SendEmpty ==
    /\ sync # NoSync
    /\ sync.stage = "streaming"
    /\ sync.rows = {}
    /\ IF sync.snapshot \/ sync.current # sync.start
       THEN /\ Len(toHub) < LinkCap
            /\ toHub' = Append(toHub, DeltaMsg(<<>>, sync.current,
                                               sync.snapshot /\ sync.first, TRUE))
       ELSE UNCHANGED toHub
    /\ sync' = [sync EXCEPT !.stage = "joined"]
    /\ UNCHANGED <<link, toHost, sent, wake, hub, hostAck, breaks, journalVars>>

(* Mutant: a stream that is one version behind is left asleep.              *)
ScheduleLate(cursor) ==
    sync' = IF advertised > cursor + 1 THEN Queued(cursor, FALSE) ELSE NoSync

(* schedule_catalog_updates, with what the watch holds now.                 *)
Schedule(cursor) ==
    sync' = IF advertised > cursor THEN Queued(cursor, FALSE) ELSE NoSync

(* join_next: the stream is over; the watch is read again before sleeping.  *)
SyncJoined ==
    /\ sync # NoSync
    /\ sync.stage = "joined"
    /\ sent' = sync.current
    /\ wake' = FALSE
    /\ Schedule(sync.current)
    /\ UNCHANGED <<link, toHub, toHost, hub, hostAck, breaks, journalVars>>

(* catalog_versions.changed(): nothing is scheduled before the first stream *)
(* has ended, nor while one is running.                                     *)
VersionsChanged ==
    /\ link = "offered"
    /\ wake
    /\ wake' = FALSE
    /\ IF sent # NoCursor /\ sync = NoSync THEN Schedule(sent) ELSE UNCHANGED sync
    /\ UNCHANGED <<link, toHub, toHost, sent, hub, hostAck, breaks, journalVars>>

(* The catalogue changes under the link; a published version wakes it.      *)
CatalogueStep ==
    /\ ScanStep \/ DiscoveryStep \/ PublishStep
    /\ wake' = (wake \/ (link # "down" /\ advertised' # advertised))
    /\ UNCHANGED <<link, toHub, toHost, sync, sent, hub, hostAck, breaks>>

-----------------------------------------------------------------------------
SyncInit ==
    /\ Init
    /\ link = "down"
    /\ toHub = <<>>
    /\ toHost = <<>>
    /\ sync = NoSync
    /\ sent = NoCursor
    /\ wake = FALSE
    /\ hub = EmptyProjection
    /\ hostAck = [epoch |-> 0, version |-> 0]
    /\ breaks = 0

ProtocolStep ==
    \/ Connect \/ SendOffer
    \/ HubOffer \/ HubApply \/ HubReject
    \/ HostCursor \/ HostAck
    \/ BeginPages \/ SendChunk \/ SendEmpty
    \/ SyncJoined \/ VersionsChanged

SyncNext == CatalogueStep \/ Break \/ RestartHost \/ ProtocolStep

(* Every protocol step is a task that is runnable, and a committed task      *)
(* reaches its publish; nothing obliges the disk to change or the link to    *)
(* break.  A scan that was started completes.                                *)
SyncFairness ==
    /\ WF_vars(ProtocolStep)
    /\ WF_vars(PublishStep /\ CatalogueStep)
    /\ WF_vars(FinishScan /\ CatalogueStep)

SyncSpec == SyncInit /\ [][SyncNext]_vars /\ SyncFairness

-----------------------------------------------------------------------------
(* Properties.                                                             *)

(* What the projection must hold for one journal row.                      *)
Shows(s, k) ==
    LET row == journal[s][k]
    IN  IF Live(row)
        THEN IF k = "file"
             THEN /\ hub.files[s] # NoFile
                  /\ hub.files[s].rev = row.payload.rev
                  /\ hub.files[s].meta = row.payload.meta
             ELSE /\ hub.facts[s][k] # NoFact
                  /\ hub.facts[s][k].payload = row.payload
        ELSE IF k = "file"
             THEN hub.files[s] = NoFile \/ hub.files[s].rev = NoRev
             ELSE hub.facts[s][k] = NoFact

(* The cursor is a promise: once it stands at v, every current journal row  *)
(* at or below v is shown by the projection, exactly, deletions included,   *)
(* whatever was in flight when links broke.                                 *)
CursorCovers ==
    hub.row # NoRow /\ hub.row.epoch = epoch /\ ~hub.row.snap =>
        \A s \in Sources, k \in Kinds :
            journal[s][k] = NoRecord \/ journal[s][k].version <= hub.row.version
                => Shows(s, k)

(* The projection never holds an answer about other bytes than the file row *)
(* it hangs on: playback and matching read the two together.                *)
ProjectedFactsFit ==
    \A s \in Sources, k \in FactKinds :
        hub.facts[s][k] # NoFact =>
            /\ hub.files[s] # NoFile
            /\ hub.files[s].rev # NoRev
            /\ SameStamp(k, hub.facts[s][k].payload.size,
                         MtimeOf[hub.facts[s][k].payload.rev], hub.files[s].rev)

(* A terminal hash failure is journalled with size 0, which fits no file.   *)
CarriesHashFailure(delta) ==
    \E i \in DOMAIN delta.records :
        LET rec == delta.records[i]
        IN  rec.kind = "file_hashes" /\ ~rec.deleted /\ rec.payload.size = 0

(* Whatever the order of scans, answers, breaks and new epochs, a peer that  *)
(* follows the protocol is refused for one reason only, a terminal hash      *)
(* failure in the chunk: versions, epochs, stamps, snapshot markers, the     *)
(* acknowledgement and the cursor at the head of a direction are acceptable. *)
(* A refused chunk is replayed from the same cursor and refused again.       *)
RefusedOnlyForHashes ==
    /\ toHub # <<>> /\ Head(toHub).type = "delta" =>
            ApplyCatalogue(hub, Head(toHub)).ok \/ CarriesHashFailure(Head(toHub))
    /\ toHost # <<>> /\ Head(toHost).type = "ack" => AckAcceptable(Head(toHost))
    /\ toHost # <<>> /\ Head(toHost).type = "cursor" => sync = NoSync

(* The acknowledgement the mediahost keeps for a hub never exceeds what that  *)
(* hub has committed, although the two are stored by different processes.     *)
AckIsDurable ==
    hub.row # NoRow /\ hostAck.epoch = hub.row.epoch =>
        hostAck.version <= hub.row.version

(* An interrupted or running snapshot keeps what the projection already has:  *)
(* a source leaves the projection only when the snapshot's last chunk         *)
(* commits, or by a tombstone.                                                *)
SnapshotKeepsProjection ==
    [][ hub.row # NoRow /\ hub'.row.snap =>
            \A s \in Sources : hub.files[s] # NoFile => hub'.files[s] # NoFile ]_vars

CaughtUp ==
    /\ hub.row # NoRow
    /\ hub.row.epoch = epoch
    /\ hub.row.version = current
    /\ ~hub.row.snap

(* The catalogue stops changing (its versions are bounded here) and the link *)
(* stops breaking; the hub then ends up at the mediahost's version and stays *)
(* there: no commit is stranded by a coalesced wake-up, no interrupted       *)
(* snapshot is left open, and no chunk is refused and replayed forever.      *)
Converges == <>[]CaughtUp
=============================================================================
