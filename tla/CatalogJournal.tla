--------------------------- MODULE CatalogJournal ---------------------------
(***************************************************************************)
(* The mediahost's source catalogue: the tables of catalog.db for ONE      *)
(* collection, and the transactions that write them                        *)
(* (crates/kahawai-mediahost/src/catalog.rs).                              *)
(*                                                                         *)
(* The catalogue is a journal with one current row per (source, kind).     *)
(* Every row carries the version at which it was last written; a deletion  *)
(* leaves a tombstone.  A hub replicates the collection by asking for the  *)
(* rows above its cursor, so the order in which ONE transaction hands out  *)
(* versions decides what every hub will see.                               *)
(*                                                                         *)
(* Data is abstracted to what replication tells apart.  A revision stands  *)
(* for the guarded content identity of a file (size, mtime, head, tail and *)
(* oshash); the rest of a probe (streams_json) is identified by the        *)
(* version that wrote it.  Scan generations, hints and progress counters   *)
(* never reach a journal row and are left out.                             *)
(***************************************************************************)
EXTENDS Integers, FiniteSets

CONSTANTS
    Sources,        \* (root_token, path_rel) pairs of the collection
    Revs,           \* content revisions a source may have on disk
    SizeOf,         \* [Revs -> sizes]: two revisions may have the same size
    MtimeOf,        \* [Revs -> mtimes]
    FactKinds,      \* the derived kinds in use, a subset of AllFactKinds
    KindRank,       \* [DerivedKinds -> Nat]: the row order of one SELECT
    Errors,         \* texts of a FileError
    FailedHashes,   \* TRUE: a hash job may end in a terminal failure
    MaxVersion,     \* bound: versions handed out in one epoch
    MaxEpoch,       \* bound: times the collection is created
    MaxTasks,       \* bound: tasks between their commit and their publish
    NoFile,         \* no row in catalog_files
    NoRev,          \* a row that has never been probed
    NoError,        \* catalog_files.error = ''
    NoRecord,       \* no row in catalog_records
    Empty           \* the payload of a tombstone

AllFactKinds == {"file_hashes", "file_loudness"}
DerivedKinds == {"file_error"} \cup FactKinds
Kinds        == {"file"} \cup DerivedKinds

FilePayloads == [rev : Revs, meta : Nat]
FactPayloads == [rev : Revs, size : Nat]
Payloads     == {Empty} \cup Errors \cup FilePayloads \cup FactPayloads
FileRows     == [rev : Revs \cup {NoRev}, error : Errors \cup {NoError},
                 version : Nat]

ASSUME SourcesAssumption == IsFiniteSet(Sources)
ASSUME FactKindsAssumption == FactKinds \subseteq AllFactKinds
ASSUME SizeAssumption ==
    /\ SizeOf \in [Revs -> Nat \ {0}]
    /\ MtimeOf \in [Revs -> Nat]
    /\ NoRev \notin Revs
ASSUME ErrorAssumption == NoError \notin Errors
ASSUME AbsenceAssumption ==
    /\ NoFile \notin FileRows
    /\ \A d \in BOOLEAN :
        NoRecord \notin [version : Nat, deleted : {d}, payload : Payloads]
ASSUME RankAssumption ==
    /\ KindRank \in [DerivedKinds -> 1 .. Cardinality(DerivedKinds)]
    /\ \A k, l \in DerivedKinds : KindRank[k] = KindRank[l] => k = l
ASSUME FailedHashesAssumption == FailedHashes \in BOOLEAN
ASSUME BoundAssumption ==
    MaxVersion \in Nat /\ MaxEpoch \in Nat \ {0} /\ MaxTasks \in Nat \ {0}

VARIABLES
    epoch,          \* catalog_collections.epoch, numbered by creation
    current,        \* catalog_collections.current_version
    completed,      \* completed_generation > 0: one whole scan has finished
    files,          \* catalog_files
    journal,        \* catalog_records: [Sources -> [Kinds -> row]]
    claims,         \* catalog_jobs in state 'running': the source_version
                    \*   each claim was taken at, 0 when there is none
    unpublished,    \* versions committed but not yet sent to the watch
    advertised      \* the version in the process-wide watch channel

journalVars ==
    <<epoch, current, completed, files, journal, claims, unpublished, advertised>>

-----------------------------------------------------------------------------
(* Rows.                                                                   *)

Row(v, d, p) == [version |-> v, deleted |-> d, payload |-> p]

Live(row) == row # NoRecord /\ ~row.deleted

(* Mutant: a source that recovers keeps its diagnostic.                    *)
LiveDerivedWithoutErrors(s) == {k \in FactKinds : Live(journal[s][k])}

LiveDerived(s) == {k \in DerivedKinds : Live(journal[s][k])}

(* Mutant: next_version is called once for the whole SELECT.               *)
SharedVersion(s, base, k) == base + 1

(* The version the n-th derived row of a transaction gets, when next_version *)
(* is called once per live derived row, in the SELECT's order.               *)
NthVersion(s, base, k) ==
    base + Cardinality({l \in LiveDerived(s) : KindRank[l] <= KindRank[k]})

(* Mutant: the deletion mark is set and the payload is left in the row.    *)
TombstonedWithPayload(s, base) ==
    [k \in Kinds |->
        IF k \in LiveDerived(s)
        THEN Row(NthVersion(s, base, k), TRUE, journal[s][k].payload)
        ELSE journal[s][k]]

(* tombstone_derived_records: every live derived row of s becomes a        *)
(* tombstone, each at a version of its own above `base`.                   *)
Tombstoned(s, base) ==
    [k \in Kinds |->
        IF k \in LiveDerived(s) THEN Row(NthVersion(s, base, k), TRUE, Empty)
                                ELSE journal[s][k]]

(* Mutant: the derived rows keep the versions they had.                    *)
NotReversioned(s, base) == journal[s]

(* reversion_derived_records: every live derived row of s keeps its payload *)
(* and moves to a version of its own above `base`.                          *)
Reversioned(s, base) ==
    [k \in Kinds |->
        IF k \in LiveDerived(s)
        THEN Row(NthVersion(s, base, k), FALSE, journal[s][k].payload)
        ELSE journal[s][k]]

(* The bytes a size/mtime check compares with a catalogue row.             *)
SameStamp(kind, size, mtime, rev) ==
    /\ size = SizeOf[rev]
    /\ kind = "file_loudness" => mtime = MtimeOf[rev]

-----------------------------------------------------------------------------
Init ==
    /\ epoch = 1
    /\ current = 0
    /\ completed = FALSE
    /\ files = [s \in Sources |-> NoFile]
    /\ journal = [s \in Sources |-> [k \in Kinds |-> NoRecord]]
    /\ claims = [s \in Sources |-> [k \in FactKinds |-> 0]]
    /\ unpublished = {}
    /\ advertised = 0

(* A transaction that handed out versions commits: the row in               *)
(* catalog_collections advances, and the task that committed still has to   *)
(* reach publish_version.                                                   *)
Commit(last) ==
    /\ last <= MaxVersion
    /\ Cardinality(unpublished) < MaxTasks
    /\ current' = last
    /\ unpublished' = unpublished \cup {last}
    /\ UNCHANGED <<epoch, completed, advertised>>

(* upsert_file_inner: a probe of s found revision r.  New bytes (or bytes   *)
(* after an error) tombstone every derived row behind the file row; the     *)
(* same bytes with other metadata re-version them behind it, and carry a    *)
(* running claim over to the new row version.  A probe that changed nothing *)
(* writes no journal row and is a stutter here.                             *)
UpsertFile(s, r) ==
    LET known   == files[s] # NoFile /\ files[s].error = NoError
        changed == ~known \/ files[s].rev # r
        v       == current + 1
        derived == IF changed THEN Tombstoned(s, v) ELSE Reversioned(s, v)
    IN  /\ Commit(v + Cardinality(LiveDerived(s)))
        /\ files' = [files EXCEPT
                ![s] = [rev |-> r, error |-> NoError, version |-> v]]
        /\ journal' = [journal EXCEPT
                ![s] = [derived EXCEPT
                    !["file"] = Row(v, FALSE, [rev |-> r, meta |-> v])]]
        /\ claims' = IF changed THEN claims
                     ELSE [claims EXCEPT ![s] = [k \in FactKinds |->
                            IF claims[s][k] = files[s].version THEN v
                            ELSE claims[s][k]]]

(* record_error: inspection of s failed with e.  A source that was playable *)
(* loses its file row and its derived rows first; the diagnostic is the     *)
(* last row of the transaction.                                             *)
RecordError(s, e) ==
    LET playable == files[s] # NoFile /\ files[s].error = NoError
        v        == IF playable
                    THEN current + 2 + Cardinality(LiveDerived(s))
                    ELSE current + 1
        rows     == IF playable
                    THEN [Tombstoned(s, current + 1) EXCEPT
                            !["file"] = Row(current + 1, TRUE, Empty)]
                    ELSE journal[s]
    IN  /\ files[s] # NoFile => files[s].error # e
        /\ Commit(v)
        /\ files' = [files EXCEPT
                ![s] = [rev |-> IF files[s] = NoFile THEN NoRev ELSE files[s].rev,
                        error |-> e, version |-> v]]
        /\ journal' = [journal EXCEPT
                ![s] = [rows EXCEPT !["file_error"] = Row(v, FALSE, e)]]
        /\ UNCHANGED claims

(* remove_file, for a source reconcile_root or finish_scan found absent:    *)
(* derived tombstones, then the file's.  Both callers remove all absent     *)
(* sources in one commit; committing them one by one reaches every state    *)
(* that does and more.                                                      *)
RemoveFile(s) ==
    LET v == current + Cardinality(LiveDerived(s)) + 1
    IN  /\ files[s] # NoFile
        /\ Commit(v)
        /\ files' = [files EXCEPT ![s] = NoFile]
        /\ journal' = [journal EXCEPT
                ![s] = [Tombstoned(s, current) EXCEPT
                    !["file"] = Row(v, TRUE, Empty)]]
        /\ UNCHANGED claims

(* finish_scan, once the absent sources are gone.  It publishes the version *)
(* it read with the completion mark, in one send.                           *)
FinishScan ==
    /\ completed' = TRUE
    /\ advertised' = IF current > advertised THEN current ELSE advertised
    /\ UNCHANGED <<epoch, current, files, journal, claims, unpublished>>

(* Mutant: the last task to publish wins, not the greatest version.        *)
PublishLast(v) ==
    /\ v \in unpublished
    /\ unpublished' = unpublished \ {v}
    /\ advertised' = v
    /\ UNCHANGED <<epoch, current, completed, files, journal, claims>>

(* publish_version, reached by the tasks in any order: the watch keeps the  *)
(* greatest version it has been given.                                      *)
Publish(v) ==
    /\ v \in unpublished
    /\ unpublished' = unpublished \ {v}
    /\ advertised' = IF v > advertised THEN v ELSE advertised
    /\ UNCHANGED <<epoch, current, completed, files, journal, claims>>

(* claim_sources: a playable source without a live row of kind k, and       *)
(* without a running claim, is handed to a worker.                          *)
ClaimSource(s, k) ==
    /\ files[s] # NoFile
    /\ files[s].error = NoError
    /\ ~Live(journal[s][k])
    /\ claims[s][k] = 0
    /\ claims' = [claims EXCEPT ![s][k] = files[s].version]
    /\ UNCHANGED <<epoch, current, completed, files, journal, unpublished, advertised>>

(* release_claims: a retryable outcome gives the claim back.                *)
ReleaseClaim(s, k) ==
    /\ claims[s][k] # 0
    /\ claims' = [claims EXCEPT ![s][k] = 0]
    /\ UNCHANGED <<epoch, current, completed, files, journal, unpublished, advertised>>

(* store_source_fact, its checks: the claim is for the row that is current, *)
(* and the bytes that were measured have its size and mtime.  A hash that   *)
(* failed carries no measurement to compare.                                *)
FactFits(s, k, r, failed) ==
    /\ files[s] # NoFile
    /\ files[s].error = NoError
    /\ claims[s][k] = files[s].version
    /\ failed \/ SameStamp(k, SizeOf[r], MtimeOf[r], files[s].rev)

(* store_fact: a worker's answer about the bytes it found (revision r, which *)
(* need not be the one it was asked about).  A stale answer settles its      *)
(* claim and nothing else.  A terminal hash failure is stored like an        *)
(* answer, with the default size 0.                                          *)
StoreFact(s, k, r, failed) ==
    /\ claims[s][k] # 0
    /\ failed => FailedHashes /\ k = "file_hashes"
    /\ claims' = [claims EXCEPT ![s][k] = 0]
    /\ IF FactFits(s, k, r, failed)
       THEN /\ Commit(current + 1)
            /\ journal' = [journal EXCEPT ![s][k] =
                    Row(current + 1, FALSE,
                        [rev |-> r, size |-> IF failed THEN 0 ELSE SizeOf[r]])]
            /\ UNCHANGED files
       ELSE UNCHANGED <<epoch, current, completed, files, journal, unpublished, advertised>>

(* Catalog::open after a stop or a crash: nothing is running any more, and  *)
(* the watch starts from what is on disk.  A newer loudness analyzer        *)
(* tombstones its old answers (ensure_discovery_generation).                *)
Reopen(upgraded) ==
    LET kind   == "file_loudness"
        stale  == {s \in Sources : kind \in FactKinds /\ Live(journal[s][kind])}
    IN  /\ IF ~upgraded \/ stale = {}
           THEN UNCHANGED <<current, journal>>
           ELSE \E order \in [stale -> 1 .. Cardinality(stale)] :
                /\ \A s, t \in stale : order[s] = order[t] => s = t
                /\ current + Cardinality(stale) <= MaxVersion
                /\ current' = current + Cardinality(stale)
                /\ journal' = [s \in Sources |->
                        IF s \in stale
                        THEN [journal[s] EXCEPT ![kind] =
                                Row(current + order[s], TRUE, Empty)]
                        ELSE journal[s]]
        /\ advertised' = current'
        /\ unpublished' = {}
        /\ claims' = [s \in Sources |-> [k \in FactKinds |-> 0]]
        /\ UNCHANGED <<epoch, completed, files>>

(* Catalog::open, when the collection was retired or changed type since:    *)
(* its rows go, and it starts again under a fresh epoch.                    *)
Recreate ==
    /\ epoch < MaxEpoch
    /\ epoch' = epoch + 1
    /\ current' = 0
    /\ completed' = FALSE
    /\ files' = [s \in Sources |-> NoFile]
    /\ journal' = [s \in Sources |-> [k \in Kinds |-> NoRecord]]
    /\ claims' = [s \in Sources |-> [k \in FactKinds |-> 0]]
    /\ unpublished' = {}
    /\ advertised' = 0

ScanStep ==
    \/ \E s \in Sources, r \in Revs : UpsertFile(s, r)
    \/ \E s \in Sources, e \in Errors : RecordError(s, e)
    \/ \E s \in Sources : RemoveFile(s)
    \/ FinishScan

DiscoveryStep ==
    \E s \in Sources, k \in FactKinds :
        \/ ClaimSource(s, k)
        \/ ReleaseClaim(s, k)
        \/ \E r \in Revs, failed \in BOOLEAN : StoreFact(s, k, r, failed)

PublishStep == \E v \in unpublished : Publish(v)

OpenStep == (\E upgraded \in BOOLEAN : Reopen(upgraded)) \/ Recreate

Next == ScanStep \/ DiscoveryStep \/ PublishStep \/ OpenStep

Spec == Init /\ [][Next]_journalVars

-----------------------------------------------------------------------------
(* Properties.                                                             *)

Versions == 0 .. MaxVersion

Tombstones == [version : Versions, deleted : {TRUE}, payload : {Empty}]
LiveRows(payloads) == [version : Versions, deleted : {FALSE}, payload : payloads]
RowType(k) ==
    {NoRecord} \cup Tombstones \cup
        (IF k = "file" THEN LiveRows(FilePayloads)
         ELSE IF k = "file_error" THEN LiveRows(Errors) ELSE LiveRows(FactPayloads))

(* Every table has its type: a tombstone keeps no payload, a live row has    *)
(* the payload of its kind (catalog_records, put_record).                    *)
TypeOK ==
    /\ epoch \in 1 .. MaxEpoch
    /\ current \in Versions
    /\ completed \in BOOLEAN
    /\ files \in [Sources -> {NoFile} \cup
                    [rev : Revs \cup {NoRev}, error : Errors \cup {NoError},
                     version : Versions]]
    /\ DOMAIN journal = Sources
    /\ \A s \in Sources :
        /\ DOMAIN journal[s] = Kinds
        /\ \A k \in Kinds : journal[s][k] \in RowType(k)
    /\ claims \in [Sources -> [FactKinds -> Versions]]
    /\ unpublished \subseteq Versions
    /\ advertised \in Versions

(* No journal row is above the collection's version, and no two rows share *)
(* one.  The replay query pages by `version > ?`, so a shared version at a  *)
(* page boundary would be a row the hub never receives.                     *)
VersionsAreUnique ==
    /\ \A s \in Sources, k \in Kinds :
        journal[s][k] # NoRecord => journal[s][k].version \in 1 .. current
    /\ \A s, t \in Sources, k, l \in Kinds :
        /\ journal[s][k] # NoRecord
        /\ journal[t][l] # NoRecord
        /\ journal[s][k].version = journal[t][l].version
        => s = t /\ k = l

(* Replay in version order always meets the file row of a source before a   *)
(* derived answer about it, and that answer was measured on bytes with the  *)
(* file row's size (and mtime): the hub refuses any other chunk.            *)
FactsFollowTheirFile ==
    \A s \in Sources, k \in FactKinds :
        Live(journal[s][k]) =>
            /\ Live(journal[s]["file"])
            /\ journal[s]["file"].version < journal[s][k].version
            /\ SameStamp(k, journal[s][k].payload.size,
                         MtimeOf[journal[s][k].payload.rev],
                         journal[s]["file"].payload.rev)

(* A source is journalled as playable or as failed, never both, and the     *)
(* journal agrees with the scanner's own table.                             *)
JournalMatchesFiles ==
    \A s \in Sources :
        /\ Live(journal[s]["file"]) <=>
            files[s] # NoFile /\ files[s].error = NoError
        /\ Live(journal[s]["file_error"]) <=>
            files[s] # NoFile /\ files[s].error # NoError
        /\ Live(journal[s]["file"]) =>
            /\ journal[s]["file"].version = files[s].version
            /\ journal[s]["file"].payload.rev = files[s].rev
        /\ Live(journal[s]["file_error"]) =>
            /\ journal[s]["file_error"].version = files[s].version
            /\ journal[s]["file_error"].payload = files[s].error

(* Once the committing tasks are done publishing, the watch every link      *)
(* waits on holds the committed version, in whatever order they ran.        *)
NothingUnadvertised ==
    /\ advertised <= current
    /\ unpublished = {} => advertised = current
=============================================================================
