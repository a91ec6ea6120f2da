-------------------------- MODULE CatalogProjection --------------------------
(***************************************************************************)
(* The hub's projection of one offered collection: what                    *)
(* crates/kahawai-mediadb/src/catalogue.rs does to its tables when a       *)
(* mediahost offers the collection and when it sends a CatalogDelta.       *)
(*                                                                         *)
(* Both operations are one SQL transaction, so they are operators from one *)
(* projection to the next.  A projection is a record                       *)
(*    row    the collections row, or NoRow                                 *)
(*    files  [Sources -> files row, or NoFile]                             *)
(*    facts  [Sources -> [DerivedKinds -> source_facts row, or NoFact]]    *)
(* Items, occurrences and subtitle jobs hang off a files row and decide    *)
(* nothing here.  The code numbers the snapshot attempts (sync_generation) *)
(* and stamps every row it touches with the number; all it ever asks is    *)
(* whether a row's stamp is the current number.  `seen` is that answer: an *)
(* offer that takes a new number makes it FALSE for every row.             *)
(***************************************************************************)
EXTENDS CatalogJournal, Sequences

CONSTANTS
    NoRow,      \* the hub has never been offered this collection
    NoFact,     \* no row in source_facts
    NoAck       \* a chunk that is not the last one is not acknowledged

CursorRows == [epoch : Nat, version : Nat, snap : BOOLEAN, max : Nat]
ShownFiles ==
    [rev : Revs \cup {NoRev}, meta : Nat, version : Nat, seen : BOOLEAN]
ShownFacts == [version : Nat, payload : Payloads, seen : BOOLEAN]

ASSUME ProjectionAssumption ==
    /\ NoRow \notin CursorRows
    /\ NoFile \notin ShownFiles
    /\ NoFact \notin ShownFacts
    /\ NoAck \notin Nat

NoFacts == [k \in DerivedKinds |-> NoFact]

EmptyProjection ==
    [row   |-> NoRow,
     files |-> [s \in Sources |-> NoFile],
     facts |-> [s \in Sources |-> NoFacts]]

(* A files row that INSERT .. ON CONFLICT creates: an address, no probe.   *)
BlankFile == [rev |-> NoRev, meta |-> 0, version |-> 0, seen |-> FALSE]

-----------------------------------------------------------------------------
(* offer_collection: the cursor is usable, or this offer opens a new       *)
(* snapshot attempt under a new generation.                                *)
CursorUnusable(row, offer) ==
    \/ row = NoRow
    \/ row.epoch # offer.epoch
    \/ row.snap
    \/ row.version = 0
    \/ row.version > offer.current

(* A row of the projection after an offer.                                 *)
Carried(row, changed, snap) ==
    [row EXCEPT !.version = IF changed THEN 0 ELSE @, !.seen = @ /\ ~snap]

(* Mutant: a new snapshot starts from an empty projection.                 *)
OfferedFilesCleared(h, changed, snap) ==
    [s \in Sources |->
        IF snap \/ h.files[s] = NoFile THEN NoFile
        ELSE Carried(h.files[s], changed, snap)]

OfferedFiles(h, changed, snap) ==
    [s \in Sources |->
        IF h.files[s] = NoFile THEN NoFile ELSE Carried(h.files[s], changed, snap)]

OfferCollection(h, offer) ==
    LET snap    == CursorUnusable(h.row, offer)
        changed == h.row # NoRow /\ h.row.epoch # offer.epoch
    IN  [row |-> [epoch   |-> offer.epoch,
                  version |-> IF snap THEN 0 ELSE h.row.version,
                  snap    |-> snap,
                  max     |-> 0],
         files |-> OfferedFiles(h, changed, snap),
         facts |-> [s \in Sources |-> [k \in DerivedKinds |->
                        IF h.facts[s][k] = NoFact THEN NoFact
                        ELSE Carried(h.facts[s][k], changed, snap)]]]

-----------------------------------------------------------------------------
(* apply_catalogue, one record at a time.  The accumulator is the projection *)
(* so far with `ok` (no ensure! has failed yet), `previous` and the largest  *)
(* version of the snapshot attempt.                                          *)

Rejected(acc) == [acc EXCEPT !.ok = FALSE]

Known(acc, s) == IF acc.files[s] = NoFile THEN BlankFile ELSE acc.files[s]

ApplyTombstone(acc, rec) ==
    IF rec.kind = "file"
    THEN [acc EXCEPT !.files[rec.src] = NoFile, !.facts[rec.src] = NoFacts]
    ELSE [acc EXCEPT !.facts[rec.src][rec.kind] = NoFact]

(* A file row; new bytes drop the answers about the old ones.               *)
ApplyFile(acc, row, rec) ==
    LET old == Known(acc, rec.src)
    IN  IF ~row.snap /\ old.version > rec.version
        THEN [acc EXCEPT !.files[rec.src] = [old EXCEPT !.seen = TRUE]]
        ELSE [acc EXCEPT
                !.files[rec.src] = [rev |-> rec.payload.rev, meta |-> rec.payload.meta,
                                    version |-> rec.version, seen |-> TRUE],
                !.facts[rec.src] = IF old.rev # rec.payload.rev THEN NoFacts ELSE @]

(* The INSERT .. ON CONFLICT of source_facts.                              *)
FactRow(old, row, rec) ==
    LET newer == old = NoFact \/ row.snap \/ rec.version >= old.version
    IN  [version |-> IF newer THEN rec.version ELSE old.version,
         payload |-> IF newer THEN rec.payload ELSE old.payload,
         seen    |-> TRUE]

(* Mutant: an answer is stored whatever bytes it describes.                 *)
ApplyFactUnchecked(acc, row, rec) ==
    LET base == Known(acc, rec.src)
    IN  IF base.rev = NoRev THEN Rejected(acc)
        ELSE [acc EXCEPT
                !.files[rec.src] = base,
                !.facts[rec.src][rec.kind] = FactRow(@, row, rec)]

(* An answer about a source: it must describe the bytes the projection has. *)
ApplyFact(acc, row, rec) ==
    LET base == Known(acc, rec.src)
        fits == /\ base.rev # NoRev
                /\ SameStamp(rec.kind, rec.payload.size,
                             MtimeOf[rec.payload.rev], base.rev)
    IN  IF ~fits THEN Rejected(acc)
        ELSE [acc EXCEPT
                !.files[rec.src] = base,
                !.facts[rec.src][rec.kind] = FactRow(@, row, rec)]

(* A diagnostic: in a snapshot that has not shown the file itself, it       *)
(* replaces the playable probe an older generation left.                    *)
ApplyError(acc, row, rec) ==
    LET base   == Known(acc, rec.src)
        unseen == row.snap /\ ~base.seen
        facts  == IF unseen THEN NoFacts ELSE acc.facts[rec.src]
    IN  [acc EXCEPT
            !.files[rec.src] = [(IF unseen THEN BlankFile ELSE base)
                                    EXCEPT !.seen = TRUE],
            !.facts[rec.src] = [facts EXCEPT !["file_error"] = FactRow(@, row, rec)]]

ApplyRecord(acc, row, delta, rec) ==
    LET noted == [acc EXCEPT !.max = IF rec.version > @ THEN rec.version ELSE @,
                             !.previous = rec.version]
    IN  IF ~acc.ok THEN acc
        ELSE IF ~row.snap /\ (rec.version <= acc.previous \/ rec.version > delta.through)
             THEN Rejected(acc)
        ELSE IF ~row.snap /\ rec.version <= row.version THEN noted
        ELSE IF row.snap /\ (rec.deleted \/ (delta.done /\ rec.version > delta.through))
             THEN Rejected(acc)
        ELSE IF rec.deleted THEN ApplyTombstone(noted, rec)
        ELSE IF rec.kind = "file" THEN ApplyFile(noted, row, rec)
        ELSE IF rec.kind = "file_error" THEN ApplyError(noted, row, rec)
        ELSE ApplyFact(noted, row, rec)

(* Mutant: the end of a snapshot reconciles nothing.                        *)
NotReconciled(acc) == acc

(* The last chunk of a snapshot drops what its generation has not seen.     *)
Reconciled(acc) ==
    LET kept(s) == acc.files[s] # NoFile /\ acc.files[s].seen
    IN  [acc EXCEPT
            !.files = [s \in Sources |-> IF kept(s) THEN acc.files[s] ELSE NoFile],
            !.facts = [s \in Sources |-> [k \in DerivedKinds |->
                IF kept(s) /\ acc.facts[s][k] # NoFact /\ acc.facts[s][k].seen
                THEN acc.facts[s][k] ELSE NoFact]]]

(* The accumulator after the first n records of a chunk, for every n.       *)
Applied(h, delta) ==
    LET after[n \in 0 .. Len(delta.records)] ==
            IF n = 0
            THEN [ok |-> TRUE, files |-> h.files, facts |-> h.facts,
                  previous |-> 0, max |-> h.row.max]
            ELSE ApplyRecord(after[n - 1], h.row, delta, delta.records[n])
    IN  after

(* apply_catalogue: a chunk and its cursor commit together, or not at all.  *)
(* The result is the next projection with `ok` and the acknowledged version. *)
ApplyCatalogue(h, delta) ==
    LET row     == h.row
        refused == [ok |-> FALSE, proj |-> h, ack |-> NoAck]
        folded  == Applied(h, delta)[Len(delta.records)]
        final   == row.snap /\ delta.done
        settled == IF final THEN Reconciled(folded) ELSE folded
        open    == row.snap /\ ~delta.done
        version == IF open THEN 0
                   ELSE IF delta.through > row.version THEN delta.through ELSE row.version
        next    == [row   |-> [epoch |-> row.epoch, version |-> version, snap |-> open,
                               max |-> IF open THEN folded.max ELSE 0],
                    files |-> settled.files,
                    facts |-> settled.facts]
    IN  IF row = NoRow \/ row.epoch # delta.epoch THEN refused
        ELSE IF delta.snapshot /\ ~row.snap
        THEN IF delta.done /\ delta.through <= row.version
             THEN [ok |-> TRUE, proj |-> h, ack |-> row.version]
             ELSE refused
        ELSE IF \/ open /\ delta.through # 0
                \/ ~folded.ok
                \/ final /\ delta.through < folded.max
        THEN refused
        ELSE [ok |-> TRUE, proj |-> next, ack |-> IF delta.done THEN version ELSE NoAck]
=============================================================================
