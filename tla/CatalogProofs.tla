---------------------------- MODULE CatalogProofs ----------------------------
(***************************************************************************)
(* Proofs about the catalogue: first the mediahost's journal               *)
(* (CatalogJournal), then its replication (CatalogProjection, CatalogSync),  *)
(* for every set of sources and revisions and every size of page and link.   *)
(***************************************************************************)
EXTENDS CatalogSync, FiniteSetTheorems, WellFoundedInduction, TLAPS

-----------------------------------------------------------------------------
(* Facts about the operators. *)

(* There are finitely many kinds of derived row. *)
LEMMA DerivedFinite ==
    IsFiniteSet(DerivedKinds) /\ Cardinality(DerivedKinds) \in Nat
<1>1. IsFiniteSet({"file_hashes"})
  BY FS_Singleton
<1>2. IsFiniteSet({"file_hashes"} \cup {"file_loudness"})
  BY <1>1, FS_AddElement
<1>3. IsFiniteSet(({"file_hashes"} \cup {"file_loudness"}) \cup {"file_error"})
  BY <1>2, FS_AddElement
<1>4. DerivedKinds \in
        SUBSET (({"file_hashes"} \cup {"file_loudness"}) \cup {"file_error"})
  BY FactKindsAssumption DEF DerivedKinds, AllFactKinds
<1>5. IsFiniteSet(DerivedKinds)
  BY <1>3, <1>4, FS_Subset
<1> QED
  BY <1>5, FS_CardinalityType

(* A row that was written is not the absence of a row. *)
LEMMA RowPresent ==
    ASSUME NEW v \in Nat, NEW d \in BOOLEAN, NEW p \in Payloads
    PROVE  Row(v, d, p) # NoRecord
<1>1. Row(v, d, p) \in [version : Nat, deleted : {d}, payload : Payloads]
  BY DEF Row
<1> QED
  BY <1>1, AbsenceAssumption

(* A tombstone is not live, any other written row is. *)
LEMMA RowLive ==
    ASSUME NEW v \in Nat, NEW p \in Payloads
    PROVE  Live(Row(v, FALSE, p)) /\ ~Live(Row(v, TRUE, p))
<1>1. Row(v, FALSE, p) # NoRecord
  BY RowPresent
<1>2. Row(v, FALSE, p).deleted = FALSE /\ Row(v, TRUE, p).deleted = TRUE
  BY DEF Row
<1> QED
  BY <1>1, <1>2, Zenon DEF Live

(* What next_version hands out while one transaction walks the live         *)
(* derived rows of a source: each gets a version of its own, and together   *)
(* they stay within as many versions as there are such rows.                *)
LEMMA NthVersions ==
    ASSUME NEW s \in Sources, NEW base \in Nat
    PROVE  /\ Cardinality(LiveDerived(s)) \in Nat
           /\ \A k \in LiveDerived(s) :
                NthVersion(s, base, k)
                    \in (base + 1) .. (base + Cardinality(LiveDerived(s)))
           /\ \A k, l \in LiveDerived(s) :
                NthVersion(s, base, k) = NthVersion(s, base, l) => k = l
<1> DEFINE D == LiveDerived(s)
           Upto(k) == {l \in D : KindRank[l] <= KindRank[k]}
<1>0. /\ \A k \in DerivedKinds : KindRank[k] \in Nat
      /\ \A k, l \in DerivedKinds : KindRank[k] = KindRank[l] => k = l
  BY DerivedFinite, RankAssumption
<1>1. D \in SUBSET DerivedKinds
  BY DEF LiveDerived
<1>2. IsFiniteSet(D) /\ Cardinality(D) \in Nat
  BY <1>1, DerivedFinite, FS_Subset, FS_CardinalityType
<1>3. ASSUME NEW k \in D
      PROVE  /\ IsFiniteSet(Upto(k))
             /\ Cardinality(Upto(k)) \in 1 .. Cardinality(D)
  <2>1. Upto(k) \in SUBSET D
    OBVIOUS
  <2>2. IsFiniteSet(Upto(k)) /\ Cardinality(Upto(k)) <= Cardinality(D)
    BY <2>1, <1>2, FS_Subset
  <2>3. Cardinality(Upto(k)) \in Nat
    BY <2>2, FS_CardinalityType
  <2>4. k \in Upto(k)
    BY <1>0, <1>1
  <2>5. Cardinality(Upto(k)) # 0
    BY <2>2, <2>4, FS_EmptySet
  <2> QED
    BY <2>2, <2>3, <2>5, <1>2
<1>4. ASSUME NEW k \in D, NEW l \in D, KindRank[k] < KindRank[l]
      PROVE  Cardinality(Upto(k)) # Cardinality(Upto(l))
  <2>1. Upto(k) \in SUBSET Upto(l)
    BY <1>0, <1>1, <1>4
  <2>2. l \in Upto(l) /\ l \notin Upto(k)
    BY <1>0, <1>1, <1>4
  <2>3. IsFiniteSet(Upto(l))
    BY <1>3
  <2> QED
    BY <2>1, <2>2, <2>3, FS_Subset
<1>5. ASSUME NEW k \in D, NEW l \in D, Cardinality(Upto(k)) = Cardinality(Upto(l))
      PROVE  k = l
  <2>1. ~(KindRank[k] < KindRank[l])
    BY <1>4, <1>5
  <2>2. ~(KindRank[l] < KindRank[k])
    BY <1>4, <1>5
  <2> QED
    BY <1>0, <1>1, <2>1, <2>2
<1>6. \A k \in D : NthVersion(s, base, k) = base + Cardinality(Upto(k))
  BY DEF NthVersion
<1> HIDE DEF D, Upto
<1>7. \A k \in D : NthVersion(s, base, k) \in (base + 1) .. (base + Cardinality(D))
  BY <1>2, <1>3, <1>6
<1>8. \A k, l \in D : NthVersion(s, base, k) = NthVersion(s, base, l) => k = l
  BY <1>3, <1>5, <1>6
<1> QED
  BY <1>2, <1>7, <1>8 DEF D

(* The kinds are told apart by their names. *)
LEMMA KindNames ==
    /\ "file" \in Kinds
    /\ "file_error" \in DerivedKinds
    /\ "file" \notin DerivedKinds
    /\ "file_error" \notin FactKinds
    /\ FactKinds \subseteq DerivedKinds
    /\ DerivedKinds \subseteq Kinds
    /\ \A k \in Kinds : k = "file" \/ k \in DerivedKinds
    /\ \A k \in DerivedKinds : k = "file_error" \/ k \in FactKinds
BY FactKindsAssumption DEF Kinds, DerivedKinds, AllFactKinds

(* Types of the rows a transaction writes. *)

LivePayloads(k) == IF k = "file" THEN FilePayloads
                   ELSE IF k = "file_error" THEN Errors ELSE FactPayloads

(* A tombstone, and a live row with a payload of its kind, are rows. *)
LEMMA WrittenRowType ==
    ASSUME NEW k \in Kinds, NEW v \in Versions
    PROVE  /\ Row(v, TRUE, Empty) \in RowType(k)
           /\ \A p \in LivePayloads(k) : Row(v, FALSE, p) \in RowType(k)
           /\ LivePayloads(k) \subseteq Payloads
<1>1. Row(v, TRUE, Empty) \in Tombstones
  BY DEF Row, Tombstones
<1>2. ASSUME NEW P, NEW p \in P
      PROVE  Row(v, FALSE, p) \in LiveRows(P)
  BY DEF Row, LiveRows
<1> QED
  BY <1>1, <1>2 DEF RowType, LivePayloads, Payloads

(* A live row has a payload of its kind. *)
LEMMA LiveRowPayload ==
    ASSUME NEW k \in Kinds, NEW x \in RowType(k), Live(x)
    PROVE  x.payload \in LivePayloads(k) /\ x.version \in Versions
<1>1. x # NoRecord /\ ~x.deleted
  BY DEF Live
<1>2. x \notin Tombstones
  <2> SUFFICES ASSUME x \in Tombstones PROVE FALSE
    OBVIOUS
  <2>1. x.deleted = TRUE
    BY DEF Tombstones
  <2> QED
    BY <1>1, <2>1, Zenon
<1>3. x \in LiveRows(LivePayloads(k))
  BY <1>1, <1>2 DEF RowType, LivePayloads
<1> QED
  BY <1>3 DEF LiveRows

(* Everything the proofs need to know of a row that was just written. *)
LEMMA WrittenRow ==
    ASSUME NEW k \in Kinds, NEW v \in Versions, NEW p \in LivePayloads(k)
    PROVE  /\ Row(v, FALSE, p) # NoRecord
           /\ Row(v, FALSE, p).version = v
           /\ Row(v, FALSE, p).payload = p
           /\ Live(Row(v, FALSE, p))
           /\ Row(v, FALSE, p) \in RowType(k)
<1>1. p \in Payloads /\ Row(v, FALSE, p) \in RowType(k)
  BY WrittenRowType
<1>2. v \in Nat
  BY BoundAssumption DEF Versions
<1>3. Row(v, FALSE, p) # NoRecord
  BY <1>1, <1>2, RowPresent
<1>4. Live(Row(v, FALSE, p))
  BY <1>1, <1>2, RowLive
<1>5. Row(v, FALSE, p).version = v /\ Row(v, FALSE, p).payload = p
  BY DEF Row
<1> QED
  BY <1>1, <1>3, <1>4, <1>5, Zenon

(* The same for a tombstone. *)
LEMMA WrittenTombstone ==
    ASSUME NEW k \in Kinds, NEW v \in Versions
    PROVE  /\ Row(v, TRUE, Empty) # NoRecord
           /\ Row(v, TRUE, Empty).version = v
           /\ ~Live(Row(v, TRUE, Empty))
           /\ Row(v, TRUE, Empty) \in RowType(k)
<1>1. Empty \in Payloads /\ Row(v, TRUE, Empty) \in RowType(k)
  BY WrittenRowType DEF Payloads
<1>2. v \in Nat
  BY BoundAssumption DEF Versions
<1>3. Row(v, TRUE, Empty) # NoRecord
  BY <1>1, <1>2, RowPresent
<1>4. ~Live(Row(v, TRUE, Empty))
  BY <1>1, <1>2, RowLive
<1>5. Row(v, TRUE, Empty).version = v
  BY DEF Row
<1> QED
  BY <1>1, <1>3, <1>4, <1>5, Zenon

(* What tombstone_derived_records leaves: no live derived row, each one that *)
(* was live a tombstone with a version of its own, and no other row touched. *)
LEMMA TombstonedRows ==
    ASSUME NEW s \in Sources, NEW base \in Nat,
           base + Cardinality(LiveDerived(s)) <= MaxVersion
    PROVE  /\ DOMAIN Tombstoned(s, base) = Kinds
           /\ \A k \in LiveDerived(s) :
                /\ Tombstoned(s, base)[k] # NoRecord
                /\ Tombstoned(s, base)[k].version = NthVersion(s, base, k)
                /\ Tombstoned(s, base)[k] \in RowType(k)
           /\ \A k \in Kinds \ LiveDerived(s) : Tombstoned(s, base)[k] = journal[s][k]
           /\ \A k \in DerivedKinds : ~Live(Tombstoned(s, base)[k])
<1>1. /\ DOMAIN Tombstoned(s, base) = Kinds
      /\ \A k \in Kinds : Tombstoned(s, base)[k] =
            IF k \in LiveDerived(s) THEN Row(NthVersion(s, base, k), TRUE, Empty)
                                    ELSE journal[s][k]
  BY DEF Tombstoned
<1>2. LiveDerived(s) \subseteq DerivedKinds /\ DerivedKinds \subseteq Kinds
  BY KindNames DEF LiveDerived
<1>3. \A k \in LiveDerived(s) : NthVersion(s, base, k) \in Versions
  BY NthVersions, BoundAssumption DEF Versions
<1>4. \A k \in DerivedKinds : k \in LiveDerived(s) <=> Live(journal[s][k])
  BY DEF LiveDerived
<1>5. ASSUME NEW k \in LiveDerived(s)
      PROVE  /\ Tombstoned(s, base)[k] # NoRecord
             /\ Tombstoned(s, base)[k].version = NthVersion(s, base, k)
             /\ Tombstoned(s, base)[k] \in RowType(k)
             /\ ~Live(Tombstoned(s, base)[k])
  <2>1. Tombstoned(s, base)[k] = Row(NthVersion(s, base, k), TRUE, Empty)
    BY <1>1, <1>2, Zenon
  <2>2. k \in Kinds
    BY <1>2
  <2> QED
    BY <1>3, <2>1, <2>2, WrittenTombstone, Zenon
<1>6. \A k \in Kinds \ LiveDerived(s) : Tombstoned(s, base)[k] = journal[s][k]
  BY <1>1
<1>7. \A k \in DerivedKinds : ~Live(Tombstoned(s, base)[k])
  BY <1>2, <1>4, <1>5, <1>6, Zenon
<1> QED
  BY <1>1, <1>5, <1>6, <1>7

(* What reversion_derived_records leaves: every live derived row with its    *)
(* payload, at a version of its own, and no other row touched.               *)
LEMMA ReversionedRows ==
    ASSUME NEW s \in Sources, NEW base \in Nat,
           base + Cardinality(LiveDerived(s)) <= MaxVersion,
           \A k \in LiveDerived(s) : journal[s][k].payload \in LivePayloads(k)
    PROVE  /\ DOMAIN Reversioned(s, base) = Kinds
           /\ \A k \in LiveDerived(s) :
                /\ Reversioned(s, base)[k] # NoRecord
                /\ Reversioned(s, base)[k].version = NthVersion(s, base, k)
                /\ Reversioned(s, base)[k] \in RowType(k)
             /\ Reversioned(s, base)[k].payload = journal[s][k].payload
           /\ \A k \in Kinds \ LiveDerived(s) : Reversioned(s, base)[k] = journal[s][k]
           /\ \A k \in DerivedKinds :
                Live(Reversioned(s, base)[k]) <=> Live(journal[s][k])
<1>1. /\ DOMAIN Reversioned(s, base) = Kinds
      /\ \A k \in Kinds : Reversioned(s, base)[k] =
            IF k \in LiveDerived(s) THEN Row(NthVersion(s, base, k), FALSE, journal[s][k].payload)
                                    ELSE journal[s][k]
  BY DEF Reversioned
<1>2. LiveDerived(s) \subseteq DerivedKinds /\ DerivedKinds \subseteq Kinds
  BY KindNames DEF LiveDerived
<1>3. \A k \in LiveDerived(s) : NthVersion(s, base, k) \in Versions
  BY NthVersions, BoundAssumption DEF Versions
<1>4. \A k \in DerivedKinds : k \in LiveDerived(s) <=> Live(journal[s][k])
  BY DEF LiveDerived
<1>5. ASSUME NEW k \in LiveDerived(s)
      PROVE  /\ Reversioned(s, base)[k] # NoRecord
             /\ Reversioned(s, base)[k].version = NthVersion(s, base, k)
             /\ Reversioned(s, base)[k] \in RowType(k)
             /\ Reversioned(s, base)[k].payload = journal[s][k].payload
             /\ Live(Reversioned(s, base)[k])
  <2>1. Reversioned(s, base)[k] = Row(NthVersion(s, base, k), FALSE, journal[s][k].payload)
    BY <1>1, <1>2, Zenon
  <2>2. k \in Kinds
    BY <1>2
  <2> DEFINE w == NthVersion(s, base, k)
             p == journal[s][k].payload
  <2>3. w \in Versions /\ p \in LivePayloads(k)
    BY <1>3
  <2> HIDE DEF w, p
  <2>4. /\ Row(w, FALSE, p) # NoRecord
        /\ Row(w, FALSE, p).version = w
        /\ Row(w, FALSE, p).payload = p
        /\ Live(Row(w, FALSE, p))
        /\ Row(w, FALSE, p) \in RowType(k)
    BY <2>2, <2>3, WrittenRow, Zenon
  <2> QED
    BY <2>1, <2>4, Zenon DEF w, p
<1>6. \A k \in Kinds \ LiveDerived(s) : Reversioned(s, base)[k] = journal[s][k]
  BY <1>1
<1>7. \A k \in DerivedKinds :
                Live(Reversioned(s, base)[k]) <=> Live(journal[s][k])
  BY <1>2, <1>4, <1>5, <1>6, Zenon
<1> QED
  BY <1>1, <1>5, <1>6, <1>7

-----------------------------------------------------------------------------
(* One transaction rewrites the rows C of one source: each gets a version   *)
(* above the old current one and at most the new one, no two the same.      *)
Rewrites(s, rows, C, last) ==
    /\ C \subseteq Kinds
    /\ DOMAIN rows = Kinds
    /\ \A k \in C :
        /\ rows[k] # NoRecord
        /\ rows[k].version \in (current + 1) .. last
    /\ \A k, l \in C : rows[k].version = rows[l].version => k = l
    /\ \A k \in Kinds \ C : rows[k] = journal[s][k]

(* What replication needs of a transaction: a row it writes is above every  *)
(* version handed out before.                                               *)
Moves ==
    /\ current <= current'
    /\ \A s \in Sources, k \in Kinds :
        \/ journal'[s][k] = journal[s][k]
        \/ journal'[s][k] # NoRecord /\ journal'[s][k].version > current

(* A transaction on one source is such a transaction. *)
LEMMA RewriteMoves ==
    ASSUME TypeOK, NEW s \in Sources, NEW rows, NEW C, NEW last \in Nat, current <= last,
           Rewrites(s, rows, C, last),
           journal' = [journal EXCEPT ![s] = rows], current' = last
    PROVE  Moves
<1>1. current \in Nat /\ DOMAIN journal = Sources
  BY BoundAssumption DEF TypeOK, Versions
<1> SUFFICES ASSUME NEW t \in Sources, NEW k \in Kinds, journal'[t][k] # journal[t][k]
             PROVE  journal'[t][k] # NoRecord /\ journal'[t][k].version > current
  BY DEF Moves
<1>2. t = s /\ k \in C /\ journal'[t][k] = rows[k]
  BY <1>1 DEF Rewrites
<1> QED
  BY <1>1, <1>2 DEF Rewrites

(* Such a transaction keeps the versions unique. *)
LEMMA RewriteKeepsUnique ==
    ASSUME TypeOK, VersionsAreUnique,
           NEW s \in Sources, NEW rows, NEW C, NEW last \in Nat, current <= last,
           Rewrites(s, rows, C, last),
           journal' = [journal EXCEPT ![s] = rows], current' = last
    PROVE  VersionsAreUnique'
<1> DEFINE New(t, k) == t = s /\ k \in C
<1>1. current \in Nat /\ DOMAIN journal = Sources
  BY BoundAssumption DEF TypeOK, Versions
<1>2. \A t \in Sources, k \in Kinds :
        /\ New(t, k) => journal'[t][k] # NoRecord
        /\ New(t, k) => journal'[t][k].version \in (current + 1) .. last
        /\ ~New(t, k) => journal'[t][k] = journal[t][k]
  BY <1>1 DEF Rewrites
<1>3. \A t, u \in Sources, k, l \in Kinds :
        New(t, k) /\ New(u, l) /\ journal'[t][k].version = journal'[u][l].version
            => t = u /\ k = l
  BY <1>1 DEF Rewrites
<1>4. \A t \in Sources, k \in Kinds :
        ~New(t, k) /\ journal'[t][k] # NoRecord => journal'[t][k].version \in 1 .. current
  BY <1>2 DEF VersionsAreUnique
<1>5. \A t, u \in Sources, k, l \in Kinds :
        /\ ~New(t, k) /\ ~New(u, l)
        /\ journal'[t][k] # NoRecord /\ journal'[u][l] # NoRecord
        /\ journal'[t][k].version = journal'[u][l].version
        => t = u /\ k = l
  BY <1>2 DEF VersionsAreUnique
<1>6. \A t, u \in Sources, k, l \in Kinds :
        New(t, k) /\ ~New(u, l) /\ journal'[u][l] # NoRecord
            => journal'[t][k].version # journal'[u][l].version
  BY <1>1, <1>2, <1>4
<1> HIDE DEF New
<1>7. \A t \in Sources, k \in Kinds :
        journal'[t][k] # NoRecord => journal'[t][k].version \in 1 .. last
  BY <1>1, <1>2, <1>4
<1> QED
  BY <1>3, <1>5, <1>6, <1>7 DEF VersionsAreUnique

(* A commit that rewrites the rows of one source keeps every variable's type. *)
LEMMA RewriteKeepsTypes ==
    ASSUME TypeOK, NEW s \in Sources, NEW rows, NEW last \in Nat, Commit(last),
           DOMAIN rows = Kinds, \A k \in Kinds : rows[k] \in RowType(k),
           journal' = [journal EXCEPT ![s] = rows],
           files' \in [Sources -> {NoFile} \cup
                    [rev : Revs \cup {NoRev}, error : Errors \cup {NoError},
                     version : Versions]],
           claims' \in [Sources -> [FactKinds -> Versions]]
    PROVE  TypeOK'
<1>1. last \in Versions
  BY BoundAssumption DEF Commit, Versions
<1>2. /\ current' \in Versions
      /\ unpublished' \subseteq Versions
      /\ advertised' \in Versions
      /\ epoch' \in 1 .. MaxEpoch
      /\ completed' \in BOOLEAN
  BY <1>1 DEF Commit, TypeOK
<1>3. /\ DOMAIN journal' = Sources
      /\ \A t \in Sources :
            /\ DOMAIN journal'[t] = Kinds
            /\ \A k \in Kinds : journal'[t][k] \in RowType(k)
  BY DEF TypeOK
<1> QED
  BY <1>2, <1>3 DEF TypeOK, RowType, Versions, Tombstones, LiveRows

(* A current version that has not been advertised is on its way to be. *)
CurrentIsPending ==
    /\ advertised <= current
    /\ \A v \in unpublished : v <= current
    /\ current = advertised \/ current \in unpublished

(* A commit leaves its own version pending. *)
LEMMA CommitIsPending ==
    ASSUME TypeOK, CurrentIsPending, NEW last \in Nat, current <= last, Commit(last)
    PROVE  CurrentIsPending'
BY BoundAssumption DEF TypeOK, CurrentIsPending, Commit, Versions

(* JournalMatchesFiles and FactsFollowTheirFile, for the rows of one source. *)
Matches(rows, f) ==
    /\ Live(rows["file"]) <=> f # NoFile /\ f.error = NoError
    /\ Live(rows["file_error"]) <=> f # NoFile /\ f.error # NoError
    /\ Live(rows["file"]) =>
        /\ rows["file"].version = f.version
        /\ rows["file"].payload.rev = f.rev
    /\ Live(rows["file_error"]) =>
        /\ rows["file_error"].version = f.version
        /\ rows["file_error"].payload = f.error

(* An answer about bytes: a hash that failed is stored without a size and   *)
(* describes none, any other answer has the stamp of its file.              *)
Measured(k, p, rev) ==
    IF p.size = 0 THEN FailedHashes /\ k = "file_hashes" ELSE SameStamp(k, p.size, MtimeOf[p.rev], rev)

(* Answers stand only on a live file row that was journalled before them. *)
FactsFollow(rows) ==
    \A k \in FactKinds :
        Live(rows[k]) =>
            /\ Live(rows["file"])
            /\ rows["file"].version < rows[k].version
            /\ Measured(k, rows[k].payload, rows["file"].payload.rev)

(* A diagnostic follows the tombstone of the file it replaces. *)
ErrorFollows(rows) ==
    Live(rows["file_error"]) =>
        \/ rows["file"] = NoRecord
        \/ /\ rows["file"].deleted
           /\ rows["file"].version < rows["file_error"].version

(* Both, for every source. *)
RowsFollow == \A s \in Sources : FactsFollow(journal[s]) /\ ErrorFollows(journal[s])

(* A step that touches one source keeps the others as they were. *)
LEMMA OneSource ==
    ASSUME TypeOK, NEW s \in Sources, NEW rows,
           journal' = [journal EXCEPT ![s] = rows]
    PROVE  /\ JournalMatchesFiles /\ Matches(rows, files'[s])
              /\ (\A t \in Sources \ {s} : files'[t] = files[t])
                => JournalMatchesFiles'
           /\ RowsFollow /\ FactsFollow(rows) /\ ErrorFollows(rows) => RowsFollow'
<1>1. journal'[s] = rows /\ \A t \in Sources \ {s} : journal'[t] = journal[t]
  BY DEF TypeOK
<1>2. /\ JournalMatchesFiles <=> \A t \in Sources : Matches(journal[t], files[t])
      /\ JournalMatchesFiles' <=> \A t \in Sources : Matches(journal'[t], files'[t])
  BY DEF JournalMatchesFiles, Matches, Live
<1>3. /\ RowsFollow <=> \A t \in Sources : FactsFollow(journal[t]) /\ ErrorFollows(journal[t])
      /\ RowsFollow' <=> \A t \in Sources : FactsFollow(journal'[t]) /\ ErrorFollows(journal'[t])
  BY DEF RowsFollow, FactsFollow, ErrorFollows, Live, Measured, SameStamp
<1> QED
  BY <1>1, <1>2, <1>3

(* The inductive invariant. *)
JournalInv ==
    /\ TypeOK
    /\ VersionsAreUnique
    /\ JournalMatchesFiles
    /\ RowsFollow
    /\ CurrentIsPending

-----------------------------------------------------------------------------
(* One lemma per transaction. *)

(* The rows a transaction starts from. *)
LEMMA RowsBefore ==
    ASSUME TypeOK, NEW s \in Sources
    PROVE  /\ current \in Nat
           /\ \A k \in Kinds : journal[s][k] \in RowType(k)
           /\ LiveDerived(s) \subseteq DerivedKinds
           /\ \A k \in LiveDerived(s) : journal[s][k].payload \in LivePayloads(k)
<1>1. /\ current \in Nat
      /\ \A k \in Kinds : journal[s][k] \in RowType(k)
  BY BoundAssumption DEF TypeOK, Versions
<1>2. \A k \in LiveDerived(s) : k \in DerivedKinds /\ Live(journal[s][k])
  BY DEF LiveDerived
<1>3. \A k \in LiveDerived(s) : journal[s][k].payload \in LivePayloads(k)
  BY <1>1, <1>2, KindNames, LiveRowPayload
<1> QED
  BY <1>1, <1>2, <1>3

(* upsert_file_inner preserves the invariant. *)
LEMMA UpsertFileInv ==
    ASSUME JournalInv, NEW s \in Sources, NEW r \in Revs, UpsertFile(s, r)
    PROVE  JournalInv' /\ Moves
<1> DEFINE known   == files[s] # NoFile /\ files[s].error = NoError
           changed == ~known \/ files[s].rev # r
           v       == current + 1
           D       == LiveDerived(s)
           derived == IF changed THEN Tombstoned(s, v) ELSE Reversioned(s, v)
           fileRow == Row(v, FALSE, [rev |-> r, meta |-> v])
           rows    == [derived EXCEPT !["file"] = fileRow]
           last    == v + Cardinality(D)
<1>0. /\ TypeOK
      /\ Commit(last)
      /\ files' = [files EXCEPT ![s] = [rev |-> r, error |-> NoError, version |-> v]]
      /\ journal' = [journal EXCEPT ![s] = rows]
      /\ claims' = IF changed THEN claims
                   ELSE [claims EXCEPT ![s] = [k \in FactKinds |->
                          IF claims[s][k] = files[s].version THEN v
                          ELSE claims[s][k]]]
  BY DEF UpsertFile, JournalInv
<1>1. /\ current \in Nat /\ v \in Nat /\ Cardinality(D) \in Nat /\ last \in Nat
      /\ current < v /\ v <= last /\ last <= MaxVersion
      /\ v \in Versions
      /\ \A k \in D : NthVersion(s, v, k) \in (v + 1) .. last
      /\ \A k, l \in D : NthVersion(s, v, k) = NthVersion(s, v, l) => k = l
      /\ \A k \in D : NthVersion(s, v, k) \in Versions
  <2>1. current \in Nat /\ v \in Nat
    BY <1>0, RowsBefore
  <2>2. last <= MaxVersion
    BY <1>0 DEF Commit
  <2> QED
    BY <2>1, <2>2, NthVersions, BoundAssumption DEF Versions
<1>2. D \subseteq DerivedKinds
  BY <1>0, RowsBefore
<1>3. /\ DOMAIN derived = Kinds
      /\ \A k \in D : /\ derived[k] # NoRecord
                       /\ derived[k].version = NthVersion(s, v, k)
                       /\ derived[k] \in RowType(k)
      /\ \A k \in Kinds \ D : derived[k] = journal[s][k]
  <2>1. CASE changed
    <3>1. derived = Tombstoned(s, v)
      BY <2>1
    <3> QED
      BY <3>1, <1>1, TombstonedRows
  <2>2. CASE ~changed
    <3>1. derived = Reversioned(s, v)
      BY <2>2
    <3> QED
      BY <3>1, <1>0, <1>1, RowsBefore, ReversionedRows
  <2> QED
    BY <2>1, <2>2
<1>4. /\ [rev |-> r, meta |-> v] \in FilePayloads
      /\ fileRow # NoRecord /\ fileRow.version = v /\ Live(fileRow)
      /\ fileRow.payload = [rev |-> r, meta |-> v]
      /\ fileRow \in RowType("file")
  <2>1. [rev |-> r, meta |-> v] \in FilePayloads
    BY <1>1 DEF FilePayloads
  <2>2. [rev |-> r, meta |-> v] \in LivePayloads("file")
    BY <2>1 DEF LivePayloads
  <2> DEFINE p == [rev |-> r, meta |-> v]
  <2>3. p \in LivePayloads("file") /\ v \in Versions /\ "file" \in Kinds
    BY <1>1, <2>2, KindNames
  <2>4. fileRow = Row(v, FALSE, p)
    OBVIOUS
  <2> HIDE DEF v, p, fileRow
  <2>5. /\ Row(v, FALSE, p) # NoRecord
        /\ Row(v, FALSE, p).version = v
        /\ Row(v, FALSE, p).payload = p
        /\ Live(Row(v, FALSE, p))
        /\ Row(v, FALSE, p) \in RowType("file")
    BY <2>3, WrittenRow
  <2> QED
    BY <2>1, <2>4, <2>5, Zenon DEF p
<1>5. /\ DOMAIN rows = Kinds
      /\ rows["file"] = fileRow
      /\ \A k \in DerivedKinds : rows[k] = derived[k]
  BY <1>3, KindNames
<1> HIDE DEF known, changed, derived, fileRow, rows, v, D, last
<1>6. Rewrites(s, rows, D \cup {"file"}, last)
  <2>1. \A k \in D \cup {"file"} :
            /\ rows[k] # NoRecord
            /\ rows[k].version \in (current + 1) .. last
    BY <1>1, <1>2, <1>3, <1>4, <1>5
  <2>2. \A k, l \in D \cup {"file"} : rows[k].version = rows[l].version => k = l
    BY <1>1, <1>2, <1>3, <1>4, <1>5
  <2>3. \A k \in Kinds \ (D \cup {"file"}) : rows[k] = journal[s][k]
    BY <1>3, <1>5, KindNames
  <2> QED
    BY <1>2, <1>5, <2>1, <2>2, <2>3, KindNames DEF Rewrites
<1>7. TypeOK'
  <2>1. \A k \in Kinds : rows[k] \in RowType(k)
    BY <1>0, <1>3, <1>4, <1>5, RowsBefore, KindNames
  <2>2. files' \in [Sources -> {NoFile} \cup
                    [rev : Revs \cup {NoRev}, error : Errors \cup {NoError},
                     version : Versions]]
    BY <1>0, <1>1 DEF TypeOK
  <2>3. claims' \in [Sources -> [FactKinds -> Versions]]
    BY <1>0, <1>1 DEF TypeOK
  <2> QED
    BY <1>0, <1>1, <1>5, <2>1, <2>2, <2>3, RewriteKeepsTypes
<1>8. VersionsAreUnique'
  <2>1. VersionsAreUnique /\ current' = last /\ current <= last
    BY <1>0, <1>1 DEF JournalInv, Commit
  <2> QED
    BY <1>0, <1>1, <1>6, <2>1, RewriteKeepsUnique
<1>13. ~Live(rows["file_error"])
  <2>1. CASE changed
    <3>1. derived = Tombstoned(s, v)
      BY <2>1 DEF derived
    <3>2. v + Cardinality(LiveDerived(s)) <= MaxVersion /\ v \in Nat
      BY <1>1 DEF last, D
    <3>3. ~Live(derived["file_error"])
      BY <3>1, <3>2, KindNames, TombstonedRows
    <3> QED
      BY <3>3, <1>5, KindNames
  <2>2. CASE ~changed
    <3>1. "file_error" \notin D
      BY <2>2, KindNames DEF changed, known, JournalInv, JournalMatchesFiles, D, LiveDerived
    <3> QED
      BY <2>2, <3>1, <1>3, <1>5, KindNames DEF D, LiveDerived
  <2> QED
    BY <2>1, <2>2
<1>9. JournalMatchesFiles'
  <2>2. files'[s] = [rev |-> r, error |-> NoError, version |-> v]
        /\ \A t \in Sources \ {s} : files'[t] = files[t]
    BY <1>0 DEF TypeOK
  <2>3. files'[s] # NoFile
    <3>1. [rev |-> r, error |-> NoError, version |-> v] \in FileRows
      BY <1>1 DEF FileRows
    <3> QED
      BY <2>2, <3>1, AbsenceAssumption
  <2>4. Matches(rows, files'[s])
    BY <1>4, <1>5, <1>13, <2>2, <2>3 DEF Matches
  <2> QED
    BY <1>0, <2>2, <2>4, OneSource DEF JournalInv
<1>12. Moves
  <2>1. current' = last /\ current <= last
    BY <1>0, <1>1 DEF Commit
  <2> QED
    BY <1>0, <1>1, <1>6, <2>1, RewriteMoves
<1>11. RowsFollow'
  <2>0. ErrorFollows(rows)
    BY <1>13 DEF ErrorFollows
  <2> SUFFICES ASSUME NEW k \in FactKinds, Live(rows[k])
               PROVE  FactsFollow(rows)!(k)
    BY <1>0, <2>0, OneSource DEF FactsFollow, JournalInv
  <2>1. k \in DerivedKinds /\ rows[k] = derived[k]
    BY <1>5, KindNames
  <2>2. ~changed
    <3> SUFFICES ASSUME changed PROVE FALSE
      OBVIOUS
    <3>1. derived = Tombstoned(s, v) /\ v + Cardinality(LiveDerived(s)) <= MaxVersion
      BY <1>1 DEF derived, last, D
    <3> QED
      BY <1>1, <2>1, <3>1, TombstonedRows
  <2>3. derived = Reversioned(s, v) /\ v + Cardinality(LiveDerived(s)) <= MaxVersion
    BY <1>1, <2>2 DEF derived, last, D
  <2>4. k \in D /\ derived[k].payload = journal[s][k].payload
    BY <1>0, <1>1, <2>1, <2>3, RowsBefore, ReversionedRows DEF D, LiveDerived
  <2>5. rows["file"].version < rows[k].version
    BY <1>1, <1>3, <1>4, <1>5, <2>1, <2>4
  <2>6. /\ Live(journal[s]["file"])
        /\ journal[s]["file"].payload.rev = r
        /\ rows["file"].payload.rev = r
    BY <1>4, <1>5, <2>2 DEF JournalInv, JournalMatchesFiles, changed, known
  <2>7. Measured(k, journal[s][k].payload, journal[s]["file"].payload.rev)
    BY <2>4 DEF JournalInv, RowsFollow, FactsFollow, D, LiveDerived
  <2> QED
    BY <1>4, <1>5, <2>1, <2>4, <2>5, <2>6, <2>7
<1>10. CurrentIsPending'
  BY <1>0, <1>1, CommitIsPending DEF JournalInv
<1> QED
  BY <1>7, <1>8, <1>9, <1>10, <1>11, <1>12 DEF JournalInv

(* remove_file preserves the invariant. *)
LEMMA RemoveFileInv ==
    ASSUME JournalInv, NEW s \in Sources, RemoveFile(s)
    PROVE  JournalInv' /\ Moves
<1> DEFINE D       == LiveDerived(s)
           v       == current + Cardinality(D) + 1
           gone    == Tombstoned(s, current)
           fileRow == Row(v, TRUE, Empty)
           rows    == [gone EXCEPT !["file"] = fileRow]
<1>0. /\ TypeOK
      /\ Commit(v)
      /\ files' = [files EXCEPT ![s] = NoFile]
      /\ journal' = [journal EXCEPT ![s] = rows]
      /\ claims' = claims
  BY DEF RemoveFile, JournalInv
<1>1. /\ current \in Nat /\ v \in Nat /\ Cardinality(D) \in Nat
      /\ v = current + Cardinality(D) + 1 /\ v <= MaxVersion
      /\ v \in Versions
      /\ \A k \in D : NthVersion(s, current, k) \in (current + 1) .. (v - 1)
      /\ \A k, l \in D : NthVersion(s, current, k) = NthVersion(s, current, l) => k = l
  <2>1. current \in Nat
    BY <1>0, RowsBefore
  <2>2. v <= MaxVersion
    BY <1>0 DEF Commit
  <2> QED
    BY <2>1, <2>2, NthVersions, BoundAssumption DEF Versions
<1>2. D \subseteq DerivedKinds
  BY <1>0, RowsBefore
<1>3. /\ DOMAIN gone = Kinds
      /\ \A k \in D : /\ gone[k] # NoRecord
                       /\ gone[k].version = NthVersion(s, current, k)
                       /\ gone[k] \in RowType(k)
      /\ \A k \in Kinds \ D : gone[k] = journal[s][k]
      /\ \A k \in DerivedKinds : ~Live(gone[k])
  <2>1. current + Cardinality(LiveDerived(s)) <= MaxVersion
    BY <1>1, BoundAssumption
  <2> QED
    BY <1>1, <2>1, TombstonedRows
<1>4. /\ fileRow # NoRecord /\ fileRow.version = v /\ ~Live(fileRow)
      /\ fileRow \in RowType("file")
  <2> HIDE DEF v
  <2> QED
    BY <1>1, WrittenTombstone, KindNames
<1>5. /\ DOMAIN rows = Kinds
      /\ rows["file"] = fileRow
      /\ \A k \in DerivedKinds : rows[k] = gone[k]
  BY <1>3, KindNames
<1> HIDE DEF gone, fileRow, rows, v, D
<1>6. Rewrites(s, rows, D \cup {"file"}, v)
  <2>1. \A k \in D \cup {"file"} :
            /\ rows[k] # NoRecord
            /\ rows[k].version \in (current + 1) .. v
    BY <1>1, <1>2, <1>3, <1>4, <1>5
  <2>2. \A k, l \in D \cup {"file"} : rows[k].version = rows[l].version => k = l
    BY <1>1, <1>2, <1>3, <1>4, <1>5
  <2>3. \A k \in Kinds \ (D \cup {"file"}) : rows[k] = journal[s][k]
    BY <1>3, <1>5, KindNames
  <2> QED
    BY <1>2, <1>5, <2>1, <2>2, <2>3, KindNames DEF Rewrites
<1>7. TypeOK'
  <2>1. \A k \in Kinds : rows[k] \in RowType(k)
    BY <1>0, <1>3, <1>4, <1>5, RowsBefore, KindNames
  <2>2. files' \in [Sources -> {NoFile} \cup
                    [rev : Revs \cup {NoRev}, error : Errors \cup {NoError},
                     version : Versions]]
        /\ claims' \in [Sources -> [FactKinds -> Versions]]
    BY <1>0 DEF TypeOK
  <2> QED
    BY <1>0, <1>1, <1>5, <2>1, <2>2, RewriteKeepsTypes
<1>8. VersionsAreUnique'
  <2>1. VersionsAreUnique /\ current' = v /\ current <= v
    BY <1>0, <1>1 DEF JournalInv, Commit
  <2> QED
    BY <1>0, <1>1, <1>6, <2>1, RewriteKeepsUnique
<1>9. JournalMatchesFiles'
  <2>1. files'[s] = NoFile /\ \A t \in Sources \ {s} : files'[t] = files[t]
    BY <1>0 DEF TypeOK
  <2>2. Matches(rows, files'[s])
    BY <1>3, <1>4, <1>5, <2>1, KindNames DEF Matches
  <2> QED
    BY <1>0, <2>1, <2>2, OneSource DEF JournalInv
<1>12. Moves
  <2>1. current' = v /\ current <= v
    BY <1>0, <1>1 DEF Commit
  <2> QED
    BY <1>0, <1>1, <1>6, <2>1, RewriteMoves
<1>10. RowsFollow'
  <2>1. FactsFollow(rows) /\ ErrorFollows(rows)
    BY <1>3, <1>5, KindNames DEF FactsFollow, ErrorFollows
  <2> QED
    BY <1>0, <2>1, OneSource DEF JournalInv
<1>11. CurrentIsPending'
  BY <1>0, <1>1, CommitIsPending DEF JournalInv
<1> QED
  BY <1>7, <1>8, <1>9, <1>10, <1>11, <1>12 DEF JournalInv

(* record_error preserves the invariant. *)
LEMMA RecordErrorInv ==
    ASSUME JournalInv, NEW s \in Sources, NEW e \in Errors, RecordError(s, e)
    PROVE  JournalInv' /\ Moves
<1> DEFINE playable == files[s] # NoFile /\ files[s].error = NoError
           D        == LiveDerived(s)
           base     == current + 1
           v        == IF playable THEN current + 2 + Cardinality(D) ELSE current + 1
           gone     == Tombstoned(s, base)
           fileRow  == Row(base, TRUE, Empty)
           errorRow == Row(v, FALSE, e)
           before   == IF playable THEN [gone EXCEPT !["file"] = fileRow] ELSE journal[s]
           rows     == [before EXCEPT !["file_error"] = errorRow]
           C        == IF playable THEN D \cup {"file", "file_error"} ELSE {"file_error"}
           entry    == [rev |-> IF files[s] = NoFile THEN NoRev ELSE files[s].rev,
                        error |-> e, version |-> v]
<1>0. /\ TypeOK
      /\ Commit(v)
      /\ files' = [files EXCEPT ![s] = entry]
      /\ journal' = [journal EXCEPT ![s] = rows]
      /\ claims' = claims
  BY DEF RecordError, JournalInv
<1>1. /\ current \in Nat /\ base \in Nat /\ Cardinality(D) \in Nat /\ v \in Nat
      /\ base = current + 1 /\ base <= v /\ v <= MaxVersion
      /\ v \in Versions /\ base \in Versions
      /\ playable => v = base + Cardinality(D) + 1
      /\ \A k \in D : NthVersion(s, base, k) \in (base + 1) .. (base + Cardinality(D))
      /\ \A k, l \in D : NthVersion(s, base, k) = NthVersion(s, base, l) => k = l
  <2>1. current \in Nat
    BY <1>0, RowsBefore
  <2>2. v <= MaxVersion
    BY <1>0 DEF Commit
  <2> QED
    BY <2>1, <2>2, NthVersions, BoundAssumption DEF Versions
<1>2. D \subseteq DerivedKinds
  BY <1>0, RowsBefore
<1>3. playable =>
      /\ DOMAIN gone = Kinds
      /\ \A k \in D : /\ gone[k] # NoRecord
                       /\ gone[k].version = NthVersion(s, base, k)
                       /\ gone[k] \in RowType(k)
      /\ \A k \in Kinds \ D : gone[k] = journal[s][k]
      /\ \A k \in DerivedKinds : ~Live(gone[k])
  <2> SUFFICES ASSUME playable
               PROVE  base + Cardinality(LiveDerived(s)) <= MaxVersion /\ base \in Nat
    BY TombstonedRows
  <2> QED
    BY <1>1, BoundAssumption
<1>4. /\ fileRow # NoRecord /\ fileRow.version = base /\ ~Live(fileRow)
      /\ fileRow \in RowType("file")
  <2> HIDE DEF base
  <2> QED
    BY <1>1, WrittenTombstone, KindNames
<1>5. /\ errorRow # NoRecord /\ errorRow.version = v /\ errorRow.payload = e
      /\ Live(errorRow) /\ errorRow \in RowType("file_error")
  <2>1. e \in LivePayloads("file_error") /\ "file_error" \in Kinds
    BY KindNames DEF LivePayloads
  <2>2. v \in Versions
    BY <1>1
  <2> HIDE DEF v
  <2>3. /\ Row(v, FALSE, e) # NoRecord
        /\ Row(v, FALSE, e).version = v
        /\ Row(v, FALSE, e).payload = e
        /\ Live(Row(v, FALSE, e))
        /\ Row(v, FALSE, e) \in RowType("file_error")
    BY <2>1, <2>2, WrittenRow
  <2> QED
    BY <2>3, Zenon
<1>6. /\ DOMAIN rows = Kinds
      /\ rows["file_error"] = errorRow
      /\ playable => /\ rows["file"] = fileRow
                     /\ \A k \in DerivedKinds \ {"file_error"} : rows[k] = gone[k]
      /\ ~playable => \A k \in Kinds \ {"file_error"} : rows[k] = journal[s][k]
  <2>1. DOMAIN journal[s] = Kinds
    BY <1>0 DEF TypeOK
  <2> QED
    BY <1>3, <2>1, KindNames
<1>7. ~playable => ~Live(journal[s]["file"])
  BY DEF JournalInv, JournalMatchesFiles
<1>8. /\ playable => C = D \cup {"file", "file_error"}
      /\ ~playable => C = {"file_error"}
  OBVIOUS
<1> HIDE DEF playable, D, base, v, gone, fileRow, errorRow, before, rows, C
<1>9. Rewrites(s, rows, C, v)
  <2>1. CASE playable
    <3>1. \A k \in D \ {"file_error"} :
            /\ rows[k] # NoRecord
            /\ rows[k].version = NthVersion(s, base, k)
      BY <1>2, <1>3, <1>6, <2>1
    <3>2. \A k \in C : k = "file" \/ k = "file_error" \/ k \in D \ {"file_error"}
      BY <1>8, <2>1
    <3>3. \A k \in C :
            /\ rows[k] # NoRecord
            /\ rows[k].version \in (current + 1) .. v
      BY <1>1, <1>4, <1>5, <1>6, <2>1, <3>1, <3>2
    <3>4. \A k, l \in C : rows[k].version = rows[l].version => k = l
      BY <1>1, <1>4, <1>5, <1>6, <2>1, <3>1, <3>2
    <3>5. \A k \in Kinds \ C : rows[k] = journal[s][k]
      BY <1>3, <1>6, <1>8, <2>1, KindNames
    <3> QED
      BY <1>2, <1>6, <1>8, <2>1, <3>3, <3>4, <3>5, KindNames DEF Rewrites
  <2>2. CASE ~playable
    BY <1>1, <1>5, <1>6, <1>8, <2>2, KindNames DEF Rewrites
  <2> QED
    BY <2>1, <2>2
<1>10. TypeOK'
  <2>1. \A k \in Kinds : rows[k] \in RowType(k)
    BY <1>0, <1>3, <1>4, <1>5, <1>6, RowsBefore, KindNames
  <2>2. files' \in [Sources -> {NoFile} \cup
                    [rev : Revs \cup {NoRev}, error : Errors \cup {NoError},
                     version : Versions]]
        /\ claims' \in [Sources -> [FactKinds -> Versions]]
    BY <1>0, <1>1 DEF TypeOK
  <2> QED
    BY <1>0, <1>1, <1>6, <2>1, <2>2, RewriteKeepsTypes
<1>11. VersionsAreUnique'
  <2>1. VersionsAreUnique /\ current' = v /\ current <= v
    BY <1>0, <1>1 DEF JournalInv, Commit
  <2> QED
    BY <1>0, <1>1, <1>9, <2>1, RewriteKeepsUnique
<1>12. ~Live(rows["file"])
  BY <1>4, <1>6, <1>7, KindNames
<1>13. JournalMatchesFiles'
  <2>1. files'[s] = entry /\ \A t \in Sources \ {s} : files'[t] = files[t]
    BY <1>0 DEF TypeOK
  <2>2. entry \in FileRows
    BY <1>1 DEF TypeOK, JournalInv, FileRows
  <2>3. files'[s] # NoFile
    BY <2>1, <2>2, AbsenceAssumption
  <2>4. files'[s].error = e /\ files'[s].version = v /\ e # NoError
    BY <2>1, ErrorAssumption
  <2>5. Matches(rows, files'[s])
    BY <1>5, <1>6, <1>12, <2>3, <2>4 DEF Matches
  <2> QED
    BY <1>0, <2>1, <2>5, OneSource DEF JournalInv
<1>16. Moves
  <2>1. current' = v /\ current <= v
    BY <1>0, <1>1 DEF Commit
  <2> QED
    BY <1>0, <1>1, <1>9, <2>1, RewriteMoves
<1>14. RowsFollow'
  <2>0. ErrorFollows(rows)
    <3>1. rows["file_error"].version = v
      BY <1>5, <1>6
    <3>2. CASE playable
      <4>1. base < v
        BY <1>1, <3>2
      <4>2. rows["file"] = Row(base, TRUE, Empty)
        BY <1>6, <3>2 DEF fileRow
      <4>3. rows["file"].deleted /\ rows["file"].version = base
        BY <4>2 DEF Row
      <4> QED
        BY <3>1, <4>1, <4>3 DEF ErrorFollows
    <3>3. CASE ~playable /\ journal[s]["file"] # NoRecord
      <4>1. rows["file"] = journal[s]["file"]
        BY <1>6, <3>3, KindNames
      <4>2. journal[s]["file"].version \in 1 .. current
        BY <3>3, KindNames DEF JournalInv, VersionsAreUnique
      <4> QED
        BY <1>1, <1>12, <3>1, <3>3, <4>1, <4>2 DEF ErrorFollows, Live
    <3>4. CASE ~playable /\ journal[s]["file"] = NoRecord
      BY <1>6, <3>4, KindNames DEF ErrorFollows
    <3> QED
      BY <3>2, <3>3, <3>4
  <2> SUFFICES FactsFollow(rows)
    BY <1>0, <2>0, OneSource DEF JournalInv
  <2>1. \A k \in FactKinds : ~Live(rows[k])
    <3>1. CASE playable
      BY <1>3, <1>6, <3>1, KindNames
    <3>2. CASE ~playable
      BY <1>6, <1>7, <3>2, KindNames
         DEF JournalInv, RowsFollow, FactsFollow
    <3> QED
      BY <3>1, <3>2
  <2> QED
    BY <2>1 DEF FactsFollow
<1>15. CurrentIsPending'
  BY <1>0, <1>1, CommitIsPending DEF JournalInv
<1> QED
  BY <1>10, <1>11, <1>13, <1>14, <1>15, <1>16 DEF JournalInv

(* A step that leaves the tables of the scan alone. *)
LEMMA TablesUnchanged ==
    ASSUME JournalInv, UNCHANGED <<current, files, journal>>, CurrentIsPending',
           epoch' \in 1 .. MaxEpoch, completed' \in BOOLEAN,
           claims' \in [Sources -> [FactKinds -> Versions]],
           unpublished' \subseteq Versions, advertised' \in Versions
    PROVE  JournalInv' /\ Moves
<1>1. TypeOK'
  BY DEF JournalInv, TypeOK, RowType, Tombstones, LiveRows, Versions
<1>2. VersionsAreUnique'
  BY DEF JournalInv, VersionsAreUnique
<1>3. JournalMatchesFiles'
  BY DEF JournalInv, JournalMatchesFiles, Live
<1>4. RowsFollow'
  BY DEF JournalInv, RowsFollow, FactsFollow, ErrorFollows, Live, Measured, SameStamp
<1>5. Moves
  BY BoundAssumption DEF JournalInv, TypeOK, Moves, Versions
<1> QED
  BY <1>1, <1>2, <1>3, <1>4, <1>5 DEF JournalInv

(* A step that only settles claims. *)
LEMMA ClaimsOnly ==
    ASSUME JournalInv,
           UNCHANGED <<epoch, current, completed, files, journal, unpublished, advertised>>,
           claims' \in [Sources -> [FactKinds -> Versions]]
    PROVE  JournalInv' /\ Moves
<1>1. CurrentIsPending'
  BY DEF JournalInv, CurrentIsPending
<1>2. /\ epoch' \in 1 .. MaxEpoch /\ completed' \in BOOLEAN
      /\ unpublished' \subseteq Versions /\ advertised' \in Versions
  BY DEF JournalInv, TypeOK
<1> QED
  BY <1>1, <1>2, TablesUnchanged

(* store_fact preserves the invariant. *)
LEMMA StoreFactInv ==
    ASSUME JournalInv, NEW s \in Sources, NEW k \in FactKinds, NEW r \in Revs,
           NEW failed \in BOOLEAN, StoreFact(s, k, r, failed)
    PROVE  JournalInv' /\ Moves
<1>1. /\ TypeOK
      /\ claims' = [claims EXCEPT ![s][k] = 0]
      /\ failed => FailedHashes /\ k = "file_hashes"
  BY DEF StoreFact, JournalInv
<1>2. claims' \in [Sources -> [FactKinds -> Versions]]
  <2>1. 0 \in Versions
    BY BoundAssumption DEF Versions
  <2> QED
    BY <1>1, <2>1 DEF TypeOK
<1>3. CASE ~FactFits(s, k, r, failed)
  BY <1>2, <1>3, ClaimsOnly DEF StoreFact
<1>4. CASE FactFits(s, k, r, failed)
  <2> DEFINE v       == current + 1
             size    == IF failed THEN 0 ELSE SizeOf[r]
             p       == [rev |-> r, size |-> size]
             factRow == Row(v, FALSE, p)
             rows    == [journal[s] EXCEPT ![k] = factRow]
  <2>1. /\ Commit(v)
        /\ journal' = [journal EXCEPT ![s] = rows]
        /\ files' = files
    BY <1>4 DEF StoreFact
  <2>2. /\ current \in Nat /\ v \in Nat /\ current < v /\ v \in Versions
        /\ \A l \in Kinds : journal[s][l] \in RowType(l)
        /\ DOMAIN journal[s] = Kinds
    <3>1. current \in Nat /\ \A l \in Kinds : journal[s][l] \in RowType(l)
      BY <1>1, RowsBefore
    <3>2. v <= MaxVersion /\ DOMAIN journal[s] = Kinds
      BY <1>1, <2>1 DEF Commit, TypeOK
    <3> QED
      BY <3>1, <3>2, BoundAssumption DEF Versions
  <2>3. k \in Kinds /\ k # "file" /\ k # "file_error"
    BY KindNames
  <2>4. size \in Nat /\ (~failed => size = SizeOf[r])
    BY SizeAssumption
  <2>5. p \in LivePayloads(k) /\ p.rev = r /\ p.size = size
    BY <2>3, <2>4 DEF LivePayloads, FactPayloads
  <2>6. /\ factRow # NoRecord /\ factRow.version = v /\ factRow.payload = p
        /\ Live(factRow) /\ factRow \in RowType(k)
    <3> HIDE DEF v, p
    <3>1. /\ Row(v, FALSE, p) # NoRecord
          /\ Row(v, FALSE, p).version = v
          /\ Row(v, FALSE, p).payload = p
          /\ Live(Row(v, FALSE, p))
          /\ Row(v, FALSE, p) \in RowType(k)
      BY <2>2, <2>3, <2>5, WrittenRow, Zenon
    <3> QED
      BY <3>1, Zenon
  <2>7. /\ DOMAIN rows = Kinds
        /\ rows[k] = factRow
        /\ \A l \in Kinds \ {k} : rows[l] = journal[s][l]
    BY <2>2, <2>3
  <2> HIDE DEF v, size, p, factRow, rows
  <2>8. Rewrites(s, rows, {k}, v)
    <3>1. v \in (current + 1) .. v
      BY <2>2 DEF v
    <3> QED
      BY <2>3, <2>6, <2>7, <3>1 DEF Rewrites
  <2>9. TypeOK'
    <3>1. \A l \in Kinds : rows[l] \in RowType(l)
      BY <2>2, <2>6, <2>7
    <3>2. files' \in [Sources -> {NoFile} \cup
                      [rev : Revs \cup {NoRev}, error : Errors \cup {NoError},
                       version : Versions]]
      BY <1>1, <2>1 DEF TypeOK
    <3> QED
      BY <1>1, <1>2, <2>1, <2>2, <2>7, <3>1, <3>2, RewriteKeepsTypes
  <2>10. VersionsAreUnique'
    <3>1. VersionsAreUnique /\ current' = v /\ current <= v
      BY <2>1, <2>2 DEF JournalInv, Commit
    <3> QED
      BY <1>1, <2>1, <2>2, <2>8, <3>1, RewriteKeepsUnique
  <2>11. JournalMatchesFiles'
    <3>1. rows["file"] = journal[s]["file"] /\ rows["file_error"] = journal[s]["file_error"]
      BY <2>3, <2>7, KindNames
    <3>2. Matches(rows, files'[s])
      BY <2>1, <3>1 DEF JournalInv, JournalMatchesFiles, Matches
    <3> QED
      BY <1>1, <2>1, <3>2, OneSource DEF JournalInv
  <2>14. Moves
    <3>1. current' = v /\ current <= v
      BY <2>1, <2>2 DEF Commit
    <3> QED
      BY <1>1, <2>1, <2>2, <2>8, <3>1, RewriteMoves
  <2>12. RowsFollow'
    <3>0. ErrorFollows(rows)
      <4>1. rows["file"] = journal[s]["file"] /\ rows["file_error"] = journal[s]["file_error"]
        BY <2>3, <2>7, KindNames
      <4> QED
        BY <4>1 DEF JournalInv, RowsFollow, ErrorFollows
    <3> SUFFICES ASSUME NEW l \in FactKinds, Live(rows[l])
                 PROVE  FactsFollow(rows)!(l)
      BY <1>1, <2>1, <3>0, OneSource DEF FactsFollow, JournalInv
    <3>1. rows["file"] = journal[s]["file"] /\ l \in Kinds
      BY <2>3, <2>7, KindNames
    <3>2. CASE l # k
      BY <2>7, <3>1, <3>2 DEF JournalInv, RowsFollow, FactsFollow
    <3>3. CASE l = k
      <4>1. /\ Live(journal[s]["file"])
            /\ journal[s]["file"].payload.rev = files[s].rev
        BY <1>4 DEF FactFits, JournalInv, JournalMatchesFiles
      <4>2. journal[s]["file"].version < v
        <5>1. journal[s]["file"] # NoRecord
          BY <4>1 DEF Live
        <5>2. journal[s]["file"].version \in 1 .. current
          BY <5>1, KindNames DEF JournalInv, VersionsAreUnique
        <5> QED
          BY <2>2, <5>2
      <4>3. ~failed => SameStamp(k, SizeOf[r], MtimeOf[r], files[s].rev) /\ SizeOf[r] # 0
        BY <1>1, <1>4, SizeAssumption DEF FactFits
      <4>4. failed => size = 0
        BY DEF size
      <4>5. Measured(k, p, files[s].rev)
        BY <1>1, <2>4, <2>5, <4>3, <4>4 DEF Measured
      <4> QED
        BY <2>6, <2>7, <3>1, <3>3, <4>1, <4>2, <4>5
    <3> QED
      BY <3>2, <3>3
  <2>13. CurrentIsPending'
    BY <1>1, <2>1, <2>2, CommitIsPending DEF JournalInv
  <2> QED
    BY <2>9, <2>10, <2>11, <2>12, <2>13, <2>14 DEF JournalInv
<1> QED
  BY <1>3, <1>4

(* Catalog::open preserves the invariant. *)
LEMMA ReopenInv ==
    ASSUME JournalInv, NEW upgraded \in BOOLEAN, Reopen(upgraded)
    PROVE  JournalInv' /\ Moves
<1> DEFINE kind  == "file_loudness"
           stale == {s \in Sources : kind \in FactKinds /\ Live(journal[s][kind])}
<1>1. /\ TypeOK
      /\ advertised' = current'
      /\ unpublished' = {}
      /\ claims' = [s \in Sources |-> [k \in FactKinds |-> 0]]
      /\ UNCHANGED <<epoch, completed, files>>
  BY DEF Reopen, JournalInv
<1>2. 0 \in Versions /\ current \in Nat /\ \A v \in Versions : v \in Nat
  BY <1>1, BoundAssumption DEF TypeOK, Versions
<1>3. /\ epoch' \in 1 .. MaxEpoch /\ completed' \in BOOLEAN
      /\ claims' \in [Sources -> [FactKinds -> Versions]]
      /\ unpublished' \subseteq Versions
  BY <1>1, <1>2 DEF TypeOK
<1>4. CASE UNCHANGED <<current, journal>>
  <2>1. advertised' \in Versions
    BY <1>1, <1>4 DEF TypeOK
  <2>2. CurrentIsPending'
    BY <1>1, <1>2, <1>4 DEF CurrentIsPending
  <2> QED
    BY <1>1, <1>3, <1>4, <2>1, <2>2, TablesUnchanged
<1>5. CASE upgraded /\ stale # {}
  <2>1. PICK order \in [stale -> 1 .. Cardinality(stale)] :
            /\ \A s, t \in stale : order[s] = order[t] => s = t
            /\ current + Cardinality(stale) <= MaxVersion
            /\ current' = current + Cardinality(stale)
            /\ journal' = [s \in Sources |->
                    IF s \in stale
                    THEN [journal[s] EXCEPT ![kind] = Row(current + order[s], TRUE, Empty)]
                    ELSE journal[s]]
    BY <1>5 DEF Reopen
  <2>2. kind \in FactKinds /\ kind \in Kinds /\ kind # "file" /\ kind # "file_error"
    BY <1>5, KindNames
  <2>3. Cardinality(stale) \in Nat
    <3>1. stale \in SUBSET Sources
      OBVIOUS
    <3> QED
      BY <3>1, SourcesAssumption, FS_Subset, FS_CardinalityType
  <2> DEFINE mark(s) == Row(current + order[s], TRUE, Empty)
  <2>4. /\ current' \in Nat /\ current <= current' /\ current' \in Versions
        /\ \A s \in stale : /\ current + order[s] \in Versions
                              /\ current + order[s] \in (current + 1) .. current'
    <3> DEFINE n == Cardinality(stale)
    <3>1. n \in Nat /\ current + n <= MaxVersion /\ current' = current + n
      BY <2>1, <2>3
    <3>2. \A s \in stale : order[s] \in 1 .. n
      BY <2>1
    <3> HIDE DEF n, stale
    <3> QED
      BY <1>2, <3>1, <3>2, BoundAssumption DEF Versions
  <2>5. \A s \in stale :
            /\ mark(s) # NoRecord /\ mark(s).version = current + order[s]
            /\ ~Live(mark(s)) /\ mark(s) \in RowType(kind)
    BY <2>2, <2>4, WrittenTombstone
  <2>6. /\ DOMAIN journal' = Sources
        /\ \A s \in Sources : DOMAIN journal'[s] = Kinds
        /\ \A s \in stale : journal'[s][kind] = mark(s)
        /\ \A s \in Sources, k \in Kinds :
                ~(s \in stale /\ k = kind) => journal'[s][k] = journal[s][k]
    BY <1>1, <2>1, <2>2 DEF TypeOK
  <2>7. \A s \in Sources : ~Live(journal'[s][kind])
    BY <2>2, <2>5, <2>6
  <2> HIDE DEF mark, stale, kind
  <2>8. TypeOK'
    <3>1. \A s \in Sources, k \in Kinds : journal'[s][k] \in RowType(k)
      BY <1>1, <2>5, <2>6 DEF TypeOK
    <3>2. current' \in Versions /\ advertised' \in Versions
      BY <1>1, <2>4
    <3>3. files' \in [Sources -> {NoFile} \cup
                      [rev : Revs \cup {NoRev}, error : Errors \cup {NoError},
                       version : Versions]]
      BY <1>1 DEF TypeOK
    <3> QED
      BY <1>3, <2>6, <3>1, <3>2, <3>3
         DEF TypeOK, RowType, Tombstones, LiveRows, Versions
  <2>9. VersionsAreUnique'
    <3>1. \A s \in Sources, k \in Kinds :
            ~(s \in stale /\ k = kind) /\ journal'[s][k] # NoRecord
                => journal'[s][k].version \in 1 .. current
      BY <2>6 DEF JournalInv, VersionsAreUnique
    <3>2. \A s \in Sources, k \in Kinds :
            s \in stale /\ k = kind =>
                /\ journal'[s][k].version = current + order[s]
                /\ journal'[s][k].version \in (current + 1) .. current'
      BY <2>4, <2>5, <2>6
    <3>3. \A s \in Sources, k \in Kinds :
            journal'[s][k] # NoRecord => journal'[s][k].version \in 1 .. current'
      BY <1>2, <2>4, <3>1, <3>2
    <3>4. ASSUME NEW s \in Sources, NEW t \in Sources, NEW k \in Kinds, NEW l \in Kinds,
                 journal'[s][k] # NoRecord, journal'[t][l] # NoRecord,
                 journal'[s][k].version = journal'[t][l].version
          PROVE  s = t /\ k = l
      <4>1. CASE s \in stale /\ k = kind /\ t \in stale /\ l = kind
        <5>1. order[s] \in Int /\ order[t] \in Int
          BY <2>1, <2>3, <4>1
        <5>2. order[s] = order[t]
          BY <1>2, <3>2, <3>4, <4>1, <5>1
        <5> QED
          BY <2>1, <4>1, <5>2
      <4>2. CASE ~(s \in stale /\ k = kind) /\ ~(t \in stale /\ l = kind)
        BY <2>6, <3>4, <4>2 DEF JournalInv, VersionsAreUnique
      <4>3. CASE s \in stale /\ k = kind /\ ~(t \in stale /\ l = kind)
        BY <1>2, <2>4, <3>1, <3>2, <3>4, <4>3
      <4>4. CASE ~(s \in stale /\ k = kind) /\ t \in stale /\ l = kind
        BY <1>2, <2>4, <3>1, <3>2, <3>4, <4>4
      <4> QED
        BY <4>1, <4>2, <4>3, <4>4
    <3> QED
      BY <3>3, <3>4 DEF VersionsAreUnique
  <2>10. JournalMatchesFiles'
    <3>1. \A s \in Sources : /\ journal'[s]["file"] = journal[s]["file"]
                              /\ journal'[s]["file_error"] = journal[s]["file_error"]
      BY <2>2, <2>6, KindNames
    <3> QED
      BY <1>1, <3>1 DEF JournalInv, JournalMatchesFiles, Live
  <2>13. Moves
    <3>1. \A s \in stale : journal'[s][kind].version > current /\ journal'[s][kind] # NoRecord
      BY <1>2, <2>4, <2>5, <2>6
    <3> QED
      BY <2>4, <2>6, <3>1 DEF Moves
  <2>11. RowsFollow'
    <3>0. \A s \in Sources : ErrorFollows(journal'[s])
      <4>1. \A s \in Sources : /\ journal'[s]["file"] = journal[s]["file"]
                                /\ journal'[s]["file_error"] = journal[s]["file_error"]
        BY <2>2, <2>6, KindNames
      <4> QED
        BY <4>1 DEF JournalInv, RowsFollow, ErrorFollows
    <3> SUFFICES ASSUME NEW s \in Sources, NEW k \in FactKinds, Live(journal'[s][k])
                 PROVE  FactsFollow(journal'[s])!(k)
      BY <3>0 DEF RowsFollow, FactsFollow, ErrorFollows, Live, Measured, SameStamp
    <3>1. journal'[s][k] = journal[s][k] /\ journal'[s]["file"] = journal[s]["file"]
      BY <2>2, <2>6, <2>7, KindNames
    <3> QED
      BY <3>1 DEF JournalInv, RowsFollow, FactsFollow
  <2>12. CurrentIsPending'
    BY <1>1, <2>4 DEF CurrentIsPending
  <2> QED
    BY <2>8, <2>9, <2>10, <2>11, <2>12, <2>13 DEF JournalInv
<1> QED
  BY <1>4, <1>5 DEF Reopen

(* A collection that has just been created. *)
Created ==
    /\ epoch \in 1 .. MaxEpoch
    /\ current = 0
    /\ completed = FALSE
    /\ files = [s \in Sources |-> NoFile]
    /\ journal = [s \in Sources |-> [k \in Kinds |-> NoRecord]]
    /\ claims = [s \in Sources |-> [k \in FactKinds |-> 0]]
    /\ unpublished = {}
    /\ advertised = 0

(* It satisfies the invariant, whatever its epoch. *)
LEMMA CreatedInv == Created => JournalInv
<1> SUFFICES ASSUME Created PROVE JournalInv
  OBVIOUS
<1>1. \A s \in Sources, k \in Kinds : journal[s][k] = NoRecord /\ ~Live(journal[s][k])
  BY DEF Live, Created
<1>2. TypeOK
  <2>1. 0 \in Versions
    BY BoundAssumption DEF Versions
  <2>2. \A k \in Kinds : NoRecord \in RowType(k)
    BY DEF RowType
  <2>3. /\ DOMAIN journal = Sources
        /\ \A s \in Sources : DOMAIN journal[s] = Kinds
        /\ \A s \in Sources, k \in Kinds : journal[s][k] \in RowType(k)
    BY <1>1, <2>2 DEF Created
  <2> QED
    BY <2>1, <2>3 DEF TypeOK, Created
<1>3. VersionsAreUnique
  BY <1>1 DEF VersionsAreUnique
<1>4. JournalMatchesFiles
  BY <1>1, KindNames DEF JournalMatchesFiles, Created
<1>5. RowsFollow
  BY <1>1, KindNames DEF RowsFollow, FactsFollow, ErrorFollows
<1>6. CurrentIsPending
  BY DEF CurrentIsPending, Created
<1> QED
  BY <1>2, <1>3, <1>4, <1>5, <1>6 DEF JournalInv

-----------------------------------------------------------------------------
(* The invariant is inductive, and within an epoch rows only move up: one   *)
(* step per action of Next.                                                 *)
LEMMA JournalInvStep ==
    JournalInv /\ [Next]_journalVars => JournalInv' /\ (epoch' # epoch + 1 => Moves)
<1> SUFFICES ASSUME JournalInv, [Next]_journalVars
             PROVE  JournalInv' /\ (epoch' # epoch + 1 => Moves)
  OBVIOUS
<1>0. TypeOK /\ current \in Nat
  BY BoundAssumption DEF JournalInv, TypeOK, Versions
<1>1. CASE \E s \in Sources, r \in Revs : UpsertFile(s, r)
  BY <1>1, UpsertFileInv
<1>2. CASE \E s \in Sources, e \in Errors : RecordError(s, e)
  BY <1>2, RecordErrorInv
<1>3. CASE \E s \in Sources : RemoveFile(s)
  BY <1>3, RemoveFileInv
<1>4. CASE FinishScan
  <2>1. CurrentIsPending'
    BY <1>0, <1>4 DEF FinishScan, JournalInv, CurrentIsPending, TypeOK, Versions
  <2>2. /\ epoch' \in 1 .. MaxEpoch /\ completed' \in BOOLEAN
        /\ claims' \in [Sources -> [FactKinds -> Versions]]
        /\ unpublished' \subseteq Versions /\ advertised' \in Versions
    BY <1>0, <1>4 DEF FinishScan, TypeOK
  <2> QED
    BY <1>4, <2>1, <2>2, TablesUnchanged DEF FinishScan
<1>5. CASE \E s \in Sources, k \in FactKinds : ClaimSource(s, k)
  <2>1. PICK s \in Sources, k \in FactKinds : ClaimSource(s, k)
    BY <1>5
  <2>2. files[s].version \in Versions
    BY <1>0, <2>1 DEF ClaimSource, TypeOK
  <2>3. claims' \in [Sources -> [FactKinds -> Versions]]
    BY <1>0, <2>1, <2>2 DEF ClaimSource, TypeOK
  <2> QED
    BY <2>1, <2>3, ClaimsOnly DEF ClaimSource
<1>6. CASE \E s \in Sources, k \in FactKinds : ReleaseClaim(s, k)
  <2>1. PICK s \in Sources, k \in FactKinds : ReleaseClaim(s, k)
    BY <1>6
  <2>2. 0 \in Versions
    BY BoundAssumption DEF Versions
  <2>3. claims' \in [Sources -> [FactKinds -> Versions]]
    BY <1>0, <2>1, <2>2 DEF ReleaseClaim, TypeOK
  <2> QED
    BY <2>1, <2>3, ClaimsOnly DEF ReleaseClaim
<1>7. CASE \E s \in Sources, k \in FactKinds, r \in Revs, failed \in BOOLEAN :
                StoreFact(s, k, r, failed)
  BY <1>7, StoreFactInv
<1>8. CASE PublishStep
  <2>1. PICK v \in unpublished : Publish(v)
    BY <1>8 DEF PublishStep
  <2>2. v \in Versions /\ v <= current
    BY <1>0, <2>1 DEF TypeOK, JournalInv, CurrentIsPending
  <2>3. CurrentIsPending'
    BY <1>0, <2>1, <2>2 DEF Publish, JournalInv, CurrentIsPending, TypeOK, Versions
  <2>4. /\ epoch' \in 1 .. MaxEpoch /\ completed' \in BOOLEAN
        /\ claims' \in [Sources -> [FactKinds -> Versions]]
        /\ unpublished' \subseteq Versions /\ advertised' \in Versions
    BY <1>0, <2>1, <2>2 DEF Publish, TypeOK
  <2> QED
    BY <2>1, <2>3, <2>4, TablesUnchanged DEF Publish
<1>9. CASE \E upgraded \in BOOLEAN : Reopen(upgraded)
  BY <1>9, ReopenInv
<1>10. CASE Recreate
  <2>1. Created'
    BY <1>0, <1>10, BoundAssumption DEF Recreate, Created, TypeOK
  <2>2. Created' => JournalInv'
    BY CreatedInv, PTL
  <2> QED
    BY <1>10, <2>1, <2>2 DEF Recreate
<1>11. CASE UNCHANGED journalVars
  <2>1. UNCHANGED <<epoch, current, completed, files, journal, unpublished, advertised>>
        /\ claims' \in [Sources -> [FactKinds -> Versions]]
    BY <1>0, <1>11 DEF journalVars, TypeOK
  <2> QED
    BY <2>1, ClaimsOnly
<1> QED
  BY <1>1, <1>2, <1>3, <1>4, <1>5, <1>6, <1>7, <1>8, <1>9, <1>10, <1>11
     DEF Next, ScanStep, DiscoveryStep, OpenStep

(* The catalogue's transactions, in any order, with any crash between a     *)
(* commit and its publish, keep the invariant.                              *)
THEOREM JournalInvariant == Spec => []JournalInv
<1>1. Init => JournalInv
  BY CreatedInv, BoundAssumption DEF Init, Created
<1> QED
  BY <1>1, JournalInvStep, PTL DEF Spec

(* Every table keeps its shape under every transaction of catalog.rs. *)
THEOREM TypeCorrect == Spec => []TypeOK
<1>1. JournalInv => TypeOK
  BY DEF JournalInv
<1> QED
  BY <1>1, JournalInvariant, PTL

(* next_version never hands out a version twice, so `version > ?` paging    *)
(* skips no row, however many rows one transaction writes.                  *)
THEOREM UniqueVersions == Spec => []VersionsAreUnique
<1>1. JournalInv => VersionsAreUnique
  BY DEF JournalInv
<1> QED
  BY <1>1, JournalInvariant, PTL

(* The journal says of every source what catalog_files says of it. *)
THEOREM JournalAgrees == Spec => []JournalMatchesFiles
<1>1. JournalInv => JournalMatchesFiles
  BY DEF JournalInv
<1> QED
  BY <1>1, JournalInvariant, PTL

(* Where no hash job ends in a terminal failure, every chunk of a replay    *)
(* passes the hub's identity check: a derived row comes after the file row  *)
(* it was measured on, and describes its bytes.                             *)
THEOREM FactsAreReplayable ==
    ASSUME ~FailedHashes
    PROVE  Spec => []FactsFollowTheirFile
<1>1. JournalInv => FactsFollowTheirFile
  BY DEF JournalInv, RowsFollow, FactsFollow, Measured, FactsFollowTheirFile
<1> QED
  BY <1>1, JournalInvariant, PTL

(* publish_version, called by concurrent tasks in any order, strands no     *)
(* committed version.                                                       *)
THEOREM EveryCommitAdvertised == Spec => []NothingUnadvertised
<1>1. JournalInv => NothingUnadvertised
  BY DEF JournalInv, CurrentIsPending, NothingUnadvertised
<1> QED
  BY <1>1, JournalInvariant, PTL

-----------------------------------------------------------------------------
(* Replication: the link leaves the journal alone. *)

(* Every step of the link is a step of the catalogue or none of its steps:  *)
(* the journal that a hub replicates is the journal of CatalogJournal, and  *)
(* every theorem about it holds while it is being replicated.               *)
THEOREM SyncImplementsJournal == SyncSpec => Spec
<1>1. SyncInit => Init
  BY DEF SyncInit
<1>2. [SyncNext]_vars => [Next]_journalVars
  <2> SUFFICES ASSUME [SyncNext]_vars PROVE [Next]_journalVars
    OBVIOUS
  <2>1. CASE CatalogueStep
    BY <2>1 DEF CatalogueStep, Next
  <2>2. CASE RestartHost
    BY <2>2 DEF RestartHost, Next
  <2>3. CASE Break
    BY <2>3 DEF Break
  <2>4. CASE ProtocolStep
    BY <2>4 DEF ProtocolStep, Connect, SendOffer, HubOffer, HubApply, HubReject, HostCursor,
                HostAck, BeginPages, SendChunk, SendEmpty, SyncJoined, VersionsChanged
  <2>5. CASE UNCHANGED vars
    BY <2>5 DEF vars
  <2> QED
    BY <2>1, <2>2, <2>3, <2>4, <2>5 DEF SyncNext
<1> QED
  BY <1>1, <1>2, PTL DEF SyncSpec, Spec

-----------------------------------------------------------------------------
(* The records of a chunk, one at a time. *)

(* A non-empty set of naturals has a least element. *)
LEMMA LeastNat ==
    ASSUME NEW T, T \subseteq Nat, T # {}
    PROVE  \E x \in T : \A y \in T : x <= y
<1> DEFINE R == {ss \in Nat \X Nat : ss[1] < ss[2]}
<1>1. IsWellFoundedOn(R, Nat)
  BY NatLessThanWellFounded DEF OpToRel
<1>2. PICK x \in T : \A y \in T : ~(<<y, x>> \in R)
  BY <1>1, WFMin
<1>3. \A y \in T : ~(y < x)
  BY <1>2
<1> QED
  BY <1>3

(* Induction along a chunk: what holds before the first record and is kept  *)
(* by every record holds after each of them.                                *)
LEMMA AlongChunk ==
    ASSUME NEW N \in Nat, NEW T, 0 \in T, \A n \in 1 .. N : n - 1 \in T => n \in T
    PROVE  \A n \in 0 .. N : n \in T
<1> DEFINE B == {n \in 0 .. N : n \notin T}
<1> SUFFICES ASSUME B # {} PROVE FALSE
  OBVIOUS
<1>0. B \subseteq Nat /\ B # {}
  OBVIOUS
<1>1. PICK x \in B : \A y \in B : x <= y
  <2> HIDE DEF B
  <2> QED
    BY <1>0, LeastNat
<1>2. x \in 1 .. N
  BY <1>1
<1>3. x - 1 \in T
  BY <1>1, <1>2
<1> QED
  BY <1>1, <1>2, <1>3

(* The accumulator apply_catalogue starts a chunk with. *)
AccStart(h) ==
    [ok |-> TRUE, files |-> h.files, facts |-> h.facts, previous |-> 0, max |-> h.row.max]

(* The recursive definition of Applied has a solution, so it is one. *)
LEMMA AppliedSteps ==
    ASSUME NEW h, NEW delta, Len(delta.records) \in Nat
    PROVE  /\ Applied(h, delta)[0] = AccStart(h)
           /\ \A n \in 1 .. Len(delta.records) :
                Applied(h, delta)[n] =
                    ApplyRecord(Applied(h, delta)[n - 1], h.row, delta, delta.records[n])
<1> DEFINE N == Len(delta.records)
           Step(a, n) == ApplyRecord(a, h.row, delta, delta.records[n])
           Solves(f, m) == /\ f = [n \in 0 .. m |-> f[n]]
                           /\ f[0] = AccStart(h)
                           /\ \A n \in 1 .. m : f[n] = Step(f[n - 1], n)
           T == {m \in 0 .. N : \E f : Solves(f, m)}
<1>0. N \in Nat
  OBVIOUS
<1> HIDE DEF Step, N
<1>1. 0 \in T
  <2> DEFINE f == [n \in 0 .. 0 |-> AccStart(h)]
  <2>1. Solves(f, 0)
    OBVIOUS
  <2> HIDE DEF f, Solves
  <2>2. \E g : Solves(g, 0)
    BY <2>1
  <2> QED
    BY <1>0, <2>2
<1>2. ASSUME NEW m \in 1 .. N, m - 1 \in T PROVE m \in T
  <2>1. PICK f : Solves(f, m - 1)
    BY <1>2
  <2> DEFINE g == [n \in 0 .. m |-> IF n = m THEN Step(f[m - 1], m) ELSE f[n]]
  <2>2. Solves(g, m)
    <3>1. g = [n \in 0 .. m |-> g[n]]
      OBVIOUS
    <3>2. g[0] = AccStart(h)
      <4>1. 0 \in 0 .. m /\ 0 # m
        BY <1>0, <1>2
      <4> QED
        BY <2>1, <4>1
    <3>3. ASSUME NEW n \in 1 .. m PROVE g[n] = Step(g[n - 1], n)
      <4>1. n \in 0 .. m /\ n - 1 \in 0 .. m /\ n - 1 # m /\ (n # m => n \in 1 .. (m - 1))
        BY <1>0, <1>2
      <4>2. g[n - 1] = f[n - 1]
        BY <4>1
      <4>3. CASE n = m
        BY <4>1, <4>2, <4>3
      <4>4. CASE n # m
        BY <2>1, <4>1, <4>2, <4>4
      <4> QED
        BY <4>3, <4>4
    <3> QED
      BY <3>1, <3>2, <3>3
  <2> HIDE DEF g, Solves
  <2>3. \E k : Solves(k, m)
    BY <2>2
  <2>4. m \in 0 .. N
    BY <1>0, <1>2
  <2> QED
    BY <2>3, <2>4
<1>3. N \in T
  <2>1. \A m \in 1 .. N : m - 1 \in T => m \in T
    BY <1>2
  <2> HIDE DEF T
  <2>2. \A m \in 0 .. N : m \in T
    BY <1>0, <1>1, <2>1, AlongChunk
  <2> QED
    BY <1>0, <2>2
<1>4. PICK f : Solves(f, N)
  BY <1>3
<1>5. f = [n \in 0 .. N |-> IF n = 0 THEN AccStart(h) ELSE Step(f[n - 1], n)]
  BY <1>0, <1>4
<1>6. Applied(h, delta) =
        [n \in 0 .. N |-> IF n = 0 THEN AccStart(h) ELSE Step(Applied(h, delta)[n - 1], n)]
  <2>1. Applied(h, delta) = CHOOSE g : g = [n \in 0 .. N |-> IF n = 0 THEN AccStart(h)
                                                            ELSE Step(g[n - 1], n)]
    BY DEF Applied, N, Step, AccStart
  <2> QED
    BY <1>5, <2>1
<1> HIDE DEF T
<1>7. /\ Applied(h, delta)[0] = AccStart(h)
      /\ \A n \in 1 .. N : Applied(h, delta)[n] = Step(Applied(h, delta)[n - 1], n)
  BY <1>0, <1>6
<1> QED
  BY <1>7 DEF N, Step

(* The types of the projection and of the accumulator. *)
FileTables == [Sources -> {NoFile} \cup ShownFiles]
FactTables == [Sources -> [DerivedKinds -> {NoFact} \cup ShownFacts]]
Projections == [row : {NoRow} \cup CursorRows, files : FileTables, facts : FactTables]
Accs == [ok : BOOLEAN, files : FileTables, facts : FactTables, previous : Nat, max : Nat]

(* A record has the payload of its kind; only a hash that failed is without *)
(* a size.                                                                  *)
GoodRecord(r) ==
    /\ r \in WireRecords
    /\ ~r.deleted => r.payload \in LivePayloads(r.kind)
    /\ ~r.deleted /\ r.kind \in FactKinds /\ r.payload.size = 0 => r.kind = "file_hashes"

(* The messages that carry records. *)
Deltas == [type : {"delta"}, epoch : Nat, records : Seq(WireRecords), through : Nat,
           snapshot : BOOLEAN, done : BOOLEAN]

(* A message whose records all have the payloads of their kinds. *)
GoodDelta(d) == d \in Deltas /\ \A a \in DOMAIN d.records : GoodRecord(d.records[a])

(* What a record does to its source, when it is not refused. *)
WroteFile(acc, b, row, rec) ==
    LET s   == rec.src
        old == Known(acc, s)
    IN  IF ~row.snap /\ old.version > rec.version
        THEN b.files[s] = [old EXCEPT !.seen = TRUE] /\ b.facts[s] = acc.facts[s]
        ELSE /\ b.files[s] = [rev |-> rec.payload.rev, meta |-> rec.payload.meta,
                              version |-> rec.version, seen |-> TRUE]
             /\ b.facts[s] = IF old.rev # rec.payload.rev THEN NoFacts ELSE acc.facts[s]

(* The rows of its source after a diagnostic. *)
WroteError(acc, b, row, rec) ==
    LET s      == rec.src
        unseen == row.snap /\ ~Known(acc, s).seen
    IN  /\ b.files[s] = [(IF unseen THEN BlankFile ELSE Known(acc, s)) EXCEPT !.seen = TRUE]
        /\ \A k \in FactKinds : b.facts[s][k] = IF unseen THEN NoFact ELSE acc.facts[s][k]
        /\ b.facts[s]["file_error"] =
             FactRow(IF unseen THEN NoFact ELSE acc.facts[s]["file_error"], row, rec)

(* The rows of its source after an answer, which had to fit the file. *)
WroteFact(acc, b, row, rec) ==
    LET s == rec.src
    IN  /\ acc.files[s] # NoFile /\ acc.files[s].rev # NoRev
        /\ SameStamp(rec.kind, rec.payload.size, MtimeOf[rec.payload.rev], acc.files[s].rev)
        /\ b.files[s] = acc.files[s]
        /\ b.facts[s] = [acc.facts[s] EXCEPT ![rec.kind] = FactRow(@, row, rec)]

(* The rows of its source after a record of any kind. *)
Wrote(acc, b, row, rec) ==
    /\ rec.deleted /\ rec.kind = "file" => b.files[rec.src] = NoFile /\ b.facts[rec.src] = NoFacts
    /\ rec.deleted /\ rec.kind # "file" =>
         /\ b.files[rec.src] = acc.files[rec.src]
         /\ b.facts[rec.src] = [acc.facts[rec.src] EXCEPT ![rec.kind] = NoFact]
    /\ ~rec.deleted /\ rec.kind = "file" => WroteFile(acc, b, row, rec)
    /\ ~rec.deleted /\ rec.kind = "file_error" => WroteError(acc, b, row, rec)
    /\ ~rec.deleted /\ rec.kind \in FactKinds => WroteFact(acc, b, row, rec)

(* A record that an incremental stream repeats. *)
Skipped(row, rec) == ~row.snap /\ rec.version <= row.version

(* The record was accepted and took the accumulator from acc to b. *)
Took(acc, b, row, delta, rec) ==
    /\ acc.ok
    /\ b.previous = rec.version
    /\ b.max = IF rec.version > acc.max THEN rec.version ELSE acc.max
    /\ ~row.snap => acc.previous < rec.version /\ rec.version <= delta.through
    /\ \A t \in Sources \ {rec.src} : b.files[t] = acc.files[t] /\ b.facts[t] = acc.facts[t]
    /\ Skipped(row, rec) => b.files = acc.files /\ b.facts = acc.facts
    /\ ~Skipped(row, rec) => Wrote(acc, b, row, rec) /\ (row.snap => ~rec.deleted)

(* The rows that the projection writes have their types. *)
LEMMA CellTypes ==
    /\ NoFacts \in [DerivedKinds -> {NoFact} \cup ShownFacts]
    /\ BlankFile \in ShownFiles
    /\ \A acc \in Accs, s \in Sources : Known(acc, s) \in ShownFiles
    /\ \A f \in ShownFiles : [f EXCEPT !.seen = TRUE] \in ShownFiles
    /\ \A row, rec : GoodRecord(rec) /\ ~rec.deleted =>
            \A old \in {NoFact} \cup ShownFacts : FactRow(old, row, rec) \in ShownFacts
    /\ NoFile \notin ShownFiles /\ NoFact \notin ShownFacts
<1>1. NoFacts \in [DerivedKinds -> {NoFact} \cup ShownFacts]
  BY DEF NoFacts
<1>2. BlankFile \in ShownFiles
  BY DEF BlankFile, ShownFiles
<1>3. \A acc \in Accs, s \in Sources : Known(acc, s) \in ShownFiles
  BY <1>2 DEF Accs, FileTables, Known
<1>4. \A f \in ShownFiles : [f EXCEPT !.seen = TRUE] \in ShownFiles
  BY DEF ShownFiles
<1>5. ASSUME NEW row, NEW rec, GoodRecord(rec), ~rec.deleted, NEW old \in {NoFact} \cup ShownFacts
      PROVE  FactRow(old, row, rec) \in ShownFacts
  <2>1. rec.version \in Nat /\ rec.payload \in Payloads
    BY <1>5 DEF GoodRecord, WireRecords
  <2>2. old # NoFact => old.version \in Nat /\ old.payload \in Payloads
    BY <1>5 DEF ShownFacts
  <2> QED
    BY <2>1, <2>2 DEF FactRow, ShownFacts
<1> QED
  BY <1>1, <1>2, <1>3, <1>4, <1>5, ProjectionAssumption

(* The payload of a live record. *)
LEMMA RecordTypes ==
    ASSUME NEW rec, GoodRecord(rec)
    PROVE  /\ rec.src \in Sources /\ rec.kind \in Kinds /\ rec.version \in Nat /\ rec.version > 0
           /\ rec.deleted \in BOOLEAN
           /\ ~rec.deleted /\ rec.kind = "file" =>
                rec.payload.rev \in Revs /\ rec.payload.rev # NoRev /\ rec.payload.meta \in Nat
           /\ ~rec.deleted /\ rec.kind \in FactKinds =>
                rec.payload.rev \in Revs /\ rec.payload.size \in Nat
           /\ rec.kind \in DerivedKinds <=> rec.kind # "file"
           /\ rec.kind \in FactKinds <=> rec.kind # "file" /\ rec.kind # "file_error"
<1>1. /\ rec.src \in Sources /\ rec.kind \in Kinds /\ rec.version \in Nat /\ rec.version > 0
      /\ rec.deleted \in BOOLEAN
  BY DEF GoodRecord, WireRecords
<1>2. /\ rec.kind \in DerivedKinds <=> rec.kind # "file"
      /\ rec.kind \in FactKinds <=> rec.kind # "file" /\ rec.kind # "file_error"
  BY <1>1, KindNames DEF Kinds, DerivedKinds
<1>3. ~rec.deleted /\ rec.kind = "file" => rec.payload \in FilePayloads
  BY DEF GoodRecord, LivePayloads
<1>4. ~rec.deleted /\ rec.kind \in FactKinds => rec.payload \in FactPayloads
  BY <1>2 DEF GoodRecord, LivePayloads
<1> QED
  BY <1>1, <1>2, <1>3, <1>4, SizeAssumption DEF FilePayloads, FactPayloads

(* One record against a source, per kind of record. *)
LEMMA TombstoneStep ==
    ASSUME NEW acc \in Accs, NEW row \in CursorRows, NEW rec, GoodRecord(rec), rec.deleted
    PROVE  /\ ApplyTombstone(acc, rec) \in Accs
           /\ Wrote(acc, ApplyTombstone(acc, rec), row, rec)
           /\ \A t \in Sources \ {rec.src} :
                /\ ApplyTombstone(acc, rec).files[t] = acc.files[t]
                /\ ApplyTombstone(acc, rec).facts[t] = acc.facts[t]
           /\ ApplyTombstone(acc, rec).ok = acc.ok
           /\ ApplyTombstone(acc, rec).max = acc.max
           /\ ApplyTombstone(acc, rec).previous = acc.previous
<1> DEFINE b == ApplyTombstone(acc, rec)
<1>1. rec.src \in Sources /\ (rec.kind # "file" => rec.kind \in DerivedKinds)
  BY RecordTypes
<1>2. acc.files \in FileTables /\ acc.facts \in FactTables
  BY DEF Accs
<1>3. CASE rec.kind = "file"
  <2>1. b = [acc EXCEPT !.files[rec.src] = NoFile, !.facts[rec.src] = NoFacts]
    BY <1>3 DEF ApplyTombstone
  <2>2. /\ b.files = [acc.files EXCEPT ![rec.src] = NoFile]
        /\ b.facts = [acc.facts EXCEPT ![rec.src] = NoFacts]
        /\ b.ok = acc.ok /\ b.max = acc.max /\ b.previous = acc.previous
        /\ (b.files \in FileTables /\ b.facts \in FactTables => b \in Accs)
    BY <2>1 DEF Accs
  <2> HIDE DEF b
  <2>3. b.files \in FileTables /\ b.facts \in FactTables
    BY <1>1, <1>2, <2>2, CellTypes DEF FileTables, FactTables
  <2>4. /\ b.files[rec.src] = NoFile /\ b.facts[rec.src] = NoFacts
        /\ \A t \in Sources \ {rec.src} : b.files[t] = acc.files[t] /\ b.facts[t] = acc.facts[t]
    BY <1>1, <1>2, <2>2 DEF FileTables, FactTables
  <2>5. Wrote(acc, b, row, rec)
    BY <1>3, <2>4 DEF Wrote
  <2> QED
    BY <2>2, <2>3, <2>4, <2>5 DEF b
<1>4. CASE rec.kind # "file"
  <2>1. b = [acc EXCEPT !.facts[rec.src][rec.kind] = NoFact]
    BY <1>4 DEF ApplyTombstone
  <2>2. /\ b.files = acc.files
        /\ b.facts = [acc.facts EXCEPT ![rec.src][rec.kind] = NoFact]
        /\ b.ok = acc.ok /\ b.max = acc.max /\ b.previous = acc.previous
        /\ (b.files \in FileTables /\ b.facts \in FactTables => b \in Accs)
    BY <2>1 DEF Accs
  <2> HIDE DEF b
  <2>3. b.files \in FileTables /\ b.facts \in FactTables
    BY <1>1, <1>2, <1>4, <2>2 DEF FactTables
  <2>4. /\ b.files[rec.src] = acc.files[rec.src]
        /\ b.facts[rec.src] = [acc.facts[rec.src] EXCEPT ![rec.kind] = NoFact]
        /\ \A t \in Sources \ {rec.src} : b.files[t] = acc.files[t] /\ b.facts[t] = acc.facts[t]
    BY <1>1, <1>2, <2>2 DEF FactTables
  <2>5. Wrote(acc, b, row, rec)
    BY <1>4, <2>4 DEF Wrote
  <2> QED
    BY <2>2, <2>3, <2>4, <2>5 DEF b
<1> QED
  BY <1>3, <1>4

(* A file row. *)
LEMMA FileStep ==
    ASSUME NEW acc \in Accs, NEW row \in CursorRows, NEW rec, GoodRecord(rec),
           ~rec.deleted, rec.kind = "file"
    PROVE  /\ ApplyFile(acc, row, rec) \in Accs
           /\ Wrote(acc, ApplyFile(acc, row, rec), row, rec)
           /\ \A t \in Sources \ {rec.src} :
                /\ ApplyFile(acc, row, rec).files[t] = acc.files[t]
                /\ ApplyFile(acc, row, rec).facts[t] = acc.facts[t]
           /\ ApplyFile(acc, row, rec).ok = acc.ok
           /\ ApplyFile(acc, row, rec).max = acc.max
           /\ ApplyFile(acc, row, rec).previous = acc.previous
<1> DEFINE b == ApplyFile(acc, row, rec)
           s == rec.src
           old == Known(acc, s)
           new == [rev |-> rec.payload.rev, meta |-> rec.payload.meta,
                   version |-> rec.version, seen |-> TRUE]
<1>1. /\ s \in Sources /\ rec.kind \notin FactKinds /\ rec.kind # "file_error"
      /\ rec.payload.rev \in Revs /\ rec.payload.meta \in Nat /\ rec.version \in Nat
  BY RecordTypes
<1>2. acc.files \in FileTables /\ acc.facts \in FactTables
  BY DEF Accs
<1>3. old \in ShownFiles /\ [old EXCEPT !.seen = TRUE] \in ShownFiles /\ new \in ShownFiles
  BY <1>1, CellTypes DEF ShownFiles
<1>4. CASE ~row.snap /\ old.version > rec.version
  <2>1. b = [acc EXCEPT !.files[s] = [old EXCEPT !.seen = TRUE]]
    BY <1>4 DEF ApplyFile
  <2> HIDE DEF old
  <2>2. /\ b.files = [acc.files EXCEPT ![s] = [old EXCEPT !.seen = TRUE]]
        /\ b.facts = acc.facts
        /\ b.ok = acc.ok /\ b.max = acc.max /\ b.previous = acc.previous
        /\ (b.files \in FileTables /\ b.facts \in FactTables => b \in Accs)
    BY <2>1 DEF Accs
  <2> HIDE DEF b
  <2>3. b.files \in FileTables /\ b.facts \in FactTables
    BY <1>1, <1>2, <1>3, <2>2 DEF FileTables
  <2>4. /\ b.files[s] = [old EXCEPT !.seen = TRUE] /\ b.facts[s] = acc.facts[s]
        /\ \A t \in Sources \ {s} : b.files[t] = acc.files[t] /\ b.facts[t] = acc.facts[t]
    BY <1>1, <1>2, <2>2 DEF FileTables
  <2>5. Wrote(acc, b, row, rec)
    BY <1>1, <1>4, <2>4 DEF Wrote, WroteFile, old
  <2> QED
    BY <2>2, <2>3, <2>4, <2>5 DEF b
<1>5. CASE ~(~row.snap /\ old.version > rec.version)
  <2> DEFINE fs == IF old.rev # rec.payload.rev THEN NoFacts ELSE acc.facts[s]
  <2>1. b = [acc EXCEPT !.files[s] = new, !.facts[s] = fs]
    BY <1>5 DEF ApplyFile
  <2>0. fs \in [DerivedKinds -> {NoFact} \cup ShownFacts]
    BY <1>1, <1>2, CellTypes DEF FactTables
  <2> HIDE DEF new, fs
  <2>2. /\ b.files = [acc.files EXCEPT ![s] = new]
        /\ b.facts = [acc.facts EXCEPT ![s] = fs]
        /\ b.ok = acc.ok /\ b.max = acc.max /\ b.previous = acc.previous
        /\ (b.files \in FileTables /\ b.facts \in FactTables => b \in Accs)
    BY <2>1 DEF Accs
  <2> HIDE DEF b
  <2>3. b.files \in FileTables /\ b.facts \in FactTables
    BY <1>1, <1>2, <1>3, <2>0, <2>2 DEF FileTables, FactTables
  <2>4. /\ b.files[s] = new /\ b.facts[s] = fs
        /\ \A t \in Sources \ {s} : b.files[t] = acc.files[t] /\ b.facts[t] = acc.facts[t]
    BY <1>1, <1>2, <2>2 DEF FileTables, FactTables
  <2>5. Wrote(acc, b, row, rec)
    BY <1>1, <1>5, <2>4 DEF Wrote, WroteFile, new, fs
  <2> QED
    BY <2>2, <2>3, <2>4, <2>5 DEF b
<1> QED
  BY <1>4, <1>5

(* A diagnostic. *)
LEMMA ErrorStep ==
    ASSUME NEW acc \in Accs, NEW row \in CursorRows, NEW rec, GoodRecord(rec),
           ~rec.deleted, rec.kind = "file_error"
    PROVE  /\ ApplyError(acc, row, rec) \in Accs
           /\ Wrote(acc, ApplyError(acc, row, rec), row, rec)
           /\ \A t \in Sources \ {rec.src} :
                /\ ApplyError(acc, row, rec).files[t] = acc.files[t]
                /\ ApplyError(acc, row, rec).facts[t] = acc.facts[t]
           /\ ApplyError(acc, row, rec).ok = acc.ok
           /\ ApplyError(acc, row, rec).max = acc.max
           /\ ApplyError(acc, row, rec).previous = acc.previous
<1> DEFINE b == ApplyError(acc, row, rec)
           s == rec.src
           unseen == row.snap /\ ~Known(acc, s).seen
           new == [(IF unseen THEN BlankFile ELSE Known(acc, s)) EXCEPT !.seen = TRUE]
           was == IF unseen THEN NoFacts ELSE acc.facts[s]
           fs == [was EXCEPT !["file_error"] = FactRow(@, row, rec)]
<1>1. /\ s \in Sources /\ rec.kind \notin FactKinds /\ rec.kind # "file"
  BY RecordTypes
<1>2. acc.files \in FileTables /\ acc.facts \in FactTables
  BY DEF Accs
<1>3. new \in ShownFiles
  BY <1>1, CellTypes
<1>4. was \in [DerivedKinds -> {NoFact} \cup ShownFacts]
  BY <1>1, <1>2, CellTypes DEF FactTables
<1>5. FactRow(was["file_error"], row, rec) \in ShownFacts
  BY <1>4, CellTypes, KindNames
<1>6. /\ fs \in [DerivedKinds -> {NoFact} \cup ShownFacts]
      /\ fs["file_error"] = FactRow(was["file_error"], row, rec)
      /\ \A k \in FactKinds : fs[k] = was[k]
  <2> HIDE DEF was
  <2> QED
    BY <1>4, <1>5, KindNames
<1>7. /\ \A k \in DerivedKinds : was[k] = IF unseen THEN NoFact ELSE acc.facts[s][k]
      /\ FactKinds \subseteq DerivedKinds /\ "file_error" \in DerivedKinds
  BY KindNames DEF NoFacts
<1>8. b = [acc EXCEPT !.files[s] = new, !.facts[s] = fs]
  BY DEF ApplyError
<1> HIDE DEF new, fs
<1>9. /\ b.files = [acc.files EXCEPT ![s] = new]
      /\ b.facts = [acc.facts EXCEPT ![s] = fs]
      /\ b.ok = acc.ok /\ b.max = acc.max /\ b.previous = acc.previous
      /\ (b.files \in FileTables /\ b.facts \in FactTables => b \in Accs)
  BY <1>8 DEF Accs
<1> HIDE DEF b
<1>10. b.files \in FileTables /\ b.facts \in FactTables
  BY <1>1, <1>2, <1>3, <1>6, <1>9 DEF FileTables, FactTables
<1>11. /\ b.files[s] = new /\ b.facts[s] = fs
       /\ \A t \in Sources \ {s} : b.files[t] = acc.files[t] /\ b.facts[t] = acc.facts[t]
  BY <1>1, <1>2, <1>9 DEF FileTables, FactTables
<1>12. WroteError(acc, b, row, rec)
  <2> HIDE DEF was
  <2>1. b.files[s] = [(IF unseen THEN BlankFile ELSE Known(acc, s)) EXCEPT !.seen = TRUE]
    BY <1>11 DEF new
  <2>2. \A k \in FactKinds : b.facts[s][k] = IF unseen THEN NoFact ELSE acc.facts[s][k]
    BY <1>6, <1>7, <1>11
  <2>3. b.facts[s]["file_error"] =
             FactRow(IF unseen THEN NoFact ELSE acc.facts[s]["file_error"], row, rec)
    BY <1>6, <1>7, <1>11
  <2> QED
    BY <2>1, <2>2, <2>3 DEF WroteError
<1>13. Wrote(acc, b, row, rec)
  BY <1>1, <1>12 DEF Wrote
<1> QED
  BY <1>9, <1>10, <1>11, <1>13 DEF b

(* An answer about bytes the projection has. *)
LEMMA FactStep ==
    ASSUME NEW acc \in Accs, NEW row \in CursorRows, NEW rec, GoodRecord(rec), acc.ok,
           ~rec.deleted, rec.kind \in FactKinds
    PROVE  /\ ApplyFact(acc, row, rec) \in Accs
           /\ ApplyFact(acc, row, rec).ok =>
                /\ Wrote(acc, ApplyFact(acc, row, rec), row, rec)
                /\ \A t \in Sources \ {rec.src} :
                    /\ ApplyFact(acc, row, rec).files[t] = acc.files[t]
                    /\ ApplyFact(acc, row, rec).facts[t] = acc.facts[t]
                /\ ApplyFact(acc, row, rec).max = acc.max
                /\ ApplyFact(acc, row, rec).previous = acc.previous
           /\ /\ acc.files[rec.src] # NoFile /\ acc.files[rec.src].rev # NoRev
              /\ SameStamp(rec.kind, rec.payload.size, MtimeOf[rec.payload.rev],
                           acc.files[rec.src].rev)
              => ApplyFact(acc, row, rec).ok
<1> DEFINE b == ApplyFact(acc, row, rec)
           s == rec.src
           base == Known(acc, s)
           fits == /\ base.rev # NoRev
                   /\ SameStamp(rec.kind, rec.payload.size, MtimeOf[rec.payload.rev], base.rev)
           fs == [acc.facts[s] EXCEPT ![rec.kind] = FactRow(@, row, rec)]
<1>1. /\ s \in Sources /\ rec.kind \in DerivedKinds /\ rec.kind # "file_error" /\ rec.kind # "file"
  BY RecordTypes
<1>2. acc.files \in FileTables /\ acc.facts \in FactTables
  BY DEF Accs
<1>3. BlankFile.rev = NoRev
  BY DEF BlankFile
<1>4. CASE ~fits
  <2>1. b = [acc EXCEPT !.ok = FALSE]
    BY <1>4 DEF ApplyFact, Rejected
  <2>2. b \in Accs /\ ~b.ok
    BY <2>1 DEF Accs
  <2> QED
    BY <1>4, <2>2 DEF Known
<1>5. CASE fits
  <2>1. acc.files[s] # NoFile /\ base = acc.files[s]
    BY <1>3, <1>5 DEF Known
  <2>2. b = [acc EXCEPT !.files[s] = base, !.facts[s][rec.kind] = FactRow(@, row, rec)]
    BY <1>5 DEF ApplyFact
  <2> HIDE DEF base
  <2>3. /\ b.files = [acc.files EXCEPT ![s] = base]
        /\ b.facts = [acc.facts EXCEPT ![s] = fs]
        /\ b.ok = acc.ok /\ b.max = acc.max /\ b.previous = acc.previous
        /\ (b.files \in FileTables /\ b.facts \in FactTables => b \in Accs)
    BY <2>2, <1>2 DEF Accs, FactTables
  <2>4. fs \in [DerivedKinds -> {NoFact} \cup ShownFacts]
    <3>1. acc.facts[s] \in [DerivedKinds -> {NoFact} \cup ShownFacts]
      BY <1>1, <1>2 DEF FactTables
    <3>2. FactRow(acc.facts[s][rec.kind], row, rec) \in ShownFacts
      BY <1>1, <3>1, CellTypes
    <3> QED
      BY <1>1, <3>1, <3>2
  <2> HIDE DEF b, fs
  <2>5. b.files \in FileTables /\ b.facts \in FactTables
    BY <1>1, <1>2, <2>1, <2>3, <2>4 DEF FileTables, FactTables
  <2>6. /\ b.files[s] = acc.files[s] /\ b.facts[s] = fs
        /\ \A t \in Sources \ {s} : b.files[t] = acc.files[t] /\ b.facts[t] = acc.facts[t]
    BY <1>1, <1>2, <2>1, <2>3 DEF FileTables, FactTables
  <2>7. WroteFact(acc, b, row, rec)
    BY <1>5, <2>1, <2>6 DEF WroteFact, fs
  <2>8. Wrote(acc, b, row, rec)
    BY <1>1, <2>7 DEF Wrote
  <2> QED
    BY <2>3, <2>5, <2>6, <2>8 DEF b
<1> QED
  BY <1>4, <1>5

(* Noting a record's version changes no row. *)
LEMMA WroteNoted ==
    ASSUME NEW acc, NEW n, NEW b, NEW row, NEW rec,
           n.files = acc.files, n.facts = acc.facts, Wrote(n, b, row, rec)
    PROVE  Wrote(acc, b, row, rec)
BY DEF Wrote, WroteFile, WroteError, WroteFact, Known

(* One record: it is refused, or it is taken. *)
LEMMA RecordStep ==
    ASSUME NEW acc \in Accs, NEW row \in CursorRows, NEW delta, delta.through \in Nat,
           NEW rec, GoodRecord(rec)
    PROVE  /\ ApplyRecord(acc, row, delta, rec) \in Accs
           /\ ApplyRecord(acc, row, delta, rec).ok =>
                Took(acc, ApplyRecord(acc, row, delta, rec), row, delta, rec)
           /\ /\ acc.ok
              /\ ~row.snap => /\ acc.previous < rec.version
                              /\ rec.version <= delta.through
              /\ row.snap => ~rec.deleted /\ (delta.done => rec.version <= delta.through)
              /\ ~rec.deleted /\ rec.kind \in FactKinds =>
                    /\ acc.files[rec.src] # NoFile /\ acc.files[rec.src].rev # NoRev
                    /\ SameStamp(rec.kind, rec.payload.size, MtimeOf[rec.payload.rev],
                                 acc.files[rec.src].rev)
              => ApplyRecord(acc, row, delta, rec).ok
<1> DEFINE n == [acc EXCEPT !.max = IF rec.version > @ THEN rec.version ELSE @,
                            !.previous = rec.version]
           b == ApplyRecord(acc, row, delta, rec)
<1>1. /\ rec.src \in Sources /\ rec.kind \in Kinds /\ rec.version \in Nat
      /\ rec.deleted \in BOOLEAN
      /\ rec.kind \in FactKinds <=> rec.kind # "file" /\ rec.kind # "file_error"
  BY RecordTypes
<1>2. /\ acc.ok \in BOOLEAN /\ acc.max \in Nat /\ acc.previous \in Nat
      /\ row.snap \in BOOLEAN /\ row.version \in Nat
  BY DEF Accs, CursorRows
<1>3. /\ n.max = IF rec.version > acc.max THEN rec.version ELSE acc.max
      /\ n.previous = rec.version /\ n.ok = acc.ok
      /\ n.files = acc.files /\ n.facts = acc.facts
      /\ n \in Accs
  BY <1>1, <1>2 DEF Accs
<1>4. Rejected(acc) \in Accs /\ ~Rejected(acc).ok
  BY DEF Accs, Rejected
<1>5. CASE ~acc.ok
  <2>1. b = acc
    BY <1>5 DEF ApplyRecord
  <2> QED
    BY <1>5, <2>1
<1>6. CASE acc.ok /\ ~row.snap /\ (rec.version <= acc.previous \/ rec.version > delta.through)
  <2>1. b = Rejected(acc)
    BY <1>6 DEF ApplyRecord
  <2> QED
    BY <1>1, <1>2, <1>4, <1>6, <2>1
<1>7. CASE /\ acc.ok
           /\ ~(~row.snap /\ (rec.version <= acc.previous \/ rec.version > delta.through))
           /\ Skipped(row, rec)
  <2>1. b = n
    BY <1>7 DEF ApplyRecord, Skipped
  <2> HIDE DEF n
  <2>2. ~row.snap => acc.previous < rec.version /\ rec.version <= delta.through
    BY <1>1, <1>2, <1>7
  <2>3. Took(acc, n, row, delta, rec)
    BY <1>3, <1>7, <2>2 DEF Took
  <2> QED
    BY <1>3, <1>7, <2>1, <2>3
<1>8. CASE /\ acc.ok
           /\ ~(~row.snap /\ (rec.version <= acc.previous \/ rec.version > delta.through))
           /\ ~Skipped(row, rec)
  <2>0. ~row.snap => acc.previous < rec.version /\ rec.version <= delta.through
    BY <1>1, <1>2, <1>8
  <2> DEFINE Late == row.snap /\ (rec.deleted \/ (delta.done /\ rec.version > delta.through))
  <2>1. CASE Late
    <3>1. b = Rejected(acc)
      BY <1>8, <2>1 DEF ApplyRecord, Skipped
    <3> QED
      BY <1>1, <1>4, <2>1, <3>1
  <2>3. CASE ~Late /\ rec.deleted
    <3>1. b = ApplyTombstone(n, rec)
      BY <1>8, <2>3 DEF ApplyRecord, Skipped
    <3> HIDE DEF n, b
    <3>2. /\ b \in Accs /\ Wrote(n, b, row, rec) /\ b.ok = n.ok
          /\ \A t \in Sources \ {rec.src} : b.files[t] = n.files[t] /\ b.facts[t] = n.facts[t]
          /\ b.max = n.max /\ b.previous = n.previous
      BY <1>3, <2>3, <3>1, TombstoneStep
    <3>3. Wrote(acc, b, row, rec)
      BY <1>3, <3>2, WroteNoted
    <3>4. Took(acc, b, row, delta, rec)
      BY <1>3, <1>8, <2>0, <2>3, <3>2, <3>3 DEF Took
    <3> QED
      BY <1>3, <1>8, <3>2, <3>4 DEF b
  <2>4. CASE ~Late /\ ~rec.deleted /\ rec.kind = "file"
    <3>1. b = ApplyFile(n, row, rec)
      BY <1>8, <2>4 DEF ApplyRecord, Skipped
    <3> HIDE DEF n, b
    <3>2. /\ b \in Accs /\ Wrote(n, b, row, rec) /\ b.ok = n.ok
          /\ \A t \in Sources \ {rec.src} : b.files[t] = n.files[t] /\ b.facts[t] = n.facts[t]
          /\ b.max = n.max /\ b.previous = n.previous
      BY <1>3, <2>4, <3>1, FileStep
    <3>3. Wrote(acc, b, row, rec)
      BY <1>3, <3>2, WroteNoted
    <3>4. Took(acc, b, row, delta, rec)
      BY <1>3, <1>8, <2>0, <2>4, <3>2, <3>3 DEF Took
    <3> QED
      BY <1>3, <1>8, <3>2, <3>4 DEF b
  <2>5. CASE ~Late /\ ~rec.deleted /\ rec.kind = "file_error"
    <3>1. b = ApplyError(n, row, rec)
      BY <1>8, <2>5 DEF ApplyRecord, Skipped
    <3> HIDE DEF n, b
    <3>2. /\ b \in Accs /\ Wrote(n, b, row, rec) /\ b.ok = n.ok
          /\ \A t \in Sources \ {rec.src} : b.files[t] = n.files[t] /\ b.facts[t] = n.facts[t]
          /\ b.max = n.max /\ b.previous = n.previous
      BY <1>3, <2>5, <3>1, ErrorStep
    <3>3. Wrote(acc, b, row, rec)
      BY <1>3, <3>2, WroteNoted
    <3>4. Took(acc, b, row, delta, rec)
      BY <1>3, <1>8, <2>0, <2>5, <3>2, <3>3 DEF Took
    <3> QED
      BY <1>3, <1>8, <3>2, <3>4 DEF b
  <2>6. CASE ~Late /\ ~rec.deleted /\ rec.kind \in FactKinds
    <3>1. b = ApplyFact(n, row, rec)
      BY <1>1, <1>8, <2>6 DEF ApplyRecord, Skipped
    <3> HIDE DEF n, b
    <3>0. n \in Accs /\ n.ok /\ ~rec.deleted /\ rec.kind \in FactKinds
      BY <1>3, <1>8, <2>6
    <3>2. /\ b \in Accs
          /\ b.ok => /\ Wrote(n, b, row, rec)
                     /\ \A t \in Sources \ {rec.src} : b.files[t] = n.files[t] /\ b.facts[t] = n.facts[t]
                     /\ b.max = n.max /\ b.previous = n.previous
          /\ /\ n.files[rec.src] # NoFile /\ n.files[rec.src].rev # NoRev
             /\ SameStamp(rec.kind, rec.payload.size, MtimeOf[rec.payload.rev],
                           n.files[rec.src].rev)
             => b.ok
      <4>1. /\ ApplyFact(n, row, rec) \in Accs
            /\ ApplyFact(n, row, rec).ok =>
                /\ Wrote(n, ApplyFact(n, row, rec), row, rec)
                /\ \A t \in Sources \ {rec.src} :
                    /\ ApplyFact(n, row, rec).files[t] = n.files[t]
                    /\ ApplyFact(n, row, rec).facts[t] = n.facts[t]
                /\ ApplyFact(n, row, rec).max = n.max
                /\ ApplyFact(n, row, rec).previous = n.previous
            /\ /\ n.files[rec.src] # NoFile /\ n.files[rec.src].rev # NoRev
               /\ SameStamp(rec.kind, rec.payload.size, MtimeOf[rec.payload.rev],
                            n.files[rec.src].rev)
               => ApplyFact(n, row, rec).ok
        BY <3>0, FactStep
      <4> QED
        BY <3>1, <4>1
    <3>3. b.ok => Wrote(acc, b, row, rec)
      BY <1>3, <3>2, WroteNoted
    <3>4. b.ok => Took(acc, b, row, delta, rec)
      BY <1>3, <1>8, <2>0, <2>6, <3>2, <3>3 DEF Took
    <3> QED
      BY <1>3, <1>8, <2>6, <3>2, <3>4 DEF b
  <2> QED
    BY <1>1, <1>2, <2>1, <2>3, <2>4, <2>5, <2>6
<1> QED
  BY <1>5, <1>6, <1>7, <1>8

(* The accumulators along a chunk that is taken to its end. *)
LEMMA ChunkSteps ==
    ASSUME NEW h \in Projections, h.row \in CursorRows, NEW delta, GoodDelta(delta)
    PROVE  /\ Len(delta.records) \in Nat
           /\ Applied(h, delta)[0] = AccStart(h)
           /\ \A n \in 0 .. Len(delta.records) : Applied(h, delta)[n] \in Accs
           /\ \A n \in 1 .. Len(delta.records) :
                /\ n \in DOMAIN delta.records /\ GoodRecord(delta.records[n])
                /\ Applied(h, delta)[n] =
                     ApplyRecord(Applied(h, delta)[n - 1], h.row, delta, delta.records[n])
                /\ Applied(h, delta)[n].ok =>
                     Took(Applied(h, delta)[n - 1], Applied(h, delta)[n], h.row, delta,
                          delta.records[n])
           /\ Applied(h, delta)[Len(delta.records)].ok =>
                \A n \in 0 .. Len(delta.records) : Applied(h, delta)[n].ok
<1> DEFINE N == Len(delta.records)
           A == Applied(h, delta)
<1>1. N \in Nat /\ delta.through \in Nat /\ delta.records \in Seq(WireRecords) /\ DOMAIN delta.records = 1 .. N
  BY DEF GoodDelta, Deltas
<1>2. /\ A[0] = AccStart(h)
      /\ \A n \in 1 .. N : A[n] = ApplyRecord(A[n - 1], h.row, delta, delta.records[n])
  BY <1>1, AppliedSteps
<1>3. \A n \in 1 .. N : n \in DOMAIN delta.records /\ GoodRecord(delta.records[n])
  BY <1>1 DEF GoodDelta
<1> HIDE DEF A, N
<1>4. A[0] \in Accs
  BY <1>2 DEF AccStart, Projections, CursorRows, Accs
<1>5. \A n \in 0 .. N : A[n] \in Accs
  <2> DEFINE T == {n \in 0 .. N : A[n] \in Accs}
  <2>1. 0 \in T
    BY <1>1, <1>4
  <2>2. ASSUME NEW n \in 1 .. N, n - 1 \in T PROVE n \in T
    <3>1. A[n - 1] \in Accs /\ n \in 0 .. N
      BY <1>1, <2>2
    <3>2. A[n] \in Accs
      BY <1>1, <1>2, <1>3, <3>1, RecordStep
    <3> QED
      BY <3>1, <3>2
  <2> HIDE DEF T
  <2>3. \A n \in 0 .. N : n \in T
    BY <1>1, <2>1, <2>2, AlongChunk
  <2> QED
    BY <2>3 DEF T
<1>6. \A n \in 1 .. N : n - 1 \in 0 .. N /\ n \in 0 .. N
  BY <1>1
<1>7. \A n \in 1 .. N : A[n].ok => Took(A[n - 1], A[n], h.row, delta, delta.records[n])
  BY <1>1, <1>2, <1>3, <1>5, <1>6, RecordStep
<1>8. A[N].ok => \A n \in 0 .. N : A[n].ok
  <2> SUFFICES ASSUME A[N].ok PROVE \A n \in 0 .. N : A[n].ok
    OBVIOUS
  <2> DEFINE T == {m \in 0 .. N : A[N - m].ok}
  <2>1. 0 \in T
    BY <1>1
  <2>2. ASSUME NEW m \in 1 .. N, m - 1 \in T PROVE m \in T
    <3>1. A[N - (m - 1)].ok /\ N - (m - 1) \in 1 .. N /\ (N - (m - 1)) - 1 = N - m
      BY <1>1, <2>2
    <3>2. A[N - m].ok
      BY <1>7, <3>1 DEF Took
    <3> QED
      BY <1>1, <3>2
  <2> HIDE DEF T
  <2>3. \A m \in 0 .. N : m \in T
    BY <1>1, <2>1, <2>2, AlongChunk
  <2> SUFFICES ASSUME NEW n \in 0 .. N PROVE A[n].ok
    OBVIOUS
  <2>4. N - n \in 0 .. N /\ N - (N - n) = n
    BY <1>1
  <2> QED
    BY <2>3, <2>4 DEF T
<1> QED
  BY <1>1, <1>2, <1>3, <1>5, <1>7, <1>8 DEF A, N

-----------------------------------------------------------------------------
(* A whole chunk, and an offer. *)

(* The accumulator a chunk ends with. *)
Folded(h, delta) == Applied(h, delta)[Len(delta.records)]

(* The tables a committed chunk leaves, before or after the reconciliation. *)
Settled(h, delta) ==
    IF h.row.snap /\ delta.done THEN Reconciled(Folded(h, delta)) ELSE Folded(h, delta)

(* The collections row a committed chunk leaves. *)
NextRow(h, delta) ==
    LET open == h.row.snap /\ ~delta.done
    IN  [epoch   |-> h.row.epoch,
         version |-> IF open THEN 0
                     ELSE IF delta.through > h.row.version THEN delta.through ELSE h.row.version,
         snap    |-> open,
         max     |-> IF open THEN Folded(h, delta).max ELSE 0]

(* The repeated last chunk of a snapshot that is already committed. *)
Repeated(h, delta) ==
    delta.snapshot /\ ~h.row.snap /\ delta.done /\ delta.through <= h.row.version

(* A chunk that is committed. *)
Committed(h, delta, p, ack) ==
    /\ delta.snapshot => h.row.snap
    /\ h.row.snap /\ ~delta.done => delta.through = 0
    /\ Folded(h, delta).ok
    /\ h.row.snap /\ delta.done => Folded(h, delta).max <= delta.through
    /\ p.row = NextRow(h, delta)
    /\ p.files = Settled(h, delta).files
    /\ p.facts = Settled(h, delta).facts
    /\ ack = IF delta.done THEN NextRow(h, delta).version ELSE NoAck

(* Reconciling a projection keeps its types. *)
LEMMA ReconciledTypes ==
    ASSUME NEW acc \in Accs
    PROVE  /\ Reconciled(acc) \in Accs
           /\ \A s \in Sources :
                /\ Reconciled(acc).files[s] =
                     IF acc.files[s] # NoFile /\ acc.files[s].seen THEN acc.files[s] ELSE NoFile
                /\ \A k \in DerivedKinds : Reconciled(acc).facts[s][k] =
                     IF /\ acc.files[s] # NoFile /\ acc.files[s].seen
                        /\ acc.facts[s][k] # NoFact /\ acc.facts[s][k].seen
                     THEN acc.facts[s][k] ELSE NoFact
<1> DEFINE kept(s) == acc.files[s] # NoFile /\ acc.files[s].seen
           F == [s \in Sources |-> IF kept(s) THEN acc.files[s] ELSE NoFile]
           G == [s \in Sources |-> [k \in DerivedKinds |->
                    IF kept(s) /\ acc.facts[s][k] # NoFact /\ acc.facts[s][k].seen
                    THEN acc.facts[s][k] ELSE NoFact]]
<1>1. F \in FileTables /\ G \in FactTables
  BY DEF Accs, FileTables, FactTables
<1>2. /\ \A s \in Sources : F[s] = IF kept(s) THEN acc.files[s] ELSE NoFile
      /\ \A s \in Sources, k \in DerivedKinds : G[s][k] =
            IF kept(s) /\ acc.facts[s][k] # NoFact /\ acc.facts[s][k].seen
            THEN acc.facts[s][k] ELSE NoFact
  OBVIOUS
<1>3. Reconciled(acc) = [acc EXCEPT !.files = F, !.facts = G]
  BY DEF Reconciled
<1> HIDE DEF F, G
<1>4. Reconciled(acc) \in Accs /\ Reconciled(acc).files = F /\ Reconciled(acc).facts = G
  BY <1>1, <1>3 DEF Accs
<1> QED
  BY <1>2, <1>4

(* A chunk that is not refused: it repeats a committed snapshot, or its     *)
(* rows and its cursor are committed together.                              *)
LEMMA CatalogueOutcome ==
    ASSUME NEW h \in Projections, NEW delta, GoodDelta(delta), ApplyCatalogue(h, delta).ok
    PROVE  /\ h.row \in CursorRows /\ h.row.epoch = delta.epoch
           /\ ApplyCatalogue(h, delta).proj \in Projections
           /\ ApplyCatalogue(h, delta).proj.row \in CursorRows
           /\ \/ /\ Repeated(h, delta)
                 /\ ApplyCatalogue(h, delta).proj = h
                 /\ ApplyCatalogue(h, delta).ack = h.row.version
              \/ Committed(h, delta, ApplyCatalogue(h, delta).proj, ApplyCatalogue(h, delta).ack)
<1> DEFINE out == ApplyCatalogue(h, delta)
           A == Folded(h, delta)
           open == h.row.snap /\ ~delta.done
           next == [row |-> NextRow(h, delta), files |-> Settled(h, delta).files,
                    facts |-> Settled(h, delta).facts]
           bad == \/ open /\ delta.through # 0
                  \/ ~A.ok
                  \/ h.row.snap /\ delta.done /\ delta.through < A.max
<1>1. h.row \in {NoRow} \cup CursorRows
  BY DEF Projections
<1>2. h.row \in CursorRows /\ h.row.epoch = delta.epoch
  BY <1>1 DEF ApplyCatalogue
<1>3. delta.through \in Nat /\ delta.done \in BOOLEAN /\ h.row.version \in Nat
  BY <1>2 DEF GoodDelta, Deltas, CursorRows
<1>4. CASE delta.snapshot /\ ~h.row.snap
  <2>1. Repeated(h, delta)
    BY <1>2, <1>4, ProjectionAssumption DEF ApplyCatalogue, Repeated
  <2>2. out = [ok |-> TRUE, proj |-> h, ack |-> h.row.version]
    BY <1>2, <1>4, <2>1, ProjectionAssumption DEF ApplyCatalogue, Repeated
  <2> QED
    BY <1>2, <2>1, <2>2
<1>5. CASE ~(delta.snapshot /\ ~h.row.snap)
  <2>1. A \in Accs
    <3>1. \A n \in 0 .. Len(delta.records) : Applied(h, delta)[n] \in Accs
      BY <1>2, ChunkSteps
    <3>2. Len(delta.records) \in 0 .. Len(delta.records)
      BY DEF GoodDelta, Deltas
    <3> QED
      BY <3>1, <3>2 DEF Folded
  <2>2. Settled(h, delta) \in Accs
    BY <2>1, ReconciledTypes DEF Settled
  <2>5. out = IF bad THEN [ok |-> FALSE, proj |-> h, ack |-> NoAck]
              ELSE [ok |-> TRUE, proj |-> next,
                    ack |-> IF delta.done THEN NextRow(h, delta).version ELSE NoAck]
    BY <1>2, <1>5, ProjectionAssumption DEF ApplyCatalogue, Folded, Settled, NextRow
  <2>6. ~bad
    BY <2>5
  <2>7. out.proj = next /\ out.ack = IF delta.done THEN NextRow(h, delta).version ELSE NoAck
    BY <2>5, <2>6
  <2>8. NextRow(h, delta) \in CursorRows
    <3>1. A.max \in Nat /\ h.row.snap \in BOOLEAN /\ h.row.epoch \in Nat
      BY <1>2, <2>1 DEF Accs, CursorRows
    <3> QED
      BY <1>3, <3>1 DEF NextRow, CursorRows
  <2>9. next \in Projections
    BY <2>2, <2>8 DEF Accs, Projections
  <2>10. Committed(h, delta, next, out.ack)
    BY <1>3, <1>5, <2>1, <2>6, <2>7 DEF Committed, Accs
  <2> QED
    BY <1>2, <2>7, <2>8, <2>9, <2>10
<1> QED
  BY <1>4, <1>5

(* When a chunk is not refused. *)
LEMMA CatalogueAccepts ==
    ASSUME NEW h \in Projections, NEW delta, GoodDelta(delta),
           h.row \in CursorRows, h.row.epoch = delta.epoch,
           delta.snapshot => h.row.snap,
           h.row.snap /\ ~delta.done => delta.through = 0,
           Folded(h, delta).ok,
           h.row.snap /\ delta.done => Folded(h, delta).max <= delta.through,
           Folded(h, delta).max \in Nat
    PROVE  ApplyCatalogue(h, delta).ok
<1>1. h.row # NoRow /\ delta.through \in Nat
  BY ProjectionAssumption DEF GoodDelta, Deltas
<1> QED
  BY <1>1 DEF ApplyCatalogue, Folded

(* An offer. *)
LEMMA OfferOutcome ==
    ASSUME NEW h \in Projections, NEW offer, offer.epoch \in Nat, offer.current \in Nat
    PROVE  LET snap    == CursorUnusable(h.row, offer)
               changed == h.row # NoRow /\ h.row.epoch # offer.epoch
               p       == OfferCollection(h, offer)
           IN  /\ p \in Projections /\ p.row \in CursorRows
               /\ p.row.epoch = offer.epoch
               /\ p.row.snap = snap
               /\ p.row.version = IF snap THEN 0 ELSE h.row.version
               /\ p.row.max = 0
               /\ \A s \in Sources :
                    /\ p.files[s] = IF h.files[s] = NoFile THEN NoFile
                                    ELSE Carried(h.files[s], changed, snap)
                    /\ \A k \in DerivedKinds :
                         p.facts[s][k] = IF h.facts[s][k] = NoFact THEN NoFact
                                         ELSE Carried(h.facts[s][k], changed, snap)
<1> DEFINE snap    == CursorUnusable(h.row, offer)
           changed == h.row # NoRow /\ h.row.epoch # offer.epoch
           p       == OfferCollection(h, offer)
           row     == [epoch |-> offer.epoch, version |-> IF snap THEN 0 ELSE h.row.version,
                       snap |-> snap, max |-> 0]
           F == OfferedFiles(h, changed, snap)
           G == [s \in Sources |-> [k \in DerivedKinds |->
                        IF h.facts[s][k] = NoFact THEN NoFact
                        ELSE Carried(h.facts[s][k], changed, snap)]]
<1>1. /\ h.row \in {NoRow} \cup CursorRows /\ h.files \in FileTables /\ h.facts \in FactTables
  BY DEF Projections
<1>2. snap \in BOOLEAN /\ (~snap => h.row \in CursorRows)
  BY <1>1 DEF CursorUnusable
<1>3. row \in CursorRows
  BY <1>2 DEF CursorRows
<1>4. \A f \in ShownFiles : Carried(f, changed, snap) \in ShownFiles
  BY DEF Carried, ShownFiles
<1>5. \A f \in ShownFacts : Carried(f, changed, snap) \in ShownFacts
  BY DEF Carried, ShownFacts
<1>6. p = [row |-> row, files |-> F, facts |-> G]
  BY DEF OfferCollection
<1> HIDE DEF snap, changed
<1>7. F \in FileTables /\ G \in FactTables
  BY <1>1, <1>4, <1>5 DEF FileTables, FactTables, OfferedFiles
<1>8. \A s \in Sources :
        /\ F[s] = IF h.files[s] = NoFile THEN NoFile ELSE Carried(h.files[s], changed, snap)
        /\ \A k \in DerivedKinds :
             G[s][k] = IF h.facts[s][k] = NoFact THEN NoFact
                       ELSE Carried(h.facts[s][k], changed, snap)
  BY DEF OfferedFiles
<1> HIDE DEF p, F, G
<1>9. p \in Projections
  BY <1>3, <1>6, <1>7 DEF Projections
<1> QED
  BY <1>3, <1>6, <1>8, <1>9 DEF p, snap, changed

-----------------------------------------------------------------------------
(* The link: its types, and the three phases of an offered collection. *)

Offers  == [type : {"offer"}, epoch : Nat, current : Nat]
Cursors == [type : {"cursor"}, epoch : Nat, version : Nat, snap : BOOLEAN]
Acks    == [type : {"ack"}, epoch : Nat, version : Nat]

(* The types of the link's variables. *)
SyncTypes ==
    /\ link \in {"down", "open", "offered"}
    /\ toHub \in Seq(Offers \cup Deltas)
    /\ \A i \in DOMAIN toHub : toHub[i].type = "delta" => GoodDelta(toHub[i])
    /\ toHost \in Seq(Cursors \cup Acks)
    /\ sync \in {NoSync} \cup Streams
    /\ sync # NoSync => \A r \in sync.rows : GoodRecord(r)
    /\ sent \in {NoCursor} \cup Nat
    /\ hub \in Projections
    /\ hostAck \in [epoch : Nat, version : Nat]

(* The hub's row never runs ahead of the collection it was copied from, nor *)
(* an acknowledgement ahead of the hub's row.                               *)
RowInv ==
    /\ hub.row = NoRow => hostAck.epoch = 0
    /\ hub.row # NoRow =>
        /\ hub.row.epoch \in 1 .. epoch
        /\ hub.row.snap => hub.row.version = 0
        /\ hub.row.epoch = epoch => hub.row.version <= current
        /\ hostAck.epoch <= hub.row.epoch
        /\ hostAck.epoch = hub.row.epoch => hostAck.version <= hub.row.version

(* The offer is on its way. *)
Asked ==
    /\ toHub # <<>> /\ Tail(toHub) = <<>>
    /\ Head(toHub).type = "offer" /\ Head(toHub).epoch = epoch
    /\ Head(toHub).current <= current
    /\ hub.row # NoRow /\ hub.row.epoch = epoch => hub.row.version <= Head(toHub).current
    /\ toHost = <<>> /\ sync = NoSync /\ sent = NoCursor

(* The hub's cursor is on its way back. *)
Answered ==
    /\ toHub = <<>>
    /\ toHost = <<CursorMsg(hub.row)>>
    /\ hub.row # NoRow /\ hub.row.epoch = epoch
    /\ sync = NoSync /\ sent = NoCursor

(* A stream has been started: only deltas one way, only acknowledgements of *)
(* what is committed the other.                                             *)
Running ==
    /\ sync # NoSync \/ sent # NoCursor
    /\ hub.row # NoRow /\ hub.row.epoch = epoch
    /\ \A i \in DOMAIN toHub :
        toHub[i].type = "delta" /\ toHub[i].epoch = epoch /\ toHub[i].through <= current
    /\ \A i \in DOMAIN toHost :
        /\ toHost[i].type = "ack" /\ toHost[i].epoch = epoch
        /\ toHost[i].version <= hub.row.version
    /\ sync # NoSync /\ sync.stage = "queued" => sync.rows = {}
    /\ sync # NoSync /\ sync.stage # "queued" =>
        /\ sync.epoch = epoch /\ sync.current <= current
        /\ \A r \in sync.rows : r.version <= sync.current

(* Nothing has been asked on this link yet. *)
Quiet == toHub = <<>> /\ toHost = <<>> /\ sync = NoSync /\ sent = NoCursor

(* A link is quiet until its offer leaves, and then in one of three phases. *)
PhaseInv ==
    /\ link # "offered" => Quiet
    /\ link = "offered" => Asked \/ Answered \/ Running

(* The invariant of the link. *)
LinkInv == SyncTypes /\ RowInv /\ PhaseInv

(* What a queue holds after a message is taken or added. *)
LEMMA QueueTail ==
    ASSUME NEW S, NEW q \in Seq(S), q # <<>>
    PROVE  /\ Head(q) = q[1] /\ Head(q) \in S /\ 1 \in DOMAIN q
           /\ Tail(q) \in Seq(S)
           /\ Len(q) \in Nat /\ Len(q) >= 1 /\ Len(Tail(q)) = Len(q) - 1
           /\ DOMAIN q = 1 .. Len(q) /\ DOMAIN Tail(q) = 1 .. (Len(q) - 1)
           /\ \A i \in DOMAIN Tail(q) : i + 1 \in DOMAIN q /\ Tail(q)[i] = q[i + 1]
OBVIOUS

(* What a queue holds after a message is added. *)
LEMMA QueueAppend ==
    ASSUME NEW S, NEW q \in Seq(S), NEW e \in S
    PROVE  /\ Append(q, e) \in Seq(S)
           /\ Len(q) \in Nat /\ Len(Append(q, e)) = Len(q) + 1
           /\ DOMAIN q = 1 .. Len(q) /\ DOMAIN Append(q, e) = 1 .. (Len(q) + 1)
           /\ \A i \in DOMAIN q : i \in DOMAIN Append(q, e) /\ Append(q, e)[i] = q[i]
           /\ \A i \in DOMAIN Append(q, e) : i \in DOMAIN q \/ i = Len(q) + 1
           /\ Len(q) + 1 \in DOMAIN Append(q, e)
           /\ Append(q, e)[Len(q) + 1] = e
           /\ Append(q, e) # <<>>
OBVIOUS

(* What a step does to the catalogue. *)
LEMMA SyncMoves ==
    ASSUME JournalInv, [SyncNext]_vars
    PROVE  /\ JournalInv'
           /\ epoch \in Nat \ {0} /\ current \in Nat /\ current' \in Nat
           /\ epoch' \in {epoch, epoch + 1}
           /\ epoch' = epoch => Moves
           /\ epoch' # epoch => RestartHost
           /\ CatalogueStep \/ RestartHost \/ UNCHANGED journalVars
<1>1. [Next]_journalVars /\ (CatalogueStep \/ RestartHost \/ UNCHANGED journalVars)
  <2>1. CASE CatalogueStep
    BY <2>1 DEF CatalogueStep, Next
  <2>2. CASE RestartHost
    BY <2>2 DEF RestartHost, Next
  <2>3. CASE Break
    BY <2>3 DEF Break
  <2>4. CASE ProtocolStep
    BY <2>4 DEF ProtocolStep, Connect, SendOffer, HubOffer, HubApply, HubReject, HostCursor,
                HostAck, BeginPages, SendChunk, SendEmpty, SyncJoined, VersionsChanged
  <2>5. CASE UNCHANGED vars
    BY <2>5 DEF vars
  <2> QED
    BY <2>1, <2>2, <2>3, <2>4, <2>5 DEF SyncNext
<1>2. JournalInv' /\ (epoch' # epoch + 1 => Moves)
  BY <1>1, JournalInvStep
<1>3. epoch \in Nat \ {0} /\ current \in Nat /\ current' \in Nat
  BY <1>2, BoundAssumption DEF JournalInv, TypeOK, Versions
<1>4. CatalogueStep => epoch' = epoch
  BY DEF CatalogueStep, ScanStep, DiscoveryStep, PublishStep, UpsertFile, RecordError, RemoveFile,
         FinishScan, ClaimSource, ReleaseClaim, StoreFact, Publish, Commit
<1>5. RestartHost => epoch' \in {epoch, epoch + 1}
  BY DEF RestartHost, OpenStep, Reopen, Recreate
<1>6. UNCHANGED journalVars => epoch' = epoch
  BY DEF journalVars
<1> QED
  BY <1>1, <1>2, <1>3, <1>4, <1>5, <1>6

(* A journal row that a stream reads is a record of its kind. *)
LEMMA AsRecordGood ==
    ASSUME JournalInv, NEW s \in Sources, NEW k \in Kinds, journal[s][k] # NoRecord
    PROVE  /\ GoodRecord(AsRecord(s, k))
           /\ AsRecord(s, k).src = s /\ AsRecord(s, k).kind = k
           /\ AsRecord(s, k).version = journal[s][k].version
           /\ AsRecord(s, k).deleted = journal[s][k].deleted
           /\ AsRecord(s, k).payload = journal[s][k].payload
           /\ journal[s][k].version \in Nat /\ journal[s][k].version \in 1 .. current
           /\ current \in Nat
<1>1. journal[s][k] \in RowType(k) /\ journal[s][k].version \in 1 .. current /\ current \in Nat
  BY BoundAssumption DEF JournalInv, TypeOK, VersionsAreUnique, Versions
<1>2. journal[s][k].deleted \in BOOLEAN /\ journal[s][k].payload \in Payloads
  BY <1>1 DEF RowType, Tombstones, LiveRows, Payloads
<1>3. ~journal[s][k].deleted => journal[s][k].payload \in LivePayloads(k)
  <2>1. ~journal[s][k].deleted => Live(journal[s][k])
    BY DEF Live
  <2> QED
    BY <1>1, <2>1, LiveRowPayload
<1>4. /\ AsRecord(s, k).src = s /\ AsRecord(s, k).kind = k
      /\ AsRecord(s, k).version = journal[s][k].version
      /\ AsRecord(s, k).deleted = journal[s][k].deleted
      /\ AsRecord(s, k).payload = journal[s][k].payload
  BY DEF AsRecord
<1>5. AsRecord(s, k) \in WireRecords
  BY <1>1, <1>2 DEF AsRecord, WireRecords
<1>6. ~journal[s][k].deleted /\ k \in FactKinds /\ journal[s][k].payload.size = 0 => k = "file_hashes"
  BY DEF JournalInv, RowsFollow, FactsFollow, Measured, Live
<1> QED
  BY <1>1, <1>3, <1>4, <1>5, <1>6 DEF GoodRecord

(* The rows of a read. *)
LEMMA ReadRows ==
    ASSUME JournalInv, NEW c
    PROVE  /\ \A r \in ReplayRows(c) :
                /\ r.src \in Sources /\ r.kind \in Kinds
                /\ journal[r.src][r.kind] # NoRecord
                /\ r = AsRecord(r.src, r.kind)
                /\ GoodRecord(r) /\ r.version <= current /\ r.version > c
           /\ \A s \in Sources, k \in Kinds :
                journal[s][k] # NoRecord /\ journal[s][k].version > c =>
                    AsRecord(s, k) \in ReplayRows(c)
<1>1. ASSUME NEW r \in ReplayRows(c)
      PROVE  /\ r.src \in Sources /\ r.kind \in Kinds
             /\ journal[r.src][r.kind] # NoRecord
             /\ r = AsRecord(r.src, r.kind)
             /\ GoodRecord(r) /\ r.version <= current /\ r.version > c
  <2>1. PICK x \in Sources \X Kinds : /\ journal[x[1]][x[2]] # NoRecord
                                      /\ journal[x[1]][x[2]].version > c
                                      /\ r = AsRecord(x[1], x[2])
    BY DEF ReplayRows
  <2>2. x[1] \in Sources /\ x[2] \in Kinds
    OBVIOUS
  <2> QED
    BY <2>1, <2>2, AsRecordGood
<1>2. ASSUME NEW s \in Sources, NEW k \in Kinds, journal[s][k] # NoRecord,
             journal[s][k].version > c
      PROVE  AsRecord(s, k) \in ReplayRows(c)
  <2>1. <<s, k>> \in {y \in Sources \X Kinds :
                        journal[y[1]][y[2]] # NoRecord /\ journal[y[1]][y[2]].version > c}
    BY <1>2
  <2> QED
    BY <2>1 DEF ReplayRows
<1> QED
  BY <1>1, <1>2

-----------------------------------------------------------------------------
(* The link invariant, one lemma per action. *)

(* The shape of the running stream. *)
LEMMA StreamTypes ==
    ASSUME SyncTypes, sync # NoSync
    PROVE  /\ sync \in Streams
           /\ sync.stage \in {"queued", "streaming", "joined"} /\ sync.start \in Nat
           /\ sync.snapshot \in BOOLEAN /\ sync.epoch \in Nat /\ sync.current \in Nat
           /\ sync.first \in BOOLEAN
           /\ \A r \in sync.rows : GoodRecord(r) /\ r \in WireRecords /\ r.version \in Nat
<1>1. sync \in Streams
  BY DEF SyncTypes
<1> QED
  BY <1>1 DEF SyncTypes, Streams, GoodRecord, WireRecords

(* A break of the link forgets it whole. *)
LEMMA DownInv ==
    ASSUME LinkInv, LinkDown, hub' = hub, hostAck' = hostAck, RowInv'
    PROVE  LinkInv'
<1>1. SyncTypes'
  BY DEF LinkInv, SyncTypes, LinkDown
<1>2. PhaseInv'
  BY DEF LinkDown, PhaseInv, Quiet
<1> QED
  BY <1>1, <1>2 DEF LinkInv

(* The catalogue moves under the hub's row. *)
LEMMA RowMoves ==
    ASSUME JournalInv, LinkInv, [SyncNext]_vars, hub' = hub, hostAck' = hostAck
    PROVE  RowInv'
<1>1. /\ epoch \in Nat \ {0} /\ current \in Nat /\ current' \in Nat
      /\ epoch' \in {epoch, epoch + 1}
      /\ epoch' = epoch => current <= current'
  BY SyncMoves DEF Moves
<1>2. RowInv /\ hub \in Projections
  BY DEF LinkInv, SyncTypes
<1>3. hub.row # NoRow => hub.row.epoch \in Nat /\ hub.row.version \in Nat
  BY <1>2 DEF Projections, CursorRows
<1> QED
  BY <1>1, <1>2, <1>3 DEF RowInv

(* What a queue that holds nothing new has. *)
LEMMA CatalogueStepInv ==
    ASSUME JournalInv, LinkInv, CatalogueStep
    PROVE  LinkInv'
<1>0. [SyncNext]_vars
  BY DEF SyncNext
<1>1. UNCHANGED <<link, toHub, toHost, sync, sent, hub, hostAck>>
  BY DEF CatalogueStep
<1>2. SyncTypes'
  BY <1>1 DEF LinkInv, SyncTypes
<1>3. RowInv'
  BY <1>0, <1>1, RowMoves
<1>4. epoch' = epoch /\ current <= current' /\ current \in Nat /\ current' \in Nat
  <2>1. epoch' = epoch
    BY DEF CatalogueStep, ScanStep, DiscoveryStep, PublishStep, UpsertFile, RecordError,
           RemoveFile, FinishScan, ClaimSource, ReleaseClaim, StoreFact, Publish, Commit
  <2> QED
    BY <1>0, <2>1, SyncMoves DEF Moves
<1>5. Asked => Asked'
  <2> SUFFICES ASSUME Asked PROVE Asked'
    OBVIOUS
  <2>1. Head(toHub) \in Offers \cup Deltas
    BY QueueTail DEF Asked, LinkInv, SyncTypes
  <2>2. Head(toHub).current \in Nat
    BY <2>1 DEF Asked, Offers, Deltas
  <2> QED
    BY <1>1, <1>4, <2>2 DEF Asked
<1>6. Answered => Answered'
  BY <1>1, <1>4 DEF Answered, CursorMsg
<1>7. Running => Running'
  <2> SUFFICES ASSUME Running PROVE Running'
    OBVIOUS
  <2>1. \A i \in DOMAIN toHub : toHub[i].through \in Nat
    BY DEF Running, LinkInv, SyncTypes, GoodDelta, Deltas
  <2>2. \A i \in DOMAIN toHub :
          toHub[i].type = "delta" /\ toHub[i].epoch = epoch' /\ toHub[i].through <= current'
    BY <1>4, <2>1 DEF Running
  <2>3. sync # NoSync => sync.current \in Nat
    BY StreamTypes DEF LinkInv
  <2>4. sync # NoSync /\ sync.stage # "queued" => sync.epoch = epoch' /\ sync.current <= current'
    BY <1>4, <2>3 DEF Running
  <2> QED
    BY <1>1, <1>4, <2>2, <2>4 DEF Running
<1>8. PhaseInv'
  BY <1>1, <1>5, <1>6, <1>7 DEF LinkInv, PhaseInv, Quiet
<1> QED
  BY <1>2, <1>3, <1>8 DEF LinkInv

(* Break and RestartHost. *)
LEMMA BreakInv ==
    ASSUME JournalInv, LinkInv, Break \/ RestartHost
    PROVE  LinkInv'
<1>1. [SyncNext]_vars /\ LinkDown /\ hub' = hub /\ hostAck' = hostAck
  BY DEF SyncNext, Break, RestartHost
<1> QED
  BY <1>1, DownInv, RowMoves

(* The hub refuses a chunk. *)
LEMMA HubRejectInv ==
    ASSUME JournalInv, LinkInv, HubReject
    PROVE  LinkInv'
<1>1. [SyncNext]_vars /\ LinkDown /\ hub' = hub /\ hostAck' = hostAck
  BY DEF SyncNext, ProtocolStep, HubReject
<1> QED
  BY <1>1, DownInv, RowMoves

(* Connect and SendOffer. *)
LEMMA ConnectInv ==
    ASSUME JournalInv, LinkInv, Connect
    PROVE  LinkInv'
<1>1. [SyncNext]_vars /\ hub' = hub /\ hostAck' = hostAck
  BY DEF SyncNext, ProtocolStep, Connect
<1>2. SyncTypes'
  BY DEF LinkInv, SyncTypes, Connect
<1>3. PhaseInv'
  BY DEF LinkInv, PhaseInv, Quiet, Connect
<1> QED
  BY <1>1, <1>2, <1>3, RowMoves DEF LinkInv

(* The offer leaves: the link is asked. *)
LEMMA SendOfferInv ==
    ASSUME JournalInv, LinkInv, SendOffer
    PROVE  LinkInv'
<1>1. [SyncNext]_vars /\ hub' = hub /\ hostAck' = hostAck
  BY DEF SyncNext, ProtocolStep, SendOffer
<1>2. epoch \in Nat \ {0} /\ current \in Nat
  BY <1>1, SyncMoves
<1>3. Quiet
  BY DEF LinkInv, PhaseInv, SendOffer
<1>4. OfferMsg \in Offers \cup Deltas
  BY <1>2 DEF OfferMsg, Offers
<1>5. toHub' = <<OfferMsg>>
  BY <1>3 DEF SendOffer, Quiet
<1>6. OfferMsg.type = "offer" /\ OfferMsg.epoch = epoch /\ OfferMsg.current = current
  BY DEF OfferMsg
<1>7. UNCHANGED <<toHost, sync, sent, hub, hostAck, epoch, current>> /\ link' = "offered"
  BY DEF SendOffer, journalVars
<1> HIDE DEF OfferMsg
<1>8. SyncTypes'
  <2>1. toHub' \in Seq(Offers \cup Deltas) /\ \A i \in DOMAIN toHub' : toHub'[i] = OfferMsg
    BY <1>4, <1>5
  <2> QED
    BY <1>6, <1>7, <2>1 DEF LinkInv, SyncTypes
<1>9. Asked'
  <2>1. toHub' # <<>> /\ Head(toHub') = OfferMsg /\ Tail(toHub') = <<>>
    BY <1>5
  <2>2. hub.row # NoRow /\ hub.row.epoch = epoch => hub.row.version <= current
    BY DEF LinkInv, RowInv
  <2> QED
    BY <1>2, <1>3, <1>6, <1>7, <2>1, <2>2 DEF Asked, Quiet
<1>10. PhaseInv'
  BY <1>7, <1>9 DEF PhaseInv
<1> QED
  BY <1>1, <1>8, <1>10, RowMoves DEF LinkInv

(* The phase of a link tells what its next message is. *)
LEMMA PhaseOf ==
    ASSUME LinkInv
    PROVE  /\ toHub # <<>> /\ Head(toHub).type = "offer" => link = "offered" /\ Asked
           /\ toHub # <<>> /\ Head(toHub).type = "delta" => link = "offered" /\ Running
           /\ toHost # <<>> /\ Head(toHost).type = "cursor" => link = "offered" /\ Answered
           /\ toHost # <<>> /\ Head(toHost).type = "ack" => link = "offered" /\ Running
           /\ sync # NoSync => link = "offered" /\ Running
           /\ sent # NoCursor => link = "offered" /\ Running
<1>1. (link = "offered" /\ (Asked \/ Answered \/ Running)) \/ Quiet
  BY DEF LinkInv, PhaseInv
<1>2. toHub # <<>> => Head(toHub) = toHub[1] /\ 1 \in DOMAIN toHub
  BY QueueTail DEF LinkInv, SyncTypes
<1>3. toHost # <<>> => Head(toHost) = toHost[1] /\ 1 \in DOMAIN toHost
  BY QueueTail DEF LinkInv, SyncTypes
<1>4. Running /\ toHub # <<>> => Head(toHub).type = "delta"
  BY <1>2 DEF Running
<1>5. Running /\ toHost # <<>> => Head(toHost).type = "ack"
  BY <1>3 DEF Running
<1>6. Answered => toHub = <<>> /\ Head(toHost).type = "cursor" /\ sync = NoSync /\ sent = NoCursor
  BY DEF Answered, CursorMsg
<1>7. Asked => Head(toHub).type = "offer" /\ toHost = <<>> /\ sync = NoSync /\ sent = NoCursor
  BY DEF Asked
<1>8. Quiet => toHub = <<>> /\ toHost = <<>> /\ sync = NoSync /\ sent = NoCursor
  BY DEF Quiet
<1> QED
  BY <1>1, <1>4, <1>5, <1>6, <1>7, <1>8

(* CatalogOffer on the hub. *)
LEMMA HubOfferInv ==
    ASSUME JournalInv, LinkInv, HubOffer
    PROVE  LinkInv' /\ Answered'
<1> DEFINE m == Head(toHub)
<1>0. [SyncNext]_vars
  BY DEF SyncNext, ProtocolStep
<1>1. epoch \in Nat \ {0} /\ current \in Nat
  BY <1>0, SyncMoves
<1>2. link = "offered" /\ Asked
  BY PhaseOf DEF HubOffer
<1>3. /\ m.type = "offer" /\ m.epoch = epoch /\ m.current <= current
      /\ hub.row # NoRow /\ hub.row.epoch = epoch => hub.row.version <= m.current
      /\ Tail(toHub) = <<>> /\ toHost = <<>> /\ sync = NoSync /\ sent = NoCursor
  BY <1>2 DEF Asked
<1>4. m \in Offers
  <2>1. m \in Offers \cup Deltas
    BY <1>2, QueueTail DEF Asked, LinkInv, SyncTypes
  <2> QED
    BY <1>3, <2>1 DEF Deltas
<1>5. m.epoch \in Nat /\ m.current \in Nat
  BY <1>4 DEF Offers
<1>6. /\ UNCHANGED <<link, sync, sent, wake, hostAck, epoch, current>>
      /\ hub' = OfferCollection(hub, m)
      /\ toHub' = <<>>
      /\ toHost' = <<CursorMsg(hub'.row)>>
  BY <1>3 DEF HubOffer, journalVars
<1>7. hub \in Projections /\ RowInv /\ hostAck \in [epoch : Nat, version : Nat]
  BY DEF LinkInv, SyncTypes
<1> HIDE DEF m
<1>8. /\ hub' \in Projections /\ hub'.row \in CursorRows
      /\ hub'.row.epoch = m.epoch
      /\ hub'.row.snap = CursorUnusable(hub.row, m)
      /\ hub'.row.version = IF hub'.row.snap THEN 0 ELSE hub.row.version
  BY <1>5, <1>6, <1>7, OfferOutcome
<1>9. hub'.row # NoRow
  BY <1>8, ProjectionAssumption
<1>10. hub.row # NoRow => hub.row \in CursorRows /\ hub.row.epoch \in Nat /\ hub.row.version \in Nat
  BY <1>7 DEF Projections, CursorRows
<1>11. RowInv'
  <2>1. hub'.row.version <= current
    <3>1. ~hub'.row.snap => hub.row # NoRow /\ hub.row.epoch = m.epoch /\ ~(hub.row.version > m.current)
      BY <1>8 DEF CursorUnusable
    <3> QED
      BY <1>1, <1>3, <1>5, <1>8, <1>10, <3>1
  <2>2. hostAck.epoch <= epoch
    BY <1>1, <1>7, <1>10 DEF RowInv
  <2>3. hostAck.epoch = epoch => hostAck.version <= hub'.row.version
    <3> SUFFICES ASSUME hostAck.epoch = epoch PROVE hostAck.version <= hub'.row.version
      OBVIOUS
    <3>1. hub.row # NoRow /\ hub.row.epoch = epoch /\ hostAck.version <= hub.row.version
      BY <1>1, <1>7, <1>10 DEF RowInv
    <3>2. hub'.row.snap => hub.row.snap \/ hub.row.version = 0
      <4>1. ~(hub.row.version > m.current)
        BY <1>3, <1>5, <1>10, <3>1
      <4>2. CursorUnusable(hub.row, m) => hub.row.snap \/ hub.row.version = 0
        BY <1>3, <3>1, <4>1 DEF CursorUnusable
      <4> QED
        BY <1>8, <4>2
    <3>3. hub'.row.version = hub.row.version
      BY <1>7, <1>8, <3>1, <3>2 DEF RowInv
    <3> QED
      BY <3>1, <3>3
  <2>4. hub'.row.epoch = epoch' /\ hostAck' = hostAck /\ current' = current /\ epoch' = epoch
    BY <1>3, <1>6, <1>8
  <2> QED
    BY <1>1, <1>8, <1>9, <2>1, <2>2, <2>3, <2>4 DEF RowInv
<1>12. CursorMsg(hub'.row) \in Cursors
  BY <1>8 DEF CursorMsg, Cursors, CursorRows
<1>13. SyncTypes'
  <2>1. toHub' \in Seq(Offers \cup Deltas) /\ DOMAIN toHub' = {}
    BY <1>6
  <2>2. toHost' \in Seq(Cursors \cup Acks)
    BY <1>6, <1>12
  <2> QED
    BY <1>6, <1>8, <2>1, <2>2 DEF LinkInv, SyncTypes
<1>14. Answered'
  BY <1>3, <1>6, <1>8, <1>9 DEF Answered, CursorMsg
<1>15. PhaseInv'
  BY <1>2, <1>6, <1>14 DEF PhaseInv
<1> QED
  BY <1>11, <1>13, <1>14, <1>15 DEF LinkInv

(* The delta at the head of the queue. *)
LEMMA HeadDelta ==
    ASSUME LinkInv, toHub # <<>>, Head(toHub).type = "delta"
    PROVE  /\ Head(toHub) = toHub[1] /\ 1 \in DOMAIN toHub
           /\ GoodDelta(Head(toHub)) /\ Head(toHub).epoch = epoch
           /\ Head(toHub).through <= current /\ Head(toHub).through \in Nat
           /\ Head(toHub).done \in BOOLEAN
           /\ hub \in Projections /\ hub.row \in CursorRows /\ hub.row.epoch = epoch
           /\ hub.row.version \in Nat /\ hub.row.snap \in BOOLEAN
           /\ link = "offered" /\ Running
<1>1. Running /\ link = "offered"
  BY PhaseOf
<1>2. Head(toHub) = toHub[1] /\ 1 \in DOMAIN toHub
  BY QueueTail DEF LinkInv, SyncTypes
<1>3. GoodDelta(Head(toHub)) /\ Head(toHub).epoch = epoch /\ Head(toHub).through <= current
  BY <1>1, <1>2 DEF LinkInv, SyncTypes, Running
<1>4. Head(toHub).through \in Nat /\ Head(toHub).done \in BOOLEAN
  BY <1>3 DEF GoodDelta, Deltas
<1>5. hub \in Projections /\ hub.row \in CursorRows /\ hub.row.epoch = epoch
  BY <1>1 DEF LinkInv, SyncTypes, Projections, Running
<1> QED
  BY <1>1, <1>2, <1>3, <1>4, <1>5 DEF CursorRows

(* CatalogDelta on the hub: the cursor only moves forward. *)
LEMMA HubApplyInv ==
    ASSUME JournalInv, LinkInv, HubApply
    PROVE  LinkInv' /\ Running'
<1> DEFINE d == Head(toHub)
           out == ApplyCatalogue(hub, d)
<1>0. [SyncNext]_vars
  BY DEF SyncNext, ProtocolStep
<1>1. epoch \in Nat \ {0} /\ current \in Nat
  BY <1>0, SyncMoves
<1>2. /\ GoodDelta(d) /\ d.epoch = epoch /\ d.through <= current /\ d.through \in Nat
      /\ d.done \in BOOLEAN
      /\ hub \in Projections /\ hub.row \in CursorRows /\ hub.row.epoch = epoch
      /\ hub.row.version \in Nat /\ hub.row.snap \in BOOLEAN
      /\ link = "offered" /\ Running
  BY HeadDelta DEF HubApply
<1>3. /\ UNCHANGED <<link, sync, sent, hostAck, epoch, current>>
      /\ out.ok /\ hub' = out.proj
      /\ toHost' = IF out.ack = NoAck THEN toHost
                   ELSE Append(toHost, AckMsg(hub'.row.epoch, out.ack))
      /\ toHub' = Tail(toHub)
  BY DEF HubApply, journalVars
<1>4. /\ hub' \in Projections /\ hub'.row \in CursorRows
      /\ \/ Repeated(hub, d) /\ hub' = hub /\ out.ack = hub.row.version
         \/ Committed(hub, d, hub', out.ack)
  BY <1>2, <1>3, CatalogueOutcome
<1> HIDE DEF out, d
<1>5. /\ hub'.row.epoch = epoch
      /\ hub.row.version <= hub'.row.version
      /\ hub'.row.version <= current
      /\ hub'.row.snap => hub'.row.version = 0
      /\ out.ack = NoAck \/ out.ack = hub'.row.version
      /\ hub'.row.version \in Nat /\ hub'.row # NoRow
  <2>1. RowInv
    BY DEF LinkInv
  <2>2. hub.row # NoRow /\ hub'.row # NoRow /\ hub'.row.version \in Nat
    BY <1>2, <1>4, ProjectionAssumption DEF CursorRows
  <2>3. hub.row.version <= current /\ (hub.row.snap => hub.row.version = 0)
    BY <1>2, <2>1, <2>2 DEF RowInv
  <2>4. CASE hub' = hub /\ out.ack = hub.row.version
    BY <1>2, <2>2, <2>3, <2>4
  <2>5. CASE Committed(hub, d, hub', out.ack)
    <3>1. hub'.row = NextRow(hub, d) /\ out.ack = IF d.done THEN NextRow(hub, d).version ELSE NoAck
      BY <2>5 DEF Committed
    <3>2. /\ hub'.row.epoch = hub.row.epoch
          /\ hub'.row.snap = (hub.row.snap /\ ~d.done)
          /\ hub'.row.version = IF hub.row.snap /\ ~d.done THEN 0
                    ELSE IF d.through > hub.row.version THEN d.through ELSE hub.row.version
      BY <3>1 DEF NextRow
    <3>3. hub'.row.snap => hub'.row.version = 0
      BY <3>2
    <3>4. hub.row.version <= hub'.row.version /\ hub'.row.version <= current
      BY <1>1, <1>2, <2>2, <2>3, <3>2
    <3>5. out.ack = NoAck \/ out.ack = hub'.row.version
      BY <3>1
    <3> QED
      BY <1>2, <2>2, <3>2, <3>3, <3>4, <3>5
  <2> QED
    BY <1>4, <2>4, <2>5
<1>6. RowInv'
  <2>1. RowInv /\ hostAck \in [epoch : Nat, version : Nat] /\ hub.row # NoRow
    BY <1>2, ProjectionAssumption DEF LinkInv, SyncTypes
  <2>2. hostAck.epoch <= epoch /\ (hostAck.epoch = epoch => hostAck.version <= hub'.row.version)
    BY <1>2, <1>5, <2>1 DEF RowInv
  <2> QED
    BY <1>1, <1>3, <1>5, <2>2 DEF RowInv
<1>7. /\ toHub' \in Seq(Offers \cup Deltas)
      /\ \A i \in DOMAIN toHub' : i + 1 \in DOMAIN toHub /\ toHub'[i] = toHub[i + 1]
  BY <1>3, QueueTail DEF LinkInv, SyncTypes, HubApply
<1>8. /\ toHost' \in Seq(Cursors \cup Acks)
      /\ \A i \in DOMAIN toHost' :
            /\ toHost'[i].type = "ack" /\ toHost'[i].epoch = epoch
            /\ toHost'[i].version <= hub'.row.version
  <2>0. toHost \in Seq(Cursors \cup Acks)
    BY DEF LinkInv, SyncTypes
  <2>1. \A i \in DOMAIN toHost :
            /\ toHost[i].type = "ack" /\ toHost[i].epoch = epoch
            /\ toHost[i].version <= hub'.row.version
    <3>1. \A i \in DOMAIN toHost : toHost[i] \in Cursors \cup Acks
      BY <2>0
    <3>2. \A i \in DOMAIN toHost : toHost[i].version \in Nat
      BY <3>1 DEF Cursors, Acks
    <3> QED
      BY <1>2, <1>5, <3>2 DEF Running
  <2>2. CASE out.ack = NoAck
    BY <1>3, <2>0, <2>1, <2>2
  <2>3. CASE out.ack # NoAck
    <3> DEFINE a == AckMsg(hub'.row.epoch, out.ack)
    <3>1. a \in Cursors \cup Acks /\ a.type = "ack" /\ a.epoch = epoch /\ a.version = hub'.row.version
      BY <1>1, <1>5, <2>3 DEF AckMsg, Acks
    <3>2. toHost' = Append(toHost, a)
      BY <1>3, <2>3
    <3> HIDE DEF a
    <3>3. /\ toHost' \in Seq(Cursors \cup Acks)
          /\ \A i \in DOMAIN toHost : toHost'[i] = toHost[i]
          /\ \A i \in DOMAIN toHost' : i \in DOMAIN toHost \/ i = Len(toHost) + 1
          /\ toHost'[Len(toHost) + 1] = a
      BY <2>0, <3>1, <3>2, QueueAppend
    <3> QED
      BY <1>5, <2>1, <3>1, <3>3
  <2> QED
    BY <2>2, <2>3
<1>9. SyncTypes'
  BY <1>3, <1>4, <1>7, <1>8 DEF LinkInv, SyncTypes
<1>10. Running'
  BY <1>2, <1>3, <1>5, <1>7, <1>8 DEF Running
<1>11. PhaseInv'
  BY <1>2, <1>3, <1>10 DEF PhaseInv
<1> QED
  BY <1>6, <1>9, <1>10, <1>11 DEF LinkInv

(* A stream that is spawned. *)
LEMMA QueuedTypes ==
    ASSUME NEW c \in Nat, NEW b \in BOOLEAN
    PROVE  /\ Queued(c, b) \in Streams /\ Queued(c, b) # NoSync
           /\ Queued(c, b).stage = "queued" /\ Queued(c, b).rows = {}
           /\ Queued(c, b).start = c /\ Queued(c, b).snapshot = b /\ Queued(c, b).first = TRUE
<1>1. Queued(c, b) \in Streams
  BY DEF Queued, Streams
<1> QED
  BY <1>1, SyncAssumption DEF Queued

(* CatalogCursor on the mediahost: the cursor it gets was just answered to  *)
(* its own offer, so it asks for no more than the catalogue has.            *)
LEMMA HostCursorInv ==
    ASSUME JournalInv, LinkInv, HostCursor
    PROVE  /\ LinkInv' /\ Running' /\ Answered
           /\ sync' = Queued(hub.row.version, hub.row.snap)
           /\ toHost' = <<>> /\ toHub' = <<>> /\ sent' = NoCursor
           /\ UNCHANGED <<link, hub, hostAck, journalVars>>
<1> DEFINE m == Head(toHost)
<1>0. [SyncNext]_vars
  BY DEF SyncNext, ProtocolStep
<1>1. epoch \in Nat \ {0} /\ current \in Nat
  BY <1>0, SyncMoves
<1>2. link = "offered" /\ Answered
  BY PhaseOf DEF HostCursor
<1>3. /\ toHub = <<>> /\ toHost = <<CursorMsg(hub.row)>> /\ sync = NoSync /\ sent = NoCursor
      /\ hub.row # NoRow /\ hub.row.epoch = epoch
  BY <1>2 DEF Answered
<1>4. m = CursorMsg(hub.row) /\ Tail(toHost) = <<>>
  BY <1>3
<1>5. m.snap = hub.row.snap /\ m.epoch = epoch /\ m.version = hub.row.version
  BY <1>3, <1>4 DEF CursorMsg
<1>6. hub.row \in CursorRows /\ hub.row.version \in Nat /\ hub.row.snap \in BOOLEAN
  BY <1>3 DEF LinkInv, SyncTypes, Projections, CursorRows
<1>7. hub.row.version <= current /\ (hub.row.snap => hub.row.version = 0)
  BY <1>3 DEF LinkInv, RowInv
<1>8. ~(m.version > current)
  BY <1>1, <1>5, <1>6, <1>7
<1>9. /\ sync' = Queued(IF m.snap \/ m.epoch # epoch \/ m.version > current THEN 0 ELSE m.version,
                        m.snap \/ m.epoch # epoch \/ m.version > current)
      /\ toHost' = Tail(toHost)
      /\ UNCHANGED <<link, toHub, sent, wake, hub, hostAck, journalVars>>
  BY <1>3 DEF HostCursor
<1> HIDE DEF m
<1>10. (m.snap \/ m.epoch # epoch \/ m.version > current) = hub.row.snap
  BY <1>5, <1>6, <1>8
<1>11. (IF m.snap \/ m.epoch # epoch \/ m.version > current THEN 0 ELSE m.version)
          = hub.row.version
  BY <1>5, <1>6, <1>7, <1>8
<1>12. sync' = Queued(hub.row.version, hub.row.snap)
  BY <1>9, <1>10, <1>11
<1>13. /\ sync' \in Streams /\ sync' # NoSync /\ sync'.stage = "queued" /\ sync'.rows = {}
  BY <1>6, <1>12, QueuedTypes
<1>14. /\ toHost' = <<>> /\ toHub' = <<>> /\ sent' = NoCursor
       /\ UNCHANGED <<link, hub, hostAck, epoch, current>>
  BY <1>3, <1>4, <1>9 DEF journalVars
<1>15. SyncTypes'
  <2>1. toHost' \in Seq(Cursors \cup Acks) /\ toHub' \in Seq(Offers \cup Deltas)
        /\ DOMAIN toHub' = {}
    BY <1>14
  <2> QED
    BY <1>13, <1>14, <2>1 DEF LinkInv, SyncTypes
<1>16. Running'
  BY <1>3, <1>13, <1>14 DEF Running
<1>17. PhaseInv'
  BY <1>2, <1>14, <1>16 DEF PhaseInv
<1>18. RowInv'
  BY <1>0, <1>14, RowMoves
<1> QED
  BY <1>2, <1>9, <1>12, <1>14, <1>15, <1>16, <1>17, <1>18 DEF LinkInv

(* CatalogAck on the mediahost: it never has a reason to end the link. *)
LEMMA HostAckInv ==
    ASSUME JournalInv, LinkInv, HostAck
    PROVE  /\ LinkInv' /\ Running' /\ Running
           /\ UNCHANGED <<link, toHub, sync, sent, hub, journalVars>>
<1> DEFINE m == Head(toHost)
<1>0. [SyncNext]_vars
  BY DEF SyncNext, ProtocolStep
<1>1. epoch \in Nat \ {0} /\ current \in Nat
  BY <1>0, SyncMoves
<1>2. link = "offered" /\ Running
  BY PhaseOf DEF HostAck
<1>3. /\ m = toHost[1] /\ 1 \in DOMAIN toHost /\ m \in Cursors \cup Acks
      /\ Tail(toHost) \in Seq(Cursors \cup Acks)
      /\ \A i \in DOMAIN Tail(toHost) : i + 1 \in DOMAIN toHost /\ Tail(toHost)[i] = toHost[i + 1]
  BY QueueTail DEF LinkInv, SyncTypes, HostAck
<1>4. m.type = "ack" /\ m.epoch = epoch /\ m.version <= hub.row.version
  BY <1>2, <1>3 DEF Running
<1>5. /\ hub.row # NoRow /\ hub.row.epoch = epoch /\ hub.row.version \in Nat
      /\ hub.row.version <= current
  BY <1>2 DEF Running, LinkInv, SyncTypes, RowInv, Projections, CursorRows
<1>6. m.version \in Nat
  BY <1>3 DEF Cursors, Acks
<1>7. AckAcceptable(m)
  BY <1>1, <1>4, <1>5, <1>6 DEF AckAcceptable
<1>8. /\ hostAck' = [epoch |-> m.epoch,
                     version |-> IF hostAck.epoch = m.epoch /\ hostAck.version > m.version
                                 THEN hostAck.version ELSE m.version]
      /\ toHost' = Tail(toHost)
      /\ UNCHANGED <<link, toHub, sync, sent, hub, journalVars>>
  BY <1>7 DEF HostAck
<1> HIDE DEF m
<1>9. hostAck \in [epoch : Nat, version : Nat] /\ RowInv
  BY DEF LinkInv, SyncTypes
<1>10. /\ hostAck' \in [epoch : Nat, version : Nat]
       /\ hostAck'.epoch = epoch /\ hostAck'.version <= hub.row.version
  <2>1. hostAck.epoch = epoch => hostAck.version <= hub.row.version
    BY <1>5, <1>9 DEF RowInv
  <2> QED
    BY <1>1, <1>4, <1>6, <1>8, <1>9, <2>1
<1>11. RowInv'
  BY <1>1, <1>5, <1>8, <1>9, <1>10 DEF RowInv, journalVars
<1>12. SyncTypes'
  BY <1>3, <1>8, <1>10 DEF LinkInv, SyncTypes
<1>13. Running'
  BY <1>2, <1>3, <1>8 DEF Running, journalVars
<1>14. PhaseInv'
  BY <1>2, <1>8, <1>13 DEF PhaseInv
<1> QED
  BY <1>2, <1>8, <1>11, <1>12, <1>13, <1>14 DEF LinkInv

(* A step of the stream: the hub's tables and what it acknowledged stand. *)
LEMMA StreamStep ==
    ASSUME JournalInv, LinkInv, [SyncNext]_vars, Running, link = "offered",
           UNCHANGED <<link, toHost, hub, hostAck, epoch, current>>,
           sync' \in {NoSync} \cup Streams, sent' \in {NoCursor} \cup Nat,
           sync' # NoSync \/ sent' # NoCursor,
           sync' # NoSync => \A r \in sync'.rows : GoodRecord(r),
           sync' # NoSync /\ sync'.stage = "queued" => sync'.rows = {},
           sync' # NoSync /\ sync'.stage # "queued" =>
                /\ sync'.epoch = epoch /\ sync'.current <= current
                /\ \A r \in sync'.rows : r.version <= sync'.current,
           \/ toHub' = toHub
           \/ \E d : /\ toHub' = Append(toHub, d)
                     /\ GoodDelta(d) /\ d.epoch = epoch /\ d.through <= current
    PROVE  LinkInv' /\ Running'
<1>1. RowInv'
  BY RowMoves
<1>2. /\ toHub' \in Seq(Offers \cup Deltas)
      /\ \A i \in DOMAIN toHub' : toHub'[i].type = "delta" => GoodDelta(toHub'[i])
      /\ \A i \in DOMAIN toHub' : /\ toHub'[i].type = "delta" /\ toHub'[i].epoch = epoch
                                  /\ toHub'[i].through <= current
  <2>0. /\ toHub \in Seq(Offers \cup Deltas)
        /\ \A i \in DOMAIN toHub : toHub[i].type = "delta" => GoodDelta(toHub[i])
        /\ \A i \in DOMAIN toHub : /\ toHub[i].type = "delta" /\ toHub[i].epoch = epoch
                                   /\ toHub[i].through <= current
    BY DEF LinkInv, SyncTypes, Running
  <2>1. CASE toHub' = toHub
    BY <2>0, <2>1
  <2>2. ASSUME NEW d, toHub' = Append(toHub, d), GoodDelta(d), d.epoch = epoch,
               d.through <= current
        PROVE  /\ toHub' \in Seq(Offers \cup Deltas)
               /\ \A i \in DOMAIN toHub' : toHub'[i].type = "delta" => GoodDelta(toHub'[i])
               /\ \A i \in DOMAIN toHub' : /\ toHub'[i].type = "delta" /\ toHub'[i].epoch = epoch
                                           /\ toHub'[i].through <= current
    <3>1. d \in Offers \cup Deltas /\ d.type = "delta"
      BY <2>2 DEF GoodDelta, Deltas
    <3>2. /\ toHub' \in Seq(Offers \cup Deltas)
          /\ \A i \in DOMAIN toHub : toHub'[i] = toHub[i]
          /\ \A i \in DOMAIN toHub' : i \in DOMAIN toHub \/ i = Len(toHub) + 1
          /\ toHub'[Len(toHub) + 1] = d
      BY <2>0, <2>2, <3>1, QueueAppend
    <3> QED
      BY <2>0, <2>2, <3>1, <3>2
  <2> QED
    BY <2>1, <2>2
<1>3. SyncTypes'
  BY <1>2 DEF LinkInv, SyncTypes
<1>4. Running'
  BY <1>2 DEF Running
<1>5. PhaseInv'
  BY <1>4 DEF PhaseInv
<1> QED
  BY <1>1, <1>3, <1>4, <1>5 DEF LinkInv

(* delta_pages opens its read transaction. *)
LEMMA BeginPagesInv ==
    ASSUME JournalInv, LinkInv, BeginPages
    PROVE  /\ LinkInv' /\ Running' /\ Running
           /\ sync' \in Streams /\ sync' # NoSync
           /\ sync'.stage = "streaming" /\ sync'.epoch = epoch /\ sync'.current = current
           /\ sync'.rows = IF sync.snapshot THEN SnapshotRows ELSE ReplayRows(sync.start)
           /\ sync'.snapshot = sync.snapshot /\ sync'.start = sync.start /\ sync'.first = sync.first
<1> DEFINE rows == IF sync.snapshot THEN SnapshotRows ELSE ReplayRows(sync.start)
<1>0. [SyncNext]_vars
  BY DEF SyncNext, ProtocolStep
<1>1. epoch \in Nat \ {0} /\ current \in Nat
  BY <1>0, SyncMoves
<1>2. link = "offered" /\ Running /\ sync # NoSync /\ sync \in Streams
  BY PhaseOf, StreamTypes DEF BeginPages, LinkInv
<1>3. \A r \in rows : GoodRecord(r) /\ r.version <= current
  <2>1. SnapshotRows \subseteq ReplayRows(0)
    BY DEF SnapshotRows
  <2> QED
    BY <2>1, ReadRows
<1>4. rows \subseteq WireRecords
  BY <1>3 DEF GoodRecord
<1>5. /\ sync' = [sync EXCEPT !.stage = "streaming", !.epoch = epoch, !.current = current,
                              !.rows = rows]
      /\ UNCHANGED <<link, toHub, toHost, sent, hub, hostAck, epoch, current>>
  BY DEF BeginPages, journalVars
<1> HIDE DEF rows
<1>6. /\ sync' \in Streams
      /\ sync'.stage = "streaming" /\ sync'.epoch = epoch /\ sync'.current = current
      /\ sync'.rows = rows
      /\ sync'.snapshot = sync.snapshot /\ sync'.start = sync.start /\ sync'.first = sync.first
  BY <1>1, <1>2, <1>4, <1>5 DEF Streams
<1>7. sync' # NoSync
  BY <1>6, SyncAssumption
<1>8. LinkInv' /\ Running'
  <2>1. sent' \in {NoCursor} \cup Nat
    BY <1>5 DEF LinkInv, SyncTypes
  <2>2. sync'.current <= current
    BY <1>1, <1>6
  <2>3. \A r \in sync'.rows : GoodRecord(r) /\ r.version <= sync'.current
    BY <1>3, <1>6
  <2> QED
    BY <1>0, <1>2, <1>5, <1>6, <1>7, <2>1, <2>2, <2>3, StreamStep
<1> QED
  BY <1>2, <1>6, <1>7, <1>8 DEF rows

(* The rows the next message of a stream is cut from. *)
InFiles == sync.snapshot /\ \E r \in sync.rows : r.kind = "file"
Pool    == IF InFiles THEN {r \in sync.rows : r.kind = "file"} ELSE sync.rows

(* A chunk that was sent: the least versions of the pool, in order. *)
SentChunk(n, chunk) ==
    LET rest == sync.rows \ Records(chunk)
        last == rest = {} /\ ~InFiles
        d    == toHub'[Len(toHub) + 1]
    IN  /\ Len(chunk) = n /\ DOMAIN chunk = 1 .. n
        /\ Records(chunk) \subseteq Pool
        /\ \A i \in 1 .. n : chunk[i] \in Pool /\ chunk[i] \in Records(chunk)
        /\ \A i, j \in 1 .. n : i < j => chunk[i].version < chunk[j].version
        /\ \A i \in 1 .. n : \A r \in Pool \ Records(chunk) : chunk[i].version < r.version
        /\ d.records = chunk /\ d.done = last
        /\ d.snapshot = (sync.snapshot /\ sync.first)
        /\ d.through = IF last THEN sync.current
                       ELSE IF sync.snapshot THEN 0 ELSE chunk[n].version
        /\ sync'.rows = rest /\ ~sync'.first
        /\ sync'.stage = IF last THEN "joined" ELSE "streaming"

(* What every step of a stream leaves alone. *)
SameStream ==
    /\ sync # NoSync /\ sync' # NoSync /\ sync \in Streams /\ sync' \in Streams
    /\ sync'.snapshot = sync.snapshot /\ sync'.start = sync.start
    /\ sync'.current = sync.current /\ sync'.epoch = sync.epoch

(* What appending one message to the queue gives. *)
Queues(d) ==
    /\ toHub' = Append(toHub, d) /\ GoodDelta(d) /\ d.epoch = epoch /\ d.through <= current
    /\ Len(toHub) \in Nat /\ Len(toHub') = Len(toHub) + 1
    /\ DOMAIN toHub = 1 .. Len(toHub) /\ DOMAIN toHub' = 1 .. (Len(toHub) + 1)
    /\ \A i \in 1 .. Len(toHub) : toHub'[i] = toHub[i]
    /\ toHub'[Len(toHub) + 1] = d
    /\ toHub' # <<>>

(* A well-formed message of the current epoch is such a message. *)
LEMMA QueuesDelta ==
    ASSUME SyncTypes, NEW d, toHub' = Append(toHub, d), GoodDelta(d), d.epoch = epoch,
           d.through <= current
    PROVE  Queues(d)
<1>1. d \in Offers \cup Deltas
  BY DEF GoodDelta
<1>2. toHub \in Seq(Offers \cup Deltas)
  BY DEF SyncTypes
<1>3. /\ Len(toHub) \in Nat /\ Len(toHub') = Len(toHub) + 1
      /\ DOMAIN toHub = 1 .. Len(toHub) /\ DOMAIN toHub' = 1 .. (Len(toHub) + 1)
      /\ \A i \in DOMAIN toHub : toHub'[i] = toHub[i]
      /\ toHub'[Len(toHub) + 1] = d
      /\ toHub' # <<>>
  BY <1>1, <1>2, QueueAppend
<1> QED
  BY <1>3 DEF Queues

(* send_catalog_pages: the next message. *)
LEMMA SendChunkInv ==
    ASSUME JournalInv, LinkInv, SendChunk
    PROVE  /\ LinkInv' /\ Running' /\ Running /\ link = "offered"
           /\ sync.stage = "streaming" /\ SameStream
           /\ \E d : Queues(d)
           /\ \E n \in Nat \ {0}, chunk \in Seq(WireRecords) : SentChunk(n, chunk)
           /\ UNCHANGED <<link, toHost, sent, hub, hostAck, journalVars>>
<1>0. [SyncNext]_vars
  BY DEF SyncNext, ProtocolStep
<1>1. epoch \in Nat \ {0} /\ current \in Nat
  BY <1>0, SyncMoves
<1>2. /\ link = "offered" /\ Running /\ sync # NoSync /\ sync \in Streams
      /\ sync.stage = "streaming" /\ sync.start \in Nat
      /\ sync.snapshot \in BOOLEAN /\ sync.epoch \in Nat /\ sync.current \in Nat
      /\ sync.first \in BOOLEAN
      /\ \A r \in sync.rows : GoodRecord(r) /\ r \in WireRecords /\ r.version \in Nat
  BY PhaseOf, StreamTypes DEF SendChunk, LinkInv
<1>3. /\ sync.epoch = epoch /\ sync.current <= current
      /\ \A r \in sync.rows : r.version <= sync.current
  BY <1>2 DEF Running
<1>4. (sync.snapshot /\ {r \in sync.rows : r.kind = "file"} # {}) <=> InFiles
  BY DEF InFiles
<1>5. Pool = IF sync.snapshot /\ {r \in sync.rows : r.kind = "file"} # {}
             THEN {r \in sync.rows : r.kind = "file"} ELSE sync.rows
  BY <1>4 DEF Pool
<1>60. PICK n \in 1 .. PageSize : \E chunk \in InVersionOrder(Pool, n) :
        LET rest    == sync.rows \ Records(chunk)
            done    == rest = {} /\ ~InFiles
            through == IF done THEN sync.current
                       ELSE IF sync.snapshot THEN 0 ELSE chunk[n].version
        IN  /\ toHub' = Append(toHub,
                    DeltaMsg(chunk, through, sync.snapshot /\ sync.first, done))
            /\ sync' = [sync EXCEPT !.rows = rest, !.first = FALSE,
                                    !.stage = IF done THEN "joined" ELSE @]
  BY <1>4, <1>5, Zenon DEF SendChunk
<1>6. PICK chunk \in InVersionOrder(Pool, n) :
        LET rest    == sync.rows \ Records(chunk)
            done    == rest = {} /\ ~InFiles
            through == IF done THEN sync.current
                       ELSE IF sync.snapshot THEN 0 ELSE chunk[n].version
        IN  /\ toHub' = Append(toHub,
                    DeltaMsg(chunk, through, sync.snapshot /\ sync.first, done))
            /\ sync' = [sync EXCEPT !.rows = rest, !.first = FALSE,
                                    !.stage = IF done THEN "joined" ELSE @]
  BY <1>60
<1> DEFINE rest == sync.rows \ Records(chunk)
           last == rest = {} /\ ~InFiles
           through == IF last THEN sync.current
                      ELSE IF sync.snapshot THEN 0 ELSE chunk[n].version
           d == DeltaMsg(chunk, through, sync.snapshot /\ sync.first, last)
<1>7. /\ toHub' = Append(toHub, d)
      /\ sync' = [sync EXCEPT !.rows = rest, !.first = FALSE,
                              !.stage = IF last THEN "joined" ELSE @]
  BY <1>6
<1>8. n \in Nat \ {0} /\ n \in 1 .. n
  BY SyncAssumption
<1>9. /\ chunk \in [1 .. n -> Pool]
      /\ \A i, j \in 1 .. n : i < j => chunk[i].version < chunk[j].version
      /\ \A i \in 1 .. n : \A r \in Pool \ Records(chunk) : chunk[i].version < r.version
  BY DEF InVersionOrder
<1>10. Pool \subseteq sync.rows
  BY DEF Pool
<1>11. /\ DOMAIN chunk = 1 .. n
       /\ \A i \in 1 .. n : chunk[i] \in Pool /\ chunk[i] \in Records(chunk)
       /\ Records(chunk) \subseteq Pool
  BY <1>9 DEF Records
<1>12. chunk \in Seq(WireRecords) /\ Len(chunk) = n
  <2>1. chunk \in [1 .. n -> WireRecords]
    BY <1>2, <1>9, <1>10
  <2> QED
    BY <1>8, <2>1
<1>13. /\ d.type = "delta" /\ d.epoch = sync.epoch /\ d.records = chunk /\ d.through = through
       /\ d.snapshot = (sync.snapshot /\ sync.first) /\ d.done = last
       /\ d = [type |-> "delta", epoch |-> sync.epoch, records |-> chunk,
               through |-> through, snapshot |-> sync.snapshot /\ sync.first, done |-> last]
  BY DEF DeltaMsg
<1> HIDE DEF d
<1>14. through \in Nat /\ through <= current
  <2>1. chunk[n].version \in Nat /\ chunk[n].version <= current
    BY <1>1, <1>2, <1>3, <1>8, <1>10, <1>11
  <2> QED
    BY <1>1, <1>2, <1>3, <2>1
<1> HIDE DEF last, through, rest
<1>15. last \in BOOLEAN /\ (sync.snapshot /\ sync.first) \in BOOLEAN
  BY DEF last
<1>16. GoodDelta(d)
  <2>1. d \in Deltas
    BY <1>2, <1>12, <1>13, <1>14, <1>15 DEF Deltas
  <2>2. \A a \in DOMAIN d.records : GoodRecord(d.records[a])
    BY <1>2, <1>10, <1>11, <1>13
  <2> QED
    BY <2>1, <2>2 DEF GoodDelta
<1>17. Queues(d)
  BY <1>3, <1>7, <1>13, <1>14, <1>16, QueuesDelta DEF LinkInv
<1>18. rest \subseteq sync.rows /\ sync.rows \subseteq WireRecords
  BY <1>2 DEF rest
<1>19. /\ sync' \in Streams /\ sync'.rows = rest /\ sync'.first = FALSE
       /\ sync'.stage = IF last THEN "joined" ELSE "streaming"
       /\ sync'.snapshot = sync.snapshot /\ sync'.start = sync.start
       /\ sync'.current = sync.current /\ sync'.epoch = sync.epoch
  BY <1>2, <1>7, <1>18 DEF Streams
<1>20. SameStream
  BY <1>2, <1>19, SyncAssumption DEF SameStream
<1>21. UNCHANGED <<link, toHost, sent, hub, hostAck, journalVars>>
  BY DEF SendChunk
<1>22. SentChunk(n, chunk)
  BY <1>9, <1>11, <1>12, <1>13, <1>17, <1>19 DEF SentChunk, Queues, rest, last, through
<1>23. LinkInv' /\ Running'
  <2>1. sent' \in {NoCursor} \cup Nat /\ UNCHANGED <<link, toHost, hub, hostAck, epoch, current>>
    BY <1>21 DEF LinkInv, SyncTypes, journalVars
  <2>2. \A r \in sync'.rows : GoodRecord(r) /\ r.version <= sync'.current
    BY <1>2, <1>3, <1>18, <1>19
  <2>3. sync'.stage # "queued" /\ sync'.epoch = epoch /\ sync'.current <= current /\ sync' # NoSync
    BY <1>3, <1>19, <1>20 DEF SameStream
  <2>4. GoodDelta(d) /\ d.epoch = epoch /\ d.through <= current
    BY <1>17 DEF Queues
  <2> QED
    BY <1>0, <1>2, <1>7, <1>19, <2>1, <2>2, <2>3, <2>4, StreamStep
<1> QED
  BY <1>2, <1>8, <1>12, <1>17, <1>20, <1>21, <1>22, <1>23

(* The end of a stream that has no rows left. *)
SentEmpty ==
    LET d == toHub'[Len(toHub) + 1]
    IN  /\ d.records = <<>> /\ d.done = TRUE /\ d.through = sync.current
        /\ d.snapshot = (sync.snapshot /\ sync.first)

(* A stream ends, with a last message or without one. *)
LEMMA SendEmptyInv ==
    ASSUME JournalInv, LinkInv, SendEmpty
    PROVE  /\ LinkInv' /\ Running' /\ Running /\ link = "offered"
           /\ sync.stage = "streaming" /\ SameStream
           /\ sync'.stage = "joined" /\ sync'.rows = {} /\ sync.rows = {}
           /\ sync'.first = sync.first
           /\ \/ sync.snapshot /\ SentEmpty /\ \E d : Queues(d)
              \/ ~sync.snapshot /\ sync.current # sync.start /\ SentEmpty /\ \E d : Queues(d)
              \/ ~sync.snapshot /\ sync.current = sync.start /\ toHub' = toHub
           /\ UNCHANGED <<link, toHost, sent, hub, hostAck, journalVars>>
<1>0. [SyncNext]_vars
  BY DEF SyncNext, ProtocolStep
<1>1. epoch \in Nat \ {0} /\ current \in Nat
  BY <1>0, SyncMoves
<1>2. /\ link = "offered" /\ Running /\ sync # NoSync /\ sync \in Streams
      /\ sync.stage = "streaming" /\ sync.start \in Nat
      /\ sync.snapshot \in BOOLEAN /\ sync.epoch \in Nat /\ sync.current \in Nat
      /\ sync.first \in BOOLEAN
  BY PhaseOf, StreamTypes DEF SendEmpty, LinkInv
<1>3. sync.epoch = epoch /\ sync.current <= current /\ sync.rows = {}
  BY <1>2 DEF Running, SendEmpty
<1>4. /\ sync' = [sync EXCEPT !.stage = "joined"]
      /\ UNCHANGED <<link, toHost, sent, hub, hostAck, journalVars>>
  BY DEF SendEmpty
<1>5. /\ sync' \in Streams /\ sync'.stage = "joined" /\ sync'.rows = {}
      /\ sync'.snapshot = sync.snapshot /\ sync'.start = sync.start
      /\ sync'.current = sync.current /\ sync'.epoch = sync.epoch /\ sync'.first = sync.first
  BY <1>2, <1>3, <1>4 DEF Streams
<1>6. SameStream
  BY <1>2, <1>5, SyncAssumption DEF SameStream
<1> DEFINE d == DeltaMsg(<<>>, sync.current, sync.snapshot /\ sync.first, TRUE)
<1>7. /\ d.epoch = epoch /\ d.records = <<>> /\ d.through = sync.current
      /\ d.snapshot = (sync.snapshot /\ sync.first) /\ d.done = TRUE
  BY <1>3 DEF DeltaMsg
<1>8. GoodDelta(d)
  BY <1>2 DEF DeltaMsg, GoodDelta, Deltas
<1> HIDE DEF d
<1>9. toHub' = Append(toHub, d) => Queues(d) /\ SentEmpty
  BY <1>3, <1>7, <1>8, QueuesDelta DEF LinkInv, SentEmpty, Queues
<1>10. IF sync.snapshot \/ sync.current # sync.start THEN toHub' = Append(toHub, d)
       ELSE toHub' = toHub
  BY DEF SendEmpty, d
<1>11. \/ sync.snapshot /\ SentEmpty /\ \E e : Queues(e)
       \/ ~sync.snapshot /\ sync.current # sync.start /\ SentEmpty /\ \E e : Queues(e)
       \/ ~sync.snapshot /\ sync.current = sync.start /\ toHub' = toHub
  BY <1>9, <1>10
<1>12. LinkInv' /\ Running'
  <2>1. sent' \in {NoCursor} \cup Nat /\ UNCHANGED <<link, toHost, hub, hostAck, epoch, current>>
    BY <1>4 DEF LinkInv, SyncTypes, journalVars
  <2>2. \A r \in sync'.rows : GoodRecord(r) /\ r.version <= sync'.current
    BY <1>5
  <2>3. sync'.stage # "queued" /\ sync'.epoch = epoch /\ sync'.current <= current /\ sync' # NoSync
    BY <1>3, <1>5, <1>6 DEF SameStream
  <2>4. toHub' = toHub \/ \E e : /\ toHub' = Append(toHub, e)
                                 /\ GoodDelta(e) /\ e.epoch = epoch /\ e.through <= current
    BY <1>9, <1>10 DEF Queues
  <2> QED
    BY <1>0, <1>2, <1>5, <2>1, <2>2, <2>3, <2>4, StreamStep
<1> QED
  BY <1>2, <1>3, <1>4, <1>5, <1>6, <1>11, <1>12

(* schedule_catalog_updates, at the end of a stream or on a wake-up. *)
LEMMA ScheduleInv ==
    ASSUME JournalInv, LinkInv, SyncJoined \/ VersionsChanged
    PROVE  /\ LinkInv' /\ (Running => Running')
           /\ UNCHANGED <<link, toHub, toHost, hub, hostAck, journalVars>>
           /\ \/ UNCHANGED <<sync, sent>>
              \/ /\ Running /\ sent' \in Nat
                 /\ sync' = NoSync \/ sync' = Queued(sent', FALSE)
                 /\ \/ sync # NoSync /\ sync.stage = "joined" /\ sent' = sync.current
                    \/ sync = NoSync /\ sent' = sent
<1>0. [SyncNext]_vars
  BY DEF SyncNext, ProtocolStep
<1>1. UNCHANGED <<link, toHub, toHost, hub, hostAck, journalVars>>
  BY DEF SyncJoined, VersionsChanged
<1>2. CASE UNCHANGED <<sync, sent>>
  <2>1. RowInv'
    BY <1>0, <1>1, RowMoves
  <2>2. SyncTypes'
    BY <1>1, <1>2 DEF LinkInv, SyncTypes
  <2>3. PhaseInv' /\ (Running => Running')
    BY <1>1, <1>2 DEF LinkInv, PhaseInv, Quiet, Asked, Answered, Running, CursorMsg, journalVars
  <2> QED
    BY <1>1, <1>2, <2>1, <2>2, <2>3 DEF LinkInv
<1>3. CASE ~UNCHANGED <<sync, sent>>
  <2>1. /\ Running /\ link = "offered" /\ sent' \in Nat
        /\ sync' = NoSync \/ sync' = Queued(sent', FALSE)
        /\ \/ sync # NoSync /\ sync.stage = "joined" /\ sent' = sync.current
           \/ sync = NoSync /\ sent' = sent
    <3>1. CASE SyncJoined
      <4>1. sync # NoSync /\ sync.stage = "joined" /\ sent' = sync.current
        BY <3>1 DEF SyncJoined
      <4>2. sync.current \in Nat /\ Running /\ link = "offered"
        BY <4>1, StreamTypes, PhaseOf DEF LinkInv
      <4>3. sync' = NoSync \/ sync' = Queued(sent', FALSE)
        BY <3>1, <4>1 DEF SyncJoined, Schedule
      <4> QED
        BY <4>1, <4>2, <4>3
    <3>2. CASE VersionsChanged
      <4>1. sent # NoCursor /\ sync = NoSync /\ Schedule(sent) /\ sent' = sent
        BY <1>3, <3>2 DEF VersionsChanged
      <4>2. sent \in Nat /\ Running /\ link = "offered"
        BY <4>1, PhaseOf DEF LinkInv, SyncTypes
      <4> QED
        BY <4>1, <4>2 DEF Schedule
    <3> QED
      BY <3>1, <3>2
  <2>2. /\ sync' \in {NoSync} \cup Streams
        /\ sync' # NoSync => sync'.rows = {} /\ sync'.stage = "queued"
    BY <2>1, QueuedTypes
  <2>3. sent' # NoCursor
    BY <2>1, SyncAssumption
  <2>4. UNCHANGED <<link, toHost, hub, hostAck, epoch, current>> /\ toHub' = toHub
    BY <1>1 DEF journalVars
  <2>5. LinkInv' /\ Running'
    BY <1>0, <2>1, <2>2, <2>3, <2>4, StreamStep
  <2> QED
    BY <1>1, <2>1, <2>5
<1> QED
  BY <1>2, <1>3

(* Every step keeps the link invariant. *)
LEMMA LinkInvStep ==
    ASSUME JournalInv, LinkInv, [SyncNext]_vars
    PROVE  LinkInv'
<1>1. CASE CatalogueStep
  BY <1>1, CatalogueStepInv
<1>2. CASE Break \/ RestartHost
  BY <1>2, BreakInv
<1>3. CASE Connect
  BY <1>3, ConnectInv
<1>4. CASE SendOffer
  BY <1>4, SendOfferInv
<1>5. CASE HubOffer
  BY <1>5, HubOfferInv
<1>6. CASE HubApply
  BY <1>6, HubApplyInv
<1>7. CASE HubReject
  BY <1>7, HubRejectInv
<1>8. CASE HostCursor
  BY <1>8, HostCursorInv
<1>9. CASE HostAck
  BY <1>9, HostAckInv
<1>10. CASE BeginPages
  BY <1>10, BeginPagesInv
<1>11. CASE SendChunk
  BY <1>11, SendChunkInv
<1>12. CASE SendEmpty
  BY <1>12, SendEmptyInv
<1>13. CASE SyncJoined \/ VersionsChanged
  BY <1>13, ScheduleInv
<1>14. CASE UNCHANGED vars
  BY <1>14 DEF vars, linkVars, journalVars, LinkInv, SyncTypes, RowInv, PhaseInv, Quiet, Asked,
               Answered, Running, CursorMsg
<1> QED
  BY <1>1, <1>2, <1>3, <1>4, <1>5, <1>6, <1>7, <1>8, <1>9, <1>10, <1>11, <1>12, <1>13, <1>14
  DEF SyncNext, ProtocolStep

(* Before the first link. *)
LEMMA LinkInvInit ==
    ASSUME SyncInit
    PROVE  LinkInv
<1>1. hub \in Projections /\ hub.row = NoRow
  BY DEF SyncInit, EmptyProjection, Projections, FileTables, FactTables, NoFacts
<1>2. RowInv
  BY <1>1 DEF SyncInit, RowInv
<1>3. PhaseInv
  BY DEF SyncInit, PhaseInv, Quiet
<1>4. SyncTypes
  BY <1>1 DEF SyncInit, SyncTypes
<1> QED
  BY <1>2, <1>3, <1>4 DEF LinkInv

(* The journal and the link, together. *)
THEOREM LinkInvariant == SyncSpec => [](JournalInv /\ LinkInv)
<1>1. SyncInit => JournalInv /\ LinkInv
  <2>1. Init => JournalInv
    BY CreatedInv, BoundAssumption DEF Init, Created
  <2>2. SyncInit => Init
    BY DEF SyncInit
  <2> QED
    BY <2>1, <2>2, LinkInvInit
<1>2. JournalInv /\ LinkInv /\ [SyncNext]_vars => (JournalInv /\ LinkInv)'
  <2>1. JournalInv /\ [SyncNext]_vars => JournalInv'
    BY SyncMoves
  <2>2. JournalInv /\ LinkInv /\ [SyncNext]_vars => LinkInv'
    BY LinkInvStep
  <2> QED
    BY <2>1, <2>2
<1> QED
  BY <1>1, <1>2, PTL DEF SyncSpec

(* catalog_hub_acks never holds a version the hub could still lose: every   *)
(* acknowledgement is of a committed chunk, and no later offer, snapshot or *)
(* new epoch takes the hub's row below it.                                  *)
THEOREM AcksAreDurable == SyncSpec => []AckIsDurable
<1>1. LinkInv => AckIsDurable
  BY DEF LinkInv, RowInv, AckIsDurable
<1> QED
  BY <1>1, LinkInvariant, PTL

-----------------------------------------------------------------------------
(* The projection between two messages. *)

(* The answers of a projection describe its files. *)
FactsFit(fs, gs) ==
    \A s \in Sources, k \in FactKinds :
        gs[s][k] # NoFact =>
            /\ fs[s] # NoFile
            /\ fs[s].rev # NoRev
            /\ SameStamp(k, gs[s][k].payload.size, MtimeOf[gs[s][k].payload.rev], fs[s].rev)

(* A record keeps the answers of its source fitting. *)
LEMMA TookFits ==
    ASSUME NEW acc \in Accs, NEW b \in Accs, NEW row \in CursorRows, NEW delta, NEW rec,
           GoodRecord(rec), Took(acc, b, row, delta, rec), FactsFit(acc.files, acc.facts)
    PROVE  FactsFit(b.files, b.facts)
<1> SUFFICES ASSUME NEW s \in Sources, NEW k \in FactKinds, b.facts[s][k] # NoFact
             PROVE  /\ b.files[s] # NoFile
                    /\ b.files[s].rev # NoRev
                    /\ SameStamp(k, b.facts[s][k].payload.size, MtimeOf[b.facts[s][k].payload.rev],
                                 b.files[s].rev)
  BY DEF FactsFit
<1> DEFINE Fit(f, g) == /\ f # NoFile /\ f.rev # NoRev
                        /\ SameStamp(k, g.payload.size, MtimeOf[g.payload.rev], f.rev)
<1>0. acc.facts[s][k] # NoFact => Fit(acc.files[s], acc.facts[s][k])
  BY DEF FactsFit
<1>1. /\ k \in DerivedKinds /\ k # "file_error" /\ k # "file"
      /\ NoFacts[k] = NoFact
  BY KindNames DEF NoFacts
<1>2. CASE s # rec.src \/ Skipped(row, rec)
  <2>1. b.files[s] = acc.files[s] /\ b.facts[s] = acc.facts[s]
    BY <1>2 DEF Took
  <2> QED
    BY <1>0, <2>1
<1>3. CASE s = rec.src /\ ~Skipped(row, rec)
  <2>0. Wrote(acc, b, row, rec)
    BY <1>3 DEF Took
  <2>01. /\ rec.kind \in Kinds /\ rec.deleted \in BOOLEAN
         /\ ~rec.deleted /\ rec.kind = "file" => rec.payload.rev \in Revs
    BY RecordTypes
  <2>02. /\ acc.facts[s] \in [DerivedKinds -> {NoFact} \cup ShownFacts]
         /\ acc.files[s] \in {NoFile} \cup ShownFiles
    BY DEF Accs, FileTables, FactTables
  <2>1. CASE rec.deleted /\ rec.kind = "file"
    BY <1>1, <1>3, <2>0, <2>1 DEF Wrote
  <2>2. CASE rec.deleted /\ rec.kind # "file"
    <3>1. b.files[s] = acc.files[s] /\ b.facts[s] = [acc.facts[s] EXCEPT ![rec.kind] = NoFact]
      BY <1>3, <2>0, <2>2 DEF Wrote
    <3>2. b.facts[s][k] = acc.facts[s][k]
      BY <1>1, <2>02, <3>1
    <3> QED
      BY <1>0, <3>1, <3>2
  <2>3. CASE ~rec.deleted /\ rec.kind = "file"
    <3>1. WroteFile(acc, b, row, rec)
      BY <2>0, <2>3 DEF Wrote
    <3>2. acc.files[s] # NoFile => Known(acc, s) = acc.files[s]
      BY DEF Known
    <3>3. CASE ~row.snap /\ Known(acc, s).version > rec.version
      <4>1. b.files[s] = [Known(acc, s) EXCEPT !.seen = TRUE] /\ b.facts[s] = acc.facts[s]
        BY <1>3, <3>1, <3>3 DEF WroteFile
      <4>2. Fit(acc.files[s], b.facts[s][k]) /\ Known(acc, s) = acc.files[s] /\ acc.files[s] \in ShownFiles
        BY <1>0, <2>02, <3>2, <4>1
      <4>3. b.files[s] \in ShownFiles /\ b.files[s].rev = acc.files[s].rev
        BY <4>1, <4>2 DEF ShownFiles
      <4> QED
        BY <4>2, <4>3, CellTypes
    <3>4. CASE ~(~row.snap /\ Known(acc, s).version > rec.version)
      <4>1. /\ b.files[s] = [rev |-> rec.payload.rev, meta |-> rec.payload.meta,
                              version |-> rec.version, seen |-> TRUE]
            /\ b.facts[s] = IF Known(acc, s).rev # rec.payload.rev THEN NoFacts ELSE acc.facts[s]
        BY <1>3, <3>1, <3>4 DEF WroteFile
      <4>2. Known(acc, s).rev = rec.payload.rev /\ b.facts[s] = acc.facts[s]
        BY <1>1, <4>1
      <4>3. Fit(acc.files[s], b.facts[s][k]) /\ acc.files[s].rev = rec.payload.rev
        BY <1>0, <3>2, <4>2
      <4>4. b.files[s].rev = rec.payload.rev /\ b.files[s] # NoFile
        <5>1. b.files[s] \in {NoFile} \cup ShownFiles
          BY DEF Accs, FileTables
        <5>2. b.files[s] \in ShownFiles
          BY <2>01, <2>3, <4>1, RecordTypes DEF ShownFiles
        <5> QED
          BY <4>1, <5>2, CellTypes
      <4> QED
        BY <4>3, <4>4
    <3> QED
      BY <3>3, <3>4
  <2>4. CASE ~rec.deleted /\ rec.kind = "file_error"
    <3> DEFINE unseen == row.snap /\ ~Known(acc, s).seen
    <3>1. /\ b.files[s] = [(IF unseen THEN BlankFile ELSE Known(acc, s)) EXCEPT !.seen = TRUE]
          /\ b.facts[s][k] = IF unseen THEN NoFact ELSE acc.facts[s][k]
      BY <1>3, <2>0, <2>4 DEF Wrote, WroteError
    <3>2. ~unseen /\ b.facts[s][k] = acc.facts[s][k]
      BY <3>1
    <3>3. Fit(acc.files[s], b.facts[s][k]) /\ acc.files[s] \in ShownFiles /\ Known(acc, s) = acc.files[s]
      BY <1>0, <2>02, <3>2 DEF Known
    <3>4. b.files[s] = [acc.files[s] EXCEPT !.seen = TRUE]
      BY <3>1, <3>2, <3>3
    <3>5. b.files[s] \in ShownFiles /\ b.files[s].rev = acc.files[s].rev
      BY <3>3, <3>4 DEF ShownFiles
    <3> QED
      BY <3>3, <3>5, CellTypes
  <2>5. CASE ~rec.deleted /\ rec.kind \in FactKinds
    <3>1. /\ acc.files[s] # NoFile /\ acc.files[s].rev # NoRev
          /\ SameStamp(rec.kind, rec.payload.size, MtimeOf[rec.payload.rev], acc.files[s].rev)
          /\ b.files[s] = acc.files[s]
          /\ b.facts[s] = [acc.facts[s] EXCEPT ![rec.kind] = FactRow(@, row, rec)]
      BY <1>3, <2>0, <2>5 DEF Wrote, WroteFact
    <3>2. CASE k # rec.kind
      <4>1. b.facts[s][k] = acc.facts[s][k]
        BY <1>1, <2>02, <3>1, <3>2
      <4> QED
        BY <1>0, <3>1, <4>1
    <3>3. CASE k = rec.kind
      <4>1. b.facts[s][k] = FactRow(acc.facts[s][k], row, rec)
        BY <1>1, <2>02, <3>1, <3>3
      <4>2. \/ b.facts[s][k].payload = rec.payload
            \/ acc.facts[s][k] # NoFact /\ b.facts[s][k].payload = acc.facts[s][k].payload
        BY <4>1 DEF FactRow
      <4> QED
        BY <1>0, <3>1, <3>3, <4>2
    <3> QED
      BY <3>2, <3>3
  <2> QED
    BY <2>01, <2>1, <2>2, <2>3, <2>4, <2>5, KindNames
<1> QED
  BY <1>2, <1>3

(* So does a whole chunk. *)
LEMMA FoldedFits ==
    ASSUME NEW h \in Projections, h.row \in CursorRows, NEW delta, GoodDelta(delta),
           Folded(h, delta).ok, FactsFit(h.files, h.facts)
    PROVE  FactsFit(Settled(h, delta).files, Settled(h, delta).facts)
<1> DEFINE N == Len(delta.records)
           A == Applied(h, delta)
           T == {n \in 0 .. N : FactsFit(A[n].files, A[n].facts)}
<1>1. /\ N \in Nat /\ A[0] = AccStart(h)
      /\ \A n \in 0 .. N : A[n] \in Accs /\ A[n].ok
      /\ \A n \in 1 .. N : /\ GoodRecord(delta.records[n])
                           /\ Took(A[n - 1], A[n], h.row, delta, delta.records[n])
  <2>1. A[N].ok
    BY DEF Folded
  <2>2. \A n \in 1 .. N : n \in 0 .. N
    BY ChunkSteps
  <2> QED
    BY <2>1, <2>2, ChunkSteps
<1> HIDE DEF A, N
<1>2. 0 \in T
  BY <1>1 DEF AccStart
<1>3. ASSUME NEW n \in 1 .. N, n - 1 \in T PROVE n \in T
  <2>1. n - 1 \in 0 .. N /\ n \in 0 .. N /\ FactsFit(A[n - 1].files, A[n - 1].facts)
    BY <1>1, <1>3
  <2>2. FactsFit(A[n].files, A[n].facts)
    BY <1>1, <2>1, TookFits
  <2> QED
    BY <2>1, <2>2
<1> HIDE DEF T
<1>4. \A n \in 0 .. N : n \in T
  BY <1>1, <1>2, <1>3, AlongChunk
<1>5. /\ Folded(h, delta) = A[N] /\ N \in 0 .. N
      /\ A[N] \in Accs /\ FactsFit(A[N].files, A[N].facts)
  BY <1>1, <1>4 DEF T, A, N, Folded
<1>6. FactsFit(Reconciled(A[N]).files, Reconciled(A[N]).facts)
  <2> SUFFICES ASSUME NEW s \in Sources, NEW k \in FactKinds, Reconciled(A[N]).facts[s][k] # NoFact
               PROVE  /\ Reconciled(A[N]).facts[s][k] = A[N].facts[s][k]
                      /\ Reconciled(A[N]).files[s] = A[N].files[s]
    BY <1>5 DEF FactsFit
  <2>1. k \in DerivedKinds
    BY KindNames
  <2> QED
    BY <1>5, <2>1, ReconciledTypes
<1> QED
  BY <1>5, <1>6 DEF Settled

(* Only an offer and a committed chunk write the projection. *)
LEMMA ProjectionWritten ==
    ASSUME [SyncNext]_vars
    PROVE  HubOffer \/ HubApply \/ hub' = hub
BY DEF SyncNext, CatalogueStep, Break, RestartHost, ProtocolStep, Connect, SendOffer, HubReject,
       HostCursor, HostAck, BeginPages, SendChunk, SendEmpty, SyncJoined, VersionsChanged, vars

(* What a hub's offer does to its rows. *)
LEMMA OfferRows ==
    ASSUME LinkInv, HubOffer
    PROVE  LET changed == hub.row # NoRow /\ hub.row.epoch # Head(toHub).epoch
               snap    == hub'.row.snap
           IN  /\ hub \in Projections /\ hub' \in Projections
               /\ \A s \in Sources :
                    /\ hub'.files[s] = IF hub.files[s] = NoFile THEN NoFile
                                       ELSE Carried(hub.files[s], changed, snap)
                    /\ hub'.files[s] # NoFile <=> hub.files[s] # NoFile
                    /\ hub.files[s] # NoFile => /\ hub'.files[s].rev = hub.files[s].rev
                                                /\ hub'.files[s].meta = hub.files[s].meta
                    /\ \A k \in DerivedKinds :
                         /\ hub'.facts[s][k] = IF hub.facts[s][k] = NoFact THEN NoFact
                                               ELSE Carried(hub.facts[s][k], changed, snap)
                         /\ hub'.facts[s][k] # NoFact <=> hub.facts[s][k] # NoFact
                         /\ hub.facts[s][k] # NoFact =>
                              hub'.facts[s][k].payload = hub.facts[s][k].payload
<1> DEFINE changed == hub.row # NoRow /\ hub.row.epoch # Head(toHub).epoch
           snap    == hub'.row.snap
<1>1. Asked
  BY PhaseOf DEF HubOffer
<1>2. Head(toHub) \in Offers \cup Deltas /\ Head(toHub).type = "offer"
  BY <1>1, QueueTail DEF Asked, LinkInv, SyncTypes
<1>3. Head(toHub).epoch \in Nat /\ Head(toHub).current \in Nat
  BY <1>2 DEF Offers, Deltas
<1>4. hub \in Projections /\ hub' = OfferCollection(hub, Head(toHub))
  BY DEF LinkInv, SyncTypes, HubOffer
<1>5. /\ hub' \in Projections /\ snap = CursorUnusable(hub.row, Head(toHub))
      /\ \A s \in Sources :
           /\ hub'.files[s] = IF hub.files[s] = NoFile THEN NoFile
                              ELSE Carried(hub.files[s], changed, snap)
           /\ \A k \in DerivedKinds :
                 hub'.facts[s][k] = IF hub.facts[s][k] = NoFact THEN NoFact
                                    ELSE Carried(hub.facts[s][k], changed, snap)
  BY <1>3, <1>4, OfferOutcome
<1> HIDE DEF changed, snap
<1>6. \A f \in ShownFiles : /\ Carried(f, changed, snap) \in ShownFiles
                            /\ Carried(f, changed, snap).rev = f.rev
                            /\ Carried(f, changed, snap).meta = f.meta
  BY DEF Carried, ShownFiles
<1>7. \A f \in ShownFacts : /\ Carried(f, changed, snap) \in ShownFacts
                            /\ Carried(f, changed, snap).payload = f.payload
  BY DEF Carried, ShownFacts
<1>8. \A s \in Sources : /\ hub.files[s] \in {NoFile} \cup ShownFiles
                         /\ \A k \in DerivedKinds : hub.facts[s][k] \in {NoFact} \cup ShownFacts
  BY <1>4 DEF Projections, FileTables, FactTables
<1>9. NoFile \notin ShownFiles /\ NoFact \notin ShownFacts
  BY CellTypes
<1>10. \A s \in Sources :
         /\ hub'.files[s] # NoFile <=> hub.files[s] # NoFile
         /\ hub.files[s] # NoFile => /\ hub'.files[s].rev = hub.files[s].rev
                                     /\ hub'.files[s].meta = hub.files[s].meta
  BY <1>5, <1>6, <1>8, <1>9
<1>11. \A s \in Sources, k \in DerivedKinds :
         /\ hub'.facts[s][k] # NoFact <=> hub.facts[s][k] # NoFact
         /\ hub.facts[s][k] # NoFact => hub'.facts[s][k].payload = hub.facts[s][k].payload
  BY <1>5, <1>7, <1>8, <1>9
<1> QED
  BY <1>4, <1>5, <1>10, <1>11 DEF changed, snap

(* What a committed chunk does to the hub, in one place. *)
LEMMA ApplyRows ==
    ASSUME LinkInv, HubApply
    PROVE  /\ GoodDelta(Head(toHub)) /\ hub \in Projections /\ hub.row \in CursorRows
           /\ \/ hub' = hub /\ Repeated(hub, Head(toHub))
              \/ Committed(hub, Head(toHub), hub', ApplyCatalogue(hub, Head(toHub)).ack)
<1>1. GoodDelta(Head(toHub)) /\ hub \in Projections /\ hub.row \in CursorRows
  BY HeadDelta DEF HubApply
<1>2. ApplyCatalogue(hub, Head(toHub)).ok /\ hub' = ApplyCatalogue(hub, Head(toHub)).proj
  BY DEF HubApply
<1> QED
  BY <1>1, <1>2, CatalogueOutcome

(* apply_catalogue checks every answer against the file row of the same     *)
(* transaction, and drops the answers about old bytes with the old row; the *)
(* reads that join the two tables therefore never meet an answer about      *)
(* other bytes, whatever the order in which offers and chunks arrive.       *)
THEOREM AnswersFitTheirFiles == SyncSpec => []ProjectedFactsFit
<1>0. ProjectedFactsFit <=> FactsFit(hub.files, hub.facts)
  BY DEF ProjectedFactsFit, FactsFit
<1>1. SyncInit => ProjectedFactsFit
  BY KindNames DEF SyncInit, EmptyProjection, NoFacts, ProjectedFactsFit
<1>2. JournalInv /\ LinkInv /\ ProjectedFactsFit /\ [SyncNext]_vars => ProjectedFactsFit'
  <2> SUFFICES ASSUME JournalInv, LinkInv, ProjectedFactsFit, [SyncNext]_vars
               PROVE  FactsFit(hub'.files, hub'.facts)
    BY DEF ProjectedFactsFit, FactsFit
  <2>1. FactsFit(hub.files, hub.facts)
    BY <1>0
  <2>2. CASE hub' = hub
    BY <2>1, <2>2
  <2>3. CASE HubOffer
    <3> SUFFICES ASSUME NEW s \in Sources, NEW k \in FactKinds, hub'.facts[s][k] # NoFact
                 PROVE  /\ hub.facts[s][k] # NoFact
                        /\ hub'.facts[s][k].payload = hub.facts[s][k].payload
                        /\ hub'.files[s] # NoFile <=> hub.files[s] # NoFile
                        /\ hub.files[s] # NoFile => hub'.files[s].rev = hub.files[s].rev
      BY <2>1 DEF FactsFit
    <3> QED
      BY <2>3, OfferRows, KindNames
  <2>4. CASE HubApply
    <3>1. \/ hub' = hub
          \/ /\ Folded(hub, Head(toHub)).ok
             /\ hub'.files = Settled(hub, Head(toHub)).files
             /\ hub'.facts = Settled(hub, Head(toHub)).facts
      BY <2>4, ApplyRows DEF Committed
    <3> QED
      BY <2>1, <2>4, <3>1, ApplyRows, FoldedFits
  <2> QED
    BY <2>2, <2>3, <2>4, ProjectionWritten
<1> QED
  BY <1>1, <1>2, LinkInvariant, PTL DEF SyncSpec

(* The row a chunk leaves. *)
LEMMA NextRowFields ==
    ASSUME NEW h, NEW delta
    PROVE  /\ NextRow(h, delta).epoch = h.row.epoch
           /\ NextRow(h, delta).snap = (h.row.snap /\ ~delta.done)
           /\ NextRow(h, delta).version =
                IF h.row.snap /\ ~delta.done THEN 0
                ELSE IF delta.through > h.row.version THEN delta.through ELSE h.row.version
           /\ NextRow(h, delta).max =
                IF h.row.snap /\ ~delta.done THEN Folded(h, delta).max ELSE 0
BY DEF NextRow

(* In a snapshot, no record takes a source out of the projection. *)
LEMMA TookKeeps ==
    ASSUME NEW acc \in Accs, NEW b \in Accs, NEW row \in CursorRows, row.snap, NEW delta, NEW rec,
           GoodRecord(rec), Took(acc, b, row, delta, rec),
           NEW s \in Sources, acc.files[s] # NoFile
    PROVE  b.files[s] # NoFile
<1>1. CASE s # rec.src
  BY <1>1 DEF Took
<1>2. CASE s = rec.src
  <2>1. ~Skipped(row, rec) /\ Wrote(acc, b, row, rec) /\ ~rec.deleted
    BY DEF Took, Skipped
  <2>2. Known(acc, s) \in ShownFiles /\ BlankFile \in ShownFiles /\ NoFile \notin ShownFiles
    BY CellTypes
  <2>3. CASE rec.kind = "file"
    <3>1. rec.payload.rev \in Revs /\ rec.payload.meta \in Nat /\ rec.version \in Nat
      BY <2>1, <2>3, RecordTypes
    <3>2. b.files[s] = [rev |-> rec.payload.rev, meta |-> rec.payload.meta,
                        version |-> rec.version, seen |-> TRUE]
      BY <1>2, <2>1, <2>3 DEF Wrote, WroteFile
    <3>3. b.files[s] \in ShownFiles
      BY <3>1, <3>2 DEF ShownFiles
    <3> QED
      BY <2>2, <3>3
  <2>4. CASE rec.kind = "file_error"
    <3>1. PICK f \in ShownFiles : b.files[s] = [f EXCEPT !.seen = TRUE]
      BY <1>2, <2>1, <2>2, <2>4 DEF Wrote, WroteError
    <3>2. b.files[s] \in ShownFiles
      BY <3>1, CellTypes
    <3> QED
      BY <2>2, <3>2
  <2>5. CASE rec.kind \in FactKinds
    BY <1>2, <2>1, <2>5 DEF Wrote, WroteFact
  <2> QED
    BY <2>3, <2>4, <2>5, RecordTypes, KindNames
<1> QED
  BY <1>1, <1>2

(* Nor does a chunk before the last one. *)
LEMMA FoldedKeeps ==
    ASSUME NEW h \in Projections, h.row \in CursorRows, h.row.snap, NEW delta, GoodDelta(delta),
           Folded(h, delta).ok, NEW s \in Sources, h.files[s] # NoFile
    PROVE  Folded(h, delta).files[s] # NoFile
<1> DEFINE N == Len(delta.records)
           A == Applied(h, delta)
           T == {n \in 0 .. N : A[n].files[s] # NoFile}
<1>1. /\ N \in Nat /\ A[0] = AccStart(h)
      /\ \A n \in 0 .. N : A[n] \in Accs /\ A[n].ok
      /\ \A n \in 1 .. N : /\ GoodRecord(delta.records[n])
                           /\ Took(A[n - 1], A[n], h.row, delta, delta.records[n])
  <2>1. A[N].ok
    BY DEF Folded
  <2>2. \A n \in 1 .. N : n \in 0 .. N
    BY ChunkSteps
  <2> QED
    BY <2>1, <2>2, ChunkSteps
<1> HIDE DEF A, N
<1>2. 0 \in T
  BY <1>1 DEF AccStart
<1>3. ASSUME NEW n \in 1 .. N, n - 1 \in T PROVE n \in T
  <2>1. n - 1 \in 0 .. N /\ n \in 0 .. N /\ A[n - 1].files[s] # NoFile
    BY <1>1, <1>3
  <2>2. A[n].files[s] # NoFile
    BY <1>1, <2>1, TookKeeps
  <2> QED
    BY <2>1, <2>2
<1> HIDE DEF T
<1>4. \A n \in 0 .. N : n \in T
  BY <1>1, <1>2, <1>3, AlongChunk
<1> QED
  BY <1>1, <1>4 DEF T, A, N, Folded

(* No source leaves the projection while a snapshot is open, however often  *)
(* the link breaks and the snapshot starts over: library entries, and the   *)
(* state that hangs off them, survive until the last chunk commits.         *)
THEOREM SnapshotsKeep == SyncSpec => SnapshotKeepsProjection
<1>1. JournalInv /\ LinkInv /\ [SyncNext]_vars =>
        [hub.row # NoRow /\ hub'.row.snap =>
            \A s \in Sources : hub.files[s] # NoFile => hub'.files[s] # NoFile]_vars
  <2> SUFFICES ASSUME JournalInv, LinkInv, [SyncNext]_vars, hub.row # NoRow, hub'.row.snap,
                      NEW s \in Sources, hub.files[s] # NoFile
               PROVE  hub'.files[s] # NoFile
    OBVIOUS
  <2>1. CASE hub' = hub
    BY <2>1
  <2>2. CASE HubOffer
    BY <2>2, OfferRows
  <2>3. CASE HubApply
    <3>1. CASE hub' = hub
      BY <3>1
    <3>2. CASE hub' # hub
      <4> DEFINE d == Head(toHub)
      <4>1. /\ GoodDelta(d) /\ hub \in Projections /\ hub.row \in CursorRows
            /\ Committed(hub, d, hub', ApplyCatalogue(hub, d).ack)
        BY <2>3, <3>2, ApplyRows
      <4> HIDE DEF d
      <4>2. hub'.row = NextRow(hub, d) /\ Folded(hub, d).ok /\ hub'.files = Settled(hub, d).files
        BY <4>1 DEF Committed
      <4>3. hub'.row.snap = (hub.row.snap /\ ~d.done)
        BY <4>2, NextRowFields
      <4>4. hub.row.snap /\ ~d.done
        BY <4>3
      <4>5. Settled(hub, d) = Folded(hub, d)
        BY <4>4 DEF Settled
      <4>6. Folded(hub, d).files[s] # NoFile
        BY <4>1, <4>2, <4>4, FoldedKeeps
      <4> QED
        BY <4>2, <4>5, <4>6
    <3> QED
      BY <3>1, <3>2
  <2> QED
    BY <2>1, <2>2, <2>3, ProjectionWritten
<1> QED
  BY <1>1, LinkInvariant, PTL DEF SyncSpec, SnapshotKeepsProjection

-----------------------------------------------------------------------------
(* What is in flight, read against the journal.  The operators take the     *)
(* journal, the projection and the queue as arguments, so that a lemma can  *)
(* speak of them before and after a step.                                   *)

Cell(J, s, k) ==
    [src |-> s, kind |-> k, version |-> J[s][k].version,
     deleted |-> J[s][k].deleted, payload |-> J[s][k].payload]

(* What the invariant of the journal says of its rows. *)
Sound(J, c) ==
    /\ c \in Nat
    /\ \A s \in Sources, k \in Kinds : J[s][k] # NoRecord =>
        /\ J[s][k].version \in Nat /\ 1 <= J[s][k].version /\ J[s][k].version <= c
        /\ GoodRecord(Cell(J, s, k))
    /\ \A s, t \in Sources, k, l \in Kinds :
        /\ J[s][k] # NoRecord /\ J[t][l] # NoRecord /\ J[s][k].version = J[t][l].version
        => s = t /\ k = l
    /\ \A s \in Sources : FactsFollow(J[s]) /\ ErrorFollows(J[s])

(* What the catalogue's transactions do to the rows up to version c. *)
Moved(J, K, c) ==
    \A s \in Sources, k \in Kinds :
        K[s][k] = J[s][k] \/ (K[s][k] # NoRecord /\ K[s][k].version > c)

(* A record that was true of the journal at a version up to v: it is the    *)
(* current row, or the current row is above v.  A diagnostic stands for the *)
(* whole source.                                                            *)
Genuine(J, r, v) ==
    /\ r.src \in Sources /\ r.kind \in Kinds
    /\ J[r.src][r.kind] # NoRecord
    /\ Cell(J, r.src, r.kind) = r \/ J[r.src][r.kind].version > v
    /\ r.kind = "file_error" /\ ~r.deleted /\ Live(J[r.src]["file"])
        => J[r.src]["file"].version > v

(* No journal row between two versions is missing. *)
Covers(J, rows, lo, hi) ==
    \A s \in Sources, k \in Kinds :
        /\ J[s][k] # NoRecord /\ lo < J[s][k].version /\ J[s][k].version <= hi
        => Cell(J, s, k) \in rows

(* An incremental message takes a hub at `lo` to its `through`. *)
Increment(J, lo, d) ==
    /\ lo <= d.through
    /\ ~d.snapshot
    /\ \A a \in DOMAIN d.records :
        /\ lo < d.records[a].version /\ d.records[a].version <= d.through
        /\ Genuine(J, d.records[a], d.through)
    /\ \A a, b \in DOMAIN d.records : a < b => d.records[a].version < d.records[b].version
    /\ Covers(J, Records(d.records), lo, d.through)

(* Whether the message at i belongs to the snapshot attempt of the hub's    *)
(* row: every message up to the first that is done.                         *)
SnapMsg(h, q, i) == h.row.snap /\ \A j \in 1 .. (i - 1) : ~q[j].done

(* Where the hub's cursor will stand when the message at i is next; past    *)
(* the last message, where the link has got to.                             *)
Base(h, q, i) == IF i = 1 THEN h.row.version ELSE q[i - 1].through
End(h, q)     == Base(h, q, Len(q) + 1)

(* A snapshot whose last message has not been sent. *)
SnapOpen(y) == y # NoSync /\ y.snapshot /\ y.stage # "joined"

(* No row has been touched by the current snapshot attempt. *)
NothingSeen(h) ==
    \A s \in Sources :
        /\ h.files[s] # NoFile => ~h.files[s].seen
        /\ \A k \in DerivedKinds : h.facts[s][k] # NoFact => ~h.facts[s][k].seen

(* Every message in flight continues the one before it. *)
MsgInv(J, h, q) ==
    \A i \in DOMAIN q :
        /\ ~SnapMsg(h, q, i) => Increment(J, Base(h, q, i), q[i])
        /\ SnapMsg(h, q, i) /\ ~q[i].done => q[i].through = 0

(* The hub's snapshot is open as long as its last message has not arrived. *)
OpenInv(h, q, y) ==
    /\ SnapOpen(y) => h.row.snap /\ \A i \in DOMAIN q : ~q[i].done
    /\ h.row.snap /\ ~SnapOpen(y) => \E i \in DOMAIN q : q[i].done

(* The rows still to be sent continue the last message in flight. *)
StreamInv(J, h, q, y, e) ==
    /\ y = NoSync => e = End(h, q)
    /\ y # NoSync /\ y.stage = "queued" =>
        /\ y.first
        /\ y.snapshot => q = <<>> /\ NothingSeen(h) /\ h.row.max = 0
        /\ ~y.snapshot => y.start = End(h, q)
    /\ y # NoSync /\ y.stage = "streaming" =>
        /\ \A r \in y.rows : Genuine(J, r, y.current)
        /\ ~y.snapshot =>
            /\ End(h, q) <= y.current
            /\ y.first => y.start = End(h, q)
            /\ ~y.first => y.rows # {}
            /\ \A r \in y.rows : End(h, q) < r.version
            /\ Covers(J, y.rows, End(h, q), y.current)
    /\ y # NoSync /\ y.stage = "joined" => y.rows = {} /\ y.current = End(h, q)

(* A stream runs on this link or has run on it. *)
Active == sync # NoSync \/ sent # NoCursor

(* The invariant of what is in flight. *)
FlowInv ==
    /\ Active => /\ MsgInv(journal, hub, toHub)
                 /\ OpenInv(hub, toHub, sync)
                 /\ StreamInv(journal, hub, toHub, sync, sent)
    /\ Answered /\ hub.row.snap => NothingSeen(hub) /\ hub.row.max = 0

(* The journal's invariant, in these terms. *)
LEMMA JournalSound ==
    ASSUME JournalInv
    PROVE  /\ Sound(journal, current)
           /\ \A s \in Sources, k \in Kinds : AsRecord(s, k) = Cell(journal, s, k)
<1>1. \A s \in Sources, k \in Kinds : AsRecord(s, k) = Cell(journal, s, k)
  BY DEF AsRecord, Cell
<1>2. current \in Nat
  BY BoundAssumption DEF JournalInv, TypeOK, Versions
<1>3. \A s \in Sources, k \in Kinds : journal[s][k] # NoRecord =>
        /\ journal[s][k].version \in Nat /\ 1 <= journal[s][k].version
        /\ journal[s][k].version <= current
        /\ GoodRecord(Cell(journal, s, k))
  BY <1>1, AsRecordGood
<1> QED
  BY <1>1, <1>2, <1>3 DEF Sound, JournalInv, VersionsAreUnique, RowsFollow

(* What a journal transaction does, of any journal. *)
LEMMA MovesMoved ==
    ASSUME Moves
    PROVE  Moved(journal, journal', current)
BY DEF Moves, Moved

(* A transaction leaves what is in flight as true as it was. *)
LEMMA GenuineMoved ==
    ASSUME NEW J, NEW K, NEW c \in Nat, Sound(J, c), Moved(J, K, c),
           NEW r, NEW v \in Nat, v <= c, Genuine(J, r, v), NEW d \in Nat, Sound(K, d)
    PROVE  Genuine(K, r, v)
<1>1. r.src \in Sources /\ r.kind \in Kinds /\ "file" \in Kinds /\ J[r.src][r.kind] # NoRecord
  BY KindNames DEF Genuine
<1>2. \A k \in Kinds : \/ K[r.src][k] = J[r.src][k]
                       \/ K[r.src][k] # NoRecord /\ K[r.src][k].version > v
  <2>1. \A k \in Kinds : K[r.src][k] # NoRecord => K[r.src][k].version \in Nat
    BY <1>1 DEF Sound
  <2>2. \A k \in Kinds : \/ K[r.src][k] = J[r.src][k]
                         \/ K[r.src][k] # NoRecord /\ K[r.src][k].version > c
    BY <1>1 DEF Moved
  <2> QED
    BY <2>1, <2>2
<1>3. K[r.src][r.kind] # NoRecord /\ (Cell(K, r.src, r.kind) = r \/ K[r.src][r.kind].version > v)
  BY <1>1, <1>2 DEF Genuine, Cell
<1>4. r.kind = "file_error" /\ ~r.deleted /\ Live(K[r.src]["file"]) => K[r.src]["file"].version > v
  BY <1>1, <1>2 DEF Genuine
<1> QED
  BY <1>1, <1>3, <1>4 DEF Genuine

(* The rows of a read still cover what they covered. *)
LEMMA CoversMoved ==
    ASSUME NEW J, NEW K, NEW c \in Nat, Moved(J, K, c), NEW d \in Nat, Sound(K, d),
           NEW rows, NEW lo, NEW v \in Nat, v <= c, Covers(J, rows, lo, v)
    PROVE  Covers(K, rows, lo, v)
<1> SUFFICES ASSUME NEW s \in Sources, NEW k \in Kinds, K[s][k] # NoRecord,
                    lo < K[s][k].version, K[s][k].version <= v
             PROVE  Cell(K, s, k) \in rows
  BY DEF Covers
<1>1. K[s][k].version \in Nat
  BY DEF Sound
<1>2. K[s][k] = J[s][k]
  BY <1>1 DEF Moved
<1>3. Cell(K, s, k) = Cell(J, s, k)
  BY <1>2 DEF Cell
<1> QED
  BY <1>2, <1>3 DEF Covers

(* An incremental message still leads where it led. *)
LEMMA IncrementMoved ==
    ASSUME NEW J, NEW K, NEW c \in Nat, Sound(J, c), Moved(J, K, c), NEW d \in Nat, Sound(K, d),
           NEW lo, NEW m, m.through \in Nat, m.through <= c, Increment(J, lo, m)
    PROVE  Increment(K, lo, m)
<1>1. \A a \in DOMAIN m.records : Genuine(K, m.records[a], m.through)
  BY GenuineMoved DEF Increment
<1>2. Covers(K, Records(m.records), lo, m.through)
  BY CoversMoved DEF Increment
<1> QED
  BY <1>1, <1>2 DEF Increment

(* CatalogueStep, and every step that leaves the stream alone. *)
LEMMA FlowMoves ==
    ASSUME JournalInv, LinkInv, FlowInv, JournalInv', Moves,
           UNCHANGED <<toHub, toHost, sync, sent, hub, epoch>>
    PROVE  FlowInv'
<1> DEFINE J == journal
           K == journal'
<1>1. Sound(J, current) /\ Sound(K, current') /\ Moved(J, K, current)
  <2>1. (\A s \in Sources, k \in Kinds : AsRecord(s, k) = Cell(journal, s, k))'
    BY DEF AsRecord, Cell
  <2>2. Sound(journal, current)'
    BY JournalSound, PTL
  <2> QED
    BY <2>2, JournalSound, MovesMoved
<1>2. current \in Nat /\ current' \in Nat
  BY <1>1 DEF Sound
<1>3. (Answered /\ hub.row.snap => NothingSeen(hub) /\ hub.row.max = 0)'
  BY DEF FlowInv, Answered, CursorMsg
<1>4. Active' <=> Active
  BY DEF Active
<1>5. CASE ~Active
  BY <1>3, <1>4, <1>5 DEF FlowInv
<1>6. CASE Active
  <2>1. Running
    BY <1>6, PhaseOf DEF Active
  <2>2. MsgInv(J, hub, toHub) /\ OpenInv(hub, toHub, sync) /\ StreamInv(J, hub, toHub, sync, sent)
    BY <1>6 DEF FlowInv
  <2>3. MsgInv(K, hub, toHub)
    <3>1. \A i \in DOMAIN toHub : toHub[i].through \in Nat /\ toHub[i].through <= current
      BY <2>1 DEF Running, LinkInv, SyncTypes, GoodDelta, Deltas
    <3> SUFFICES ASSUME NEW i \in DOMAIN toHub, ~SnapMsg(hub, toHub, i)
                 PROVE  Increment(K, Base(hub, toHub, i), toHub[i])
      BY <2>2 DEF MsgInv
    <3>2. Increment(J, Base(hub, toHub, i), toHub[i])
      BY <2>2 DEF MsgInv
    <3> QED
      BY <1>1, <1>2, <3>1, <3>2, IncrementMoved
  <2>4. StreamInv(K, hub, toHub, sync, sent)
    <3>1. CASE sync # NoSync /\ sync.stage = "streaming"
      <4>1. sync.current \in Nat /\ sync.current <= current
        BY <2>1, <3>1, StreamTypes DEF LinkInv, Running
      <4>2. \A r \in sync.rows : Genuine(K, r, sync.current)
        BY <1>1, <1>2, <2>2, <3>1, <4>1, GenuineMoved DEF StreamInv
      <4>3. ~sync.snapshot => Covers(K, sync.rows, End(hub, toHub), sync.current)
        BY <1>1, <1>2, <2>2, <3>1, <4>1, CoversMoved DEF StreamInv
      <4> QED
        BY <2>2, <3>1, <4>2, <4>3 DEF StreamInv
    <3>2. CASE ~(sync # NoSync /\ sync.stage = "streaming")
      BY <2>2, <3>2 DEF StreamInv
    <3> QED
      BY <3>1, <3>2
  <2>5. (MsgInv(journal, hub, toHub) /\ OpenInv(hub, toHub, sync)
            /\ StreamInv(journal, hub, toHub, sync, sent))'
    BY <2>2, <2>3, <2>4
  <2> QED
    BY <1>3, <2>5 DEF FlowInv
<1> QED
  BY <1>5, <1>6

(* A queue p that is q with one message more. *)
Longer(q, p) ==
    /\ Len(q) \in Nat /\ Len(p) = Len(q) + 1
    /\ DOMAIN q = 1 .. Len(q) /\ DOMAIN p = 1 .. (Len(q) + 1)
    /\ \A i \in 1 .. Len(q) : p[i] = q[i]
    /\ p # <<>>

(* One message more changes nothing about those before it. *)
LEMMA LongerFlow ==
    ASSUME NEW h, NEW q, NEW p, Longer(q, p)
    PROVE  /\ \A i \in 1 .. (Len(q) + 1) :
                /\ SnapMsg(h, p, i) <=> SnapMsg(h, q, i)
                /\ Base(h, p, i) = Base(h, q, i)
           /\ End(h, p) = p[Len(q) + 1].through
<1>1. ASSUME NEW i \in 1 .. (Len(q) + 1)
      PROVE  SnapMsg(h, p, i) <=> SnapMsg(h, q, i)
  <2>1. \A j \in 1 .. (i - 1) : j \in 1 .. Len(q)
    BY DEF Longer
  <2>2. \A j \in 1 .. (i - 1) : p[j] = q[j]
    BY <2>1 DEF Longer
  <2> QED
    BY <2>2 DEF SnapMsg
<1>2. ASSUME NEW i \in 1 .. (Len(q) + 1)
      PROVE  Base(h, p, i) = Base(h, q, i)
  <2>1. i # 1 => i - 1 \in 1 .. Len(q)
    BY DEF Longer
  <2> QED
    BY <2>1 DEF Longer, Base
<1>3. End(h, p) = p[Len(q) + 1].through
  <2>1. Len(p) + 1 # 1 /\ (Len(p) + 1) - 1 = Len(q) + 1
    BY DEF Longer
  <2> QED
    BY <2>1 DEF End, Base
<1> QED
  BY <1>1, <1>2, <1>3

(* One message more, which continues the last one, keeps MsgInv. *)
LEMMA LongerMsgInv ==
    ASSUME NEW J, NEW h, NEW q, NEW p, Longer(q, p), MsgInv(J, h, q),
           ~SnapMsg(h, q, Len(q) + 1) => Increment(J, End(h, q), p[Len(q) + 1]),
           SnapMsg(h, q, Len(q) + 1) /\ ~p[Len(q) + 1].done => p[Len(q) + 1].through = 0
    PROVE  MsgInv(J, h, p)
<1> SUFFICES ASSUME NEW i \in 1 .. (Len(q) + 1)
             PROVE  /\ ~SnapMsg(h, p, i) => Increment(J, Base(h, p, i), p[i])
                    /\ SnapMsg(h, p, i) /\ ~p[i].done => p[i].through = 0
  BY DEF MsgInv, Longer
<1>1. /\ SnapMsg(h, p, i) <=> SnapMsg(h, q, i)
      /\ Base(h, p, i) = Base(h, q, i)
  BY LongerFlow
<1>2. CASE i = Len(q) + 1
  BY <1>1, <1>2 DEF End
<1>3. CASE i # Len(q) + 1
  <2>1. i \in DOMAIN q /\ p[i] = q[i]
    BY <1>3 DEF Longer
  <2> QED
    BY <1>1, <2>1 DEF MsgInv
<1> QED
  BY <1>2, <1>3

(* The end of the link is a version of the hub's row or of a message. *)
LEMMA EndTypes ==
    ASSUME LinkInv, Running, epoch \in Nat, current \in Nat
    PROVE  /\ toHub \in Seq(Offers \cup Deltas) /\ Len(toHub) \in Nat /\ DOMAIN toHub = 1 .. Len(toHub)
           /\ hub \in Projections /\ hub.row \in CursorRows
           /\ hub.row.version \in Nat /\ hub.row.version <= current
           /\ hub.row.snap \in BOOLEAN /\ (hub.row.snap => hub.row.version = 0)
           /\ \A i \in DOMAIN toHub : /\ toHub[i].through \in Nat /\ toHub[i].through <= current
                                      /\ GoodDelta(toHub[i]) /\ toHub[i].done \in BOOLEAN
           /\ \A i \in 1 .. (Len(toHub) + 1) :
                Base(hub, toHub, i) \in Nat /\ Base(hub, toHub, i) <= current
           /\ End(hub, toHub) \in Nat /\ End(hub, toHub) <= current
           /\ toHub = <<>> => End(hub, toHub) = hub.row.version
<1>1. /\ toHub \in Seq(Offers \cup Deltas) /\ Len(toHub) \in Nat /\ DOMAIN toHub = 1 .. Len(toHub)
      /\ toHub = <<>> => Len(toHub) = 0
  BY DEF LinkInv, SyncTypes
<1>2. /\ hub \in Projections /\ hub.row \in CursorRows
      /\ hub.row.version \in Nat /\ hub.row.version <= current
      /\ hub.row.snap \in BOOLEAN /\ (hub.row.snap => hub.row.version = 0)
  BY DEF LinkInv, SyncTypes, RowInv, Running, Projections, CursorRows
<1>3. \A i \in DOMAIN toHub : /\ toHub[i].through \in Nat /\ toHub[i].through <= current
                              /\ GoodDelta(toHub[i]) /\ toHub[i].done \in BOOLEAN
  BY DEF LinkInv, SyncTypes, Running, GoodDelta, Deltas
<1>4. ASSUME NEW i \in 1 .. (Len(toHub) + 1)
      PROVE  Base(hub, toHub, i) \in Nat /\ Base(hub, toHub, i) <= current
  <2>1. i # 1 => i - 1 \in DOMAIN toHub
    BY <1>1
  <2> QED
    BY <1>2, <1>3, <2>1 DEF Base
<1>5. Len(toHub) + 1 \in 1 .. (Len(toHub) + 1)
  BY <1>1
<1> QED
  BY <1>1, <1>2, <1>3, <1>4, <1>5 DEF End, Base

(* The catalogue's cursor answered to the offer starts a stream at the end. *)
LEMMA FlowHostCursor ==
    ASSUME JournalInv, LinkInv, FlowInv, HostCursor
    PROVE  FlowInv'
<1>1. /\ Answered /\ Running'
      /\ sync' = Queued(hub.row.version, hub.row.snap)
      /\ toHost' = <<>> /\ toHub' = <<>> /\ sent' = NoCursor
      /\ UNCHANGED <<link, hub, hostAck, journalVars>>
  BY HostCursorInv
<1>2. hub.row \in CursorRows /\ hub.row.version \in Nat /\ hub.row.snap \in BOOLEAN
  BY <1>1 DEF Answered, LinkInv, SyncTypes, Projections, CursorRows
<1>3. /\ sync' \in Streams /\ sync' # NoSync
      /\ sync'.stage = "queued" /\ sync'.rows = {}
      /\ sync'.start = hub.row.version /\ sync'.snapshot = hub.row.snap /\ sync'.first = TRUE
  BY <1>1, <1>2, QueuedTypes
<1>4. hub.row.snap => NothingSeen(hub) /\ hub.row.max = 0
  BY <1>1 DEF FlowInv
<1>5. DOMAIN toHub' = {} /\ End(hub, toHub') = hub.row.version
  BY <1>1 DEF End, Base
<1>6. MsgInv(journal', hub', toHub')
  BY <1>5 DEF MsgInv
<1>7. OpenInv(hub', toHub', sync')
  BY <1>1, <1>3, <1>5 DEF OpenInv, SnapOpen
<1>8. StreamInv(journal', hub', toHub', sync', sent')
  BY <1>1, <1>3, <1>4, <1>5 DEF StreamInv
<1>9. ~Answered'
  BY <1>3 DEF Answered
<1> QED
  BY <1>6, <1>7, <1>8, <1>9 DEF FlowInv

(* The read transaction of a stream sees everything above the end of the    *)
(* link.                                                                    *)
LEMMA FlowBeginPages ==
    ASSUME JournalInv, LinkInv, FlowInv, BeginPages
    PROVE  FlowInv'
<1>0. [SyncNext]_vars
  BY DEF SyncNext, ProtocolStep
<1>1. /\ Running /\ sync' \in Streams /\ sync' # NoSync
      /\ sync'.stage = "streaming" /\ sync'.epoch = epoch /\ sync'.current = current
      /\ sync'.rows = IF sync.snapshot THEN SnapshotRows ELSE ReplayRows(sync.start)
      /\ sync'.snapshot = sync.snapshot /\ sync'.start = sync.start /\ sync'.first = sync.first
  BY BeginPagesInv
<1>2. /\ sync # NoSync /\ sync.stage = "queued"
      /\ UNCHANGED <<toHub, toHost, sent, hub, journal>>
  BY DEF BeginPages, journalVars
<1>3. /\ MsgInv(journal, hub, toHub) /\ OpenInv(hub, toHub, sync)
      /\ StreamInv(journal, hub, toHub, sync, sent)
  BY <1>2 DEF FlowInv, Active
<1>4. epoch \in Nat /\ current \in Nat
  BY <1>0, SyncMoves
<1>5. End(hub, toHub) \in Nat /\ End(hub, toHub) <= current
  BY <1>1, <1>4, EndTypes
<1>6. Sound(journal, current) /\ \A s \in Sources, k \in Kinds : AsRecord(s, k) = Cell(journal, s, k)
  BY JournalSound
<1>7. \A c : \A r \in ReplayRows(c) : Genuine(journal, r, current)
  <2> SUFFICES ASSUME NEW c, NEW r \in ReplayRows(c) PROVE Genuine(journal, r, current)
    OBVIOUS
  <2>1. /\ r.src \in Sources /\ r.kind \in Kinds
        /\ journal[r.src][r.kind] # NoRecord
        /\ r = Cell(journal, r.src, r.kind)
    BY <1>6, ReadRows
  <2>2. r.deleted = journal[r.src][r.kind].deleted
    BY <2>1 DEF Cell
  <2>3. r.kind = "file_error" /\ ~r.deleted => ~Live(journal[r.src]["file"])
    <3> SUFFICES ASSUME r.kind = "file_error", ~r.deleted, Live(journal[r.src]["file"]) PROVE FALSE
      OBVIOUS
    <3>1. Live(journal[r.src]["file_error"])
      BY <2>1, <2>2 DEF Live
    <3>2. ErrorFollows(journal[r.src])
      BY <1>6, <2>1 DEF Sound
    <3> QED
      BY <3>1, <3>2 DEF ErrorFollows, Live
  <2> QED
    BY <2>1, <2>3 DEF Genuine
<1>8. \A r \in sync'.rows : Genuine(journal, r, current)
  <2>1. SnapshotRows \subseteq ReplayRows(0)
    BY DEF SnapshotRows
  <2> QED
    BY <1>1, <1>7, <2>1
<1>9. ~sync.snapshot =>
        /\ \A r \in sync'.rows : End(hub, toHub) < r.version
        /\ Covers(journal, sync'.rows, End(hub, toHub), current)
  <2> SUFFICES ASSUME ~sync.snapshot
               PROVE  /\ \A r \in sync'.rows : End(hub, toHub) < r.version
                      /\ Covers(journal, sync'.rows, End(hub, toHub), current)
    OBVIOUS
  <2>1. sync'.rows = ReplayRows(End(hub, toHub))
    BY <1>1, <1>2, <1>3 DEF StreamInv
  <2>2. \A r \in sync'.rows : r.version > End(hub, toHub) /\ r.version \in Nat
    BY <2>1, ReadRows, RecordTypes
  <2>3. Covers(journal, sync'.rows, End(hub, toHub), current)
    <3> SUFFICES ASSUME NEW s \in Sources, NEW k \in Kinds, journal[s][k] # NoRecord,
                        End(hub, toHub) < journal[s][k].version
                 PROVE  Cell(journal, s, k) \in sync'.rows
      BY DEF Covers
    <3>1. journal[s][k].version \in Nat
      BY <1>6 DEF Sound
    <3>2. AsRecord(s, k) \in ReplayRows(End(hub, toHub))
      BY <1>5, <3>1, ReadRows
    <3> QED
      BY <1>6, <2>1, <3>2
  <2> QED
    BY <1>5, <2>2, <2>3
<1>10. StreamInv(journal, hub, toHub, sync', sent)
  <2>1. sync.first /\ (~sync.snapshot => sync.start = End(hub, toHub))
    BY <1>2, <1>3 DEF StreamInv
  <2> QED
    BY <1>1, <1>5, <1>8, <1>9, <2>1 DEF StreamInv
<1>11. OpenInv(hub, toHub, sync')
  BY <1>1, <1>2, <1>3 DEF OpenInv, SnapOpen
<1>12. ~Answered'
  BY <1>1 DEF Answered
<1>13. MsgInv(journal', hub', toHub') /\ OpenInv(hub', toHub', sync')
       /\ StreamInv(journal', hub', toHub', sync', sent')
  BY <1>2, <1>3, <1>10, <1>11
<1> QED
  BY <1>12, <1>13 DEF FlowInv

(* The next stream starts where the last one ended. *)
LEMMA FlowSchedule ==
    ASSUME JournalInv, LinkInv, FlowInv, SyncJoined \/ VersionsChanged
    PROVE  FlowInv'
<1>1. /\ UNCHANGED <<link, toHub, toHost, hub, hostAck, journalVars>>
      /\ \/ UNCHANGED <<sync, sent>>
         \/ /\ Running /\ sent' \in Nat
            /\ sync' = NoSync \/ sync' = Queued(sent', FALSE)
            /\ \/ sync # NoSync /\ sync.stage = "joined" /\ sent' = sync.current
               \/ sync = NoSync /\ sent' = sent
  BY ScheduleInv
<1>2. CASE UNCHANGED <<sync, sent>>
  BY <1>1, <1>2 DEF FlowInv, Active, Answered, CursorMsg, journalVars
<1>3. CASE ~UNCHANGED <<sync, sent>>
  <2>1. Active
    BY <1>1, <1>3, SyncAssumption DEF Active
  <2>2. /\ MsgInv(journal, hub, toHub) /\ OpenInv(hub, toHub, sync)
        /\ StreamInv(journal, hub, toHub, sync, sent)
    BY <2>1 DEF FlowInv
  <2>3. sent' = End(hub, toHub) /\ ~SnapOpen(sync)
    BY <1>1, <1>3, <2>2 DEF StreamInv, SnapOpen
  <2>4. sync' # NoSync => /\ sync'.stage = "queued" /\ sync'.first = TRUE
                          /\ sync'.snapshot = FALSE /\ sync'.start = sent'
    BY <1>1, <1>3, QueuedTypes
  <2>5. ~SnapOpen(sync')
    BY <2>4 DEF SnapOpen
  <2>6. StreamInv(journal, hub, toHub, sync', sent') /\ OpenInv(hub, toHub, sync')
    BY <2>2, <2>3, <2>4, <2>5 DEF StreamInv, OpenInv
  <2>7. ~Answered'
    BY <1>1, <1>3, SyncAssumption DEF Answered
  <2>8. UNCHANGED <<journal, hub, toHub>>
    BY <1>1 DEF journalVars
  <2>9. MsgInv(journal', hub', toHub') /\ OpenInv(hub', toHub', sync')
        /\ StreamInv(journal', hub', toHub', sync', sent')
    BY <2>2, <2>6, <2>8
  <2> QED
    BY <2>7, <2>9 DEF FlowInv
<1> QED
  BY <1>2, <1>3

(* The part of a pool that is sent next covers the versions up to its last  *)
(* one.                                                                     *)
LEMMA ChunkCovers ==
    ASSUME JournalInv, LinkInv, FlowInv, Running, sync # NoSync, sync.stage = "streaming",
           ~sync.snapshot, current \in Nat,
           NEW n \in Nat \ {0}, NEW chunk \in Seq(WireRecords), SentChunk(n, chunk),
           NEW d, d = toHub'[Len(toHub) + 1]
    PROVE  /\ Increment(journal, End(hub, toHub), d)
           /\ sync'.stage = "streaming" =>
                /\ \A r \in sync'.rows : d.through < r.version
                /\ Covers(journal, sync'.rows, d.through, sync.current)
                /\ d.through <= sync.current
           /\ sync'.stage = "joined" => d.through = sync.current
<1> DEFINE E == End(hub, toHub)
           rest == sync.rows \ Records(chunk)
           last == rest = {} /\ ~InFiles
<1>0. epoch \in Nat
  BY DEF JournalInv, TypeOK
<1>1. E \in Nat /\ E <= current
  BY <1>0, EndTypes
<1>2. /\ sync.current \in Nat
      /\ \A r \in sync.rows : GoodRecord(r) /\ r.version \in Nat
  BY StreamTypes DEF LinkInv
<1>3. sync.current <= current /\ \A r \in sync.rows : r.version <= sync.current
  BY DEF Running
<1>4. StreamInv(journal, hub, toHub, sync, sent)
  BY DEF FlowInv, Active
<1>5. /\ E <= sync.current
      /\ \A r \in sync.rows : E < r.version /\ Genuine(journal, r, sync.current)
      /\ Covers(journal, sync.rows, E, sync.current)
  BY <1>4 DEF StreamInv
<1>6. ~InFiles /\ Pool = sync.rows
  BY DEF InFiles, Pool
<1>7. /\ Len(chunk) = n /\ DOMAIN chunk = 1 .. n
      /\ Records(chunk) \subseteq sync.rows
      /\ \A i \in 1 .. n : chunk[i] \in sync.rows /\ chunk[i] \in Records(chunk)
      /\ \A i, j \in 1 .. n : i < j => chunk[i].version < chunk[j].version
      /\ \A i \in 1 .. n : \A r \in rest : chunk[i].version < r.version
      /\ d.records = chunk /\ d.done = last
      /\ d.snapshot = (sync.snapshot /\ sync.first)
      /\ d.through = IF last THEN sync.current ELSE chunk[n].version
      /\ sync'.rows = rest
      /\ sync'.stage = IF last THEN "joined" ELSE "streaming"
  BY <1>6 DEF SentChunk
<1>8. n \in 1 .. n /\ chunk[n] \in sync.rows /\ chunk[n].version \in Nat
  BY <1>2, <1>7
<1>9. /\ d.through \in Nat /\ E <= d.through /\ d.through <= sync.current
      /\ \A i \in 1 .. n : chunk[i].version <= d.through
  <2>1. chunk[n].version <= sync.current /\ E < chunk[n].version
    BY <1>3, <1>5, <1>8
  <2>2. \A i \in 1 .. n : /\ chunk[i].version \in Nat
                          /\ chunk[i].version <= chunk[n].version
                          /\ chunk[i].version <= sync.current
    BY <1>2, <1>3, <1>7, <1>8
  <2> QED
    BY <1>1, <1>2, <1>5, <1>7, <1>8, <2>1, <2>2
<1> HIDE DEF E
<1>10. \A i \in 1 .. n : Genuine(journal, chunk[i], d.through)
  <2> SUFFICES ASSUME NEW i \in 1 .. n PROVE Genuine(journal, chunk[i], d.through)
    OBVIOUS
  <2> DEFINE r == chunk[i]
  <2>1. Genuine(journal, r, sync.current)
    BY <1>5, <1>7
  <2> HIDE DEF r
  <2>2. \A s \in Sources, k \in Kinds : journal[s][k] # NoRecord /\ journal[s][k].version > sync.current
                                          => journal[s][k].version > d.through
    BY <1>2, <1>9, JournalSound DEF Sound
  <2>3. "file" \in Kinds
    BY KindNames
  <2> QED
    BY <2>1, <2>2, <2>3 DEF Genuine, r, Live
<1>11. Covers(journal, Records(chunk), E, d.through)
  <2> SUFFICES ASSUME NEW s \in Sources, NEW k \in Kinds, journal[s][k] # NoRecord,
                      E < journal[s][k].version, journal[s][k].version <= d.through
               PROVE  Cell(journal, s, k) \in Records(chunk)
    BY DEF Covers
  <2>1. journal[s][k].version \in Nat /\ journal[s][k].version <= sync.current
    BY <1>2, <1>9, JournalSound DEF Sound
  <2>2. Cell(journal, s, k) \in sync.rows /\ Cell(journal, s, k).version = journal[s][k].version
    BY <1>5, <2>1 DEF Covers, Cell
  <2>3. CASE last
    BY <2>2, <2>3
  <2>4. CASE ~last
    BY <1>7, <1>8, <2>1, <2>2, <2>4
  <2> QED
    BY <2>3, <2>4
<1>12. Increment(journal, E, d)
  BY <1>5, <1>7, <1>9, <1>10, <1>11 DEF Increment
<1>13. CASE last
  BY <1>7, <1>12, <1>13 DEF E
<1>14. CASE ~last
  <2>1. \A r \in rest : d.through < r.version
    BY <1>7, <1>8, <1>14
  <2>2. Covers(journal, rest, d.through, sync.current)
    <3> SUFFICES ASSUME NEW s \in Sources, NEW k \in Kinds, journal[s][k] # NoRecord,
                        d.through < journal[s][k].version, journal[s][k].version <= sync.current
                 PROVE  Cell(journal, s, k) \in rest
      BY DEF Covers
    <3>1. journal[s][k].version \in Nat
      BY JournalSound DEF Sound
    <3>2. Cell(journal, s, k) \in sync.rows /\ Cell(journal, s, k).version = journal[s][k].version
      BY <1>1, <1>5, <1>9, <3>1 DEF Covers, Cell
    <3>3. Cell(journal, s, k) \notin Records(chunk)
      <4> SUFFICES ASSUME NEW i \in 1 .. n, Cell(journal, s, k) = chunk[i] PROVE FALSE
        BY <1>7 DEF Records
      <4> QED
        BY <1>9, <3>1, <3>2
    <3> QED
      BY <3>2, <3>3
  <2> QED
    BY <1>7, <1>9, <1>12, <1>14, <2>1, <2>2 DEF E
<1> QED
  BY <1>13, <1>14

(* send_catalog_pages. *)
LEMMA FlowSendChunk ==
    ASSUME JournalInv, LinkInv, FlowInv, SendChunk
    PROVE  FlowInv'
<1>0. [SyncNext]_vars
  BY DEF SyncNext, ProtocolStep
<1>1. /\ Running /\ sync.stage = "streaming" /\ SameStream
      /\ UNCHANGED <<link, toHost, sent, hub, hostAck, journalVars>>
  BY SendChunkInv
<1>2. PICK d : Queues(d)
  BY SendChunkInv
<1>3. PICK n \in Nat \ {0}, chunk \in Seq(WireRecords) : SentChunk(n, chunk)
  BY SendChunkInv
<1>4. /\ Longer(toHub, toHub') /\ toHub'[Len(toHub) + 1] = d
  BY <1>2 DEF Queues, Longer
<1>5. /\ MsgInv(journal, hub, toHub) /\ OpenInv(hub, toHub, sync)
      /\ StreamInv(journal, hub, toHub, sync, sent)
  BY <1>1 DEF FlowInv, Active, SameStream
<1>6. epoch \in Nat /\ current \in Nat
  BY <1>0, SyncMoves
<1>7. sync # NoSync /\ sync' # NoSync /\ sync'.snapshot = sync.snapshot /\ sync'.start = sync.start
      /\ sync'.current = sync.current
  BY <1>1 DEF SameStream
<1>8. /\ d.done = (sync.rows \ Records(chunk) = {} /\ ~InFiles)
      /\ d.through = IF d.done THEN sync.current
                     ELSE IF sync.snapshot THEN 0 ELSE chunk[n].version
      /\ sync'.stage = IF d.done THEN "joined" ELSE "streaming"
      /\ sync'.rows = sync.rows \ Records(chunk) /\ ~sync'.first
      /\ d.done => sync'.rows = {}
  BY <1>3, <1>4 DEF SentChunk
<1>9. End(hub, toHub') = d.through
  BY <1>4, LongerFlow
<1>10. /\ Len(toHub) \in Nat /\ DOMAIN toHub = 1 .. Len(toHub)
       /\ DOMAIN toHub' = 1 .. (Len(toHub) + 1)
       /\ \A i \in 1 .. Len(toHub) : toHub'[i] = toHub[i]
  BY <1>4 DEF Longer
<1>11. SnapMsg(hub, toHub, Len(toHub) + 1) <=> sync.snapshot
  <2>1. CASE sync.snapshot
    <3>1. SnapOpen(sync)
      BY <1>1, <1>7, <2>1 DEF SnapOpen
    <3>2. hub.row.snap /\ \A i \in 1 .. Len(toHub) : ~toHub[i].done
      BY <1>5, <1>10, <3>1 DEF OpenInv
    <3>3. (Len(toHub) + 1) - 1 = Len(toHub)
      BY <1>10
    <3> QED
      BY <2>1, <3>2, <3>3 DEF SnapMsg
  <2>2. CASE ~sync.snapshot
    <3>1. ~SnapOpen(sync)
      BY <2>2 DEF SnapOpen
    <3>2. hub.row.snap => \E i \in 1 .. Len(toHub) : toHub[i].done
      BY <1>5, <1>10, <3>1 DEF OpenInv
    <3>3. (Len(toHub) + 1) - 1 = Len(toHub)
      BY <1>10
    <3> QED
      BY <2>2, <3>2, <3>3 DEF SnapMsg
  <2> QED
    BY <2>1, <2>2
<1>12. ~sync.snapshot =>
        /\ Increment(journal, End(hub, toHub), d)
        /\ sync'.stage = "streaming" =>
             /\ \A r \in sync'.rows : d.through < r.version
             /\ Covers(journal, sync'.rows, d.through, sync.current)
             /\ d.through <= sync.current
        /\ sync'.stage = "joined" => d.through = sync.current
  BY <1>1, <1>3, <1>4, <1>6, <1>7, ChunkCovers
<1>13. MsgInv(journal, hub, toHub')
  BY <1>4, <1>5, <1>8, <1>11, <1>12, LongerMsgInv
<1>14. OpenInv(hub, toHub', sync')
  <2>1. CASE sync.snapshot
    <3>1. SnapOpen(sync)
      BY <1>1, <1>7, <2>1 DEF SnapOpen
    <3>2. hub.row.snap /\ \A i \in 1 .. Len(toHub) : ~toHub[i].done
      BY <1>5, <1>10, <3>1 DEF OpenInv
    <3>3. SnapOpen(sync') <=> ~d.done
      BY <1>7, <1>8, <2>1 DEF SnapOpen
    <3>4. Len(toHub) + 1 \in DOMAIN toHub' /\ \A i \in DOMAIN toHub' : i \in 1 .. Len(toHub) \/ i = Len(toHub) + 1
      BY <1>10
    <3> QED
      BY <1>4, <1>10, <3>2, <3>3, <3>4 DEF OpenInv
  <2>2. CASE ~sync.snapshot
    <3>1. ~SnapOpen(sync) /\ ~SnapOpen(sync')
      BY <1>7, <2>2 DEF SnapOpen
    <3>2. \A i \in DOMAIN toHub : i \in DOMAIN toHub' /\ toHub'[i] = toHub[i]
      BY <1>10
    <3> QED
      BY <1>5, <3>1, <3>2 DEF OpenInv
  <2> QED
    BY <2>1, <2>2
<1>15. StreamInv(journal, hub, toHub', sync', sent)
  <2>1. \A r \in sync'.rows : Genuine(journal, r, sync'.current)
    BY <1>1, <1>5, <1>7, <1>8 DEF StreamInv
  <2>2. sync'.stage = "streaming" /\ ~sync'.snapshot =>
            /\ End(hub, toHub') <= sync'.current
            /\ sync'.first => sync'.start = End(hub, toHub')
            /\ ~sync'.first => sync'.rows # {}
            /\ \A r \in sync'.rows : End(hub, toHub') < r.version
            /\ Covers(journal, sync'.rows, End(hub, toHub'), sync'.current)
    <3> SUFFICES ASSUME sync'.stage = "streaming", ~sync'.snapshot
                 PROVE  /\ End(hub, toHub') <= sync'.current
                        /\ ~sync'.first
                        /\ sync'.rows # {}
                        /\ \A r \in sync'.rows : End(hub, toHub') < r.version
                        /\ Covers(journal, sync'.rows, End(hub, toHub'), sync'.current)
      OBVIOUS
    <3>1. ~InFiles /\ ~d.done
      BY <1>7, <1>8 DEF InFiles
    <3> QED
      BY <1>7, <1>8, <1>9, <1>12, <3>1
  <2>3. sync'.stage = "joined" => sync'.rows = {} /\ sync'.current = End(hub, toHub')
    BY <1>7, <1>8, <1>9
  <2>4. sync'.stage # "queued"
    BY <1>8
  <2> QED
    BY <1>7, <2>1, <2>2, <2>3, <2>4 DEF StreamInv
<1>16. ~Answered'
  BY <1>7 DEF Answered
<1>17. UNCHANGED <<journal, hub, sent>>
  BY <1>1 DEF journalVars
<1>18. MsgInv(journal', hub', toHub') /\ OpenInv(hub', toHub', sync')
       /\ StreamInv(journal', hub', toHub', sync', sent')
  BY <1>13, <1>14, <1>15, <1>17
<1> QED
  BY <1>16, <1>18 DEF FlowInv

(* The end of a stream without rows. *)
LEMMA FlowSendEmpty ==
    ASSUME JournalInv, LinkInv, FlowInv, SendEmpty
    PROVE  FlowInv'
<1>0. [SyncNext]_vars
  BY DEF SyncNext, ProtocolStep
<1>1. /\ Running /\ sync.stage = "streaming" /\ SameStream
      /\ sync'.stage = "joined" /\ sync'.rows = {} /\ sync.rows = {}
      /\ UNCHANGED <<link, toHost, sent, hub, hostAck, journalVars>>
  BY SendEmptyInv
<1>2. sync # NoSync /\ sync' # NoSync /\ sync'.snapshot = sync.snapshot
      /\ sync'.current = sync.current
  BY <1>1 DEF SameStream
<1>3. /\ MsgInv(journal, hub, toHub) /\ OpenInv(hub, toHub, sync)
      /\ StreamInv(journal, hub, toHub, sync, sent)
  BY <1>2 DEF FlowInv, Active
<1>4. epoch \in Nat /\ current \in Nat
  BY <1>0, SyncMoves
<1>5. ~SnapOpen(sync') /\ (SnapOpen(sync) <=> sync.snapshot)
  BY <1>1, <1>2 DEF SnapOpen
<1>6. CASE toHub' = toHub
  <2>1. ~sync.snapshot /\ sync.current = sync.start
    <3>1. ASSUME NEW d, Queues(d) PROVE FALSE
      BY <1>6, <3>1 DEF Queues
    <3> QED
      BY <3>1, SendEmptyInv
  <2>2. sync.first /\ sync.start = End(hub, toHub)
    BY <1>1, <1>2, <1>3, <2>1 DEF StreamInv
  <2>3. StreamInv(journal, hub, toHub, sync', sent)
    BY <1>1, <1>2, <2>1, <2>2 DEF StreamInv
  <2>4. OpenInv(hub, toHub, sync')
    BY <1>3, <1>5, <2>1 DEF OpenInv
  <2>5. MsgInv(journal', hub', toHub') /\ OpenInv(hub', toHub', sync')
        /\ StreamInv(journal', hub', toHub', sync', sent')
    BY <1>1, <1>3, <1>6, <2>3, <2>4 DEF journalVars
  <2> QED
    BY <1>2, <2>5 DEF FlowInv, Answered
<1>7. CASE toHub' # toHub
  <2>1. SentEmpty /\ \E d : Queues(d)
    BY <1>7, SendEmptyInv
  <2>2. PICK d : Queues(d)
    BY <2>1
  <2>3. Longer(toHub, toHub') /\ toHub'[Len(toHub) + 1] = d
    BY <2>2 DEF Queues, Longer
  <2>4. /\ d.records = <<>> /\ d.done = TRUE /\ d.through = sync.current
        /\ d.snapshot = (sync.snapshot /\ sync.first)
    BY <2>1, <2>3 DEF SentEmpty
  <2>5. End(hub, toHub') = d.through
    BY <2>3, LongerFlow
  <2>6. /\ Len(toHub) \in Nat /\ DOMAIN toHub = 1 .. Len(toHub)
        /\ DOMAIN toHub' = 1 .. (Len(toHub) + 1) /\ Len(toHub) + 1 \in DOMAIN toHub'
        /\ (Len(toHub) + 1) - 1 = Len(toHub)
    BY <2>3 DEF Longer
  <2>7. ~SnapMsg(hub, toHub, Len(toHub) + 1) => Increment(journal, End(hub, toHub), d)
    <3> SUFFICES ASSUME ~SnapMsg(hub, toHub, Len(toHub) + 1)
                 PROVE  Increment(journal, End(hub, toHub), d)
      OBVIOUS
    <3>1. ~sync.snapshot
      <4> SUFFICES ASSUME sync.snapshot PROVE FALSE
        OBVIOUS
      <4>1. hub.row.snap /\ \A i \in 1 .. Len(toHub) : ~toHub[i].done
        BY <1>3, <1>5, <2>6 DEF OpenInv
      <4> QED
        BY <2>6, <4>1 DEF SnapMsg
    <3>2. End(hub, toHub) <= sync.current /\ Covers(journal, {}, End(hub, toHub), sync.current)
      BY <1>1, <1>2, <1>3, <3>1 DEF StreamInv
    <3>3. DOMAIN d.records = {} /\ Records(d.records) = {}
      BY <2>4 DEF Records
    <3> QED
      BY <2>4, <3>1, <3>2, <3>3 DEF Increment
  <2>8. MsgInv(journal, hub, toHub')
    BY <1>3, <2>3, <2>4, <2>7, LongerMsgInv
  <2>9. StreamInv(journal, hub, toHub', sync', sent)
    BY <1>1, <1>2, <2>4, <2>5 DEF StreamInv
  <2>10. OpenInv(hub, toHub', sync')
    BY <1>5, <2>3, <2>4, <2>6 DEF OpenInv
  <2>11. MsgInv(journal', hub', toHub') /\ OpenInv(hub', toHub', sync')
         /\ StreamInv(journal', hub', toHub', sync', sent')
    BY <1>1, <2>8, <2>9, <2>10 DEF journalVars
  <2> QED
    BY <1>2, <2>11 DEF FlowInv, Answered
<1> QED
  BY <1>6, <1>7

(* A queue t that is q without its first message. *)
Shorter(q, t) ==
    /\ Len(q) \in Nat /\ Len(q) >= 1 /\ Len(t) = Len(q) - 1
    /\ DOMAIN q = 1 .. Len(q) /\ DOMAIN t = 1 .. (Len(q) - 1)
    /\ \A i \in 1 .. (Len(q) - 1) : t[i] = q[i + 1]

(* The hub's row after the first message. *)
Advanced(h, p, q) ==
    /\ p.row.snap <=> (h.row.snap /\ ~q[1].done)
    /\ p.row.version = q[1].through

(* When the hub has taken the first message, every other one stands where   *)
(* it stood.                                                                *)
LEMMA ShorterFlow ==
    ASSUME NEW h, NEW p, NEW q, NEW t, Shorter(q, t),
           Advanced(h, p, q)
    PROVE  /\ \A i \in 1 .. Len(q) :
                /\ SnapMsg(p, t, i) <=> SnapMsg(h, q, i + 1)
                /\ Base(p, t, i) = Base(h, q, i + 1)
           /\ End(p, t) = End(h, q)
<1>1. ASSUME NEW i \in 1 .. Len(q)
      PROVE  SnapMsg(p, t, i) <=> SnapMsg(h, q, i + 1)
  <2>1. (i + 1) - 1 = i /\ 1 \in 1 .. i
    BY DEF Shorter
  <2>2. \A j \in 1 .. (i - 1) : j + 1 \in 1 .. i /\ t[j] = q[j + 1]
    BY DEF Shorter
  <2>3. \A j \in 1 .. i : j = 1 \/ (j - 1 \in 1 .. (i - 1) /\ (j - 1) + 1 = j)
    OBVIOUS
  <2>4. ASSUME h.row.snap, \A j \in 1 .. i : ~q[j].done
        PROVE  SnapMsg(p, t, i)
    BY <2>1, <2>2, <2>4 DEF SnapMsg, Advanced
  <2>5. ASSUME SnapMsg(p, t, i)
        PROVE  h.row.snap /\ \A j \in 1 .. i : ~q[j].done
    <3>1. h.row.snap /\ ~q[1].done /\ \A j \in 1 .. (i - 1) : ~t[j].done
      BY <2>5 DEF SnapMsg, Advanced
    <3>2. ASSUME NEW j \in 1 .. i, j # 1
          PROVE  ~q[j].done
      BY <2>2, <2>3, <3>1, <3>2
    <3> QED
      BY <3>1, <3>2
  <2> QED
    BY <2>1, <2>4, <2>5 DEF SnapMsg
<1>2. ASSUME NEW i \in 1 .. Len(q)
      PROVE  Base(p, t, i) = Base(h, q, i + 1)
  <2>1. i + 1 # 1 /\ (i + 1) - 1 = i
    OBVIOUS
  <2>2. i # 1 => t[i - 1] = q[i]
    <3> SUFFICES ASSUME i # 1 PROVE t[i - 1] = q[i]
      OBVIOUS
    <3>1. i - 1 \in 1 .. (Len(q) - 1) /\ (i - 1) + 1 = i
      BY DEF Shorter
    <3> QED
      BY <3>1 DEF Shorter
  <2> QED
    BY <2>1, <2>2 DEF Base, Advanced
<1>3. Len(q) \in 1 .. Len(q) /\ Len(t) + 1 = Len(q)
  BY DEF Shorter
<1> QED
  BY <1>1, <1>2, <1>3 DEF End

(* The first message taken and applied: the others still continue the hub. *)
LEMMA ShorterInv ==
    ASSUME NEW J, NEW h, NEW p, NEW q, NEW t, NEW y, NEW e, Shorter(q, t),
           Advanced(h, p, q),
           MsgInv(J, h, q), OpenInv(h, q, y), StreamInv(J, h, q, y, e)
    PROVE  MsgInv(J, p, t) /\ OpenInv(p, t, y) /\ StreamInv(J, p, t, y, e)
<1>1. /\ \A i \in 1 .. Len(q) :
            /\ SnapMsg(p, t, i) <=> SnapMsg(h, q, i + 1)
            /\ Base(p, t, i) = Base(h, q, i + 1)
      /\ End(p, t) = End(h, q)
  BY ShorterFlow
<1>2. \A i \in DOMAIN t : i \in 1 .. Len(q) /\ i + 1 \in DOMAIN q /\ t[i] = q[i + 1]
  BY DEF Shorter
<1>3. MsgInv(J, p, t)
  <2> SUFFICES ASSUME NEW i \in DOMAIN t
               PROVE  /\ ~SnapMsg(p, t, i) => Increment(J, Base(p, t, i), t[i])
                      /\ SnapMsg(p, t, i) /\ ~t[i].done => t[i].through = 0
    BY DEF MsgInv
  <2>1. /\ ~SnapMsg(h, q, i + 1) => Increment(J, Base(h, q, i + 1), q[i + 1])
        /\ SnapMsg(h, q, i + 1) /\ ~q[i + 1].done => q[i + 1].through = 0
    BY <1>2 DEF MsgInv
  <2> QED
    BY <1>1, <1>2, <2>1
<1>4. OpenInv(p, t, y)
  <2>1. 1 \in DOMAIN q
    BY DEF Shorter
  <2>2. SnapOpen(y) => p.row.snap /\ \A i \in DOMAIN t : ~t[i].done
    BY <1>2, <2>1 DEF OpenInv, Advanced
  <2>3. ASSUME p.row.snap, ~SnapOpen(y) PROVE \E i \in DOMAIN t : t[i].done
    <3>1. PICK i \in DOMAIN q : q[i].done
      BY <2>3 DEF OpenInv, Advanced
    <3>2. i # 1
      BY <2>3, <3>1 DEF Advanced
    <3>3. i - 1 \in DOMAIN t /\ (i - 1) + 1 = i
      BY <3>2 DEF Shorter
    <3> QED
      BY <1>2, <3>1, <3>3
  <2> QED
    BY <2>2, <2>3 DEF OpenInv
<1>5. q # <<>>
  BY DEF Shorter
<1>6. StreamInv(J, p, t, y, e)
  BY <1>1, <1>5 DEF StreamInv
<1> QED
  BY <1>3, <1>4, <1>6

(* What the hub's cursor is after a chunk, when a stream runs. *)
LEMMA ChunkMovesRow ==
    ASSUME JournalInv, LinkInv, FlowInv, HubApply
    PROVE  /\ Running /\ Running' /\ Active /\ 1 \in DOMAIN toHub /\ Head(toHub) = toHub[1]
           /\ GoodDelta(toHub[1]) /\ hub \in Projections /\ hub.row \in CursorRows
           /\ Committed(hub, toHub[1], hub', ApplyCatalogue(hub, toHub[1]).ack)
           /\ Shorter(toHub, toHub')
           /\ Advanced(hub, hub', toHub)
           /\ hub'.row.snap <=> (hub.row.snap /\ ~toHub[1].done)
           /\ hub'.row.version = toHub[1].through
           /\ hub.row.snap <=> SnapMsg(hub, toHub, 1)
           /\ ~hub.row.snap => Increment(journal, hub.row.version, toHub[1])
           /\ UNCHANGED <<link, sync, sent, hostAck, breaks, journalVars>>
<1> DEFINE d == toHub[1]
<1>1. /\ toHub # <<>> /\ Head(toHub).type = "delta" /\ toHub' = Tail(toHub)
      /\ UNCHANGED <<link, sync, sent, hostAck, breaks, journalVars>>
  BY DEF HubApply
<1>2. /\ Head(toHub) = d /\ 1 \in DOMAIN toHub
      /\ GoodDelta(d) /\ d.epoch = epoch
      /\ d.through <= current /\ d.through \in Nat /\ d.done \in BOOLEAN
      /\ hub \in Projections /\ hub.row \in CursorRows
      /\ hub.row.version \in Nat /\ hub.row.snap \in BOOLEAN /\ Running
  BY <1>1, HeadDelta
<1>3. Running' /\ Active
  BY <1>2, HubApplyInv DEF Running, Active
<1>4. MsgInv(journal, hub, toHub)
  BY <1>3 DEF FlowInv
<1>5. SnapMsg(hub, toHub, 1) <=> hub.row.snap
  <2>1. 1 .. (1 - 1) = {}
    OBVIOUS
  <2> QED
    BY <2>1 DEF SnapMsg
<1>6. ~hub.row.snap => Increment(journal, hub.row.version, d)
  BY <1>2, <1>4, <1>5 DEF MsgInv, Base
<1>7. Committed(hub, d, hub', ApplyCatalogue(hub, d).ack)
  <2>1. \/ hub' = hub /\ Repeated(hub, d)
        \/ Committed(hub, d, hub', ApplyCatalogue(hub, d).ack)
    BY <1>2, ApplyRows
  <2>2. ~Repeated(hub, d)
    BY <1>6 DEF Repeated, Increment
  <2> QED
    BY <2>1, <2>2
<1>8. Shorter(toHub, toHub')
  <2>1. toHub \in Seq(Offers \cup Deltas)
    BY DEF LinkInv, SyncTypes
  <2> QED
    BY <1>1, <2>1, QueueTail DEF Shorter
<1>9. hub.row.snap => hub.row.version = 0
  BY <1>2 DEF LinkInv, RowInv, Running
<1>10. hub'.row = NextRow(hub, d) /\ (hub.row.snap /\ ~d.done => d.through = 0)
  BY <1>7 DEF Committed
<1>11. hub'.row.snap = (hub.row.snap /\ ~d.done)
  BY <1>10, NextRowFields
<1>12. hub'.row.version = d.through
  <2>1. hub'.row.version = IF hub.row.snap /\ ~d.done THEN 0
                ELSE IF d.through > hub.row.version THEN d.through ELSE hub.row.version
    BY <1>10, NextRowFields
  <2>2. ~hub.row.snap => hub.row.version <= d.through
    BY <1>6 DEF Increment
  <2> QED
    BY <1>2, <1>9, <1>10, <2>1, <2>2
<1>13. Advanced(hub, hub', toHub)
  BY <1>11, <1>12 DEF Advanced
<1> QED
  BY <1>1, <1>2, <1>3, <1>5, <1>6, <1>7, <1>8, <1>11, <1>12, <1>13

(* The hub applies a chunk. *)
LEMMA FlowHubApply ==
    ASSUME JournalInv, LinkInv, FlowInv, HubApply
    PROVE  FlowInv'
<1>1. /\ Running' /\ Active /\ Shorter(toHub, toHub')
      /\ Advanced(hub, hub', toHub)
      /\ UNCHANGED <<sync, sent, journalVars>>
  BY ChunkMovesRow
<1>2. /\ MsgInv(journal, hub, toHub) /\ OpenInv(hub, toHub, sync)
      /\ StreamInv(journal, hub, toHub, sync, sent)
  BY <1>1 DEF FlowInv
<1>3. /\ MsgInv(journal, hub', toHub') /\ OpenInv(hub', toHub', sync)
      /\ StreamInv(journal, hub', toHub', sync, sent)
  BY <1>1, <1>2, ShorterInv
<1>4. /\ MsgInv(journal', hub', toHub') /\ OpenInv(hub', toHub', sync')
      /\ StreamInv(journal', hub', toHub', sync', sent')
  BY <1>1, <1>3 DEF journalVars
<1>5. ~Answered'
  BY <1>1 DEF Running, Answered
<1> QED
  BY <1>4, <1>5 DEF FlowInv

(* The hub answers the offer: a new snapshot has seen nothing yet. *)
LEMMA FlowHubOffer ==
    ASSUME JournalInv, LinkInv, FlowInv, HubOffer
    PROVE  FlowInv'
<1>1. toHub # <<>> /\ Head(toHub).type = "offer" /\ hub' = OfferCollection(hub, Head(toHub))
      /\ UNCHANGED <<sync, sent>>
  BY DEF HubOffer
<1>2. Asked
  BY <1>1, PhaseOf
<1>3. ~Active'
  BY <1>1, <1>2 DEF Asked, Active
<1>4. hub'.row.snap => NothingSeen(hub')
  <2> SUFFICES ASSUME hub'.row.snap PROVE NothingSeen(hub')
    OBVIOUS
  <2> DEFINE changed == hub.row # NoRow /\ hub.row.epoch # Head(toHub).epoch
             snap    == hub'.row.snap
  <2>1. /\ snap
        /\ hub \in Projections
        /\ \A s \in Sources :
            /\ hub'.files[s] = IF hub.files[s] = NoFile THEN NoFile
                               ELSE Carried(hub.files[s], changed, snap)
            /\ \A k \in DerivedKinds :
                 hub'.facts[s][k] = IF hub.facts[s][k] = NoFact THEN NoFact
                                   ELSE Carried(hub.facts[s][k], changed, snap)
    BY OfferRows
  <2> HIDE DEF changed, snap
  <2>2. \A f \in ShownFiles \cup ShownFacts : ~Carried(f, changed, snap).seen
    BY <2>1 DEF Carried, ShownFiles, ShownFacts
  <2>3. \A s \in Sources : hub.files[s] # NoFile => hub.files[s] \in ShownFiles
    BY <2>1 DEF Projections, FileTables
  <2>4. \A s \in Sources, k \in DerivedKinds : hub.facts[s][k] # NoFact => hub.facts[s][k] \in ShownFacts
    BY <2>1 DEF Projections, FactTables
  <2> QED
    BY <2>1, <2>2, <2>3, <2>4 DEF NothingSeen
<1>5. hub'.row.max = 0
  <2>1. Head(toHub).epoch \in Nat /\ Head(toHub).current \in Nat /\ hub \in Projections
    <3>1. Head(toHub) \in Offers \cup Deltas /\ hub \in Projections
      BY <1>1, QueueTail DEF LinkInv, SyncTypes
    <3> QED
      BY <1>1, <3>1 DEF Offers, Deltas
  <2> QED
    BY <1>1, <2>1, OfferOutcome
<1> QED
  BY <1>3, <1>4, <1>5 DEF FlowInv

(* A transaction of the running mediahost stays in its epoch. *)
LEMMA CatalogueEpoch ==
    ASSUME CatalogueStep
    PROVE  epoch' = epoch
<1>1. CASE ScanStep
  BY <1>1 DEF ScanStep, UpsertFile, RecordError, RemoveFile, FinishScan, Commit
<1>2. CASE DiscoveryStep
  BY <1>2 DEF DiscoveryStep, ClaimSource, ReleaseClaim, StoreFact, Commit
<1>3. CASE PublishStep
  BY <1>3 DEF PublishStep, Publish
<1> QED
  BY <1>1, <1>2, <1>3 DEF CatalogueStep

(* Every step. *)
LEMMA FlowInvStep ==
    ASSUME JournalInv, LinkInv, FlowInv, [SyncNext]_vars
    PROVE  FlowInv'
<1>1. JournalInv' /\ (epoch' = epoch => Moves)
  BY SyncMoves
<1>2. CASE LinkDown
  BY <1>2 DEF LinkDown, FlowInv, Active, Answered
<1>3. CASE CatalogueStep
  <2>1. epoch' = epoch
    BY <1>3, CatalogueEpoch
  <2> QED
    BY <1>1, <1>3, <2>1, FlowMoves DEF CatalogueStep
<1>4. CASE Break \/ RestartHost \/ HubReject
  BY <1>2, <1>4 DEF Break, RestartHost, HubReject
<1>5. CASE Connect \/ SendOffer
  <2>1. Quiet /\ ~Active
    BY <1>5 DEF Connect, SendOffer, LinkInv, PhaseInv, Quiet, Active
  <2>2. toHost' = <<>> /\ ~Active'
    BY <1>5, <2>1 DEF Connect, SendOffer, Quiet, Active
  <2> QED
    BY <2>2 DEF FlowInv, Answered
<1>6. CASE HostAck
  <2>1. Running' /\ Running /\ UNCHANGED <<toHub, sync, sent, hub, journalVars>>
    BY <1>6, HostAckInv
  <2>2. Active /\ Active' /\ ~Answered'
    BY <2>1 DEF Running, Active, Answered
  <2> QED
    BY <2>1, <2>2 DEF FlowInv, journalVars
<1>7. CASE UNCHANGED vars
  BY <1>7 DEF vars, linkVars, journalVars, FlowInv, Active, Answered, CursorMsg
<1> QED
  BY <1>3, <1>4, <1>5, <1>6, <1>7, FlowHubOffer, FlowHubApply, FlowHostCursor, FlowBeginPages,
     FlowSendChunk, FlowSendEmpty, FlowSchedule DEF SyncNext, ProtocolStep

(* What is in flight on a link always takes the hub from where it stands to *)
(* what the journal held: whatever links broke before, the messages on the  *)
(* wire and the rows still to be sent continue each other without a gap,    *)
(* and each was true of the journal at the version the message reaches.     *)
THEOREM FlowInvariant == SyncSpec => [](JournalInv /\ LinkInv /\ FlowInv)
<1>1. SyncInit => FlowInv
  BY DEF SyncInit, FlowInv, Active, Answered
<1>2. JournalInv /\ LinkInv /\ FlowInv /\ [SyncNext]_vars => FlowInv'
  BY FlowInvStep
<1> QED
  BY <1>1, <1>2, LinkInvariant, PTL DEF SyncSpec

-----------------------------------------------------------------------------
(* What the projection shows of the journal. *)

(* The fields that a record leaves in the rows of its source. *)
LEMMA TombstoneFields ==
    ASSUME NEW acc \in Accs, NEW b \in Accs, NEW row \in CursorRows, NEW rec, GoodRecord(rec),
           Wrote(acc, b, row, rec), rec.deleted, NEW s, s = rec.src
    PROVE  /\ rec.kind = "file" =>
                b.files[s] = NoFile /\ \A k \in DerivedKinds : b.facts[s][k] = NoFact
           /\ rec.kind # "file" =>
                /\ b.files[s] = acc.files[s]
                /\ \A k \in DerivedKinds :
                    b.facts[s][k] = IF k = rec.kind THEN NoFact ELSE acc.facts[s][k]
<1>1. acc.facts[s] \in [DerivedKinds -> {NoFact} \cup ShownFacts]
  BY RecordTypes DEF Accs, FactTables
<1> QED
  BY <1>1 DEF Wrote, NoFacts

(* A file row that is accepted is shown as it was sent. *)
LEMMA FileFields ==
    ASSUME NEW acc \in Accs, NEW b \in Accs, NEW row \in CursorRows, NEW rec, GoodRecord(rec),
           Wrote(acc, b, row, rec), ~rec.deleted, rec.kind = "file", NEW s, s = rec.src,
           row.snap \/ Known(acc, s).version <= rec.version
    PROVE  /\ b.files[s] # NoFile /\ b.files[s].seen
           /\ b.files[s].rev = rec.payload.rev /\ b.files[s].rev # NoRev
           /\ b.files[s].meta = rec.payload.meta
           /\ b.files[s].version = rec.version
           /\ \A k \in DerivedKinds :
                b.facts[s][k] = IF Known(acc, s).rev # rec.payload.rev THEN NoFact
                                ELSE acc.facts[s][k]
<1>1. WroteFile(acc, b, row, rec)
  BY DEF Wrote
<1>2. /\ rec.payload.rev \in Revs /\ rec.payload.rev # NoRev /\ rec.payload.meta \in Nat
      /\ rec.version \in Nat /\ s \in Sources
  BY RecordTypes
<1>3. Known(acc, s).version \in Nat
  BY <1>2, CellTypes DEF ShownFiles
<1>4. ~(~row.snap /\ Known(acc, s).version > rec.version)
  BY <1>2, <1>3
<1>5. /\ b.files[s] = [rev |-> rec.payload.rev, meta |-> rec.payload.meta,
                       version |-> rec.version, seen |-> TRUE]
      /\ b.facts[s] = IF Known(acc, s).rev # rec.payload.rev THEN NoFacts ELSE acc.facts[s]
  BY <1>1, <1>4 DEF WroteFile
<1>6. b.files[s] \in ShownFiles
  BY <1>2, <1>5 DEF ShownFiles
<1>7. b.files[s] # NoFile
  BY <1>6, CellTypes
<1> QED
  BY <1>2, <1>5, <1>7 DEF NoFacts

(* The condition of the upsert of source_facts. *)
Newer(old, row, rec) == old = NoFact \/ row.snap \/ rec.version >= old.version

(* An answer that is accepted is shown as it was sent, its file untouched. *)
LEMMA FactFields ==
    ASSUME NEW acc \in Accs, NEW b \in Accs, NEW row \in CursorRows, NEW rec, GoodRecord(rec),
           Wrote(acc, b, row, rec), ~rec.deleted, rec.kind \in FactKinds, NEW s, s = rec.src,
           \/ row.snap
           \/ acc.facts[s][rec.kind] # NoFact => acc.facts[s][rec.kind].version <= rec.version
    PROVE  /\ b.files[s] = acc.files[s]
           /\ \A k \in DerivedKinds \ {rec.kind} : b.facts[s][k] = acc.facts[s][k]
           /\ b.facts[s][rec.kind] # NoFact /\ b.facts[s][rec.kind].seen
           /\ b.facts[s][rec.kind].payload = rec.payload
           /\ b.facts[s][rec.kind].version = rec.version
<1>1. WroteFact(acc, b, row, rec)
  BY DEF Wrote
<1>2. s \in Sources /\ rec.version \in Nat /\ rec.kind \in DerivedKinds
  BY RecordTypes, KindNames
<1>3. /\ acc.facts[s] \in [DerivedKinds -> {NoFact} \cup ShownFacts]
      /\ acc.facts[s][rec.kind] \in {NoFact} \cup ShownFacts
  BY <1>2 DEF Accs, FactTables
<1>4. acc.facts[s][rec.kind] # NoFact => acc.facts[s][rec.kind].version \in Nat
  BY <1>3 DEF ShownFacts
<1>5. /\ b.files[s] = acc.files[s]
      /\ b.facts[s] = [acc.facts[s] EXCEPT ![rec.kind] = FactRow(acc.facts[s][rec.kind], row, rec)]
  BY <1>1 DEF WroteFact
<1>6. /\ b.facts[s][rec.kind] = FactRow(acc.facts[s][rec.kind], row, rec)
      /\ \A k \in DerivedKinds \ {rec.kind} : b.facts[s][k] = acc.facts[s][k]
  BY <1>2, <1>3, <1>5
<1>7. Newer(acc.facts[s][rec.kind], row, rec)
  BY <1>2, <1>4 DEF Newer
<1>8. PICK old : old = acc.facts[s][rec.kind]
  OBVIOUS
<1>9. /\ FactRow(old, row, rec) # NoFact
      /\ FactRow(old, row, rec).seen = TRUE
      /\ FactRow(old, row, rec).payload = rec.payload
      /\ FactRow(old, row, rec).version = rec.version
  <2>1. old \in {NoFact} \cup ShownFacts /\ Newer(old, row, rec)
    BY <1>3, <1>7, <1>8
  <2>2. FactRow(old, row, rec) # NoFact
    BY <2>1, CellTypes
  <2>3. FactRow(old, row, rec) = [version |-> rec.version, payload |-> rec.payload, seen |-> TRUE]
    BY <2>1 DEF FactRow, Newer
  <2> QED
    BY <2>2, <2>3
<1> QED
  BY <1>5, <1>6, <1>8, <1>9

(* A diagnostic that is accepted is shown as it was sent. *)
LEMMA ErrorFields ==
    ASSUME NEW acc \in Accs, NEW b \in Accs, NEW row \in CursorRows, NEW rec, GoodRecord(rec),
           Wrote(acc, b, row, rec), ~rec.deleted, rec.kind = "file_error", NEW s, s = rec.src,
           \/ row.snap
           \/ acc.facts[s]["file_error"] # NoFact =>
                acc.facts[s]["file_error"].version <= rec.version
    PROVE  /\ b.files[s] # NoFile /\ b.files[s].seen
           /\ row.snap /\ ~Known(acc, s).seen =>
                /\ b.files[s].rev = NoRev /\ b.files[s].version = 0
                /\ \A k \in FactKinds : b.facts[s][k] = NoFact
           /\ ~(row.snap /\ ~Known(acc, s).seen) =>
                /\ b.files[s].rev = Known(acc, s).rev /\ b.files[s].meta = Known(acc, s).meta
                /\ b.files[s].version = Known(acc, s).version
                /\ \A k \in FactKinds : b.facts[s][k] = acc.facts[s][k]
           /\ b.facts[s]["file_error"] # NoFact /\ b.facts[s]["file_error"].seen
           /\ b.facts[s]["file_error"].payload = rec.payload
           /\ b.facts[s]["file_error"].version = rec.version
<1> DEFINE unseen == row.snap /\ ~Known(acc, s).seen
           base   == IF unseen THEN BlankFile ELSE Known(acc, s)
           old    == IF unseen THEN NoFact ELSE acc.facts[s]["file_error"]
<1>1. WroteError(acc, b, row, rec)
  BY DEF Wrote
<1>2. s \in Sources /\ rec.version \in Nat /\ "file_error" \in DerivedKinds
  BY RecordTypes, KindNames
<1>3. /\ Known(acc, s) \in ShownFiles /\ BlankFile \in ShownFiles
      /\ acc.facts[s]["file_error"] \in {NoFact} \cup ShownFacts
  BY <1>2, CellTypes DEF Accs, FactTables
<1>4. base \in ShownFiles /\ old \in {NoFact} \cup ShownFacts
  BY <1>3
<1>5. /\ b.files[s] = [base EXCEPT !.seen = TRUE]
      /\ \A k \in FactKinds : b.facts[s][k] = IF unseen THEN NoFact ELSE acc.facts[s][k]
      /\ b.facts[s]["file_error"] = FactRow(old, row, rec)
  BY <1>1 DEF WroteError
<1>6. old # NoFact => old = acc.facts[s]["file_error"] /\ old.version \in Nat
  BY <1>4 DEF ShownFacts
<1>7. Newer(old, row, rec)
  BY <1>2, <1>6 DEF Newer
<1> HIDE DEF old
<1>8. /\ b.facts[s]["file_error"] # NoFact /\ b.facts[s]["file_error"].seen
      /\ b.facts[s]["file_error"].payload = rec.payload
      /\ b.facts[s]["file_error"].version = rec.version
  <2>1. FactRow(old, row, rec) # NoFact
    BY <1>4, CellTypes
  <2>2. FactRow(old, row, rec) = [version |-> rec.version, payload |-> rec.payload, seen |-> TRUE]
    BY <1>7 DEF FactRow, Newer
  <2> QED
    BY <1>5, <2>1, <2>2
<1>9. /\ b.files[s] \in ShownFiles /\ b.files[s].seen /\ b.files[s].rev = base.rev
      /\ b.files[s].meta = base.meta /\ b.files[s].version = base.version
  <2> HIDE DEF base
  <2> QED
    BY <1>4, <1>5 DEF ShownFiles
<1>10. b.files[s] # NoFile
  BY <1>9, CellTypes
<1>11. BlankFile.rev = NoRev /\ BlankFile.version = 0
  BY DEF BlankFile
<1> QED
  BY <1>5, <1>8, <1>9, <1>10, <1>11

-----------------------------------------------------------------------------
(* What the projection must hold for one journal row: Shows, of any journal *)
(* and projection.                                                          *)
Shown(J, fs, gs, s, k) ==
    IF Live(J[s][k])
    THEN IF k = "file"
         THEN /\ fs[s] # NoFile
              /\ fs[s].rev = J[s][k].payload.rev
              /\ fs[s].meta = J[s][k].payload.meta
         ELSE gs[s][k] # NoFact /\ gs[s][k].payload = J[s][k].payload
    ELSE IF k = "file"
         THEN fs[s] = NoFile \/ fs[s].rev = NoRev
         ELSE gs[s][k] = NoFact

(* Every journal row up to version u is shown. *)
UpTo(J, fs, gs, u) ==
    \A s \in Sources, k \in Kinds :
        J[s][k] = NoRecord \/ J[s][k].version <= u => Shown(J, fs, gs, s, k)

(* No row of the projection is from a version above u. *)
Behind(fs, gs, u) ==
    \A s \in Sources :
        /\ fs[s] # NoFile => fs[s].version <= u
        /\ \A k \in DerivedKinds : gs[s][k] # NoFact => gs[s][k].version <= u

(* The next record of an incremental chunk: nothing of the journal lies     *)
(* between the version the projection shows and the record's own.           *)
NextRecord(J, rec, u, v) ==
    /\ u \in Nat /\ v \in Nat /\ u < rec.version /\ rec.version <= v
    /\ Genuine(J, rec, v)
    /\ \A s \in Sources, k \in Kinds :
        J[s][k] # NoRecord /\ u < J[s][k].version /\ J[s][k].version <= rec.version
            => Cell(J, s, k) = rec

(* The source of the record. *)
LEMMA NextRecordSource ==
    ASSUME NEW J, NEW c \in Nat, Sound(J, c), NEW rec, GoodRecord(rec), NEW u, NEW v,
           NextRecord(J, rec, u, v), NEW s \in Sources, s = rec.src
    PROVE  /\ \A k \in Kinds : k # rec.kind /\ (J[s][k] = NoRecord \/ J[s][k].version <= rec.version)
                => J[s][k] = NoRecord \/ J[s][k].version <= u
           /\ J[s][rec.kind] # NoRecord
           /\ J[s][rec.kind].version <= rec.version =>
                /\ J[s][rec.kind].version = rec.version
                /\ J[s][rec.kind].deleted = rec.deleted
                /\ J[s][rec.kind].payload = rec.payload
           /\ rec.kind = "file" => \A k \in DerivedKinds :
                J[s][k] = NoRecord \/ J[s][k].version <= rec.version => ~Live(J[s][k])
           /\ rec.kind = "file_error" /\ ~rec.deleted /\ Live(J[s]["file"]) =>
                J[s]["file"].version > rec.version
<1>0. rec.version \in Nat /\ rec.kind \in Kinds
  BY RecordTypes
<1>1. \A k \in Kinds : J[s][k] # NoRecord => J[s][k].version \in Nat
  BY DEF Sound
<1>2. \A k \in Kinds : J[s][k] # NoRecord =>
        /\ Cell(J, s, k).kind = k /\ Cell(J, s, k).version = J[s][k].version
        /\ Cell(J, s, k).deleted = J[s][k].deleted /\ Cell(J, s, k).payload = J[s][k].payload
  BY DEF Cell
<1>3. ASSUME NEW k \in Kinds, k # rec.kind, J[s][k] = NoRecord \/ J[s][k].version <= rec.version
      PROVE  J[s][k] = NoRecord \/ J[s][k].version <= u
  BY <1>0, <1>1, <1>2, <1>3 DEF NextRecord
<1>4. /\ J[s][rec.kind] # NoRecord
      /\ J[s][rec.kind].version > v \/ Cell(J, s, rec.kind) = rec
      /\ rec.kind = "file_error" /\ ~rec.deleted /\ Live(J[s]["file"]) => J[s]["file"].version > v
  BY DEF NextRecord, Genuine
<1>5. \A k \in Kinds : J[s][k] # NoRecord /\ J[s][k].version > v => J[s][k].version > rec.version
  BY <1>0, <1>1 DEF NextRecord
<1>6. J[s][rec.kind].version <= rec.version =>
        /\ J[s][rec.kind].version = rec.version
        /\ J[s][rec.kind].deleted = rec.deleted
        /\ J[s][rec.kind].payload = rec.payload
  BY <1>0, <1>1, <1>2, <1>4, <1>5
<1>7. ASSUME rec.kind = "file", NEW k \in DerivedKinds, Live(J[s][k]),
             J[s][k].version <= rec.version
      PROVE  FALSE
  <2>1. k \in Kinds /\ k # "file" /\ "file" \in Kinds /\ J[s][k] # NoRecord
    BY <1>7, KindNames DEF Live
  <2>2. J[s][k].version <= u /\ u < rec.version
    BY <1>3, <1>7, <2>1 DEF NextRecord
  <2>3. J[s]["file"] # NoRecord /\ J[s]["file"].version < J[s][k].version
    <3>1. FactsFollow(J[s]) /\ ErrorFollows(J[s])
      BY DEF Sound
    <3> QED
      BY <1>4, <1>7, <3>1, KindNames DEF FactsFollow, ErrorFollows, Live
  <2>4. J[s]["file"].version = rec.version
    <3>1. J[s]["file"].version \in Nat /\ J[s][k].version \in Nat /\ u \in Nat
      BY <1>1, <2>1, <2>3 DEF NextRecord
    <3> QED
      BY <1>0, <1>6, <1>7, <2>2, <2>3, <3>1
  <2> QED
    BY <1>0, <1>1, <2>1, <2>2, <2>3, <2>4 DEF NextRecord
<1>8. rec.kind = "file" => \A k \in DerivedKinds :
                J[s][k] = NoRecord \/ J[s][k].version <= rec.version => ~Live(J[s][k])
  BY <1>7 DEF Live
<1>9. "file" \in Kinds
  BY KindNames
<1> QED
  BY <1>3, <1>4, <1>5, <1>6, <1>8, <1>9 DEF Live

(* A record of an incremental chunk takes the projection from the version   *)
(* before it to its own.                                                    *)
LEMMA TookUpTo ==
    ASSUME NEW acc \in Accs, NEW b \in Accs, NEW row \in CursorRows, ~row.snap, NEW delta, NEW rec,
           GoodRecord(rec), Took(acc, b, row, delta, rec), row.version < rec.version,
           NEW J, NEW c \in Nat, Sound(J, c), NEW u, NEW v, NextRecord(J, rec, u, v),
           UpTo(J, acc.files, acc.facts, u), Behind(acc.files, acc.facts, u)
    PROVE  /\ UpTo(J, b.files, b.facts, rec.version)
           /\ Behind(b.files, b.facts, rec.version)
<1>s. PICK s : s = rec.src
  OBVIOUS
<1>w. PICK w : w = rec.version
  OBVIOUS
<1>1. /\ s \in Sources /\ rec.kind \in Kinds /\ w \in Nat /\ rec.deleted \in BOOLEAN
      /\ row.version \in Nat /\ u \in Nat /\ u < w
  BY <1>s, <1>w, RecordTypes DEF CursorRows, NextRecord
<1>2. Wrote(acc, b, row, rec)
  BY <1>1, <1>w DEF Took, Skipped
<1>3. \A t \in Sources \ {s} : b.files[t] = acc.files[t] /\ b.facts[t] = acc.facts[t]
  BY <1>s DEF Took
<1>4. /\ \A k \in Kinds : k # rec.kind /\ (J[s][k] = NoRecord \/ J[s][k].version <= w)
            => J[s][k] = NoRecord \/ J[s][k].version <= u
      /\ J[s][rec.kind] # NoRecord
      /\ J[s][rec.kind].version <= w =>
            /\ J[s][rec.kind].deleted = rec.deleted
            /\ J[s][rec.kind].payload = rec.payload
      /\ rec.kind = "file" => \A k \in DerivedKinds :
            J[s][k] = NoRecord \/ J[s][k].version <= w => ~Live(J[s][k])
      /\ rec.kind = "file_error" /\ ~rec.deleted /\ Live(J[s]["file"]) =>
            J[s]["file"].version > w
  BY <1>1, <1>s, <1>w, NextRecordSource
<1>5. /\ acc.files[s] \in {NoFile} \cup ShownFiles
      /\ \A t \in Sources : acc.files[t] # NoFile => acc.files[t].version \in Nat
      /\ \A t \in Sources, k \in DerivedKinds : acc.facts[t][k] # NoFact => acc.facts[t][k].version \in Nat
  BY <1>1 DEF Accs, FileTables, FactTables, ShownFiles, ShownFacts
<1>6. /\ \A t \in Sources : acc.files[t] # NoFile => acc.files[t].version <= w
      /\ \A t \in Sources, k \in DerivedKinds : acc.facts[t][k] # NoFact => acc.facts[t][k].version <= w
  BY <1>1, <1>5 DEF Behind
<1>7. Known(acc, s).version \in Nat /\ Known(acc, s).version <= w
  <2>1. BlankFile.version = 0
    BY DEF BlankFile
  <2> QED
    BY <1>1, <1>5, <1>6, <2>1 DEF Known
<1>8. /\ acc.facts[s]["file_error"] # NoFact => acc.facts[s]["file_error"].version <= w
      /\ rec.kind \in FactKinds =>
            (acc.facts[s][rec.kind] # NoFact => acc.facts[s][rec.kind].version <= w)
  BY <1>1, <1>6, KindNames
<1>9. \A k \in Kinds : J[s][k] = NoRecord \/ J[s][k].version <= u => Shown(J, acc.files, acc.facts, s, k)
  BY <1>1 DEF UpTo
<1>10. \A t \in Sources, k \in Kinds : J[t][k] # NoRecord => J[t][k].version \in Nat
  BY DEF Sound
<1>11. ASSUME NEW t \in Sources \ {s}, NEW k \in Kinds, J[t][k] = NoRecord \/ J[t][k].version <= w
       PROVE  Shown(J, b.files, b.facts, t, k)
  <2>1. J[t][k] # NoRecord => J[t][k].version <= u
    <3> SUFFICES ASSUME J[t][k] # NoRecord, ~(J[t][k].version <= u) PROVE FALSE
      OBVIOUS
    <3>1. Cell(J, t, k) = rec
      BY <1>1, <1>w, <1>10, <1>11 DEF NextRecord
    <3> QED
      BY <1>s, <3>1 DEF Cell
  <2>2. Shown(J, acc.files, acc.facts, t, k)
    BY <2>1 DEF UpTo
  <2>3. b.files[t] = acc.files[t] /\ b.facts[t] = acc.facts[t]
    BY <1>3
  <2> QED
    BY <2>2, <2>3 DEF Shown
<1>12. ASSUME NEW t \in Sources \ {s}
       PROVE  /\ b.files[t] # NoFile => b.files[t].version <= w
              /\ \A k \in DerivedKinds : b.facts[t][k] # NoFact => b.facts[t][k].version <= w
  BY <1>3, <1>6
<1> DEFINE Good == /\ \A k \in Kinds : J[s][k] = NoRecord \/ J[s][k].version <= w
                        => Shown(J, b.files, b.facts, s, k)
                   /\ b.files[s] # NoFile => b.files[s].version <= w
                   /\ \A k \in DerivedKinds : b.facts[s][k] # NoFact => b.facts[s][k].version <= w
<1>13. ASSUME rec.deleted /\ rec.kind = "file" PROVE Good
  <2>1. b.files[s] = NoFile /\ \A k \in DerivedKinds : b.facts[s][k] = NoFact
    BY <1>2, <1>13, TombstoneFields, <1>s
  <2>2. J[s]["file"].version <= w => ~Live(J[s]["file"])
    BY <1>4, <1>13 DEF Live
  <2> QED
    BY <1>4, <1>13, <2>1, <2>2, KindNames DEF Shown
<1>14. ASSUME rec.deleted /\ rec.kind # "file" PROVE Good
  <2>1. /\ b.files[s] = acc.files[s]
        /\ \A k \in DerivedKinds :
             b.facts[s][k] = IF k = rec.kind THEN NoFact ELSE acc.facts[s][k]
    BY <1>2, <1>14, TombstoneFields, <1>s
  <2>2. rec.kind \in DerivedKinds
    BY <1>1, <1>14, KindNames
  <2>3. J[s][rec.kind].version <= w => ~Live(J[s][rec.kind])
    BY <1>4, <1>14 DEF Live
  <2>4. ASSUME NEW k \in Kinds, J[s][k] = NoRecord \/ J[s][k].version <= w
        PROVE  Shown(J, b.files, b.facts, s, k)
    <3>1. CASE k = rec.kind
      BY <1>4, <1>14, <2>1, <2>2, <2>3, <2>4, <3>1 DEF Shown
    <3>2. CASE k # rec.kind
      <4>1. Shown(J, acc.files, acc.facts, s, k)
        BY <1>4, <1>9, <2>4, <3>2
      <4>2. k # "file" => b.facts[s][k] = acc.facts[s][k]
        BY <2>1, <3>2, KindNames
      <4> QED
        BY <2>1, <4>1, <4>2 DEF Shown
    <3> QED
      BY <3>1, <3>2
  <2> QED
    BY <1>1, <1>6, <2>1, <2>4
<1>15. ASSUME ~rec.deleted /\ rec.kind = "file" PROVE Good
  <2>0. row.snap \/ Known(acc, s).version <= rec.version
    BY <1>1, <1>w, <1>7, <1>15
  <2>1. /\ b.files[s] # NoFile
        /\ b.files[s].rev = rec.payload.rev /\ b.files[s].rev # NoRev
        /\ b.files[s].meta = rec.payload.meta
        /\ b.files[s].version = rec.version
        /\ \A k \in DerivedKinds :
             b.facts[s][k] = IF Known(acc, s).rev # rec.payload.rev THEN NoFact
                             ELSE acc.facts[s][k]
    BY <1>2, <1>s, <2>0, <1>15, FileFields
  <2>2. J[s]["file"].version <= w => Live(J[s]["file"]) /\ J[s]["file"].payload = rec.payload
    BY <1>4, <1>15 DEF Live
  <2>3. Shown(J, b.files, b.facts, s, "file") \/ ~(J[s]["file"].version <= w)
    BY <2>1, <2>2 DEF Shown
  <2>4. ASSUME NEW k \in DerivedKinds, J[s][k] = NoRecord \/ J[s][k].version <= w
        PROVE  Shown(J, b.files, b.facts, s, k)
    <3>1. ~Live(J[s][k]) /\ k # "file" /\ k \in Kinds
      BY <1>4, <1>15, <2>4, KindNames
    <3>2. acc.facts[s][k] = NoFact
      BY <1>4, <1>9, <1>15, <2>4, <3>1 DEF Shown
    <3> QED
      BY <2>1, <3>1, <3>2 DEF Shown
  <2>5. w <= w
    BY <1>1
  <2> QED
    BY <1>1, <1>4, <1>6, <1>15, <2>1, <2>3, <2>4, <2>5, <1>w, KindNames
<1>16. ASSUME ~rec.deleted /\ rec.kind = "file_error" PROVE Good
  <2>0. row.snap \/ (acc.facts[s]["file_error"] # NoFact =>
                        acc.facts[s]["file_error"].version <= rec.version)
    BY <1>1, <1>w, <1>8, <1>16
  <2>1. /\ b.files[s] # NoFile
        /\ b.files[s].rev = Known(acc, s).rev /\ b.files[s].version = Known(acc, s).version
        /\ \A k \in FactKinds : b.facts[s][k] = acc.facts[s][k]
        /\ b.facts[s]["file_error"] # NoFact
        /\ b.facts[s]["file_error"].payload = rec.payload
        /\ b.facts[s]["file_error"].version = rec.version
    BY <1>2, <1>s, <2>0, <1>16, ErrorFields, SMTT(40)
  <2>2. ASSUME NEW k \in FactKinds, J[s][k] = NoRecord \/ J[s][k].version <= w
        PROVE  Shown(J, b.files, b.facts, s, k)
    <3>1. k \in Kinds /\ k # "file" /\ k # "file_error"
      BY KindNames
    <3>2. Shown(J, acc.files, acc.facts, s, k)
      BY <1>4, <1>9, <1>16, <2>2, <3>1
    <3> QED
      BY <2>1, <3>1, <3>2 DEF Shown
  <2>3. J[s]["file_error"].version <= w => Shown(J, b.files, b.facts, s, "file_error")
    BY <1>4, <1>16, <2>1 DEF Shown, Live
  <2>4. ASSUME J[s]["file"] = NoRecord \/ J[s]["file"].version <= w
        PROVE  Shown(J, b.files, b.facts, s, "file")
    <3>1. ~Live(J[s]["file"])
      <4> SUFFICES ASSUME Live(J[s]["file"]) PROVE FALSE
        OBVIOUS
      <4>1. J[s]["file"].version > w /\ J[s]["file"] # NoRecord /\ J[s]["file"].version \in Nat
        BY <1>1, <1>4, <1>10, <1>16, KindNames DEF Live
      <4> QED
        BY <1>1, <2>4, <4>1
    <3>2. Shown(J, acc.files, acc.facts, s, "file")
      BY <1>4, <1>9, <1>16, <2>4, KindNames
    <3>3. acc.files[s] = NoFile \/ acc.files[s].rev = NoRev
      BY <3>1, <3>2 DEF Shown
    <3>4. Known(acc, s).rev = NoRev
      BY <3>3 DEF Known, BlankFile
    <3> QED
      BY <2>1, <3>1, <3>4 DEF Shown
  <2>5. w <= w
    BY <1>1
  <2>6. \A k \in DerivedKinds : b.facts[s][k] # NoFact => b.facts[s][k].version <= w
    BY <1>1, <1>6, <2>1, <2>5, <1>w, KindNames
  <2> QED
    BY <1>4, <1>7, <1>16, <2>1, <2>2, <2>3, <2>4, <2>6, KindNames
<1>17. ASSUME ~rec.deleted /\ rec.kind \in FactKinds PROVE Good
  <2>0. row.snap \/ (acc.facts[s][rec.kind] # NoFact =>
                        acc.facts[s][rec.kind].version <= rec.version)
    BY <1>1, <1>w, <1>8, <1>17
  <2>1. /\ b.files[s] = acc.files[s]
        /\ \A k \in DerivedKinds \ {rec.kind} : b.facts[s][k] = acc.facts[s][k]
        /\ b.facts[s][rec.kind] # NoFact
        /\ b.facts[s][rec.kind].payload = rec.payload
        /\ b.facts[s][rec.kind].version = rec.version
    BY <1>2, <1>s, <2>0, <1>17, FactFields
  <2>2. rec.kind \in DerivedKinds /\ rec.kind # "file"
    BY <1>17, KindNames
  <2>3. ASSUME NEW k \in Kinds, J[s][k] = NoRecord \/ J[s][k].version <= w
        PROVE  Shown(J, b.files, b.facts, s, k)
    <3>1. CASE k = rec.kind
      BY <1>4, <1>17, <2>1, <2>2, <2>3, <3>1 DEF Shown, Live
    <3>2. CASE k # rec.kind
      <4>1. Shown(J, acc.files, acc.facts, s, k)
        BY <1>4, <1>9, <2>3, <3>2
      <4>2. k # "file" => b.facts[s][k] = acc.facts[s][k]
        BY <2>1, <3>2, KindNames
      <4> QED
        BY <2>1, <4>1, <4>2 DEF Shown
    <3> QED
      BY <3>1, <3>2
  <2>4. w <= w
    BY <1>1
  <2> QED
    BY <1>1, <1>6, <2>1, <2>3, <2>4, <1>w
<1>18. Good
  BY <1>1, <1>13, <1>14, <1>15, <1>16, <1>17, KindNames
<1>19. UpTo(J, b.files, b.facts, w)
  BY <1>11, <1>18 DEF UpTo
<1>20. Behind(b.files, b.facts, w)
  BY <1>12, <1>18 DEF Behind
<1> QED
  BY <1>19, <1>20, <1>w

(* An incremental chunk takes the projection to the version it reaches. *)
LEMMA FoldedUpTo ==
    ASSUME NEW h \in Projections, h.row \in CursorRows, ~h.row.snap, NEW delta, GoodDelta(delta),
           Folded(h, delta).ok, NEW J, NEW c \in Nat, Sound(J, c),
           Increment(J, h.row.version, delta),
           UpTo(J, h.files, h.facts, h.row.version), Behind(h.files, h.facts, h.row.version)
    PROVE  /\ UpTo(J, Folded(h, delta).files, Folded(h, delta).facts, delta.through)
           /\ Behind(Folded(h, delta).files, Folded(h, delta).facts, delta.through)
<1> DEFINE N == Len(delta.records)
           A == Applied(h, delta)
           U(n) == IF n = 0 THEN h.row.version ELSE delta.records[n].version
           T == {n \in 0 .. N : /\ UpTo(J, A[n].files, A[n].facts, U(n))
                                /\ Behind(A[n].files, A[n].facts, U(n))}
<1>1. /\ N \in Nat /\ A[0] = AccStart(h)
      /\ \A n \in 0 .. N : A[n] \in Accs /\ A[n].ok
      /\ \A n \in 1 .. N : /\ GoodRecord(delta.records[n])
                           /\ Took(A[n - 1], A[n], h.row, delta, delta.records[n])
  <2>1. A[N].ok
    BY DEF Folded
  <2>2. \A n \in 1 .. N : n \in 0 .. N
    BY ChunkSteps
  <2> QED
    BY <2>1, <2>2, ChunkSteps
<1>2. /\ DOMAIN delta.records = 1 .. N /\ delta.through \in Nat
      /\ h.row.version \in Nat
      /\ \A n \in 1 .. N : delta.records[n].version \in Nat
  <2>1. DOMAIN delta.records = 1 .. N /\ delta.through \in Nat
    BY DEF GoodDelta, Deltas
  <2>2. \A n \in 1 .. N : delta.records[n].version \in Nat
    BY <1>1, RecordTypes
  <2> QED
    BY <2>1, <2>2 DEF CursorRows
<1>3. /\ h.row.version <= delta.through
      /\ \A n \in 1 .. N : /\ h.row.version < delta.records[n].version
                           /\ delta.records[n].version <= delta.through
                           /\ Genuine(J, delta.records[n], delta.through)
      /\ \A m, n \in 1 .. N : m < n => delta.records[m].version < delta.records[n].version
      /\ Covers(J, Records(delta.records), h.row.version, delta.through)
  BY <1>2 DEF Increment
<1> HIDE DEF A, N
<1>4. \A n \in 0 .. N : U(n) \in Nat /\ h.row.version <= U(n) /\ U(n) <= delta.through
  <2>1. \A n \in 0 .. N : n = 0 \/ n \in 1 .. N
    BY <1>1
  <2> QED
    BY <1>2, <1>3, <2>1
(* Every journal row above the hub's version is one of the records. *)
<1>5. ASSUME NEW s \in Sources, NEW k \in Kinds, J[s][k] # NoRecord,
             h.row.version < J[s][k].version, J[s][k].version <= delta.through
      PROVE  \E m \in 1 .. N : Cell(J, s, k) = delta.records[m] /\ J[s][k].version = delta.records[m].version
  <2>1. Cell(J, s, k) \in Records(delta.records)
    BY <1>3, <1>5 DEF Covers
  <2>2. Cell(J, s, k).version = J[s][k].version
    BY DEF Cell
  <2> QED
    BY <1>2, <2>1, <2>2 DEF Records
<1>6. \A s \in Sources, k \in Kinds : J[s][k] # NoRecord => J[s][k].version \in Nat
  BY DEF Sound
<1>7. 0 \in T
  <2>1. /\ A[0].files = h.files /\ A[0].facts = h.facts /\ U(0) = h.row.version /\ 0 \in 0 .. N
    BY <1>1 DEF AccStart
  <2> QED
    BY <2>1
<1>8. ASSUME NEW n \in 1 .. N, n - 1 \in T PROVE n \in T
  <2>1. /\ n - 1 \in 0 .. N /\ n \in 0 .. N /\ n # 0
        /\ UpTo(J, A[n - 1].files, A[n - 1].facts, U(n - 1))
        /\ Behind(A[n - 1].files, A[n - 1].facts, U(n - 1))
    BY <1>1, <1>8
  <2>2. PICK rec : rec = delta.records[n]
    OBVIOUS
  <2>3. PICK u : u = U(n - 1)
    OBVIOUS
  <2>4. u \in Nat /\ h.row.version <= u /\ u <= delta.through
    BY <1>4, <2>1, <2>3
  <2>5. u < rec.version
    <3>1. CASE n = 1
      BY <1>3, <2>2, <2>3, <3>1
    <3>2. CASE n # 1
      <4>1. n - 1 \in 1 .. N /\ n - 1 < n /\ n - 1 # 0
        BY <2>1, <3>2
      <4> QED
        BY <1>3, <2>2, <2>3, <4>1
    <3> QED
      BY <3>1, <3>2
  <2>6. ASSUME NEW s \in Sources, NEW k \in Kinds,
               J[s][k] # NoRecord, u < J[s][k].version, J[s][k].version <= rec.version
        PROVE  Cell(J, s, k) = rec
    <3>1. J[s][k].version \in Nat /\ rec.version \in Nat /\ rec.version <= delta.through
      BY <1>2, <1>3, <1>6, <2>2, <2>6
    <3>2. h.row.version < J[s][k].version /\ J[s][k].version <= delta.through
      BY <1>2, <2>4, <2>6, <3>1
    <3>3. PICK m \in 1 .. N : Cell(J, s, k) = delta.records[m] /\ J[s][k].version = delta.records[m].version
      BY <1>5, <2>6, <3>2
    <3>4. ~(n < m)
      BY <1>2, <1>3, <2>2, <2>6, <3>3
    <3>5. ~(m < n)
      <4> SUFFICES ASSUME m < n PROVE FALSE
        OBVIOUS
      <4>1. n - 1 \in 1 .. N /\ n - 1 # 0 /\ m <= n - 1
        BY <2>1
      <4>2. u = delta.records[n - 1].version
        BY <2>3, <4>1
      <4>3. delta.records[m].version <= delta.records[n - 1].version
        BY <1>2, <1>3, <4>1
      <4>4. J[s][k].version <= u
        BY <3>3, <4>2, <4>3
      <4> QED
        BY <2>4, <2>6, <3>1, <4>4
    <3>6. m = n
      BY <3>4, <3>5
    <3> QED
      BY <2>2, <3>3, <3>6
  <2>7. NextRecord(J, rec, u, delta.through)
    BY <1>2, <1>3, <2>2, <2>4, <2>5, <2>6 DEF NextRecord
  <2>8. /\ GoodRecord(rec) /\ h.row.version < rec.version
        /\ A[n - 1] \in Accs /\ A[n] \in Accs
        /\ Took(A[n - 1], A[n], h.row, delta, rec)
        /\ UpTo(J, A[n - 1].files, A[n - 1].facts, u)
        /\ Behind(A[n - 1].files, A[n - 1].facts, u)
    BY <1>1, <1>3, <2>1, <2>2, <2>3
  <2>9. UpTo(J, A[n].files, A[n].facts, rec.version) /\ Behind(A[n].files, A[n].facts, rec.version)
    BY <2>7, <2>8, TookUpTo
  <2>10. U(n) = rec.version
    BY <2>1, <2>2
  <2> QED
    BY <2>1, <2>9, <2>10
<1> HIDE DEF T
<1>9. \A n \in 0 .. N : n \in T
  BY <1>1, <1>7, <1>8, AlongChunk
<1>10. PICK u : u = U(N)
  OBVIOUS
<1>11. /\ Folded(h, delta) = A[N] /\ N \in 0 .. N /\ A[N] \in Accs
       /\ UpTo(J, A[N].files, A[N].facts, u) /\ Behind(A[N].files, A[N].facts, u)
       /\ u \in Nat /\ h.row.version <= u /\ u <= delta.through
  BY <1>1, <1>4, <1>9, <1>10 DEF T, A, N, Folded
<1>12. UpTo(J, A[N].files, A[N].facts, delta.through)
  <2> SUFFICES ASSUME NEW s \in Sources, NEW k \in Kinds, J[s][k] # NoRecord,
                      J[s][k].version <= delta.through, ~(J[s][k].version <= u)
               PROVE  FALSE
    BY <1>11 DEF UpTo
  <2>1. J[s][k].version \in Nat
    BY <1>6
  <2>2. h.row.version < J[s][k].version
    BY <1>2, <1>11, <2>1
  <2>3. PICK m \in 1 .. N : J[s][k].version = delta.records[m].version
    BY <1>5, <2>2
  <2>4. N # 0 /\ N \in 1 .. N /\ m <= N
    BY <1>1
  <2>5. u = delta.records[N].version
    BY <1>10, <2>4
  <2>6. delta.records[m].version <= delta.records[N].version
    BY <1>2, <1>3, <2>4
  <2> QED
    BY <2>3, <2>5, <2>6
<1>13. Behind(A[N].files, A[N].facts, delta.through)
  <2>1. /\ \A s \in Sources : A[N].files[s] # NoFile => A[N].files[s].version \in Nat
        /\ \A s \in Sources, k \in DerivedKinds : A[N].facts[s][k] # NoFact => A[N].facts[s][k].version \in Nat
    BY <1>11 DEF Accs, FileTables, FactTables, ShownFiles, ShownFacts
  <2> QED
    BY <1>2, <1>11, <2>1 DEF Behind
<1> QED
  BY <1>11, <1>12, <1>13

-----------------------------------------------------------------------------
(* A running snapshot. *)

(* The snapshot has shown the hub this live journal row. *)
ShownSeen(J, fs, gs, s, k) ==
    IF k = "file"
    THEN /\ fs[s] # NoFile /\ fs[s].seen
         /\ fs[s].rev = J[s][k].payload.rev /\ fs[s].meta = J[s][k].payload.meta
    ELSE gs[s][k] # NoFact /\ gs[s][k].seen /\ gs[s][k].payload = J[s][k].payload

(* A journal row that explains a row the snapshot has shown. *)
Explained(J, fs, gs, s, k, v) ==
    /\ J[s][k] # NoRecord
    /\ J[s][k].version > v \/ (Live(J[s][k]) /\ ShownSeen(J, fs, gs, s, k))

(* What a snapshot that ends at v has shown is what the journal holds. *)
SeenInv(J, fs, gs, v) ==
    \A s \in Sources :
        /\ fs[s] # NoFile /\ fs[s].seen =>
            /\ fs[s].version <= v
            /\ fs[s].rev # NoRev => Explained(J, fs, gs, s, "file", v)
        /\ \A k \in DerivedKinds : gs[s][k] # NoFact /\ gs[s][k].seen =>
            gs[s][k].version <= v /\ Explained(J, fs, gs, s, k, v)
        /\ gs[s]["file_error"] # NoFact /\ gs[s]["file_error"].seen =>
            fs[s] # NoFile /\ fs[s].seen

(* What the journal holds up to v was shown, or is still to come. *)
Complete(J, fs, gs, rest, v) ==
    \A s \in Sources, k \in Kinds :
        Live(J[s][k]) /\ J[s][k].version <= v =>
            Cell(J, s, k) \in rest \/ ShownSeen(J, fs, gs, s, k)

(* The snapshot attempt has not shown an answer yet. *)
NoFactSeen(gs) ==
    \A s \in Sources, k \in DerivedKinds : gs[s][k] # NoFact => ~gs[s][k].seen

(* The next record of a snapshot that ends at v: a live row of the journal  *)
(* as it was read.                                                          *)
SnapRecord(J, rec, v) ==
    ~rec.deleted /\ rec.version <= v /\ Genuine(J, rec, v)

(* A record of a snapshot is shown, and undoes nothing the snapshot has     *)
(* already shown.                                                           *)
LEMMA TookSnap ==
    ASSUME NEW acc \in Accs, NEW b \in Accs, NEW row \in CursorRows, row.snap, NEW delta, NEW rec,
           GoodRecord(rec), Took(acc, b, row, delta, rec),
           NEW J, NEW c \in Nat, Sound(J, c), NEW v \in Nat, NEW rest, SnapRecord(J, rec, v),
           Complete(J, acc.files, acc.facts, rest \cup {rec}, v),
           SeenInv(J, acc.files, acc.facts, v),
           rec.kind = "file" => NoFactSeen(acc.facts)
    PROVE  /\ Complete(J, b.files, b.facts, rest, v)
           /\ SeenInv(J, b.files, b.facts, v)
           /\ rec.kind = "file" => NoFactSeen(b.facts)
<1>s. PICK s : s = rec.src
  OBVIOUS
<1>1. /\ s \in Sources /\ rec.kind \in Kinds /\ rec.version \in Nat
      /\ v \in Nat /\ ~rec.deleted /\ rec.version <= v /\ Genuine(J, rec, v)
  BY <1>s, RecordTypes DEF SnapRecord
<1>2. Wrote(acc, b, row, rec)
  BY DEF Took, Skipped
<1>3. \A t \in Sources \ {s} : b.files[t] = acc.files[t] /\ b.facts[t] = acc.facts[t]
  BY <1>s DEF Took
<1>4. \A t \in Sources, k \in Kinds : J[t][k] # NoRecord => J[t][k].version \in Nat
  BY DEF Sound
<1>5. /\ J[s][rec.kind] # NoRecord
      /\ ~(J[s][rec.kind].version > v) =>
            /\ Live(J[s][rec.kind]) /\ J[s][rec.kind].payload = rec.payload
  <2>1. Cell(J, s, rec.kind).deleted = J[s][rec.kind].deleted
        /\ Cell(J, s, rec.kind).payload = J[s][rec.kind].payload
    BY DEF Cell
  <2> QED
    BY <1>1, <1>s, <2>1 DEF Genuine, Live
<1>6. /\ rec.kind = "file_error" => ~(Live(J[s]["file"]) /\ J[s]["file"].version <= v)
      /\ rec.kind = "file_error" => \A k \in FactKinds : ~(Live(J[s][k]) /\ J[s][k].version <= v)
  <2>1. "file" \in Kinds /\ \A k \in FactKinds : k \in Kinds
    BY KindNames
  <2>2. rec.kind = "file_error" => ~(Live(J[s]["file"]) /\ J[s]["file"].version <= v)
    BY <1>1, <1>s, <1>4, <2>1 DEF Genuine, Live
  <2>3. ASSUME rec.kind = "file_error", NEW k \in FactKinds, Live(J[s][k]), J[s][k].version <= v
        PROVE  FALSE
    <3>1. Live(J[s]["file"]) /\ J[s]["file"].version < J[s][k].version
      BY <1>1, <2>3 DEF Sound, FactsFollow
    <3>2. J[s]["file"].version \in Nat /\ J[s][k].version \in Nat
      BY <1>1, <1>4, <2>1, <2>3, <3>1 DEF Live
    <3> QED
      BY <1>1, <2>2, <2>3, <3>1, <3>2
  <2> QED
    BY <2>2, <2>3
(* A cell of the journal that is not the record's. *)
<1>7. ASSUME NEW t \in Sources, NEW k \in Kinds, t # s \/ k # rec.kind,
             Live(J[t][k]), J[t][k].version <= v
      PROVE  Cell(J, t, k) \in rest \/ ShownSeen(J, acc.files, acc.facts, t, k)
  <2>1. Cell(J, t, k) # rec
    BY <1>7, <1>s DEF Cell
  <2> QED
    BY <1>7, <2>1 DEF Complete
<1>8. ASSUME NEW t \in Sources \ {s}, NEW k \in Kinds
      PROVE  ShownSeen(J, b.files, b.facts, t, k) <=> ShownSeen(J, acc.files, acc.facts, t, k)
  BY <1>3 DEF ShownSeen
<1> DEFINE Seen(t) ==
            /\ b.files[t] # NoFile /\ b.files[t].seen =>
                /\ b.files[t].version <= v
                /\ b.files[t].rev # NoRev => Explained(J, b.files, b.facts, t, "file", v)
            /\ \A k \in DerivedKinds : b.facts[t][k] # NoFact /\ b.facts[t][k].seen =>
                b.facts[t][k].version <= v /\ Explained(J, b.files, b.facts, t, k, v)
            /\ b.facts[t]["file_error"] # NoFact /\ b.facts[t]["file_error"].seen =>
                b.files[t] # NoFile /\ b.files[t].seen
<1>9. ASSUME NEW t \in Sources \ {s} PROVE Seen(t)
  <2>1. /\ b.files[t] = acc.files[t] /\ b.facts[t] = acc.facts[t]
    BY <1>3
  <2>2. \A k \in Kinds : Explained(J, b.files, b.facts, t, k, v) <=> Explained(J, acc.files, acc.facts, t, k, v)
    BY <1>8 DEF Explained
  <2>3. "file" \in Kinds /\ \A k \in DerivedKinds : k \in Kinds
    BY KindNames
  <2> QED
    BY <2>1, <2>2, <2>3 DEF SeenInv
<1> DEFINE Own == /\ ShownSeen(J, b.files, b.facts, s, rec.kind) \/ J[s][rec.kind].version > v
                  /\ \A k \in Kinds \ {rec.kind} :
                        /\ Live(J[s][k]) /\ J[s][k].version <= v
                        /\ ShownSeen(J, acc.files, acc.facts, s, k)
                        => ShownSeen(J, b.files, b.facts, s, k)
                  /\ Seen(s)
<1>10. ASSUME rec.kind = "file" PROVE Own /\ NoFactSeen(b.facts)
  <2>0. row.snap \/ Known(acc, s).version <= rec.version
    OBVIOUS
  <2>1. /\ b.files[s] # NoFile /\ b.files[s].seen
        /\ b.files[s].rev = rec.payload.rev /\ b.files[s].rev # NoRev
        /\ b.files[s].meta = rec.payload.meta
        /\ b.files[s].version = rec.version
        /\ \A k \in DerivedKinds :
             b.facts[s][k] = IF Known(acc, s).rev # rec.payload.rev THEN NoFact
                             ELSE acc.facts[s][k]
    BY <1>1, <1>2, <1>s, <1>10, <2>0, FileFields
  <2>2. ShownSeen(J, b.files, b.facts, s, "file") \/ J[s]["file"].version > v
    BY <1>5, <1>10, <2>1 DEF ShownSeen
  <2>3. NoFactSeen(b.facts)
    <3> SUFFICES ASSUME NEW t \in Sources, NEW k \in DerivedKinds, b.facts[t][k] # NoFact
                 PROVE  b.facts[t][k] = acc.facts[t][k]
      BY <1>10 DEF NoFactSeen
    <3> QED
      BY <1>3, <2>1
  <2>4. \A k \in DerivedKinds : ~ShownSeen(J, acc.files, acc.facts, s, k)
    BY <1>1, <1>10, KindNames DEF NoFactSeen, ShownSeen
  <2>5. \A k \in DerivedKinds : b.facts[s][k] # NoFact => ~b.facts[s][k].seen
    BY <1>1, <2>3 DEF NoFactSeen
  <2>6. Explained(J, b.files, b.facts, s, "file", v)
    BY <1>5, <1>10, <2>2 DEF Explained
  <2>7. "file_error" \in DerivedKinds /\ \A k \in Kinds \ {"file"} : k \in DerivedKinds
    BY KindNames
  <2>8. Seen(s)
    BY <1>1, <2>1, <2>5, <2>6, <2>7
  <2> QED
    BY <1>10, <2>2, <2>3, <2>4, <2>7, <2>8
<1>11. ASSUME rec.kind = "file_error" PROVE Own
  <2>0. row.snap \/ (acc.facts[s]["file_error"] # NoFact =>
                        acc.facts[s]["file_error"].version <= rec.version)
    OBVIOUS
  <2>1. /\ b.files[s] # NoFile /\ b.files[s].seen
        /\ row.snap /\ ~Known(acc, s).seen =>
             /\ b.files[s].rev = NoRev /\ b.files[s].version = 0
             /\ \A k \in FactKinds : b.facts[s][k] = NoFact
        /\ ~(row.snap /\ ~Known(acc, s).seen) =>
             /\ b.files[s].rev = Known(acc, s).rev /\ b.files[s].meta = Known(acc, s).meta
             /\ b.files[s].version = Known(acc, s).version
             /\ \A k \in FactKinds : b.facts[s][k] = acc.facts[s][k]
        /\ b.facts[s]["file_error"] # NoFact /\ b.facts[s]["file_error"].seen
        /\ b.facts[s]["file_error"].payload = rec.payload
        /\ b.facts[s]["file_error"].version = rec.version
    BY <1>1, <1>2, <1>s, <1>11, <2>0, ErrorFields
  <2>2. ShownSeen(J, b.files, b.facts, s, "file_error") \/ J[s]["file_error"].version > v
    BY <1>5, <1>11, <2>1 DEF ShownSeen
  <2>3. Explained(J, b.files, b.facts, s, "file_error", v)
    BY <1>5, <1>11, <2>2 DEF Explained
  <2>4. \A k \in Kinds \ {rec.kind} : ~(Live(J[s][k]) /\ J[s][k].version <= v)
    BY <1>6, <1>11, KindNames
  <2>5. CASE ~Known(acc, s).seen
    <3>1. /\ b.files[s].rev = NoRev /\ b.files[s].version = 0
          /\ \A k \in FactKinds : b.facts[s][k] = NoFact
      BY <2>1, <2>5
    <3>2. 0 <= v
      BY <1>1
    <3>3. Seen(s)
      BY <1>1, <2>1, <2>3, <3>1, <3>2, KindNames
    <3> QED
      BY <1>11, <2>2, <2>4, <3>3
  <2>6. CASE Known(acc, s).seen
    <3>1. acc.files[s] # NoFile /\ Known(acc, s) = acc.files[s]
      BY <2>6 DEF Known, BlankFile
    <3>2. /\ b.files[s].rev = acc.files[s].rev /\ b.files[s].meta = acc.files[s].meta
          /\ b.files[s].version = acc.files[s].version
          /\ \A k \in FactKinds : b.facts[s][k] = acc.facts[s][k]
      BY <2>1, <2>6, <3>1
    <3>3. /\ acc.files[s].version <= v
          /\ acc.files[s].rev # NoRev => Explained(J, acc.files, acc.facts, s, "file", v)
          /\ \A k \in FactKinds : acc.facts[s][k] # NoFact /\ acc.facts[s][k].seen =>
                acc.facts[s][k].version <= v /\ Explained(J, acc.files, acc.facts, s, k, v)
      BY <1>1, <2>6, <3>1, KindNames DEF SeenInv
    <3>4. /\ Explained(J, acc.files, acc.facts, s, "file", v) => Explained(J, b.files, b.facts, s, "file", v)
          /\ \A k \in FactKinds :
               Explained(J, acc.files, acc.facts, s, k, v) => Explained(J, b.files, b.facts, s, k, v)
      BY <2>1, <3>2, KindNames DEF Explained, ShownSeen
    <3>5. Seen(s)
      BY <1>1, <2>1, <2>3, <3>2, <3>3, <3>4, KindNames
    <3> QED
      BY <1>11, <2>2, <2>4, <3>5
  <2> QED
    BY <2>5, <2>6
<1>12. ASSUME rec.kind \in FactKinds PROVE Own
  <2>0. row.snap \/ (acc.facts[s][rec.kind] # NoFact =>
                        acc.facts[s][rec.kind].version <= rec.version)
    OBVIOUS
  <2>1. /\ b.files[s] = acc.files[s]
        /\ \A k \in DerivedKinds \ {rec.kind} : b.facts[s][k] = acc.facts[s][k]
        /\ b.facts[s][rec.kind] # NoFact /\ b.facts[s][rec.kind].seen
        /\ b.facts[s][rec.kind].payload = rec.payload
        /\ b.facts[s][rec.kind].version = rec.version
    BY <1>1, <1>2, <1>s, <1>12, <2>0, FactFields
  <2>2. rec.kind # "file" /\ rec.kind # "file_error" /\ rec.kind \in DerivedKinds
    BY <1>12, KindNames
  <2>3. ShownSeen(J, b.files, b.facts, s, rec.kind) \/ J[s][rec.kind].version > v
    BY <1>5, <2>1, <2>2 DEF ShownSeen
  <2>4. Explained(J, b.files, b.facts, s, rec.kind, v)
    BY <1>5, <2>3 DEF Explained
  <2>5. \A k \in Kinds \ {rec.kind} :
          ShownSeen(J, b.files, b.facts, s, k) <=> ShownSeen(J, acc.files, acc.facts, s, k)
    BY <2>1, KindNames DEF ShownSeen
  <2>6. \A k \in Kinds \ {rec.kind} :
          Explained(J, b.files, b.facts, s, k, v) <=> Explained(J, acc.files, acc.facts, s, k, v)
    BY <2>5 DEF Explained
  <2>7. /\ acc.files[s] # NoFile /\ acc.files[s].seen =>
            /\ acc.files[s].version <= v
            /\ acc.files[s].rev # NoRev => Explained(J, acc.files, acc.facts, s, "file", v)
        /\ \A k \in DerivedKinds : acc.facts[s][k] # NoFact /\ acc.facts[s][k].seen =>
            acc.facts[s][k].version <= v /\ Explained(J, acc.files, acc.facts, s, k, v)
        /\ acc.facts[s]["file_error"] # NoFact /\ acc.facts[s]["file_error"].seen =>
            acc.files[s] # NoFile /\ acc.files[s].seen
    BY <1>1 DEF SeenInv
  <2>8. Seen(s)
    <3>1. "file" \in Kinds \ {rec.kind} /\ "file_error" \in DerivedKinds \ {rec.kind}
          /\ \A k \in DerivedKinds \ {rec.kind} : k \in Kinds \ {rec.kind}
      BY <2>2, KindNames
    <3>2. \A k \in DerivedKinds : b.facts[s][k] # NoFact /\ b.facts[s][k].seen =>
                b.facts[s][k].version <= v /\ Explained(J, b.files, b.facts, s, k, v)
      <4> SUFFICES ASSUME NEW k \in DerivedKinds, b.facts[s][k] # NoFact, b.facts[s][k].seen
                   PROVE  b.facts[s][k].version <= v /\ Explained(J, b.files, b.facts, s, k, v)
        OBVIOUS
      <4>1. CASE k = rec.kind
        BY <1>1, <2>1, <2>4, <4>1
      <4>2. CASE k # rec.kind
        BY <2>1, <2>6, <2>7, <3>1, <4>2
      <4> QED
        BY <4>1, <4>2
    <3> QED
      BY <2>1, <2>6, <2>7, <3>1, <3>2
  <2> QED
    BY <2>3, <2>5, <2>8
<1>13. Own
  BY <1>1, <1>10, <1>11, <1>12, KindNames
<1>14. SeenInv(J, b.files, b.facts, v)
  <2>1. \A t \in Sources : Seen(t)
    BY <1>9, <1>13
  <2> QED
    BY <2>1 DEF SeenInv
<1>15. Complete(J, b.files, b.facts, rest, v)
  <2> SUFFICES ASSUME NEW t \in Sources, NEW k \in Kinds, Live(J[t][k]), J[t][k].version <= v
               PROVE  Cell(J, t, k) \in rest \/ ShownSeen(J, b.files, b.facts, t, k)
    BY DEF Complete
  <2>1. CASE t = s /\ k = rec.kind
    <3>1. J[t][k].version \in Nat
      BY <1>4 DEF Live
    <3> QED
      BY <1>1, <1>13, <2>1, <3>1
  <2>2. CASE t = s /\ k # rec.kind
    BY <1>7, <1>13, <2>2
  <2>3. CASE t # s
    BY <1>7, <1>8, <2>3
  <2> QED
    BY <2>1, <2>2, <2>3
<1> QED
  BY <1>10, <1>14, <1>15

(* A chunk of a snapshot, whose records are all of files or none. *)
LEMMA FoldedSnap ==
    ASSUME NEW h \in Projections, h.row \in CursorRows, h.row.snap, NEW delta, GoodDelta(delta),
           Folded(h, delta).ok, NEW J, NEW c \in Nat, Sound(J, c), NEW v \in Nat, NEW rest,
           \A n \in DOMAIN delta.records : SnapRecord(J, delta.records[n], v),
           \/ \A n \in DOMAIN delta.records : delta.records[n].kind = "file"
           \/ \A n \in DOMAIN delta.records : delta.records[n].kind # "file",
           Complete(J, h.files, h.facts, rest \cup Records(delta.records), v),
           SeenInv(J, h.files, h.facts, v), h.row.max <= v,
           (\E n \in DOMAIN delta.records : delta.records[n].kind = "file") => NoFactSeen(h.facts)
    PROVE  /\ Complete(J, Folded(h, delta).files, Folded(h, delta).facts, rest, v)
           /\ SeenInv(J, Folded(h, delta).files, Folded(h, delta).facts, v)
           /\ Folded(h, delta).max <= v
           /\ (\A n \in DOMAIN delta.records : delta.records[n].kind = "file") /\ NoFactSeen(h.facts)
                => NoFactSeen(Folded(h, delta).facts)
<1> DEFINE N == Len(delta.records)
           A == Applied(h, delta)
           AllFiles == \A n \in 1 .. N : delta.records[n].kind = "file"
           Left(n) == rest \cup {delta.records[m] : m \in (n + 1) .. N}
           T == {n \in 0 .. N : /\ Complete(J, A[n].files, A[n].facts, Left(n), v)
                                /\ SeenInv(J, A[n].files, A[n].facts, v)
                                /\ A[n].max <= v
                                /\ AllFiles /\ NoFactSeen(h.facts) => NoFactSeen(A[n].facts)}
<1>1. /\ N \in Nat /\ A[0] = AccStart(h)
      /\ \A n \in 0 .. N : A[n] \in Accs /\ A[n].ok
      /\ \A n \in 1 .. N : /\ GoodRecord(delta.records[n])
                           /\ Took(A[n - 1], A[n], h.row, delta, delta.records[n])
  <2>1. A[N].ok
    BY DEF Folded
  <2>2. \A n \in 1 .. N : n \in 0 .. N
    BY ChunkSteps
  <2> QED
    BY <2>1, <2>2, ChunkSteps
<1>2. DOMAIN delta.records = 1 .. N
  BY DEF GoodDelta, Deltas
<1> HIDE DEF A, N
<1>3. 0 \in T
  <2>1. A[0].files = h.files /\ A[0].facts = h.facts /\ A[0].max = h.row.max /\ 0 \in 0 .. N
    BY <1>1 DEF AccStart
  <2>2. Left(0) = rest \cup Records(delta.records)
    <3>1. (0 + 1) .. N = 1 .. N
      BY <1>1
    <3> QED
      BY <1>2, <3>1 DEF Records
  <2> QED
    BY <2>1, <2>2
<1>4. ASSUME NEW n \in 1 .. N, n - 1 \in T PROVE n \in T
  <2>1. /\ n - 1 \in 0 .. N /\ n \in 0 .. N
        /\ Complete(J, A[n - 1].files, A[n - 1].facts, Left(n - 1), v)
        /\ SeenInv(J, A[n - 1].files, A[n - 1].facts, v)
        /\ A[n - 1].max <= v
        /\ AllFiles /\ NoFactSeen(h.facts) => NoFactSeen(A[n - 1].facts)
    BY <1>1, <1>4
  <2>2. PICK rec : rec = delta.records[n]
    OBVIOUS
  <2>3. PICK left : left = Left(n)
    OBVIOUS
  <2>4. Left(n - 1) = left \cup {rec}
    <3>1. \A m : m \in ((n - 1) + 1) .. N <=> m = n \/ m \in (n + 1) .. N
      BY <1>1
    <3> QED
      BY <2>2, <2>3, <3>1
  <2>5. /\ GoodRecord(rec) /\ SnapRecord(J, rec, v)
        /\ A[n - 1] \in Accs /\ A[n] \in Accs
        /\ Took(A[n - 1], A[n], h.row, delta, rec)
    BY <1>1, <1>2, <2>1, <2>2
  <2>6. rec.kind = "file" => AllFiles /\ NoFactSeen(h.facts)
    BY <1>2, <2>2
  <2>7. rec.kind = "file" => NoFactSeen(A[n - 1].facts)
    BY <2>1, <2>6
  <2>8. Complete(J, A[n - 1].files, A[n - 1].facts, left \cup {rec}, v)
    BY <2>1, <2>4
  <2>9. /\ Complete(J, A[n].files, A[n].facts, left, v)
        /\ SeenInv(J, A[n].files, A[n].facts, v)
        /\ rec.kind = "file" => NoFactSeen(A[n].facts)
    BY <2>1, <2>5, <2>7, <2>8, TookSnap
  <2>10. A[n].max <= v
    <3>1. A[n].max = IF rec.version > A[n - 1].max THEN rec.version ELSE A[n - 1].max
      BY <2>5 DEF Took
    <3> QED
      BY <2>1, <2>5, <3>1 DEF SnapRecord
  <2>11. AllFiles /\ NoFactSeen(h.facts) => NoFactSeen(A[n].facts)
    BY <2>2, <2>9
  <2> QED
    BY <2>1, <2>3, <2>9, <2>10, <2>11
<1> HIDE DEF T
<1>5. \A n \in 0 .. N : n \in T
  BY <1>1, <1>3, <1>4, AlongChunk
<1>6. /\ Folded(h, delta) = A[N] /\ N \in 0 .. N
      /\ Complete(J, A[N].files, A[N].facts, Left(N), v)
      /\ SeenInv(J, A[N].files, A[N].facts, v)
      /\ A[N].max <= v
      /\ AllFiles /\ NoFactSeen(h.facts) => NoFactSeen(A[N].facts)
  <2>1. N \in T
    BY <1>1, <1>5
  <2>2. Folded(h, delta) = A[N]
    BY DEF A, N, Folded
  <2> QED
    BY <1>1, <2>1, <2>2 DEF T
<1>7. Left(N) = rest
  <2>1. (N + 1) .. N = {}
    BY <1>1
  <2> QED
    BY <2>1
<1> QED
  BY <1>2, <1>6, <1>7

(* The last chunk of a snapshot: what is left in the projection is what the *)
(* journal held at the version the snapshot ends at.                        *)
LEMMA ReconciledUpTo ==
    ASSUME NEW acc \in Accs, NEW J, NEW c \in Nat, Sound(J, c), NEW v \in Nat,
           Complete(J, acc.files, acc.facts, {}, v), SeenInv(J, acc.files, acc.facts, v)
    PROVE  /\ UpTo(J, Reconciled(acc).files, Reconciled(acc).facts, v)
           /\ Behind(Reconciled(acc).files, Reconciled(acc).facts, v)
<1> DEFINE F == Reconciled(acc).files
           G == Reconciled(acc).facts
<1>1. \A s \in Sources :
        /\ F[s] = IF acc.files[s] # NoFile /\ acc.files[s].seen THEN acc.files[s] ELSE NoFile
        /\ \A k \in DerivedKinds : G[s][k] =
             IF /\ acc.files[s] # NoFile /\ acc.files[s].seen
                /\ acc.facts[s][k] # NoFact /\ acc.facts[s][k].seen
             THEN acc.facts[s][k] ELSE NoFact
  BY ReconciledTypes
<1> HIDE DEF F, G
<1>2. \A s \in Sources, k \in Kinds : J[s][k] # NoRecord => J[s][k].version \in Nat
  BY DEF Sound
<1>3. \A s \in Sources, k \in Kinds :
        Live(J[s][k]) /\ J[s][k].version <= v => ShownSeen(J, acc.files, acc.facts, s, k)
  BY DEF Complete
<1>4. UpTo(J, F, G, v)
  <2> SUFFICES ASSUME NEW s \in Sources, NEW k \in Kinds, J[s][k] = NoRecord \/ J[s][k].version <= v
               PROVE  Shown(J, F, G, s, k)
    BY DEF UpTo
  <2>1. CASE Live(J[s][k]) /\ k = "file"
    <3>1. ShownSeen(J, acc.files, acc.facts, s, "file")
      BY <1>3, <2>1 DEF Live
    <3> QED
      BY <1>1, <2>1, <3>1 DEF Shown, ShownSeen
  <2>2. CASE Live(J[s][k]) /\ k # "file"
    <3>1. k \in DerivedKinds /\ "file" \in Kinds /\ J[s][k] # NoRecord /\ J[s][k].version <= v
      BY <2>2, KindNames DEF Live
    <3>2. acc.facts[s][k] # NoFact /\ acc.facts[s][k].seen /\ acc.facts[s][k].payload = J[s][k].payload
      BY <1>3, <2>2, <3>1 DEF ShownSeen
    <3>3. acc.files[s] # NoFile /\ acc.files[s].seen
      <4>1. CASE k = "file_error"
        BY <3>2, <4>1 DEF SeenInv
      <4>2. CASE k \in FactKinds
        <5>1. Live(J[s]["file"]) /\ J[s]["file"].version < J[s][k].version
          BY <2>2, <4>2 DEF Sound, FactsFollow
        <5>2. J[s]["file"].version <= v
          BY <1>2, <3>1, <5>1 DEF Live
        <5> QED
          BY <1>3, <3>1, <5>1, <5>2 DEF ShownSeen
      <4> QED
        BY <3>1, <4>1, <4>2, KindNames
    <3> QED
      BY <1>1, <2>2, <3>1, <3>2, <3>3 DEF Shown
  <2>3. CASE ~Live(J[s][k]) /\ k = "file"
    <3> SUFFICES ASSUME F[s] # NoFile, F[s].rev # NoRev PROVE FALSE
      BY <2>3 DEF Shown
    <3>1. acc.files[s] # NoFile /\ acc.files[s].seen /\ acc.files[s].rev # NoRev
      BY <1>1
    <3>2. Explained(J, acc.files, acc.facts, s, "file", v)
      BY <3>1 DEF SeenInv
    <3> QED
      BY <1>2, <2>3, <3>2 DEF Explained
  <2>4. CASE ~Live(J[s][k]) /\ k # "file"
    <3> SUFFICES ASSUME G[s][k] # NoFact PROVE FALSE
      BY <2>4 DEF Shown
    <3>1. k \in DerivedKinds
      BY <2>4, KindNames
    <3>2. acc.facts[s][k] # NoFact /\ acc.facts[s][k].seen
      BY <1>1, <3>1
    <3>3. Explained(J, acc.files, acc.facts, s, k, v)
      BY <3>1, <3>2 DEF SeenInv
    <3> QED
      BY <1>2, <2>4, <3>3 DEF Explained
  <2> QED
    BY <2>1, <2>2, <2>3, <2>4
<1>5. Behind(F, G, v)
  BY <1>1 DEF Behind, SeenInv
<1> QED
  BY <1>4, <1>5 DEF F, G

(* Records that are all file rows, and records none of which is. *)
AllFiles(R) == \A r \in R : r.kind = "file"
NoFiles(R)  == \A r \in R : r.kind # "file"

(* The records of the running snapshot that the hub has not applied yet. *)
Block(h, q, y) ==
    {r \in WireRecords :
        \/ \E i \in DOMAIN q : SnapMsg(h, q, i) /\ r \in Records(q[i].records)
        \/ SnapOpen(y) /\ r \in y.rows}

(* The version the running snapshot will end at. *)
SnapEnd(h, q, y, v) ==
    \/ \E i \in DOMAIN q : SnapMsg(h, q, i) /\ q[i].done /\ q[i].through = v
    \/ SnapOpen(y) /\ y.stage = "streaming" /\ y.current = v

(* A snapshot that ends at v, with `rest` still to come. *)
Progress(J, h, rest, v) ==
    /\ h.row.max <= v
    /\ \A r \in rest : SnapRecord(J, r, v)
    /\ Complete(J, h.files, h.facts, rest, v)
    /\ SeenInv(J, h.files, h.facts, v)
    /\ ~NoFiles(rest) => NoFactSeen(h.facts)

(* The running snapshot gets to the version it will end at. *)
SnapInv(J, h, q, y) ==
    \A v \in Nat : SnapEnd(h, q, y, v) => Progress(J, h, Block(h, q, y), v)

(* A snapshot sends every file row before the first derived row. *)
FilesFirst(h, q, y) ==
    \A i \in DOMAIN q : SnapMsg(h, q, i) =>
        /\ AllFiles(Records(q[i].records)) \/ NoFiles(Records(q[i].records))
        /\ ~AllFiles(Records(q[i].records)) =>
            /\ \A j \in DOMAIN q : i < j /\ SnapMsg(h, q, j) => NoFiles(Records(q[j].records))
            /\ SnapOpen(y) => NoFiles(y.rows)

(* The projection shows the journal up to the hub's cursor. *)
CoverInv(J, h, e) ==
    h.row # NoRow /\ h.row.epoch = e /\ ~h.row.snap =>
        /\ UpTo(J, h.files, h.facts, h.row.version)
        /\ Behind(h.files, h.facts, h.row.version)

(* The invariant of what the projection shows. *)
ShowInv ==
    /\ CoverInv(journal, hub, epoch)
    /\ Active => SnapInv(journal, hub, toHub, sync) /\ FilesFirst(hub, toHub, sync)

(* A transaction leaves what was shown as true as it was. *)
LEMMA ShownMoved ==
    ASSUME NEW J, NEW K, NEW c \in Nat, Sound(J, c), Moved(J, K, c), NEW d \in Nat, Sound(K, d),
           NEW fs, NEW gs, NEW v \in Nat, v <= c
    PROVE  /\ UpTo(J, fs, gs, v) => UpTo(K, fs, gs, v)
           /\ SeenInv(J, fs, gs, v) => SeenInv(K, fs, gs, v)
           /\ \A rest : Complete(J, fs, gs, rest, v) => Complete(K, fs, gs, rest, v)
           /\ \A r : SnapRecord(J, r, v) => SnapRecord(K, r, v)
<1>1. \A s \in Sources, k \in Kinds : K[s][k] # NoRecord => K[s][k].version \in Nat
  BY DEF Sound
<1>2. \A s \in Sources, k \in Kinds :
        K[s][k] = J[s][k] \/ (K[s][k] # NoRecord /\ K[s][k].version > v)
  BY <1>1 DEF Moved
<1>3. \A s \in Sources, k \in Kinds :
        K[s][k] = NoRecord \/ K[s][k].version <= v => K[s][k] = J[s][k]
  BY <1>1, <1>2
<1>4. ASSUME UpTo(J, fs, gs, v) PROVE UpTo(K, fs, gs, v)
  BY <1>3, <1>4 DEF UpTo, Shown
<1>5. ASSUME SeenInv(J, fs, gs, v) PROVE SeenInv(K, fs, gs, v)
  <2>1. \A s \in Sources, k \in Kinds :
          Explained(J, fs, gs, s, k, v) => Explained(K, fs, gs, s, k, v)
    BY <1>2 DEF Explained, ShownSeen
  <2>2. "file" \in Kinds /\ \A k \in DerivedKinds : k \in Kinds
    BY KindNames
  <2> QED
    BY <1>5, <2>1, <2>2 DEF SeenInv
<1>6. ASSUME NEW rest, Complete(J, fs, gs, rest, v) PROVE Complete(K, fs, gs, rest, v)
  <2> SUFFICES ASSUME NEW s \in Sources, NEW k \in Kinds, Live(K[s][k]), K[s][k].version <= v
               PROVE  Cell(K, s, k) \in rest \/ ShownSeen(K, fs, gs, s, k)
    BY DEF Complete
  <2>1. K[s][k] = J[s][k]
    BY <1>3
  <2>2. Cell(K, s, k) = Cell(J, s, k) /\ (ShownSeen(J, fs, gs, s, k) => ShownSeen(K, fs, gs, s, k))
    BY <2>1 DEF Cell, ShownSeen
  <2> QED
    BY <1>6, <2>1, <2>2 DEF Complete
<1>7. ASSUME NEW r, SnapRecord(J, r, v) PROVE SnapRecord(K, r, v)
  BY <1>7, GenuineMoved DEF SnapRecord
<1> QED
  BY <1>4, <1>5, <1>6, <1>7

(* The version a snapshot ends at is one of the journal's. *)
LEMMA SnapEndTypes ==
    ASSUME LinkInv, Running, epoch \in Nat, current \in Nat, NEW v \in Nat, SnapEnd(hub, toHub, sync, v)
    PROVE  v <= current
<1>1. \A i \in DOMAIN toHub : toHub[i].through <= current
  BY EndTypes
<1>2. sync # NoSync /\ sync.stage = "streaming" => sync.current <= current
  BY DEF Running
<1> QED
  BY <1>1, <1>2 DEF SnapEnd, SnapOpen

(* The journal moves under the link. *)
LEMMA ShowMoves ==
    ASSUME JournalInv, LinkInv, FlowInv, ShowInv, JournalInv', Moves, epoch \in Nat,
           UNCHANGED <<toHub, toHost, sync, sent, hub, epoch>>
    PROVE  ShowInv'
<1>1. Sound(journal, current) /\ Sound(journal', current') /\ Moved(journal, journal', current)
  <2>1. Sound(journal, current)'
    BY JournalSound, PTL
  <2> QED
    BY <2>1, JournalSound, MovesMoved
<1>2. current \in Nat /\ current' \in Nat
  BY <1>1 DEF Sound
<1>3. CoverInv(journal', hub, epoch)
  <2> SUFFICES ASSUME hub.row # NoRow, hub.row.epoch = epoch, ~hub.row.snap
               PROVE  UpTo(journal', hub.files, hub.facts, hub.row.version)
    BY DEF CoverInv, ShowInv
  <2>1. hub.row.version \in Nat /\ hub.row.version <= current
    BY DEF LinkInv, SyncTypes, RowInv, Projections, CursorRows
  <2>2. UpTo(journal, hub.files, hub.facts, hub.row.version)
    BY DEF CoverInv, ShowInv
  <2> QED
    BY <1>1, <1>2, <2>1, <2>2, ShownMoved
<1>4. Active => SnapInv(journal', hub, toHub, sync)
  <2> SUFFICES ASSUME Active, NEW v \in Nat, SnapEnd(hub, toHub, sync, v)
               PROVE  Progress(journal', hub, Block(hub, toHub, sync), v)
    BY DEF SnapInv
  <2>1. Running
    BY PhaseOf DEF Active
  <2>2. v <= current
    BY <1>2, <2>1, SnapEndTypes
  <2>3. Progress(journal, hub, Block(hub, toHub, sync), v)
    BY DEF ShowInv, SnapInv
  <2>4. PICK rest : rest = Block(hub, toHub, sync)
    OBVIOUS
  <2>5. Progress(journal', hub, rest, v)
    BY <1>1, <1>2, <2>2, <2>3, <2>4, ShownMoved DEF Progress
  <2> QED
    BY <2>4, <2>5
<1>5. CoverInv(journal', hub', epoch')
  BY <1>3
<1>6. Active' => SnapInv(journal', hub', toHub', sync') /\ FilesFirst(hub', toHub', sync')
  BY <1>4 DEF ShowInv, Active
<1> QED
  BY <1>5, <1>6 DEF ShowInv

(* A stream that is not a snapshot changes nothing of one. *)
LEMMA OtherStream ==
    ASSUME NEW J, NEW h, NEW q, NEW y, NEW z, ~SnapOpen(y), ~SnapOpen(z)
    PROVE  /\ SnapInv(J, h, q, y) => SnapInv(J, h, q, z)
           /\ FilesFirst(h, q, y) => FilesFirst(h, q, z)
<1>1. Block(h, q, z) = Block(h, q, y)
  BY DEF Block
<1>2. \A v : SnapEnd(h, q, z, v) <=> SnapEnd(h, q, y, v)
  BY DEF SnapEnd
<1>3. ASSUME SnapInv(J, h, q, y) PROVE SnapInv(J, h, q, z)
  BY <1>1, <1>2, <1>3 DEF SnapInv
<1>4. ASSUME FilesFirst(h, q, y) PROVE FilesFirst(h, q, z)
  BY <1>4 DEF FilesFirst
<1> QED
  BY <1>3, <1>4

(* The cursor arrives: a snapshot is about to be read. *)
LEMMA ShowHostCursor ==
    ASSUME JournalInv, LinkInv, FlowInv, ShowInv, HostCursor
    PROVE  ShowInv'
<1>1. /\ Answered /\ Running'
      /\ sync' = Queued(hub.row.version, hub.row.snap)
      /\ toHub' = <<>> /\ UNCHANGED <<hub, journalVars>>
  BY HostCursorInv
<1>2. hub.row.version \in Nat /\ hub.row.snap \in BOOLEAN
  BY <1>1 DEF Answered, LinkInv, SyncTypes, Projections, CursorRows
<1>3. sync'.stage = "queued"
  BY <1>1, <1>2, QueuedTypes
<1>4. DOMAIN toHub' = {}
  BY <1>1
<1>5. SnapInv(journal', hub', toHub', sync') /\ FilesFirst(hub', toHub', sync')
  BY <1>3, <1>4 DEF SnapInv, SnapEnd, FilesFirst
<1>6. CoverInv(journal', hub', epoch')
  BY <1>1 DEF ShowInv, journalVars
<1> QED
  BY <1>5, <1>6 DEF ShowInv

(* A read transaction: everything is still to come. *)
LEMMA ShowBeginPages ==
    ASSUME JournalInv, LinkInv, FlowInv, ShowInv, BeginPages
    PROVE  ShowInv'
<1>0. [SyncNext]_vars
  BY DEF SyncNext, ProtocolStep
<1>1. /\ Running /\ sync' # NoSync
      /\ sync'.stage = "streaming" /\ sync'.current = current
      /\ sync'.rows = IF sync.snapshot THEN SnapshotRows ELSE ReplayRows(sync.start)
      /\ sync'.snapshot = sync.snapshot
  BY BeginPagesInv
<1>2. /\ sync # NoSync /\ sync.stage = "queued"
      /\ UNCHANGED <<toHub, toHost, sent, hub, journal, epoch>>
  BY DEF BeginPages, journalVars
<1>3. /\ StreamInv(journal, hub, toHub, sync, sent)
      /\ SnapInv(journal, hub, toHub, sync) /\ FilesFirst(hub, toHub, sync)
  BY <1>2 DEF FlowInv, ShowInv, Active
<1>4. epoch \in Nat /\ current \in Nat
  BY <1>0, SyncMoves
<1>5. CoverInv(journal', hub', epoch')
  BY <1>2 DEF ShowInv
<1>6. CASE ~sync.snapshot
  <2>1. ~SnapOpen(sync) /\ ~SnapOpen(sync')
    BY <1>1, <1>6 DEF SnapOpen
  <2>2. SnapInv(journal, hub, toHub, sync') /\ FilesFirst(hub, toHub, sync')
    BY <1>3, <2>1, OtherStream
  <2> QED
    BY <1>2, <1>5, <2>2 DEF ShowInv
<1>7. CASE sync.snapshot
  <2>1. toHub = <<>> /\ NothingSeen(hub) /\ hub.row.max = 0
    BY <1>2, <1>3, <1>7 DEF StreamInv
  <2>2. DOMAIN toHub = {}
    BY <2>1
  <2>3. SnapOpen(sync') /\ sync'.rows = SnapshotRows
    BY <1>1, <1>7 DEF SnapOpen
  <2>4. \A r \in SnapshotRows : Genuine(journal, r, current)
    <3>1. FlowInv'
      BY FlowBeginPages
    <3>2. StreamInv(journal, hub, toHub, sync', sent)
      BY <1>1, <1>2, <3>1 DEF FlowInv, Active
    <3> QED
      BY <1>1, <2>3, <3>2 DEF StreamInv
  <2>5. \A r \in SnapshotRows : r \in WireRecords /\ ~r.deleted /\ r.version <= current
    BY ReadRows DEF SnapshotRows, GoodRecord
  <2>6. Block(hub, toHub, sync') = SnapshotRows
    BY <2>2, <2>3, <2>5 DEF Block
  <2>7. Progress(journal, hub, SnapshotRows, current)
    <3>1. \A r \in SnapshotRows : SnapRecord(journal, r, current)
      BY <2>4, <2>5 DEF SnapRecord
    <3>2. SeenInv(journal, hub.files, hub.facts, current)
      BY <2>1, KindNames DEF SeenInv, NothingSeen
    <3>3. NoFactSeen(hub.facts)
      BY <2>1 DEF NothingSeen, NoFactSeen
    <3>4. Complete(journal, hub.files, hub.facts, SnapshotRows, current)
      <4> SUFFICES ASSUME NEW s \in Sources, NEW k \in Kinds, Live(journal[s][k])
                   PROVE  Cell(journal, s, k) \in SnapshotRows
        BY DEF Complete
      <4>1. journal[s][k] # NoRecord /\ ~journal[s][k].deleted
        BY DEF Live
      <4>2. journal[s][k].version \in Nat /\ 1 <= journal[s][k].version
            /\ AsRecord(s, k) = Cell(journal, s, k)
        BY <4>1, JournalSound DEF Sound
      <4>3. AsRecord(s, k) \in ReplayRows(0) /\ AsRecord(s, k).deleted = journal[s][k].deleted
        BY <4>1, <4>2, ReadRows, AsRecordGood
      <4> QED
        BY <4>1, <4>2, <4>3 DEF SnapshotRows
    <3> QED
      BY <1>4, <2>1, <3>1, <3>2, <3>3, <3>4 DEF Progress
  <2>8. SnapInv(journal, hub, toHub, sync')
    <3> SUFFICES ASSUME NEW v \in Nat, SnapEnd(hub, toHub, sync', v)
                 PROVE  Progress(journal, hub, Block(hub, toHub, sync'), v)
      BY DEF SnapInv
    <3>1. v = current
      BY <1>1, <2>2 DEF SnapEnd
    <3> QED
      BY <2>6, <2>7, <3>1
  <2>9. FilesFirst(hub, toHub, sync')
    BY <2>2 DEF FilesFirst
  <2> QED
    BY <1>2, <1>5, <2>8, <2>9 DEF ShowInv
<1> QED
  BY <1>6, <1>7

(* A stream is over, or the next one is scheduled. *)
LEMMA ShowSchedule ==
    ASSUME JournalInv, LinkInv, FlowInv, ShowInv, SyncJoined \/ VersionsChanged
    PROVE  ShowInv'
<1>1. /\ UNCHANGED <<link, toHub, toHost, hub, hostAck, journalVars>>
      /\ \/ UNCHANGED <<sync, sent>>
         \/ /\ Running /\ sent' \in Nat
            /\ sync' = NoSync \/ sync' = Queued(sent', FALSE)
            /\ \/ sync # NoSync /\ sync.stage = "joined" /\ sent' = sync.current
               \/ sync = NoSync /\ sent' = sent
  BY ScheduleInv
<1>2. UNCHANGED <<journal, hub, toHub, epoch>>
  BY <1>1 DEF journalVars
<1>3. CASE UNCHANGED <<sync, sent>>
  BY <1>2, <1>3 DEF ShowInv, Active
<1>4. CASE ~UNCHANGED <<sync, sent>>
  <2>1. Active /\ ~SnapOpen(sync)
    BY <1>1, <1>4, SyncAssumption DEF Active, SnapOpen
  <2>2. sync' # NoSync => sync'.snapshot = FALSE
    BY <1>1, <1>4, QueuedTypes
  <2>3. ~SnapOpen(sync')
    BY <2>2 DEF SnapOpen
  <2>4. SnapInv(journal, hub, toHub, sync) /\ FilesFirst(hub, toHub, sync)
    BY <2>1 DEF ShowInv
  <2>5. SnapInv(journal, hub, toHub, sync') /\ FilesFirst(hub, toHub, sync')
    BY <2>1, <2>3, <2>4, OtherStream
  <2> QED
    BY <1>2, <2>5 DEF ShowInv
<1> QED
  BY <1>3, <1>4

(* A message that is not of the snapshot is added behind it. *)
LEMMA OtherSent ==
    ASSUME NEW J, NEW h, NEW q, NEW p, NEW y, NEW z, Longer(q, p), ~SnapMsg(h, q, Len(q) + 1),
           ~SnapOpen(y), ~SnapOpen(z), SnapInv(J, h, q, y), FilesFirst(h, q, y)
    PROVE  SnapInv(J, h, p, z) /\ FilesFirst(h, p, z)
<1>1. /\ DOMAIN q = 1 .. Len(q) /\ DOMAIN p = 1 .. (Len(q) + 1) /\ Len(q) \in Nat
      /\ \A i \in DOMAIN q : i \in DOMAIN p /\ p[i] = q[i]
      /\ \A i \in DOMAIN p : i \in DOMAIN q \/ i = Len(q) + 1
  BY DEF Longer
<1>2. \A i \in DOMAIN p : SnapMsg(h, p, i) <=> SnapMsg(h, q, i)
  BY <1>1, LongerFlow
<1>3. \A i \in DOMAIN p : SnapMsg(h, p, i) => i \in DOMAIN q /\ p[i] = q[i] /\ SnapMsg(h, q, i)
  BY <1>1, <1>2
<1>4. Block(h, p, z) = Block(h, q, y)
  BY <1>1, <1>2, <1>3 DEF Block
<1>5. ASSUME NEW v \in Nat, SnapEnd(h, p, z, v) PROVE SnapEnd(h, q, y, v)
  BY <1>3, <1>5 DEF SnapEnd
<1>6. SnapInv(J, h, p, z)
  BY <1>4, <1>5 DEF SnapInv
<1>7. FilesFirst(h, p, z)
  BY <1>3 DEF FilesFirst
<1> QED
  BY <1>6, <1>7

(* A snapshot sends its next message: what was to come is still to come. *)
LEMMA SnapSent ==
    ASSUME NEW J, NEW h, NEW q, NEW p, NEW y, NEW z, NEW d, NEW R, Longer(q, p),
           d = p[Len(q) + 1], R = Records(d.records),
           SnapOpen(y), y.stage = "streaming", SnapMsg(h, q, Len(q) + 1),
           R \subseteq y.rows, y.rows \subseteq WireRecords,
           d.done => d.through = y.current,
           SnapOpen(z) => z.rows = y.rows \ R /\ z.current = y.current,
           ~SnapOpen(z) => y.rows = R,
           AllFiles(R) \/ NoFiles(y.rows),
           SnapInv(J, h, q, y), FilesFirst(h, q, y)
    PROVE  SnapInv(J, h, p, z) /\ FilesFirst(h, p, z)
<1>1. /\ DOMAIN q = 1 .. Len(q) /\ DOMAIN p = 1 .. (Len(q) + 1) /\ Len(q) \in Nat
      /\ \A i \in DOMAIN q : i \in DOMAIN p /\ p[i] = q[i] /\ i < Len(q) + 1
      /\ \A i \in DOMAIN p : i \in DOMAIN q \/ i = Len(q) + 1
      /\ Len(q) + 1 \in DOMAIN p
  BY DEF Longer
<1>2. \A i \in DOMAIN p : SnapMsg(h, p, i) <=> SnapMsg(h, q, i)
  BY <1>1, LongerFlow
<1>3. Block(h, p, z) = Block(h, q, y)
  <2>1. ASSUME NEW r \in Block(h, p, z) PROVE r \in Block(h, q, y)
    <3>1. CASE SnapOpen(z) /\ r \in z.rows
      BY <2>1, <3>1 DEF Block
    <3>2. CASE \E i \in DOMAIN p : SnapMsg(h, p, i) /\ r \in Records(p[i].records)
      <4>1. PICK i \in DOMAIN p : SnapMsg(h, p, i) /\ r \in Records(p[i].records)
        BY <3>2
      <4>2. CASE i \in DOMAIN q
        BY <1>1, <1>2, <2>1, <4>1, <4>2 DEF Block
      <4>3. CASE i = Len(q) + 1
        BY <2>1, <4>1, <4>3 DEF Block
      <4> QED
        BY <1>1, <4>2, <4>3
    <3> QED
      BY <2>1, <3>1, <3>2 DEF Block
  <2>2. ASSUME NEW r \in Block(h, q, y) PROVE r \in Block(h, p, z)
    <3>1. CASE r \in R
      <4>1. SnapMsg(h, p, Len(q) + 1) /\ r \in Records(p[Len(q) + 1].records)
        BY <1>1, <1>2, <3>1
      <4> QED
        BY <1>1, <2>2, <4>1 DEF Block
    <3>2. CASE r \in y.rows /\ r \notin R
      <4>1. SnapOpen(z) /\ r \in z.rows
        BY <3>2
      <4> QED
        BY <2>2, <4>1 DEF Block
    <3>3. CASE \E i \in DOMAIN q : SnapMsg(h, q, i) /\ r \in Records(q[i].records)
      BY <1>1, <1>2, <2>2, <3>3 DEF Block
    <3> QED
      BY <2>2, <3>1, <3>2, <3>3 DEF Block
  <2> QED
    BY <2>1, <2>2
<1>4. ASSUME NEW v \in Nat, SnapEnd(h, p, z, v) PROVE SnapEnd(h, q, y, v)
  <2>1. CASE SnapOpen(z) /\ z.current = v
    BY <2>1 DEF SnapEnd
  <2>2. CASE \E i \in DOMAIN p : SnapMsg(h, p, i) /\ p[i].done /\ p[i].through = v
    <3>1. PICK i \in DOMAIN p : SnapMsg(h, p, i) /\ p[i].done /\ p[i].through = v
      BY <2>2
    <3>2. CASE i \in DOMAIN q
      BY <1>1, <1>2, <3>1, <3>2 DEF SnapEnd
    <3>3. CASE i = Len(q) + 1
      BY <3>1, <3>3 DEF SnapEnd
    <3> QED
      BY <1>1, <3>2, <3>3
  <2> QED
    BY <1>4, <2>1, <2>2 DEF SnapEnd
<1>5. SnapInv(J, h, p, z)
  BY <1>3, <1>4 DEF SnapInv
<1>6. FilesFirst(h, p, z)
  <2> SUFFICES ASSUME NEW i \in DOMAIN p, SnapMsg(h, p, i)
               PROVE  /\ AllFiles(Records(p[i].records)) \/ NoFiles(Records(p[i].records))
                      /\ ~AllFiles(Records(p[i].records)) =>
                          /\ \A j \in DOMAIN p : i < j /\ SnapMsg(h, p, j) => NoFiles(Records(p[j].records))
                          /\ SnapOpen(z) => NoFiles(z.rows)
    BY DEF FilesFirst
  <2>1. NoFiles(y.rows) => NoFiles(R) /\ (SnapOpen(z) => NoFiles(z.rows))
    BY DEF NoFiles
  <2>2. CASE i = Len(q) + 1
    <3>1. \A j \in DOMAIN p : ~(i < j)
      BY <1>1, <2>2
    <3> QED
      BY <2>1, <2>2, <3>1
  <2>3. CASE i \in DOMAIN q
    <3>1. /\ p[i] = q[i] /\ SnapMsg(h, q, i)
          /\ AllFiles(Records(q[i].records)) \/ NoFiles(Records(q[i].records))
          /\ ~AllFiles(Records(q[i].records)) =>
                /\ \A j \in DOMAIN q : i < j /\ SnapMsg(h, q, j) => NoFiles(Records(q[j].records))
                /\ NoFiles(y.rows)
      BY <1>1, <1>2, <2>3 DEF FilesFirst
    <3>2. \A j \in DOMAIN p : SnapMsg(h, p, j) =>
            \/ j \in DOMAIN q /\ p[j] = q[j] /\ SnapMsg(h, q, j)
            \/ Records(p[j].records) = R
      BY <1>1, <1>2
    <3> QED
      BY <2>1, <3>1, <3>2
  <2> QED
    BY <1>1, <2>2, <2>3
<1> QED
  BY <1>5, <1>6

(* send_catalog_pages. *)
LEMMA ShowSendChunk ==
    ASSUME JournalInv, LinkInv, FlowInv, ShowInv, SendChunk
    PROVE  ShowInv'
<1>1. /\ Running /\ sync.stage = "streaming" /\ SameStream
      /\ UNCHANGED <<link, toHost, sent, hub, hostAck, journalVars>>
  BY SendChunkInv
<1>2. PICK d : Queues(d)
  BY SendChunkInv
<1>3. PICK n \in Nat \ {0}, chunk \in Seq(WireRecords) : SentChunk(n, chunk)
  BY SendChunkInv
<1>4. /\ Longer(toHub, toHub') /\ d = toHub'[Len(toHub) + 1]
      /\ Len(toHub) \in Nat /\ DOMAIN toHub = 1 .. Len(toHub) /\ (Len(toHub) + 1) - 1 = Len(toHub)
  BY <1>2 DEF Queues, Longer
<1>5. /\ sync # NoSync /\ sync' # NoSync /\ sync'.snapshot = sync.snapshot
      /\ sync'.current = sync.current
  BY <1>1 DEF SameStream
<1>6. /\ OpenInv(hub, toHub, sync)
      /\ SnapInv(journal, hub, toHub, sync) /\ FilesFirst(hub, toHub, sync)
  BY <1>5 DEF FlowInv, ShowInv, Active
<1>7. UNCHANGED <<journal, hub, epoch>>
  BY <1>1 DEF journalVars
<1>8. CASE ~sync.snapshot
  <2>1. ~SnapOpen(sync) /\ ~SnapOpen(sync')
    BY <1>5, <1>8 DEF SnapOpen
  <2>2. ~SnapMsg(hub, toHub, Len(toHub) + 1)
    BY <1>4, <1>6, <2>1 DEF OpenInv, SnapMsg
  <2>3. SnapInv(journal, hub, toHub', sync') /\ FilesFirst(hub, toHub', sync')
    BY <1>4, <1>6, <2>1, <2>2, OtherSent
  <2> QED
    BY <1>7, <2>3 DEF ShowInv
<1>9. CASE sync.snapshot
  <2>1. SnapOpen(sync)
    BY <1>1, <1>5, <1>9 DEF SnapOpen
  <2>2. SnapMsg(hub, toHub, Len(toHub) + 1)
    BY <1>4, <1>6, <2>1 DEF OpenInv, SnapMsg
  <2>3. PICK R : R = Records(chunk)
    OBVIOUS
  <2>4. /\ R \subseteq Pool /\ R = Records(d.records)
        /\ d.done <=> sync.rows \ R = {} /\ ~InFiles
        /\ d.done => d.through = sync.current
        /\ sync'.rows = sync.rows \ R
        /\ sync'.stage = IF sync.rows \ R = {} /\ ~InFiles THEN "joined" ELSE "streaming"
    BY <1>3, <1>4, <2>3 DEF SentChunk
  <2>5. Pool \subseteq sync.rows /\ (InFiles => AllFiles(Pool)) /\ (~InFiles => NoFiles(sync.rows))
    BY <1>9 DEF Pool, InFiles, AllFiles, NoFiles
  <2>6. AllFiles(R) \/ NoFiles(sync.rows)
    BY <2>4, <2>5 DEF AllFiles
  <2>7. ~SnapOpen(sync') => sync.rows = R
    BY <1>5, <1>9, <2>4, <2>5 DEF SnapOpen
  <2>8. sync.rows \subseteq WireRecords
    BY <1>5, StreamTypes DEF LinkInv
  <2>9. R \subseteq sync.rows
    BY <2>4, <2>5
  <2>10. SnapOpen(sync') => sync'.rows = sync.rows \ R /\ sync'.current = sync.current
    BY <1>5, <2>4
  <2>11. SnapInv(journal, hub, toHub', sync') /\ FilesFirst(hub, toHub', sync')
    <3>1. R = Records(d.records) /\ (d.done => d.through = sync.current)
      BY <2>4
    <3>2. /\ Longer(toHub, toHub') /\ d = toHub'[Len(toHub) + 1] /\ sync.stage = "streaming"
          /\ SnapInv(journal, hub, toHub, sync) /\ FilesFirst(hub, toHub, sync)
      BY <1>1, <1>4, <1>6
    <3> QED
      BY <2>1, <2>2, <2>6, <2>7, <2>8, <2>9, <2>10, <3>1, <3>2, SnapSent, ZenonT(40)
  <2> QED
    BY <1>7, <2>11 DEF ShowInv
<1> QED
  BY <1>8, <1>9

(* The end of a stream without rows. *)
LEMMA ShowSendEmpty ==
    ASSUME JournalInv, LinkInv, FlowInv, ShowInv, SendEmpty
    PROVE  ShowInv'
<1>1. /\ Running /\ sync.stage = "streaming" /\ SameStream
      /\ sync'.stage = "joined" /\ sync.rows = {}
      /\ \/ sync.snapshot /\ SentEmpty /\ \E d : Queues(d)
         \/ ~sync.snapshot /\ sync.current # sync.start /\ SentEmpty /\ \E d : Queues(d)
         \/ ~sync.snapshot /\ sync.current = sync.start /\ toHub' = toHub
      /\ UNCHANGED <<link, toHost, sent, hub, hostAck, journalVars>>
  BY SendEmptyInv
<1>2. /\ sync # NoSync /\ sync' # NoSync /\ sync'.snapshot = sync.snapshot
  BY <1>1 DEF SameStream
<1>3. /\ OpenInv(hub, toHub, sync)
      /\ SnapInv(journal, hub, toHub, sync) /\ FilesFirst(hub, toHub, sync)
  BY <1>2 DEF FlowInv, ShowInv, Active
<1>4. UNCHANGED <<journal, hub, epoch>>
  BY <1>1 DEF journalVars
<1>5. ~SnapOpen(sync') /\ (SnapOpen(sync) <=> sync.snapshot)
  BY <1>1, <1>2 DEF SnapOpen
<1>6. CASE ~sync.snapshot /\ toHub' = toHub
  <2>1. SnapInv(journal, hub, toHub, sync') /\ FilesFirst(hub, toHub, sync')
    BY <1>3, <1>5, <1>6, OtherStream
  <2> QED
    BY <1>4, <1>6, <2>1 DEF ShowInv
<1>7. CASE SentEmpty /\ \E d : Queues(d)
  <2>1. PICK d : Queues(d)
    BY <1>7
  <2>2. /\ Longer(toHub, toHub') /\ d = toHub'[Len(toHub) + 1]
        /\ Len(toHub) \in Nat /\ DOMAIN toHub = 1 .. Len(toHub) /\ (Len(toHub) + 1) - 1 = Len(toHub)
    BY <2>1 DEF Queues, Longer
  <2>3. CASE ~sync.snapshot
    <3>1. ~SnapMsg(hub, toHub, Len(toHub) + 1)
      BY <1>3, <1>5, <2>2, <2>3 DEF OpenInv, SnapMsg
    <3>2. SnapInv(journal, hub, toHub', sync') /\ FilesFirst(hub, toHub', sync')
      BY <1>3, <1>5, <2>2, <2>3, <3>1, OtherSent
    <3> QED
      BY <1>4, <3>2 DEF ShowInv
  <2>4. CASE sync.snapshot
    <3>1. SnapMsg(hub, toHub, Len(toHub) + 1)
      BY <1>3, <1>5, <2>2, <2>4 DEF OpenInv, SnapMsg
    <3>2. PICK R : R = Records(d.records)
      OBVIOUS
    <3>3. R = {} /\ d.through = sync.current
      BY <1>7, <2>2, <3>2 DEF SentEmpty, Records
    <3>4. R \subseteq sync.rows /\ sync.rows \subseteq WireRecords /\ NoFiles(sync.rows) /\ sync.rows = R
      BY <1>1, <3>3 DEF NoFiles
    <3>5. SnapInv(journal, hub, toHub', sync') /\ FilesFirst(hub, toHub', sync')
      BY <1>1, <1>3, <1>5, <2>2, <2>4, <3>1, <3>2, <3>3, <3>4, SnapSent
    <3> QED
      BY <1>4, <3>5 DEF ShowInv
  <2> QED
    BY <2>3, <2>4
<1> QED
  BY <1>1, <1>6, <1>7

(* The hub takes a message of a snapshot that is not its last. *)
LEMMA ShorterSnap ==
    ASSUME NEW h, NEW p, NEW q, NEW t, NEW y, NEW R, Shorter(q, t), Advanced(h, p, q),
           h.row.snap, ~q[1].done, R = Records(q[1].records), R \subseteq WireRecords,
           FilesFirst(h, q, y)
    PROVE  /\ Block(h, q, y) = Block(p, t, y) \cup R
           /\ \A v : SnapEnd(p, t, y, v) => SnapEnd(h, q, y, v)
           /\ FilesFirst(p, t, y)
           /\ AllFiles(R) \/ NoFiles(R)
           /\ AllFiles(R) \/ NoFiles(Block(p, t, y))
<1>1. /\ \A i \in DOMAIN t : /\ i + 1 \in DOMAIN q /\ t[i] = q[i + 1] /\ 1 < i + 1
                             /\ SnapMsg(p, t, i) <=> SnapMsg(h, q, i + 1)
      /\ 1 \in DOMAIN q
      /\ \A i \in DOMAIN q : i = 1 \/ (i - 1 \in DOMAIN t /\ (i - 1) + 1 = i)
      /\ \A i, j \in DOMAIN t : i < j => i + 1 < j + 1
  <2>1. \A i \in 1 .. Len(q) : SnapMsg(p, t, i) <=> SnapMsg(h, q, i + 1)
    BY ShorterFlow
  <2>2. DOMAIN q = 1 .. Len(q) /\ DOMAIN t = 1 .. (Len(q) - 1) /\ Len(q) \in Nat /\ Len(q) >= 1
        /\ \A i \in DOMAIN t : t[i] = q[i + 1]
    BY DEF Shorter
  <2>3. \A i \in DOMAIN t : i \in 1 .. Len(q) /\ i + 1 \in DOMAIN q /\ 1 < i + 1
    BY <2>2
  <2>4. /\ 1 \in DOMAIN q
        /\ \A i \in DOMAIN q : i = 1 \/ (i - 1 \in DOMAIN t /\ (i - 1) + 1 = i)
        /\ \A i, j \in DOMAIN t : i < j => i + 1 < j + 1
    BY <2>2
  <2> QED
    BY <2>1, <2>2, <2>3, <2>4
<1>2. SnapMsg(h, q, 1)
  <2>1. 1 .. (1 - 1) = {}
    OBVIOUS
  <2> QED
    BY <2>1 DEF SnapMsg
<1>3. Block(h, q, y) = Block(p, t, y) \cup R
  <2>1. ASSUME NEW r \in Block(h, q, y), r \notin R PROVE r \in Block(p, t, y)
    <3>1. CASE SnapOpen(y) /\ r \in y.rows
      BY <2>1, <3>1 DEF Block
    <3>2. CASE \E i \in DOMAIN q : SnapMsg(h, q, i) /\ r \in Records(q[i].records)
      <4>1. PICK i \in DOMAIN q : SnapMsg(h, q, i) /\ r \in Records(q[i].records)
        BY <3>2
      <4>2. i # 1
        BY <2>1, <4>1
      <4>3. PICK j \in DOMAIN t : j + 1 = i
        BY <1>1, <4>2
      <4>4. SnapMsg(p, t, j) /\ r \in Records(t[j].records)
        BY <1>1, <4>1, <4>3
      <4> QED
        BY <2>1, <4>4 DEF Block
    <3> QED
      BY <2>1, <3>1, <3>2 DEF Block
  <2>2. ASSUME NEW r \in Block(p, t, y) PROVE r \in Block(h, q, y)
    <3>1. CASE SnapOpen(y) /\ r \in y.rows
      BY <2>2, <3>1 DEF Block
    <3>2. CASE \E i \in DOMAIN t : SnapMsg(p, t, i) /\ r \in Records(t[i].records)
      BY <1>1, <2>2, <3>2 DEF Block
    <3> QED
      BY <2>2, <3>1, <3>2 DEF Block
  <2>3. ASSUME NEW r \in R PROVE r \in Block(h, q, y)
    BY <1>1, <1>2 DEF Block
  <2> QED
    BY <2>1, <2>2, <2>3
<1>4. ASSUME NEW v, SnapEnd(p, t, y, v) PROVE SnapEnd(h, q, y, v)
  <2>1. CASE SnapOpen(y) /\ y.stage = "streaming" /\ y.current = v
    BY <2>1 DEF SnapEnd
  <2>2. CASE \E i \in DOMAIN t : SnapMsg(p, t, i) /\ t[i].done /\ t[i].through = v
    BY <1>1, <2>2 DEF SnapEnd
  <2> QED
    BY <1>4, <2>1, <2>2 DEF SnapEnd
<1>5. FilesFirst(p, t, y)
  <2> SUFFICES ASSUME NEW i \in DOMAIN t, SnapMsg(p, t, i)
               PROVE  /\ AllFiles(Records(t[i].records)) \/ NoFiles(Records(t[i].records))
                      /\ ~AllFiles(Records(t[i].records)) =>
                          /\ \A j \in DOMAIN t : i < j /\ SnapMsg(p, t, j) => NoFiles(Records(t[j].records))
                          /\ SnapOpen(y) => NoFiles(y.rows)
    BY DEF FilesFirst
  <2>1. /\ i + 1 \in DOMAIN q /\ SnapMsg(h, q, i + 1) /\ t[i] = q[i + 1]
    BY <1>1
  <2>2. /\ AllFiles(Records(q[i + 1].records)) \/ NoFiles(Records(q[i + 1].records))
        /\ ~AllFiles(Records(q[i + 1].records)) =>
            /\ \A j \in DOMAIN q : i + 1 < j /\ SnapMsg(h, q, j) => NoFiles(Records(q[j].records))
            /\ SnapOpen(y) => NoFiles(y.rows)
    BY <2>1 DEF FilesFirst
  <2>3. \A j \in DOMAIN t : i < j /\ SnapMsg(p, t, j) =>
            j + 1 \in DOMAIN q /\ i + 1 < j + 1 /\ SnapMsg(h, q, j + 1) /\ t[j] = q[j + 1]
    BY <1>1
  <2> QED
    BY <2>1, <2>2, <2>3
<1>6. /\ AllFiles(R) \/ NoFiles(R)
      /\ ~AllFiles(R) =>
            /\ \A j \in DOMAIN q : 1 < j /\ SnapMsg(h, q, j) => NoFiles(Records(q[j].records))
            /\ SnapOpen(y) => NoFiles(y.rows)
  BY <1>1, <1>2 DEF FilesFirst
<1>7. AllFiles(R) \/ NoFiles(Block(p, t, y))
  <2> SUFFICES ASSUME ~AllFiles(R), NEW r \in Block(p, t, y) PROVE r.kind # "file"
    BY DEF NoFiles
  <2>1. CASE SnapOpen(y) /\ r \in y.rows
    BY <1>6, <2>1 DEF NoFiles
  <2>2. CASE \E i \in DOMAIN t : SnapMsg(p, t, i) /\ r \in Records(t[i].records)
    <3>1. PICK i \in DOMAIN t : SnapMsg(p, t, i) /\ r \in Records(t[i].records)
      BY <2>2
    <3>2. i + 1 \in DOMAIN q /\ 1 < i + 1 /\ SnapMsg(h, q, i + 1) /\ r \in Records(q[i + 1].records)
      BY <1>1, <3>1
    <3> QED
      BY <1>6, <3>2 DEF NoFiles
  <2> QED
    BY <2>1, <2>2 DEF Block
<1> QED
  BY <1>3, <1>4, <1>5, <1>6, <1>7

(* The hub applies a chunk. *)
LEMMA ShowHubApply ==
    ASSUME JournalInv, LinkInv, FlowInv, ShowInv, HubApply
    PROVE  ShowInv'
<1> DEFINE d == toHub[1]
           R == Records(d.records)
           A == Folded(hub, d)
<1>0. [SyncNext]_vars
  BY DEF SyncNext, ProtocolStep
<1>1. /\ Running /\ Active /\ 1 \in DOMAIN toHub
      /\ GoodDelta(d) /\ hub \in Projections /\ hub.row \in CursorRows
      /\ Committed(hub, d, hub', ApplyCatalogue(hub, d).ack)
      /\ Shorter(toHub, toHub') /\ Advanced(hub, hub', toHub)
      /\ hub'.row.snap <=> (hub.row.snap /\ ~d.done)
      /\ hub'.row.version = d.through
      /\ hub.row.snap <=> SnapMsg(hub, toHub, 1)
      /\ ~hub.row.snap => Increment(journal, hub.row.version, d)
      /\ UNCHANGED <<sync, sent, journalVars>>
  BY ChunkMovesRow
<1>2. /\ A.ok /\ hub'.row = NextRow(hub, d)
      /\ hub'.files = Settled(hub, d).files /\ hub'.facts = Settled(hub, d).facts
  BY <1>1 DEF Committed
<1>3. /\ OpenInv(hub, toHub, sync)
      /\ SnapInv(journal, hub, toHub, sync) /\ FilesFirst(hub, toHub, sync)
  BY <1>1 DEF FlowInv, ShowInv
<1>4. Sound(journal, current) /\ current \in Nat /\ epoch \in Nat
  BY <1>0, JournalSound, SyncMoves
<1>5. hub.row # NoRow /\ hub.row.epoch = epoch
  BY <1>1 DEF Running
<1>6. /\ d.through \in Nat
      /\ R \subseteq WireRecords
      /\ R = {d.records[n] : n \in DOMAIN d.records}
  BY <1>1 DEF GoodDelta, Deltas, GoodRecord, Records
<1>7. UNCHANGED <<journal, epoch, sync, sent>>
  BY <1>1 DEF journalVars
<1> HIDE DEF d, R, A
<1>8. A \in Accs
  <2>1. /\ \A n \in 0 .. Len(d.records) : Applied(hub, d)[n] \in Accs
        /\ Len(d.records) \in Nat
    BY <1>1, ChunkSteps
  <2> QED
    BY <2>1 DEF A, Folded
(* What the next chunk of a running snapshot does. *)
<1>9. ASSUME hub.row.snap, NEW v \in Nat, NEW rest,
             Progress(journal, hub, rest \cup R, v),
             AllFiles(R) \/ NoFiles(R)
      PROVE  /\ Complete(journal, A.files, A.facts, rest, v)
             /\ SeenInv(journal, A.files, A.facts, v)
             /\ A.max <= v
             /\ AllFiles(R) /\ NoFactSeen(hub.facts) => NoFactSeen(A.facts)
  <2>1. /\ hub.row.max <= v
        /\ Complete(journal, hub.files, hub.facts, rest \cup R, v)
        /\ SeenInv(journal, hub.files, hub.facts, v)
        /\ \A r \in R : SnapRecord(journal, r, v)
        /\ ~NoFiles(rest \cup R) => NoFactSeen(hub.facts)
    BY <1>9 DEF Progress
  <2>2. /\ \A n \in DOMAIN d.records : SnapRecord(journal, d.records[n], v)
        /\ AllFiles(R) <=> \A n \in DOMAIN d.records : d.records[n].kind = "file"
        /\ NoFiles(R) <=> \A n \in DOMAIN d.records : d.records[n].kind # "file"
    BY <1>6, <2>1 DEF AllFiles, NoFiles
  <2>3. (\E n \in DOMAIN d.records : d.records[n].kind = "file") => NoFactSeen(hub.facts)
    BY <2>1, <2>2 DEF NoFiles
  <2>4. \/ \A n \in DOMAIN d.records : d.records[n].kind = "file"
        \/ \A n \in DOMAIN d.records : d.records[n].kind # "file"
    BY <1>9, <2>2
  <2>5. Complete(journal, hub.files, hub.facts, rest \cup Records(d.records), v)
    BY <2>1 DEF R
  <2>6. Folded(hub, d).ok
    BY <1>2 DEF A
  <2>7. \A n \in DOMAIN d.records : SnapRecord(journal, d.records[n], v)
    BY <2>2
  <2>8. hub.row.max <= v /\ SeenInv(journal, hub.files, hub.facts, v)
    BY <2>1
  <2>9. /\ Complete(journal, Folded(hub, d).files, Folded(hub, d).facts, rest, v)
        /\ SeenInv(journal, Folded(hub, d).files, Folded(hub, d).facts, v)
        /\ Folded(hub, d).max <= v
        /\ (\A n \in DOMAIN d.records : d.records[n].kind = "file") /\ NoFactSeen(hub.facts)
                => NoFactSeen(Folded(hub, d).facts)
    BY <1>1, <1>4, <1>9, <2>3, <2>4, <2>5, <2>6, <2>7, <2>8, FoldedSnap
  <2> QED
    BY <2>2, <2>9 DEF A
<1>10. CASE ~hub.row.snap
  <2>1. UpTo(journal, hub.files, hub.facts, hub.row.version) /\ Behind(hub.files, hub.facts, hub.row.version)
    BY <1>5, <1>10 DEF ShowInv, CoverInv
  <2>2. UpTo(journal, Folded(hub, d).files, Folded(hub, d).facts, d.through)
        /\ Behind(Folded(hub, d).files, Folded(hub, d).facts, d.through)
    <3>1. Folded(hub, d).ok /\ Increment(journal, hub.row.version, d)
      BY <1>1, <1>2, <1>10 DEF A
    <3> QED
      BY <1>1, <1>4, <1>10, <2>1, <3>1, FoldedUpTo
  <2>3. hub'.files = Folded(hub, d).files /\ hub'.facts = Folded(hub, d).facts
    BY <1>2, <1>10 DEF Settled
  <2>4. CoverInv(journal, hub', epoch)
    BY <1>1, <2>2, <2>3 DEF CoverInv
  <2>5. ~hub'.row.snap /\ ~SnapOpen(sync)
    BY <1>1, <1>3, <1>10 DEF OpenInv
  <2>6. SnapInv(journal, hub', toHub', sync) /\ FilesFirst(hub', toHub', sync)
    BY <2>5 DEF SnapInv, SnapEnd, FilesFirst, SnapMsg
  <2> QED
    BY <1>7, <2>4, <2>6 DEF ShowInv
<1>11. CASE hub.row.snap /\ d.done
  <2>1. ~SnapOpen(sync)
    BY <1>1, <1>3, <1>11 DEF OpenInv, d
  <2>2. SnapMsg(hub, toHub, 1)
    BY <1>1, <1>11
  <2>3. SnapEnd(hub, toHub, sync, d.through)
    BY <1>1, <1>11, <2>2 DEF SnapEnd, d
  <2>4. Block(hub, toHub, sync) = R
    <3>1. \A i \in DOMAIN toHub : SnapMsg(hub, toHub, i) => i = 1
      <4> SUFFICES ASSUME NEW i \in DOMAIN toHub, SnapMsg(hub, toHub, i), i # 1 PROVE FALSE
        OBVIOUS
      <4>1. 1 \in 1 .. (i - 1)
        BY <1>1 DEF Shorter
      <4> QED
        BY <1>11, <4>1 DEF SnapMsg, d
    <3> QED
      BY <1>1, <1>6, <2>1, <2>2, <3>1 DEF Block, R, d
  <2>5. Progress(journal, hub, {} \cup R, d.through)
    <3>1. {} \cup R = R
      OBVIOUS
    <3> QED
      BY <1>3, <1>6, <2>3, <2>4, <3>1 DEF SnapInv
  <2>6. AllFiles(R) \/ NoFiles(R)
    BY <1>1, <1>3, <2>2 DEF FilesFirst, R, d
  <2>7. Complete(journal, A.files, A.facts, {}, d.through) /\ SeenInv(journal, A.files, A.facts, d.through)
    BY <1>6, <1>9, <1>11, <2>5, <2>6
  <2>8. UpTo(journal, Reconciled(A).files, Reconciled(A).facts, d.through)
        /\ Behind(Reconciled(A).files, Reconciled(A).facts, d.through)
    BY <1>4, <1>6, <1>8, <2>7, ReconciledUpTo
  <2>9. hub'.files = Reconciled(A).files /\ hub'.facts = Reconciled(A).facts
    BY <1>2, <1>11 DEF Settled, A
  <2>10. CoverInv(journal, hub', epoch)
    BY <1>1, <2>8, <2>9 DEF CoverInv
  <2>11. ~hub'.row.snap
    BY <1>1, <1>11
  <2>12. SnapInv(journal, hub', toHub', sync) /\ FilesFirst(hub', toHub', sync)
    BY <2>1, <2>11 DEF SnapInv, SnapEnd, FilesFirst, SnapMsg
  <2> QED
    BY <1>7, <2>10, <2>12 DEF ShowInv
<1>12. CASE hub.row.snap /\ ~d.done
  <2>1. PICK rest : rest = Block(hub', toHub', sync)
    OBVIOUS
  <2>2. /\ Block(hub, toHub, sync) = rest \cup R
        /\ \A v : SnapEnd(hub', toHub', sync, v) => SnapEnd(hub, toHub, sync, v)
        /\ FilesFirst(hub', toHub', sync)
        /\ AllFiles(R) \/ NoFiles(R)
        /\ AllFiles(R) \/ NoFiles(rest)
    <3>1. ~toHub[1].done /\ R = Records(toHub[1].records)
      BY <1>12 DEF R, d
    <3> QED
      BY <1>1, <1>3, <1>6, <1>12, <2>1, <3>1, ShorterSnap
  <2>3. hub'.row.max = A.max /\ hub'.files = A.files /\ hub'.facts = A.facts
    <3>1. NextRow(hub, d).max = A.max
      BY <1>12, NextRowFields DEF A
    <3> QED
      BY <1>2, <1>12, <3>1 DEF Settled, A
  <2>4. SnapInv(journal, hub', toHub', sync)
    <3> SUFFICES ASSUME NEW v \in Nat, SnapEnd(hub', toHub', sync, v)
                 PROVE  Progress(journal, hub', rest, v)
      BY <2>1 DEF SnapInv
    <3>1. Progress(journal, hub, rest \cup R, v)
      BY <1>3, <2>2 DEF SnapInv
    <3>2. /\ Complete(journal, A.files, A.facts, rest, v)
          /\ SeenInv(journal, A.files, A.facts, v)
          /\ A.max <= v
          /\ AllFiles(R) /\ NoFactSeen(hub.facts) => NoFactSeen(A.facts)
      BY <1>9, <1>12, <2>2, <3>1
    <3>3. ~NoFiles(rest) => AllFiles(R) /\ NoFactSeen(hub.facts)
      BY <2>2, <3>1 DEF Progress, NoFiles
    <3>4. \A r \in rest : SnapRecord(journal, r, v)
      BY <3>1 DEF Progress
    <3> QED
      BY <2>3, <3>2, <3>3, <3>4 DEF Progress
  <2>5. CoverInv(journal, hub', epoch)
    BY <1>1, <1>12 DEF CoverInv
  <2> QED
    BY <1>7, <2>2, <2>4, <2>5 DEF ShowInv
<1> QED
  BY <1>10, <1>11, <1>12

(* A usable cursor is answered without touching what it covers. *)
LEMMA ShowHubOffer ==
    ASSUME JournalInv, LinkInv, ShowInv, HubOffer
    PROVE  ShowInv'
<1>1. /\ toHub # <<>> /\ Head(toHub).type = "offer" /\ hub' = OfferCollection(hub, Head(toHub))
      /\ UNCHANGED <<sync, sent, journalVars>>
  BY DEF HubOffer
<1>2. Asked
  BY <1>1, PhaseOf
<1>3. ~Active'
  BY <1>1, <1>2 DEF Asked, Active
<1>4. UNCHANGED <<journal, epoch>>
  BY <1>1 DEF journalVars
<1>5. PICK offer : offer = Head(toHub)
  OBVIOUS
<1>6. offer.epoch \in Nat /\ offer.current \in Nat /\ hub \in Projections
  <2>1. Head(toHub) \in Offers \cup Deltas /\ hub \in Projections
    BY <1>1, QueueTail DEF LinkInv, SyncTypes
  <2> QED
    BY <1>1, <1>5, <2>1 DEF Offers, Deltas
<1>7. offer.epoch = epoch
  BY <1>2, <1>5 DEF Asked
<1>8. CoverInv(journal, hub', epoch)
  <2> SUFFICES ASSUME ~hub'.row.snap
               PROVE  /\ UpTo(journal, hub'.files, hub'.facts, hub'.row.version)
                      /\ Behind(hub'.files, hub'.facts, hub'.row.version)
    BY DEF CoverInv
  <2>1. hub'.row.snap = CursorUnusable(hub.row, offer)
    BY <1>1, <1>5, <1>6, OfferOutcome
  <2>2. ~CursorUnusable(hub.row, offer)
    BY <2>1
  <2>3. hub.row # NoRow /\ hub.row.epoch = epoch /\ ~hub.row.snap
    BY <1>7, <2>2 DEF CursorUnusable
  <2>4. hub'.row.version = hub.row.version
    BY <1>1, <1>5, <1>6, <2>2, OfferOutcome
  <2>5. /\ UpTo(journal, hub.files, hub.facts, hub.row.version)
        /\ Behind(hub.files, hub.facts, hub.row.version)
    BY <2>3 DEF CoverInv, ShowInv
  <2> DEFINE changed == hub.row # NoRow /\ hub.row.epoch # Head(toHub).epoch
             snap    == hub'.row.snap
  <2>6. /\ hub \in Projections
        /\ \A s \in Sources :
            /\ hub'.files[s] = IF hub.files[s] = NoFile THEN NoFile
                               ELSE Carried(hub.files[s], changed, snap)
            /\ hub'.files[s] # NoFile <=> hub.files[s] # NoFile
            /\ hub.files[s] # NoFile => /\ hub'.files[s].rev = hub.files[s].rev
                                        /\ hub'.files[s].meta = hub.files[s].meta
            /\ \A k \in DerivedKinds :
                 /\ hub'.facts[s][k] = IF hub.facts[s][k] = NoFact THEN NoFact
                                      ELSE Carried(hub.facts[s][k], changed, snap)
                 /\ hub'.facts[s][k] # NoFact <=> hub.facts[s][k] # NoFact
                 /\ hub.facts[s][k] # NoFact =>
                      hub'.facts[s][k].payload = hub.facts[s][k].payload
    BY OfferRows
  <2>7. ~changed
    BY <1>5, <1>7, <2>3
  <2> HIDE DEF changed, snap
  <2>8. \A f \in ShownFiles \cup ShownFacts : Carried(f, changed, snap).version = f.version
    BY <2>7 DEF Carried, ShownFiles, ShownFacts
  <2>9. \A s \in Sources : hub.files[s] # NoFile => hub.files[s] \in ShownFiles
    BY <2>6 DEF Projections, FileTables
  <2>10. \A s \in Sources, k \in DerivedKinds : hub.facts[s][k] # NoFact => hub.facts[s][k] \in ShownFacts
    BY <2>6 DEF Projections, FactTables
  <2>11. \A k \in Kinds : k = "file" \/ k \in DerivedKinds
    BY KindNames
  <2>12. ASSUME NEW s \in Sources, NEW k \in Kinds, Shown(journal, hub.files, hub.facts, s, k)
         PROVE  Shown(journal, hub'.files, hub'.facts, s, k)
    BY <2>6, <2>11, <2>12 DEF Shown
  <2>13. UpTo(journal, hub'.files, hub'.facts, hub.row.version)
    BY <2>5, <2>12 DEF UpTo
  <2>14. Behind(hub'.files, hub'.facts, hub.row.version)
    BY <2>5, <2>6, <2>8, <2>9, <2>10 DEF Behind
  <2> QED
    BY <2>4, <2>13, <2>14
<1> QED
  BY <1>3, <1>4, <1>8 DEF ShowInv

(* A link that goes down takes nothing from what the cursor covers: the     *)
(* journal has only moved on, or its epoch is one the hub has not met.      *)
LEMMA ShowLinkDown ==
    ASSUME JournalInv, LinkInv, ShowInv, [SyncNext]_vars, LinkDown, hub' = hub
    PROVE  ShowInv'
<1>1. ~Active'
  BY DEF LinkDown, Active
<1>2. JournalInv' /\ epoch \in Nat /\ epoch' \in {epoch, epoch + 1} /\ (epoch' = epoch => Moves)
  BY SyncMoves
<1>3. ASSUME epoch' = epoch PROVE CoverInv(journal', hub, epoch)
  <2>1. Sound(journal, current) /\ Sound(journal', current') /\ Moved(journal, journal', current)
    <3>1. Sound(journal, current)'
      BY <1>2, JournalSound, PTL
    <3> QED
      BY <1>2, <1>3, <3>1, JournalSound, MovesMoved
  <2>2. current \in Nat /\ current' \in Nat
    BY <2>1 DEF Sound
  <2> SUFFICES ASSUME hub.row # NoRow, hub.row.epoch = epoch, ~hub.row.snap
               PROVE  UpTo(journal', hub.files, hub.facts, hub.row.version)
    BY DEF CoverInv, ShowInv
  <2>3. hub.row.version \in Nat /\ hub.row.version <= current
    BY DEF LinkInv, SyncTypes, RowInv, Projections, CursorRows
  <2>4. UpTo(journal, hub.files, hub.facts, hub.row.version)
    BY DEF CoverInv, ShowInv
  <2> QED
    BY <2>1, <2>2, <2>3, <2>4, ShownMoved
<1>4. ASSUME epoch' # epoch PROVE CoverInv(journal', hub, epoch')
  <2>1. hub.row # NoRow => hub.row.epoch <= epoch
    BY <1>2 DEF LinkInv, RowInv
  <2>2. hub.row # NoRow => hub.row.epoch # epoch'
    BY <1>2, <1>4, <2>1
  <2> QED
    BY <2>2 DEF CoverInv
<1>5. CoverInv(journal', hub', epoch')
  BY <1>3, <1>4
<1> QED
  BY <1>1, <1>5 DEF ShowInv

(* Every step. *)
LEMMA ShowInvStep ==
    ASSUME JournalInv, LinkInv, FlowInv, ShowInv, [SyncNext]_vars
    PROVE  ShowInv'
<1>1. JournalInv' /\ epoch \in Nat /\ (epoch' = epoch => Moves)
  BY SyncMoves
<1>2. CASE CatalogueStep
  <2>1. epoch' = epoch
    BY <1>2, CatalogueEpoch
  <2>2. UNCHANGED <<toHub, toHost, sync, sent, hub, epoch>>
    BY <1>2, <2>1 DEF CatalogueStep
  <2> QED
    BY <1>1, <2>1, <2>2, ShowMoves
<1>3. CASE Break \/ RestartHost \/ HubReject
  <2>1. LinkDown /\ hub' = hub
    BY <1>3 DEF Break, RestartHost, HubReject
  <2> QED
    BY <2>1, ShowLinkDown
<1>4. CASE Connect \/ SendOffer
  <2>1. ~Active
    BY <1>4 DEF Connect, SendOffer, LinkInv, PhaseInv, Quiet, Active
  <2>2. ~Active' /\ UNCHANGED <<hub, journalVars>>
    BY <1>4, <2>1 DEF Connect, SendOffer, Active
  <2> QED
    BY <2>2 DEF ShowInv, journalVars
<1>5. CASE HostAck
  <2>1. Running' /\ Running /\ UNCHANGED <<toHub, sync, sent, hub, journalVars>>
    BY <1>5, HostAckInv
  <2>2. Active' = Active
    BY <2>1 DEF Active
  <2> QED
    BY <2>1, <2>2 DEF ShowInv, journalVars
<1>6. CASE UNCHANGED vars
  BY <1>6 DEF vars, linkVars, journalVars, ShowInv, Active
<1> QED
  BY <1>2, <1>3, <1>4, <1>5, <1>6, ShowHubOffer, ShowHubApply, ShowHostCursor, ShowBeginPages,
     ShowSendChunk, ShowSendEmpty, ShowSchedule DEF SyncNext, ProtocolStep

(* The projection shows the journal up to the hub's cursor, and a running    *)
(* snapshot has shown all that it will not send again.                       *)
THEOREM ShowInvariant == SyncSpec => [](JournalInv /\ LinkInv /\ FlowInv /\ ShowInv)
<1>1. SyncInit => ShowInv
  BY DEF SyncInit, ShowInv, CoverInv, EmptyProjection, Active
<1>2. JournalInv /\ LinkInv /\ FlowInv /\ ShowInv /\ [SyncNext]_vars => ShowInv'
  BY ShowInvStep
<1> QED
  BY <1>1, <1>2, FlowInvariant, PTL DEF SyncSpec

(* CursorCovers: the cursor of the collections row is a promise.  However    *)
(* scans, answers, breaks, restarts and new epochs interleave, a projection  *)
(* whose cursor stands at v shows every current journal row at or below v,   *)
(* deletions included.                                                       *)
THEOREM CursorIsAPromise == SyncSpec => []CursorCovers
<1>1. ShowInv => CursorCovers
  <2>1. ASSUME NEW s \in Sources, NEW k \in Kinds, Shown(journal, hub.files, hub.facts, s, k)
        PROVE  Shows(s, k)
    BY <2>1 DEF Shown, Shows
  <2> QED
    BY <2>1 DEF ShowInv, CoverInv, UpTo, CursorCovers
<1> QED
  BY <1>1, ShowInvariant, PTL

-----------------------------------------------------------------------------
(* What the hub will accept. *)

(* The records on the wire, and with them those still to be sent. *)
OnWire(q) == {r \in WireRecords : \E i \in DOMAIN q : r \in Records(q[i].records)}
(* The records that are on the wire or still to be sent. *)
Pending(q, y) == {r \in WireRecords : r \in OnWire(q) \/ (y # NoSync /\ r \in y.rows)}

(* For every source, what R holds of it is older than what S holds of it. *)
Before(R, S) == \A r \in R, g \in S : r.src = g.src => r.version < g.version

(* The records of one source are in the order of their versions. *)
Sorted(chunk) ==
    \A a, b \in DOMAIN chunk : a < b /\ chunk[a].src = chunk[b].src =>
        chunk[a].version < chunk[b].version

(* The records of one source reach the hub in the order of their versions,  *)
(* in a snapshot too.                                                       *)
InOrder(h, q, y) ==
    /\ \A i \in DOMAIN q : Sorted(q[i].records)
    /\ \A i, j \in DOMAIN q : i < j => Before(Records(q[i].records), Records(q[j].records))
    /\ y # NoSync => \A i \in DOMAIN q : Before(Records(q[i].records), y.rows)
    /\ SnapOpen(y) => \A r, g \in y.rows :
            r.src = g.src /\ r.kind = "file" /\ g.kind # "file" => r.version < g.version
    /\ ~SnapOpen(y) => \A i \in DOMAIN q : \A r \in Records(q[i].records) : r.version <= End(h, q)

(* Versions on the wire never go back. *)
Rising(h, q) ==
    /\ \A i \in DOMAIN q : h.row.version <= q[i].through
    /\ \A i, j \in DOMAIN q : i < j => q[i].through <= q[j].through

(* A version that the hub has, or will have when its snapshot ends. *)
Passed(h, q, y, n) ==
    \/ ~h.row.snap /\ n <= h.row.version
    \/ \E v \in Nat : SnapEnd(h, q, y, v) /\ n <= v

(* A live file row of the journal that the link has got to and the hub has  *)
(* not is on the wire.                                                      *)
Reaches(J, h, q, y) ==
    ~SnapOpen(y) => \A s \in Sources :
        Live(J[s]["file"]) /\ J[s]["file"].version <= End(h, q) =>
            Passed(h, q, y, J[s]["file"].version) \/ Cell(J, s, "file") \in OnWire(q)

(* A record that may change the bytes a source is shown with. *)
Resets(g) == g.kind = "file" \/ (g.kind = "file_error" /\ ~g.deleted)

(* An answer about bytes that can be measured. *)
Answer(r) == r.kind \in FactKinds /\ ~r.deleted /\ r.payload.size # 0

(* The answer r describes the bytes of revision rev. *)
FitsRev(r, rev) == SameStamp(r.kind, r.payload.size, MtimeOf[r.payload.rev], rev)

(* When its turn comes, the answer r will find the bytes it describes: its  *)
(* file row comes before it, and nothing in between, or it is there already.*)
FileAhead(r, rows) ==
    \E f \in rows :
        /\ f.src = r.src /\ f.kind = "file" /\ ~f.deleted /\ f.version < r.version
        /\ FitsRev(r, f.payload.rev)
        /\ \A g \in rows : g.src = r.src /\ Resets(g) /\ g.version < r.version =>
                g.version <= f.version

(* The file of r is shown already, and nothing before r changes it. *)
FileThere(r, rows, fs, snap) ==
    /\ fs[r.src] # NoFile /\ fs[r.src].rev # NoRev
    /\ FitsRev(r, fs[r.src].rev)
    /\ snap => fs[r.src].seen
    /\ \A g \in rows : g.src = r.src /\ Resets(g) => ~(g.version < r.version)

(* Every pending answer will find its file. *)
Fitted(rows, fs, snap) ==
    \A r \in rows : Answer(r) => FileAhead(r, rows) \/ FileThere(r, rows, fs, snap)

(* The invariant of what the hub will accept. *)
FitInv ==
    Active => /\ InOrder(hub, toHub, sync)
              /\ Rising(hub, toHub)
              /\ Reaches(journal, hub, toHub, sync)
              /\ Fitted(Pending(toHub, sync), hub.files, hub.row.snap)

(* No file row is from a version above u. *)
FilesBehind(fs, u) == \A s \in Sources : fs[s] # NoFile => fs[s].version <= u

(* An answer whose turn has come fits. *)
LEMMA NextFits ==
    ASSUME NEW rec \in WireRecords, NEW rest, rest \subseteq WireRecords, Before({rec}, rest),
           NEW fs, NEW snap, Fitted(rest \cup {rec}, fs, snap), Answer(rec)
    PROVE  fs[rec.src] # NoFile /\ fs[rec.src].rev # NoRev /\ FitsRev(rec, fs[rec.src].rev)
<1>1. FileAhead(rec, rest \cup {rec}) \/ FileThere(rec, rest \cup {rec}, fs, snap)
  BY DEF Fitted
<1>2. \A f \in rest \cup {rec} : f.src = rec.src => ~(f.version < rec.version)
  <2>1. \A f \in rest \cup {rec} : f.version \in Nat
    BY DEF WireRecords
  <2>2. \A f \in rest : f.src = rec.src => rec.version < f.version
    BY DEF Before
  <2> QED
    BY <2>1, <2>2
<1>3. ~FileAhead(rec, rest \cup {rec})
  BY <1>2 DEF FileAhead
<1> QED
  BY <1>1, <1>3 DEF FileThere

(* A record that is applied leaves the others their bytes. *)
LEMMA TookFitted ==
    ASSUME NEW acc \in Accs, NEW b \in Accs, NEW row \in CursorRows, NEW delta, NEW rec,
           GoodRecord(rec), Took(acc, b, row, delta, rec), NEW rest, rest \subseteq WireRecords,
           Before({rec}, rest), Fitted(rest \cup {rec}, acc.files, row.snap),
           NEW u \in Nat,
           ~row.snap => row.version <= u /\ u < rec.version /\ FilesBehind(acc.files, u)
    PROVE  /\ Fitted(rest, b.files, row.snap)
           /\ ~row.snap => FilesBehind(b.files, rec.version)
<1>s. PICK s : s = rec.src
  OBVIOUS
<1>1. /\ s \in Sources /\ rec.kind \in Kinds /\ rec.version \in Nat /\ row.version \in Nat
      /\ rec.kind \in FactKinds <=> rec.kind # "file" /\ rec.kind # "file_error"
      /\ rec \in WireRecords
  BY <1>s, RecordTypes DEF CursorRows, GoodRecord
<1>2. /\ \A t \in Sources \ {s} : b.files[t] = acc.files[t]
      /\ Wrote(acc, b, row, rec)
  <2>1. ~Skipped(row, rec)
    BY <1>1 DEF Skipped
  <2> QED
    BY <1>s, <2>1 DEF Took
<1>3. Known(acc, s) \in ShownFiles /\ (acc.files[s] # NoFile => Known(acc, s) = acc.files[s])
      /\ (acc.files[s] = NoFile => Known(acc, s).version = 0)
  BY <1>1, CellTypes DEF Known, BlankFile
<1>4. ~row.snap => Known(acc, s).version <= rec.version
  BY <1>1, <1>3 DEF FilesBehind, ShownFiles
<1>5. ~rec.deleted /\ rec.kind = "file" =>
        /\ b.files[s] # NoFile /\ b.files[s].seen
        /\ b.files[s].rev = rec.payload.rev /\ b.files[s].rev # NoRev
        /\ b.files[s].version = rec.version
  <2> SUFFICES ASSUME ~rec.deleted, rec.kind = "file"
               PROVE  /\ b.files[s] # NoFile /\ b.files[s].seen
                      /\ b.files[s].rev = rec.payload.rev /\ b.files[s].rev # NoRev
                      /\ b.files[s].version = rec.version
    OBVIOUS
  <2>1. row.snap \/ Known(acc, s).version <= rec.version
    BY <1>4
  <2> QED
    BY <1>s, <1>2, <2>1, FileFields
<1>6. ~Resets(rec) => b.files[s] = acc.files[s]
  <2>1. ~Resets(rec) => rec.kind # "file" /\ (rec.deleted \/ rec.kind \in FactKinds)
    BY <1>1 DEF Resets
  <2> QED
    BY <1>s, <1>2, <2>1 DEF Wrote, WroteFact
<1>7. ASSUME ~row.snap PROVE FilesBehind(b.files, rec.version)
  <2> SUFFICES ASSUME b.files[s] # NoFile PROVE b.files[s].version <= rec.version
    <3>1. \A t \in Sources \ {s} : b.files[t] # NoFile => b.files[t].version <= rec.version
      <4>1. \A t \in Sources : acc.files[t] # NoFile => acc.files[t].version \in Nat /\ acc.files[t].version <= u
        BY <1>7 DEF FilesBehind, Accs, FileTables, ShownFiles
      <4> QED
        BY <1>1, <1>2, <1>7, <4>1
    <3> QED
      BY <3>1 DEF FilesBehind
  <2>1. CASE ~Resets(rec)
    BY <1>3, <1>4, <1>6, <1>7, <2>1
  <2>2. CASE rec.kind = "file"
    <3>1. ~rec.deleted
      BY <1>s, <1>2, <2>2 DEF Wrote
    <3> QED
      BY <1>1, <1>5, <2>2, <3>1
  <2>3. CASE rec.kind = "file_error" /\ ~rec.deleted
    <3>1. b.files[s] = [Known(acc, s) EXCEPT !.seen = TRUE]
      BY <1>s, <1>2, <1>7, <2>3 DEF Wrote, WroteError
    <3>2. b.files[s].version = Known(acc, s).version
      BY <1>3, <3>1 DEF ShownFiles
    <3> QED
      BY <1>4, <1>7, <3>2
  <2> QED
    BY <2>1, <2>2, <2>3 DEF Resets
<1>8. ASSUME NEW r \in rest, Answer(r)
      PROVE  FileAhead(r, rest) \/ FileThere(r, rest, b.files, row.snap)
  <2>1. FileAhead(r, rest \cup {rec}) \/ FileThere(r, rest \cup {rec}, acc.files, row.snap)
    BY <1>8 DEF Fitted
  <2>2. r.src \in Sources /\ r.version \in Nat
    BY DEF WireRecords
  <2>3. CASE r.src # s
    <3>1. b.files[r.src] = acc.files[r.src]
      BY <1>2, <2>2, <2>3
    <3>2. FileAhead(r, rest \cup {rec}) => FileAhead(r, rest)
      BY <1>s, <2>3 DEF FileAhead
    <3>3. FileThere(r, rest \cup {rec}, acc.files, row.snap) => FileThere(r, rest, b.files, row.snap)
      BY <3>1 DEF FileThere
    <3> QED
      BY <2>1, <3>2, <3>3
  <2>4. CASE r.src = s /\ Resets(rec)
    <3>1. rec.version < r.version
      BY <1>s, <2>4 DEF Before
    <3>2. FileAhead(r, rest \cup {rec})
      BY <1>s, <2>1, <2>4, <3>1 DEF FileThere
    <3>3. PICK f \in rest \cup {rec} :
              /\ f.src = r.src /\ f.kind = "file" /\ ~f.deleted /\ f.version < r.version
              /\ FitsRev(r, f.payload.rev)
              /\ \A g \in rest \cup {rec} : g.src = r.src /\ Resets(g) /\ g.version < r.version =>
                      g.version <= f.version
      BY <3>2 DEF FileAhead
    <3>4. CASE f \in rest
      BY <3>3, <3>4 DEF FileAhead
    <3>5. CASE f = rec
      <4>1. /\ b.files[s] # NoFile /\ b.files[s].seen
            /\ b.files[s].rev = rec.payload.rev /\ b.files[s].rev # NoRev
        BY <1>5, <3>3, <3>5
      <4>2. ASSUME NEW g \in rest, g.src = r.src, Resets(g), g.version < r.version PROVE FALSE
        <5>1. g.version <= rec.version
          BY <3>3, <3>5, <4>2
        <5>2. rec.version < g.version
          BY <1>s, <2>4, <4>2 DEF Before
        <5>3. g.version \in Nat
          BY DEF WireRecords
        <5> QED
          BY <1>1, <5>1, <5>2, <5>3
      <4> QED
        BY <2>4, <3>3, <3>5, <4>1, <4>2 DEF FileThere
    <3> QED
      BY <3>3, <3>4, <3>5
  <2>5. CASE r.src = s /\ ~Resets(rec)
    <3>1. b.files[s] = acc.files[s]
      BY <1>6, <2>5
    <3>2. FileAhead(r, rest \cup {rec}) => FileAhead(r, rest)
      BY <2>5 DEF FileAhead, Resets
    <3>3. FileThere(r, rest \cup {rec}, acc.files, row.snap) => FileThere(r, rest, b.files, row.snap)
      BY <2>5, <3>1 DEF FileThere
    <3> QED
      BY <2>1, <3>2, <3>3
  <2> QED
    BY <2>3, <2>4, <2>5
<1> QED
  BY <1>7, <1>8 DEF Fitted

(* What a chunk must satisfy to be accepted, its answers apart. *)
Acceptable(h, delta) ==
    /\ ~h.row.snap =>
        /\ FilesBehind(h.files, h.row.version)
        /\ \A n \in DOMAIN delta.records :
            h.row.version < delta.records[n].version /\ delta.records[n].version <= delta.through
        /\ \A m, n \in DOMAIN delta.records : m < n =>
            delta.records[m].version < delta.records[n].version
    /\ h.row.snap =>
        /\ \A n \in DOMAIN delta.records :
            ~delta.records[n].deleted /\ (delta.done => delta.records[n].version <= delta.through)
        /\ delta.done => h.row.max <= delta.through

(* A chunk whose answers all fit when their turn comes is accepted, and the *)
(* answers behind it still fit.                                             *)
LEMMA FoldedFitted ==
    ASSUME NEW h \in Projections, h.row \in CursorRows, NEW delta, GoodDelta(delta),
           Acceptable(h, delta), Sorted(delta.records),
           NEW rest, rest \subseteq WireRecords, Before(Records(delta.records), rest),
           Fitted(rest \cup Records(delta.records), h.files, h.row.snap),
           \/ Folded(h, delta).ok
           \/ \A n \in DOMAIN delta.records :
                delta.records[n].kind \in FactKinds /\ ~delta.records[n].deleted =>
                    delta.records[n].payload.size # 0
    PROVE  /\ Folded(h, delta).ok
           /\ Fitted(rest, Folded(h, delta).files, h.row.snap)
           /\ h.row.snap /\ delta.done => Folded(h, delta).max <= delta.through
           /\ Folded(h, delta).max \in Nat
<1> DEFINE N == Len(delta.records)
           A == Applied(h, delta)
           At(n) == IF n = 0 THEN h.row.version ELSE delta.records[n].version
           Left(n) == rest \cup {delta.records[m] : m \in (n + 1) .. N}
           T == {n \in 0 .. N : /\ A[n].ok
                                /\ A[n].previous = IF n = 0 THEN 0 ELSE delta.records[n].version
                                /\ ~h.row.snap => FilesBehind(A[n].files, At(n))
                                /\ Fitted(Left(n), A[n].files, h.row.snap)
                                /\ h.row.snap /\ delta.done => A[n].max <= delta.through}
<1>1. /\ N \in Nat /\ A[0] = AccStart(h)
      /\ \A n \in 0 .. N : A[n] \in Accs
      /\ \A n \in 1 .. N : /\ GoodRecord(delta.records[n])
                           /\ A[n] = ApplyRecord(A[n - 1], h.row, delta, delta.records[n])
                           /\ A[n].ok => Took(A[n - 1], A[n], h.row, delta, delta.records[n])
      /\ A[N].ok => \A n \in 0 .. N : A[n].ok
  BY ChunkSteps
<1>2. /\ DOMAIN delta.records = 1 .. N /\ delta.through \in Nat
      /\ \A n \in 1 .. N : delta.records[n] \in Records(delta.records)
      /\ Folded(h, delta) = A[N]
      /\ h.row.version \in Nat
  BY DEF GoodDelta, Deltas, Records, Folded, CursorRows
<1>r. \A n \in 1 .. N : /\ delta.records[n].version \in Nat
                        /\ delta.records[n] \in WireRecords
  BY <1>1, RecordTypes DEF GoodRecord
<1> HIDE DEF A, N
<1>3. 0 \in T
  <2>1. /\ A[0].files = h.files /\ A[0].ok /\ A[0].previous = 0 /\ A[0].max = h.row.max /\ 0 \in 0 .. N
    BY <1>1 DEF AccStart
  <2>2. Left(0) = rest \cup Records(delta.records)
    <3>1. (0 + 1) .. N = 1 .. N
      BY <1>1
    <3> QED
      BY <1>2, <3>1 DEF Records
  <2> QED
    BY <2>1, <2>2 DEF Acceptable
<1>4. ASSUME NEW n \in 1 .. N, n - 1 \in T PROVE n \in T
  <2>1. /\ n - 1 \in 0 .. N /\ n \in 0 .. N
        /\ A[n - 1].ok
        /\ A[n - 1].previous = IF n - 1 = 0 THEN 0 ELSE delta.records[n - 1].version
        /\ ~h.row.snap => FilesBehind(A[n - 1].files, At(n - 1))
        /\ Fitted(Left(n - 1), A[n - 1].files, h.row.snap)
        /\ h.row.snap /\ delta.done => A[n - 1].max <= delta.through
    BY <1>1, <1>4
  <2>2. PICK rec : rec = delta.records[n]
    OBVIOUS
  <2>3. PICK left : left = Left(n)
    OBVIOUS
  <2>4. Left(n - 1) = left \cup {rec}
    <3>1. \A m : m \in ((n - 1) + 1) .. N <=> m = n \/ m \in (n + 1) .. N
      BY <1>1
    <3> QED
      BY <2>2, <2>3, <3>1
  <2>5. /\ GoodRecord(rec) /\ rec \in WireRecords /\ rec.version \in Nat
        /\ A[n - 1] \in Accs /\ A[n] \in Accs
        /\ A[n] = ApplyRecord(A[n - 1], h.row, delta, rec)
        /\ A[n].ok => Took(A[n - 1], A[n], h.row, delta, rec)
    BY <1>1, <1>r, <2>1, <2>2
  <2>6. left \subseteq WireRecords /\ Before({rec}, left)
    <3>1. \A m \in (n + 1) .. N : m \in 1 .. N /\ n < m
      BY <1>1
    <3>2. \A m \in (n + 1) .. N : rec.src = delta.records[m].src => rec.version < delta.records[m].version
      BY <1>2, <2>2, <3>1 DEF Sorted
    <3>3. \A g \in rest : rec.src = g.src => rec.version < g.version
      BY <1>2, <2>2 DEF Before
    <3> QED
      BY <1>r, <2>3, <3>1, <3>2, <3>3 DEF Before
  <2>7. Fitted(left \cup {rec}, A[n - 1].files, h.row.snap)
    BY <2>1, <2>4
  <2>u. PICK u : u = At(n - 1)
    OBVIOUS
  <2>8. /\ u \in Nat
        /\ ~h.row.snap => h.row.version <= u /\ u < rec.version /\ FilesBehind(A[n - 1].files, u)
    <3>1. CASE n - 1 = 0
      BY <1>2, <2>1, <2>2, <2>u, <3>1 DEF Acceptable
    <3>2. CASE n - 1 # 0
      <4>1. n - 1 \in 1 .. N /\ n - 1 < n
        BY <1>1, <3>2
      <4>2. u = delta.records[n - 1].version /\ u \in Nat
        BY <1>r, <2>u, <3>2, <4>1
      <4>3. ~h.row.snap => h.row.version < u /\ u < rec.version
        BY <1>2, <2>2, <4>1, <4>2 DEF Acceptable
      <4> QED
        BY <1>2, <2>1, <2>u, <4>2, <4>3
    <3> QED
      BY <3>1, <3>2
  <2>9. A[n].ok
    <3>1. CASE Folded(h, delta).ok
      BY <1>1, <1>2, <2>1, <3>1
    <3>2. ASSUME \A m \in DOMAIN delta.records :
                delta.records[m].kind \in FactKinds /\ ~delta.records[m].deleted =>
                    delta.records[m].payload.size # 0
          PROVE  A[n].ok
      <4>1. rec.kind \in FactKinds /\ ~rec.deleted => Answer(rec)
        BY <1>2, <2>2, <3>2 DEF Answer
      <4>2. ~rec.deleted /\ rec.kind \in FactKinds =>
              /\ A[n - 1].files[rec.src] # NoFile /\ A[n - 1].files[rec.src].rev # NoRev
              /\ SameStamp(rec.kind, rec.payload.size, MtimeOf[rec.payload.rev],
                           A[n - 1].files[rec.src].rev)
        BY <2>5, <2>6, <2>7, <4>1, NextFits DEF FitsRev
      <4>3. ~h.row.snap => A[n - 1].previous < rec.version /\ rec.version <= delta.through
        <5>1. n - 1 # 0 => A[n - 1].previous = u
          BY <2>1, <2>u
        <5>2. n - 1 = 0 => A[n - 1].previous = 0
          BY <2>1
        <5>3. ~h.row.snap => rec.version <= delta.through
          BY <1>2, <2>2 DEF Acceptable
        <5>4. rec.version > 0
          BY <2>5, RecordTypes
        <5> QED
          BY <2>5, <2>8, <5>1, <5>2, <5>3, <5>4
      <4>4. h.row.snap => ~rec.deleted /\ (delta.done => rec.version <= delta.through)
        BY <1>2, <2>2 DEF Acceptable
      <4>5. ApplyRecord(A[n - 1], h.row, delta, rec).ok
        BY <1>2, <2>1, <2>5, <4>2, <4>3, <4>4, RecordStep
      <4> QED
        BY <2>5, <4>5
    <3> QED
      BY <3>1, <3>2
  <2>10. Took(A[n - 1], A[n], h.row, delta, rec)
    BY <2>5, <2>9
  <2>11. Fitted(left, A[n].files, h.row.snap) /\ (~h.row.snap => FilesBehind(A[n].files, rec.version))
    BY <2>5, <2>6, <2>7, <2>8, <2>10, TookFitted
  <2>12. /\ A[n].previous = rec.version
         /\ A[n].max = IF rec.version > A[n - 1].max THEN rec.version ELSE A[n - 1].max
    BY <2>10 DEF Took
  <2>13. h.row.snap /\ delta.done => A[n].max <= delta.through
    BY <1>2, <2>1, <2>2, <2>12 DEF Acceptable
  <2>14. n # 0
    BY <1>1
  <2> QED
    BY <2>1, <2>2, <2>3, <2>9, <2>11, <2>12, <2>13, <2>14
<1> HIDE DEF T
<1>5. \A n \in 0 .. N : n \in T
  BY <1>1, <1>3, <1>4, AlongChunk
<1>6. /\ A[N].ok /\ Fitted(Left(N), A[N].files, h.row.snap) /\ A[N].max \in Nat
      /\ h.row.snap /\ delta.done => A[N].max <= delta.through
  <2>1. N \in T /\ N \in 0 .. N
    BY <1>1, <1>5
  <2>2. A[N].max \in Nat
    BY <1>1, <2>1 DEF Accs
  <2> QED
    BY <2>1, <2>2 DEF T
<1>7. Left(N) = rest
  <2>1. (N + 1) .. N = {}
    BY <1>1
  <2> QED
    BY <2>1
<1> QED
  BY <1>2, <1>6, <1>7

(* A snapshot with a message in flight ends: its last message is in flight  *)
(* too, or the stream that is being read will send it.                      *)
LEMMA SnapEnds ==
    ASSUME NEW J, NEW h, NEW q, NEW y, NEW e, OpenInv(h, q, y), StreamInv(J, h, q, y, e), h.row.snap,
           Len(q) \in Nat, DOMAIN q = 1 .. Len(q), q # <<>>,
           \A i \in DOMAIN q : q[i].through \in Nat,
           y # NoSync => y.current \in Nat /\ y.stage \in {"queued", "streaming", "joined"}
    PROVE  \E v \in Nat : SnapEnd(h, q, y, v)
<1>1. CASE SnapOpen(y)
  <2>1. y # NoSync /\ y.stage = "streaming"
    BY <1>1 DEF SnapOpen, StreamInv
  <2> QED
    BY <1>1, <2>1 DEF SnapEnd
<1>2. CASE ~SnapOpen(y)
  <2> DEFINE B == {i \in DOMAIN q : q[i].done}
  <2>1. B \subseteq Nat /\ B # {}
    BY <1>2 DEF OpenInv
  <2>2. PICK x \in B : \A z \in B : x <= z
    <3> HIDE DEF B
    <3> QED
      BY <2>1, LeastNat
  <2>3. SnapMsg(h, q, x)
    <3> SUFFICES ASSUME NEW j \in 1 .. (x - 1), q[j].done PROVE FALSE
      BY DEF SnapMsg
    <3>1. j \in B
      OBVIOUS
    <3> QED
      BY <2>2, <3>1
  <2> QED
    BY <2>3 DEF SnapEnd
<1> QED
  BY <1>1, <1>2

(* The first message of a running stream is acceptable, its answers apart. *)
LEMMA HeadAcceptable ==
    ASSUME JournalInv, LinkInv, FlowInv, ShowInv, toHub # <<>>, Head(toHub).type = "delta",
           epoch \in Nat, current \in Nat
    PROVE  /\ Acceptable(hub, toHub[1])
           /\ toHub[1].snapshot => hub.row.snap
           /\ hub.row.snap /\ ~toHub[1].done => toHub[1].through = 0
           /\ hub.row.snap => \E v \in Nat :
                /\ SnapEnd(hub, toHub, sync, v)
                /\ \A r \in Records(toHub[1].records) : r.version <= v
<1> DEFINE d == toHub[1]
<1>1. /\ 1 \in DOMAIN toHub /\ GoodDelta(d) /\ d.through \in Nat /\ d.done \in BOOLEAN
      /\ hub \in Projections /\ hub.row \in CursorRows /\ Running
  BY HeadDelta
<1>2. /\ Len(toHub) \in Nat /\ DOMAIN toHub = 1 .. Len(toHub) /\ hub.row.snap \in BOOLEAN
      /\ \A i \in DOMAIN toHub : toHub[i].through \in Nat
  BY <1>1, EndTypes
<1>3. Active
  BY <1>1 DEF Running, Active
<1>4. /\ MsgInv(journal, hub, toHub) /\ OpenInv(hub, toHub, sync)
      /\ StreamInv(journal, hub, toHub, sync, sent)
      /\ SnapInv(journal, hub, toHub, sync)
  BY <1>3 DEF FlowInv, ShowInv
<1>5. hub.row.snap <=> SnapMsg(hub, toHub, 1)
  <2>1. 1 .. (1 - 1) = {}
    OBVIOUS
  <2> QED
    BY <1>2, <2>1 DEF SnapMsg
<1>6. ~hub.row.snap => Increment(journal, hub.row.version, d)
  BY <1>1, <1>4, <1>5 DEF MsgInv, Base
<1>7. hub.row.snap /\ ~d.done => d.through = 0
  BY <1>1, <1>4, <1>5 DEF MsgInv
<1>8. \A n \in DOMAIN d.records : d.records[n] \in Records(d.records) /\ d.records[n] \in WireRecords
  BY <1>1 DEF GoodDelta, GoodRecord, Records
<1>9. hub.row.snap => Records(d.records) \subseteq Block(hub, toHub, sync)
  BY <1>1, <1>5, <1>8 DEF Block, Records
<1>10. sync # NoSync => sync.current \in Nat /\ sync.stage \in {"queued", "streaming", "joined"}
  BY StreamTypes DEF LinkInv
<1>11. hub.row.snap => \E v \in Nat : SnapEnd(hub, toHub, sync, v)
  BY <1>2, <1>4, <1>10, SnapEnds
<1>12. ASSUME hub.row.snap, NEW v \in Nat, SnapEnd(hub, toHub, sync, v)
       PROVE  /\ hub.row.max <= v
              /\ \A r \in Records(d.records) : ~r.deleted /\ r.version <= v
  <2>1. Progress(journal, hub, Block(hub, toHub, sync), v)
    BY <1>4, <1>12 DEF SnapInv
  <2> QED
    BY <1>9, <1>12, <2>1 DEF Progress, SnapRecord
<1>13. hub.row.snap /\ d.done => SnapEnd(hub, toHub, sync, d.through)
  BY <1>1, <1>5 DEF SnapEnd
<1>14. ASSUME ~hub.row.snap PROVE FilesBehind(hub.files, hub.row.version)
  <2>1. hub.row # NoRow /\ hub.row.epoch = epoch
    BY <1>1 DEF Running
  <2> QED
    BY <1>14, <2>1 DEF ShowInv, CoverInv, Behind, FilesBehind
<1> HIDE DEF d
<1>15. Acceptable(hub, d)
  <2>1. ~hub.row.snap =>
          /\ FilesBehind(hub.files, hub.row.version)
          /\ \A n \in DOMAIN d.records :
              hub.row.version < d.records[n].version /\ d.records[n].version <= d.through
          /\ \A m, n \in DOMAIN d.records : m < n => d.records[m].version < d.records[n].version
    BY <1>6, <1>14 DEF Increment
  <2>2. hub.row.snap => \A n \in DOMAIN d.records : ~d.records[n].deleted
    BY <1>8, <1>11, <1>12
  <2>3. hub.row.snap /\ d.done =>
          hub.row.max <= d.through /\ \A n \in DOMAIN d.records : d.records[n].version <= d.through
    BY <1>1, <1>8, <1>12, <1>13
  <2> QED
    BY <2>1, <2>2, <2>3 DEF Acceptable
<1>16. d.snapshot => hub.row.snap
  BY <1>6 DEF Increment
<1>17. hub.row.snap => \E v \in Nat :
                /\ SnapEnd(hub, toHub, sync, v)
                /\ \A r \in Records(d.records) : r.version <= v
  BY <1>11, <1>12
<1> QED
  BY <1>7, <1>15, <1>16, <1>17 DEF d

(* The first message taken: what is behind it keeps its order. *)
LEMMA ShorterOrder ==
    ASSUME NEW h, NEW p, NEW q, NEW t, NEW y, Shorter(q, t), Advanced(h, p, q),
           InOrder(h, q, y), Rising(h, q)
    PROVE  /\ InOrder(p, t, y) /\ Rising(p, t)
           /\ Before(Records(q[1].records), Pending(t, y))
<1>1. /\ 1 \in DOMAIN q
      /\ \A i \in DOMAIN t : i + 1 \in DOMAIN q /\ 1 < i + 1 /\ t[i] = q[i + 1]
      /\ \A i, j \in DOMAIN t : i < j => i + 1 < j + 1
  BY DEF Shorter
<1>2. End(p, t) = End(h, q)
  BY ShorterFlow
<1>3. Rising(p, t)
  BY <1>1 DEF Rising, Advanced
<1>4. /\ \A i \in DOMAIN t : Sorted(t[i].records)
      /\ \A i, j \in DOMAIN t : i < j => Before(Records(t[i].records), Records(t[j].records))
      /\ y # NoSync => \A i \in DOMAIN t : Before(Records(t[i].records), y.rows)
  BY <1>1 DEF InOrder
<1>5. ~SnapOpen(y) => \A i \in DOMAIN t : \A r \in Records(t[i].records) : r.version <= End(p, t)
  BY <1>1, <1>2 DEF InOrder
<1>6. InOrder(p, t, y)
  BY <1>4, <1>5 DEF InOrder
<1>7. Before(Records(q[1].records), Pending(t, y))
  <2> SUFFICES ASSUME NEW r \in Records(q[1].records), NEW g \in Pending(t, y), r.src = g.src
               PROVE  r.version < g.version
    BY DEF Before
  <2>1. CASE y # NoSync /\ g \in y.rows
    BY <1>1, <2>1 DEF InOrder, Before
  <2>2. CASE g \in OnWire(t)
    <3>1. PICK i \in DOMAIN t : g \in Records(t[i].records)
      BY <2>2 DEF OnWire
    <3>2. Before(Records(q[1].records), Records(t[i].records))
      BY <1>1 DEF InOrder
    <3> QED
      BY <3>1, <3>2 DEF Before
  <2> QED
    BY <2>1, <2>2 DEF Pending
<1> QED
  BY <1>3, <1>6, <1>7

(* The records of the first message leave the wire. *)
LEMMA ShorterPending ==
    ASSUME NEW q, NEW t, NEW y, Shorter(q, t), NEW R, R = Records(q[1].records), R \subseteq WireRecords
    PROVE  /\ Pending(q, y) = Pending(t, y) \cup R
           /\ OnWire(q) = OnWire(t) \cup R
<1>1. /\ 1 \in DOMAIN q
      /\ \A i \in DOMAIN t : i + 1 \in DOMAIN q /\ t[i] = q[i + 1]
      /\ \A i \in DOMAIN q : i # 1 => i - 1 \in DOMAIN t /\ t[i - 1] = q[i]
  <2>1. \A i \in DOMAIN q : i # 1 => i - 1 \in 1 .. (Len(q) - 1) /\ (i - 1) + 1 = i
    BY DEF Shorter
  <2> QED
    BY <2>1 DEF Shorter
<1>2. OnWire(q) = OnWire(t) \cup R
  <2>1. ASSUME NEW r \in OnWire(q) PROVE r \in OnWire(t) \cup R
    <3>1. PICK i \in DOMAIN q : r \in Records(q[i].records)
      BY DEF OnWire
    <3>2. r \in WireRecords
      BY DEF OnWire
    <3>3. CASE i = 1
      BY <3>1, <3>3
    <3>4. CASE i # 1
      BY <1>1, <3>1, <3>2, <3>4 DEF OnWire
    <3> QED
      BY <3>3, <3>4
  <2>2. ASSUME NEW r \in OnWire(t) PROVE r \in OnWire(q)
    BY <1>1 DEF OnWire
  <2>3. ASSUME NEW r \in R PROVE r \in OnWire(q)
    BY <1>1 DEF OnWire
  <2> QED
    BY <2>1, <2>2, <2>3
<1> QED
  BY <1>2 DEF Pending

(* A version the hub had passed, or was to pass with its snapshot, still is. *)
LEMMA ShorterPassed ==
    ASSUME NEW h, NEW p, NEW q, NEW t, NEW y, Shorter(q, t), Advanced(h, p, q), ~SnapOpen(y),
           Rising(h, q), q[1].through \in Nat, h.row.version \in Nat,
           NEW n \in Nat, Passed(h, q, y, n)
    PROVE  Passed(p, t, y, n)
<1>1. /\ 1 \in DOMAIN q
      /\ \A i \in DOMAIN q : i # 1 =>
            i - 1 \in DOMAIN t /\ t[i - 1] = q[i] /\ (SnapMsg(h, q, i) => SnapMsg(p, t, i - 1))
  <2>1. \A i \in DOMAIN q : i # 1 =>
            i - 1 \in 1 .. (Len(q) - 1) /\ i - 1 \in 1 .. Len(q) /\ (i - 1) + 1 = i
    BY DEF Shorter
  <2>2. \A i \in 1 .. Len(q) : SnapMsg(p, t, i) <=> SnapMsg(h, q, i + 1)
    BY ShorterFlow
  <2>3. 1 \in DOMAIN q /\ DOMAIN t = 1 .. (Len(q) - 1) /\ \A i \in 1 .. (Len(q) - 1) : t[i] = q[i + 1]
    BY DEF Shorter
  <2> QED
    BY <2>1, <2>2, <2>3
<1>2. CASE ~h.row.snap /\ n <= h.row.version
  <2>1. h.row.version <= q[1].through
    BY <1>1 DEF Rising
  <2>2. ~p.row.snap /\ p.row.version = q[1].through
    BY <1>2 DEF Advanced
  <2> QED
    BY <1>2, <2>1, <2>2 DEF Passed
<1>3. ASSUME NEW v \in Nat, SnapEnd(h, q, y, v), n <= v PROVE Passed(p, t, y, n)
  <2>1. PICK i \in DOMAIN q : SnapMsg(h, q, i) /\ q[i].done /\ q[i].through = v
    BY <1>3 DEF SnapEnd
  <2>2. CASE i = 1
    <3>1. ~p.row.snap /\ p.row.version = v
      BY <2>1, <2>2 DEF Advanced
    <3> QED
      BY <1>3, <3>1 DEF Passed
  <2>3. CASE i # 1
    <3>1. SnapEnd(p, t, y, v)
      BY <1>1, <2>1, <2>3 DEF SnapEnd
    <3> QED
      BY <1>3, <3>1 DEF Passed
  <2> QED
    BY <2>2, <2>3
<1> QED
  BY <1>2, <1>3 DEF Passed

(* The hub takes the first message: what the link has got to is still on    *)
(* the wire or with the hub.                                                *)
LEMMA ShorterReaches ==
    ASSUME NEW J, NEW c \in Nat, Sound(J, c),
           NEW h, NEW p, NEW q, NEW t, NEW y, Shorter(q, t), Advanced(h, p, q),
           Rising(h, q), q[1].through \in Nat, h.row.version \in Nat,
           NEW R, R = Records(q[1].records), R \subseteq WireRecords,
           ~h.row.snap => \A r \in R : r.version <= q[1].through,
           h.row.snap => \E v \in Nat : SnapEnd(h, q, y, v) /\ \A r \in R : r.version <= v,
           Reaches(J, h, q, y)
    PROVE  Reaches(J, p, t, y)
<1> SUFFICES ASSUME ~SnapOpen(y), NEW s \in Sources, Live(J[s]["file"]),
                    J[s]["file"].version <= End(p, t)
             PROVE  Passed(p, t, y, J[s]["file"].version) \/ Cell(J, s, "file") \in OnWire(t)
  BY DEF Reaches
<1>1. PICK n : n = J[s]["file"].version
  OBVIOUS
<1>2. n \in Nat /\ Cell(J, s, "file").version = n
  BY <1>1, KindNames DEF Sound, Live, Cell
<1>3. n <= End(h, q)
  BY <1>1, ShorterFlow
<1>4. Passed(h, q, y, n) \/ Cell(J, s, "file") \in OnWire(q)
  BY <1>1, <1>3 DEF Reaches
<1>5. CASE Passed(h, q, y, n)
  <2>1. Passed(p, t, y, n)
    BY <1>2, <1>5, ShorterPassed
  <2> QED
    BY <1>1, <2>1
<1>6. CASE Cell(J, s, "file") \in R
  <2>1. CASE ~h.row.snap
    <3>1. n <= q[1].through
      BY <1>2, <1>6, <2>1
    <3>2. ~p.row.snap /\ p.row.version = q[1].through
      BY <2>1 DEF Advanced
    <3> QED
      BY <1>1, <3>1, <3>2 DEF Passed
  <2>2. CASE h.row.snap
    <3>1. Passed(h, q, y, n)
      BY <1>2, <1>6, <2>2 DEF Passed
    <3>2. Passed(p, t, y, n)
      BY <1>2, <3>1, ShorterPassed
    <3> QED
      BY <1>1, <3>2
  <2> QED
    BY <2>1, <2>2
<1>7. Pending(q, y) = Pending(t, y) \cup R /\ OnWire(q) = OnWire(t) \cup R
  BY ShorterPending, SMT
<1> QED
  BY <1>4, <1>5, <1>6, <1>7

(* The reconciliation drops no file row that an answer waits for. *)
LEMMA ReconciledFitted ==
    ASSUME NEW acc \in Accs, NEW rows, rows \subseteq WireRecords, Fitted(rows, acc.files, TRUE)
    PROVE  Fitted(rows, Reconciled(acc).files, FALSE)
<1>1. \A s \in Sources : acc.files[s] # NoFile /\ acc.files[s].seen => Reconciled(acc).files[s] = acc.files[s]
  BY ReconciledTypes
<1> SUFFICES ASSUME NEW r \in rows, Answer(r), FileThere(r, rows, acc.files, TRUE)
             PROVE  FileThere(r, rows, Reconciled(acc).files, FALSE)
  BY DEF Fitted
<1>2. r.src \in Sources
  BY DEF WireRecords
<1>3. Reconciled(acc).files[r.src] = acc.files[r.src]
  BY <1>1, <1>2 DEF FileThere
<1> QED
  BY <1>3 DEF FileThere

(* The hub applies a chunk. *)
LEMMA FitHubApply ==
    ASSUME JournalInv, LinkInv, FlowInv, ShowInv, FitInv, HubApply
    PROVE  FitInv'
<1> DEFINE d == toHub[1]
           R == Records(d.records)
           A == Folded(hub, d)
<1>0. [SyncNext]_vars
  BY DEF SyncNext, ProtocolStep
<1>1. /\ Running /\ Active /\ 1 \in DOMAIN toHub /\ Head(toHub) = toHub[1]
      /\ GoodDelta(d) /\ hub \in Projections /\ hub.row \in CursorRows
      /\ Committed(hub, d, hub', ApplyCatalogue(hub, d).ack)
      /\ Shorter(toHub, toHub') /\ Advanced(hub, hub', toHub)
      /\ hub'.row.snap <=> (hub.row.snap /\ ~d.done)
      /\ ~hub.row.snap => Increment(journal, hub.row.version, d)
      /\ UNCHANGED <<sync, sent, journalVars>>
  BY ChunkMovesRow
<1>2. A.ok /\ hub'.files = Settled(hub, d).files
  BY <1>1 DEF Committed
<1>3. /\ InOrder(hub, toHub, sync) /\ Rising(hub, toHub)
      /\ Reaches(journal, hub, toHub, sync)
      /\ Fitted(Pending(toHub, sync), hub.files, hub.row.snap)
  BY <1>1 DEF FitInv
<1>4. Sound(journal, current) /\ current \in Nat /\ epoch \in Nat
  BY <1>0, JournalSound, SyncMoves
<1>5. /\ d.through \in Nat /\ hub.row.version \in Nat /\ hub.row.snap \in BOOLEAN
      /\ R \subseteq WireRecords
  BY <1>1 DEF GoodDelta, Deltas, GoodRecord, Records, CursorRows
<1>6. UNCHANGED <<journal, sync, sent>>
  BY <1>1 DEF journalVars
<1>7. /\ Acceptable(hub, d)
      /\ hub.row.snap => \E v \in Nat : SnapEnd(hub, toHub, sync, v) /\ \A r \in R : r.version <= v
  <2>1. toHub # <<>> /\ Head(toHub).type = "delta"
    BY DEF HubApply
  <2> QED
    BY <1>4, <2>1, HeadAcceptable
<1>8. InOrder(hub', toHub', sync) /\ Rising(hub', toHub') /\ Before(R, Pending(toHub', sync))
  BY <1>1, <1>3, ShorterOrder
<1>9. Pending(toHub, sync) = Pending(toHub', sync) \cup R
  BY <1>1, <1>5, ShorterPending
<1>10. Sorted(d.records)
  BY <1>1, <1>3 DEF InOrder
<1>11. Reaches(journal, hub', toHub', sync)
  <2>1. ~hub.row.snap => \A r \in R : r.version <= d.through
    BY <1>1 DEF Increment, Records
  <2>2. PICK rr : rr = R
    OBVIOUS
  <2>3. /\ rr = Records(toHub[1].records) /\ rr \subseteq WireRecords /\ toHub[1].through \in Nat
        /\ ~hub.row.snap => \A r \in rr : r.version <= toHub[1].through
        /\ hub.row.snap => \E v \in Nat : SnapEnd(hub, toHub, sync, v) /\ \A r \in rr : r.version <= v
    BY <1>5, <1>7, <2>1, <2>2
  <2> HIDE DEF d, R, A
  <2> QED
    BY <1>1, <1>3, <1>4, <1>5, <2>3, ShorterReaches
<1> HIDE DEF d
<1>12. PICK rest : rest = Pending(toHub', sync)
  OBVIOUS
<1>13. Fitted(rest, A.files, hub.row.snap) /\ A \in Accs
  <2>1. /\ rest \subseteq WireRecords /\ Before(Records(d.records), rest)
        /\ Fitted(rest \cup Records(d.records), hub.files, hub.row.snap)
        /\ Folded(hub, d).ok
    BY <1>2, <1>3, <1>8, <1>9, <1>12 DEF Pending
  <2>2. Fitted(rest, Folded(hub, d).files, hub.row.snap)
    BY <1>1, <1>7, <1>10, <2>1, FoldedFitted
  <2>3. /\ \A n \in 0 .. Len(d.records) : Applied(hub, d)[n] \in Accs
        /\ Len(d.records) \in Nat
    BY <1>1, ChunkSteps
  <2> QED
    BY <2>2, <2>3 DEF Folded
<1> HIDE DEF R, A
<1>14. Fitted(rest, hub'.files, hub'.row.snap)
  <2>1. CASE hub.row.snap /\ d.done
    <3>1. hub'.files = Reconciled(A).files
      BY <1>2, <2>1 DEF Settled, A
    <3>2. hub.row.snap = TRUE
      BY <1>5, <2>1
    <3>3. Fitted(rest, A.files, TRUE)
      BY <1>13, <3>2
    <3>4. rest \subseteq WireRecords
      BY <1>12 DEF Pending
    <3>5. Fitted(rest, Reconciled(A).files, FALSE)
      BY <1>13, <3>3, <3>4, ReconciledFitted
    <3>6. ~hub'.row.snap
      BY <1>1, <2>1
    <3> QED
      BY <3>1, <3>5, <3>6 DEF Fitted, FileThere
  <2>2. CASE ~(hub.row.snap /\ d.done)
    <3>1. hub'.files = A.files
      BY <1>2, <2>2 DEF Settled, A
    <3>2. hub'.row.snap => hub.row.snap
      BY <1>1
    <3> QED
      BY <1>13, <3>1, <3>2 DEF Fitted, FileThere
  <2> QED
    BY <2>1, <2>2
<1> QED
  BY <1>6, <1>8, <1>11, <1>12, <1>14 DEF FitInv

(* One message more: the indices of the queue. *)
LEMMA LongerIndices ==
    ASSUME NEW q, NEW p, Longer(q, p)
    PROVE  /\ \A i \in DOMAIN q : i \in DOMAIN p /\ p[i] = q[i] /\ i < Len(q) + 1
           /\ \A i \in DOMAIN p : i \in DOMAIN q \/ i = Len(q) + 1
           /\ Len(q) + 1 \in DOMAIN p
           /\ \A i, j \in DOMAIN p : i < j => i \in DOMAIN q
BY DEF Longer

(* The records of a queue, and those of R, are at most at version v. *)
AllUpTo(q, R, v) ==
    /\ \A r \in R : r.version <= v
    /\ \A i \in DOMAIN q : \A r \in Records(q[i].records) : r.version <= v

(* The message d, made of the rows R that the stream y had to send, is      *)
(* added to the queue; the stream is then z.                                *)
Sends(q, p, y, z, d, R) ==
    /\ Longer(q, p)
    /\ d = p[Len(q) + 1] /\ R = Records(d.records)
    /\ y # NoSync /\ z # NoSync
    /\ R \subseteq y.rows /\ y.rows \subseteq WireRecords /\ z.rows = y.rows \ R
    /\ Sorted(d.records) /\ Before(R, z.rows)
    /\ SnapOpen(z) => SnapOpen(y)
    /\ ~SnapOpen(z) => AllUpTo(q, R, d.through)

(* A message made of the rows that were to be sent keeps the order. *)
LEMMA LongerOrder ==
    ASSUME NEW h, NEW q, NEW p, NEW y, NEW z, NEW d, NEW R, Sends(q, p, y, z, d, R),
           InOrder(h, q, y)
    PROVE  /\ InOrder(h, p, z)
           /\ Pending(p, z) = Pending(q, y)
           /\ \A r \in OnWire(q) : r \in OnWire(p)
           /\ \A r \in R : r \in OnWire(p)
<1>0. /\ Longer(q, p) /\ d = p[Len(q) + 1] /\ R = Records(d.records)
      /\ y # NoSync /\ z # NoSync /\ R \subseteq y.rows /\ y.rows \subseteq WireRecords
      /\ z.rows = y.rows \ R /\ Sorted(d.records) /\ Before(R, z.rows)
      /\ SnapOpen(z) => SnapOpen(y)
      /\ ~SnapOpen(z) => AllUpTo(q, R, d.through)
  BY DEF Sends
<1>1. /\ \A i \in DOMAIN q : i \in DOMAIN p /\ p[i] = q[i] /\ i < Len(q) + 1
      /\ \A i \in DOMAIN p : i \in DOMAIN q \/ i = Len(q) + 1
      /\ Len(q) + 1 \in DOMAIN p
      /\ \A i, j \in DOMAIN p : i < j => i \in DOMAIN q
  BY <1>0, LongerIndices
<1>2. \A i \in DOMAIN p : Sorted(p[i].records)
  BY <1>0, <1>1 DEF InOrder
<1>3. ASSUME NEW i \in DOMAIN p, NEW j \in DOMAIN p, i < j
      PROVE  Before(Records(p[i].records), Records(p[j].records))
  <2>1. i \in DOMAIN q /\ p[i] = q[i]
    BY <1>0, <1>1, <1>3
  <2>2. CASE j \in DOMAIN q
    BY <1>0, <1>1, <1>3, <2>1, <2>2 DEF InOrder
  <2>3. CASE j = Len(q) + 1
    <3>1. Before(Records(q[i].records), y.rows)
      BY <1>0, <2>1 DEF InOrder
    <3> QED
      BY <1>0, <2>1, <2>3, <3>1 DEF Before
  <2> QED
    BY <1>0, <1>1, <2>2, <2>3
<1>4. ASSUME NEW i \in DOMAIN p PROVE Before(Records(p[i].records), z.rows)
  <2>1. CASE i \in DOMAIN q
    <3>1. Before(Records(q[i].records), y.rows)
      BY <1>0, <2>1 DEF InOrder
    <3> QED
      BY <1>0, <1>1, <2>1, <3>1 DEF Before
  <2>2. CASE i = Len(q) + 1
    BY <1>0, <2>2
  <2> QED
    BY <1>0, <1>1, <2>1, <2>2
<1>5. SnapOpen(z) => \A r, g \in z.rows :
            r.src = g.src /\ r.kind = "file" /\ g.kind # "file" => r.version < g.version
  BY <1>0 DEF InOrder
<1>6. End(h, p) = d.through
  BY <1>0, LongerFlow
<1>7. ~SnapOpen(z) => \A i \in DOMAIN p : \A r \in Records(p[i].records) : r.version <= End(h, p)
  BY <1>0, <1>1, <1>6 DEF AllUpTo
<1>8. InOrder(h, p, z)
  BY <1>0, <1>2, <1>3, <1>4, <1>5, <1>7 DEF InOrder
<1>9. \A r : r \in OnWire(p) <=> r \in OnWire(q) \/ r \in R
  <2>1. ASSUME NEW r, r \in OnWire(p) PROVE r \in OnWire(q) \/ r \in R
    <3>1. r \in WireRecords
      BY <1>0, <2>1 DEF OnWire
    <3>2. PICK i \in DOMAIN p : r \in Records(p[i].records)
      BY <1>0, <2>1 DEF OnWire
    <3>3. CASE i \in DOMAIN q
      BY <1>0, <1>1, <3>1, <3>2, <3>3 DEF OnWire
    <3>4. CASE i = Len(q) + 1
      BY <1>0, <3>2, <3>4
    <3> QED
      BY <1>0, <1>1, <3>3, <3>4
  <2>2. ASSUME NEW r, r \in OnWire(q) PROVE r \in OnWire(p)
    BY <1>0, <1>1, <2>2 DEF OnWire
  <2>3. ASSUME NEW r, r \in R PROVE r \in OnWire(p)
    <3>1. r \in WireRecords /\ r \in Records(p[Len(q) + 1].records)
      BY <1>0, <2>3
    <3> QED
      BY <1>0, <1>1, <3>1 DEF OnWire
  <2> QED
    BY <1>0, <2>1, <2>2, <2>3
<1>10. Pending(p, z) = Pending(q, y)
  BY <1>0, <1>9 DEF Pending
<1> QED
  BY <1>0, <1>8, <1>9, <1>10

(* One message more, and what the link has got to is on the wire. *)
LEMMA LongerReaches ==
    ASSUME NEW J, NEW c \in Nat, Sound(J, c),
           NEW h, NEW q, NEW p, NEW y, NEW z, NEW d, NEW R, Longer(q, p),
           d = p[Len(q) + 1], R = Records(d.records), d.through \in Nat, End(h, q) \in Nat,
           \A r \in OnWire(q) : r \in OnWire(p),
           \A r \in R : r \in OnWire(p),
           ~SnapOpen(y) => Increment(J, End(h, q), d),
           SnapOpen(y) /\ ~SnapOpen(z) => d.done /\ SnapMsg(h, q, Len(q) + 1),
           Reaches(J, h, q, y)
    PROVE  Reaches(J, h, p, z)
<1> SUFFICES ASSUME ~SnapOpen(z), NEW s \in Sources, Live(J[s]["file"]),
                    J[s]["file"].version <= End(h, p)
             PROVE  Passed(h, p, z, J[s]["file"].version) \/ Cell(J, s, "file") \in OnWire(p)
  BY DEF Reaches
<1>1. PICK n : n = J[s]["file"].version
  OBVIOUS
<1>2. n \in Nat /\ J[s]["file"] # NoRecord /\ "file" \in Kinds
  BY <1>1, KindNames DEF Sound, Live
<1>3. n <= d.through
  BY <1>1, LongerFlow
<1>4. /\ \A i \in DOMAIN q : i \in DOMAIN p /\ p[i] = q[i]
      /\ Len(q) + 1 \in DOMAIN p
      /\ \A i \in DOMAIN p : SnapMsg(h, p, i) <=> SnapMsg(h, q, i)
  <2>1. DOMAIN p = 1 .. (Len(q) + 1)
    BY DEF Longer
  <2> QED
    BY <2>1, LongerIndices, LongerFlow
<1>5. CASE SnapOpen(y)
  <2>1. SnapEnd(h, p, z, d.through)
    BY <1>4, <1>5 DEF SnapEnd
  <2> QED
    BY <1>1, <1>3, <2>1 DEF Passed
<1>6. CASE ~SnapOpen(y) /\ n <= End(h, q)
  <2>1. Passed(h, q, y, n) \/ Cell(J, s, "file") \in OnWire(q)
    BY <1>1, <1>6 DEF Reaches
  <2>2. ASSUME NEW v \in Nat, SnapEnd(h, q, y, v) PROVE SnapEnd(h, p, z, v)
    BY <1>4, <1>6, <2>2 DEF SnapEnd
  <2>3. Passed(h, q, y, n) => Passed(h, p, z, n)
    BY <2>2 DEF Passed
  <2> QED
    BY <1>1, <2>1, <2>3
<1>7. CASE ~SnapOpen(y) /\ ~(n <= End(h, q))
  <2>1. Covers(J, R, End(h, q), d.through)
    BY <1>7 DEF Increment
  <2>2. Cell(J, s, "file") \in R
    BY <1>1, <1>2, <1>3, <1>7, <2>1 DEF Covers
  <2> QED
    BY <2>2
<1> QED
  BY <1>5, <1>6, <1>7

(* A message that reaches further than the end of the link. *)
LEMMA LongerRising ==
    ASSUME NEW h, NEW q, NEW p, Longer(q, p), Rising(h, q),
           h.row.version \in Nat, End(h, q) \in Nat,
           \A i \in DOMAIN p : p[i].through \in Nat,
           End(h, q) <= p[Len(q) + 1].through
    PROVE  Rising(h, p)
<1>1. /\ \A i \in DOMAIN q : i \in DOMAIN p /\ p[i] = q[i] /\ i < Len(q) + 1
      /\ \A i \in DOMAIN p : i \in DOMAIN q \/ i = Len(q) + 1
      /\ Len(q) + 1 \in DOMAIN p
      /\ \A i, j \in DOMAIN p : i < j => i \in DOMAIN q
  BY LongerIndices
<1>2. h.row.version <= End(h, q) /\ \A i \in DOMAIN q : q[i].through <= End(h, q)
  <2>1. CASE Len(q) = 0
    BY <2>1 DEF Longer, End, Base
  <2>2. CASE Len(q) # 0
    <3>1. /\ Len(q) \in DOMAIN q /\ Len(q) + 1 # 1 /\ (Len(q) + 1) - 1 = Len(q)
          /\ \A i \in DOMAIN q : i = Len(q) \/ i < Len(q)
      BY <2>2 DEF Longer
    <3>2. End(h, q) = q[Len(q)].through
      BY <3>1 DEF End, Base
    <3>3. h.row.version <= q[Len(q)].through
      BY <3>1 DEF Rising
    <3>4. \A i \in DOMAIN q : i < Len(q) => q[i].through <= q[Len(q)].through
      BY <3>1 DEF Rising
    <3> QED
      BY <3>1, <3>2, <3>3, <3>4
  <2> QED
    BY <2>1, <2>2
<1>3. \A i \in DOMAIN p : h.row.version <= p[i].through
  BY <1>1, <1>2 DEF Rising
<1>4. ASSUME NEW i \in DOMAIN p, NEW j \in DOMAIN p, i < j PROVE p[i].through <= p[j].through
  <2>1. i \in DOMAIN q /\ p[i] = q[i]
    BY <1>1, <1>4
  <2>2. CASE j \in DOMAIN q
    BY <1>1, <1>4, <2>1, <2>2 DEF Rising
  <2>3. CASE j = Len(q) + 1
    BY <1>1, <1>2, <2>1, <2>3
  <2> QED
    BY <1>1, <2>2, <2>3
<1> QED
  BY <1>3, <1>4 DEF Rising

(* A message is sent: what is pending stays pending, in its order. *)
LEMMA FitSent ==
    ASSUME JournalInv, LinkInv, FlowInv, ShowInv, FitInv, FlowInv', Running, SameStream,
           sync.stage = "streaming", NEW d, Queues(d), NEW R, R = Records(d.records),
           R \subseteq sync.rows, sync'.rows = sync.rows \ R, Sorted(d.records), Before(R, sync'.rows),
           sync'.stage = IF d.done THEN "joined" ELSE "streaming",
           sync.snapshot /\ d.done => d.through = sync.current,
           UNCHANGED <<hub, sent, journal>>, epoch \in Nat, current \in Nat
    PROVE  FitInv'
<1>1. /\ Longer(toHub, toHub') /\ d = toHub'[Len(toHub) + 1] /\ GoodDelta(d)
      /\ Len(toHub) \in Nat /\ DOMAIN toHub = 1 .. Len(toHub) /\ (Len(toHub) + 1) - 1 = Len(toHub)
      /\ Len(toHub) + 1 \in DOMAIN toHub'
  BY DEF Queues, Longer
<1>2. /\ sync # NoSync /\ sync' # NoSync /\ sync'.snapshot = sync.snapshot
  BY DEF SameStream
<1>3. /\ MsgInv(journal, hub, toHub) /\ OpenInv(hub, toHub, sync)
      /\ StreamInv(journal, hub, toHub, sync, sent)
      /\ SnapInv(journal, hub, toHub, sync)
      /\ InOrder(hub, toHub, sync) /\ Rising(hub, toHub)
      /\ Reaches(journal, hub, toHub, sync)
      /\ Fitted(Pending(toHub, sync), hub.files, hub.row.snap)
  BY <1>2 DEF FlowInv, ShowInv, FitInv, Active
<1>4. MsgInv(journal, hub, toHub')
  BY <1>2 DEF FlowInv, Active
<1>5. /\ hub.row.version \in Nat /\ (hub.row.snap => hub.row.version = 0)
      /\ \A i \in DOMAIN toHub : /\ toHub[i].through \in Nat /\ GoodDelta(toHub[i])
      /\ End(hub, toHub) \in Nat
  BY EndTypes
<1>6. d.through \in Nat /\ d.done \in BOOLEAN /\ sync.current \in Nat /\ sync.rows \subseteq WireRecords
      /\ \A r \in sync.rows : r.version <= sync.current
  <2>1. d.through \in Nat /\ d.done \in BOOLEAN
    BY <1>1 DEF GoodDelta, Deltas
  <2>2. sync.current \in Nat /\ sync.rows \subseteq WireRecords
    BY <1>2, StreamTypes DEF LinkInv
  <2> QED
    BY <1>2, <2>1, <2>2 DEF Running
<1>7. \A i \in DOMAIN toHub : \A r \in Records(toHub[i].records) : r \in WireRecords /\ r.version \in Nat
  BY <1>5 DEF GoodDelta, GoodRecord, Records, WireRecords
<1>8. /\ SnapOpen(sync) <=> sync.snapshot
      /\ SnapOpen(sync') <=> sync.snapshot /\ ~d.done
      /\ SnapOpen(sync') => SnapOpen(sync)
  BY <1>2, <1>6 DEF SnapOpen
<1>9. SnapMsg(hub, toHub, Len(toHub) + 1) <=> sync.snapshot
  BY <1>1, <1>3, <1>8 DEF OpenInv, SnapMsg
<1>10. ~SnapOpen(sync) => Increment(journal, End(hub, toHub), d)
  <2>1. Len(toHub) + 1 \in 1 .. (Len(toHub) + 1)
    BY <1>1
  <2>2. /\ SnapMsg(hub, toHub', Len(toHub) + 1) <=> SnapMsg(hub, toHub, Len(toHub) + 1)
        /\ Base(hub, toHub', Len(toHub) + 1) = Base(hub, toHub, Len(toHub) + 1)
    BY <1>1, <2>1, LongerFlow
  <2>3. ~sync.snapshot => Increment(journal, Base(hub, toHub', Len(toHub) + 1), d)
    BY <1>1, <1>4, <1>9, <2>2 DEF MsgInv
  <2> QED
    BY <1>8, <2>2, <2>3 DEF End
<1>11. ASSUME sync.snapshot
       PROVE  /\ \A i \in DOMAIN toHub : SnapMsg(hub, toHub, i) /\ toHub[i].through = 0
              /\ End(hub, toHub) = 0
              /\ \A i \in DOMAIN toHub : \A r \in Records(toHub[i].records) : r.version <= sync.current
  <2>1. hub.row.snap /\ \A i \in DOMAIN toHub : ~toHub[i].done
    BY <1>3, <1>8, <1>11 DEF OpenInv
  <2>2. ASSUME NEW i \in DOMAIN toHub PROVE SnapMsg(hub, toHub, i)
    <3>1. \A j \in 1 .. (i - 1) : j \in DOMAIN toHub
      BY <1>1
    <3> QED
      BY <2>1, <3>1 DEF SnapMsg
  <2>3. \A i \in DOMAIN toHub : toHub[i].through = 0
    BY <1>3, <2>1, <2>2 DEF MsgInv
  <2>4. End(hub, toHub) = 0
    <3>1. Len(toHub) + 1 # 1 => (Len(toHub) + 1) - 1 \in DOMAIN toHub
      BY <1>1
    <3> QED
      BY <1>5, <2>1, <2>3, <3>1 DEF End, Base
  <2>5. SnapEnd(hub, toHub, sync, sync.current)
    BY <1>8, <1>11 DEF SnapEnd
  <2>6. Progress(journal, hub, Block(hub, toHub, sync), sync.current)
    BY <1>3, <1>6, <2>5 DEF SnapInv
  <2>7. \A i \in DOMAIN toHub : \A r \in Records(toHub[i].records) : r \in Block(hub, toHub, sync)
    BY <1>7, <2>2 DEF Block
  <2>8. \A i \in DOMAIN toHub : \A r \in Records(toHub[i].records) : r.version <= sync.current
    BY <2>6, <2>7 DEF Progress, SnapRecord
  <2> QED
    BY <2>2, <2>3, <2>4, <2>8
<1>12. ~SnapOpen(sync') => AllUpTo(toHub, R, d.through)
  <2>1. CASE ~sync.snapshot
    <3>1. Increment(journal, End(hub, toHub), d)
      BY <1>8, <1>10, <2>1
    <3>2. \A r \in R : r.version <= d.through
      BY <3>1 DEF Increment, Records
    <3>3. \A i \in DOMAIN toHub : \A r \in Records(toHub[i].records) : r.version <= End(hub, toHub)
      BY <1>3, <1>8, <2>1 DEF InOrder
    <3>4. End(hub, toHub) <= d.through
      BY <3>1 DEF Increment
    <3>5. \A i \in DOMAIN toHub : \A r \in Records(toHub[i].records) : r.version <= d.through
      BY <1>5, <1>6, <1>7, <3>3, <3>4
    <3> QED
      BY <3>2, <3>5 DEF AllUpTo
  <2>2. CASE sync.snapshot
    BY <1>6, <1>8, <1>11, <2>2 DEF AllUpTo
  <2> QED
    BY <2>1, <2>2
<1>13. /\ InOrder(hub, toHub', sync')
       /\ Pending(toHub', sync') = Pending(toHub, sync)
       /\ \A r \in OnWire(toHub) : r \in OnWire(toHub')
       /\ \A r \in R : r \in OnWire(toHub')
  <2>1. PICK p, z : p = toHub' /\ z = sync'
    OBVIOUS
  <2>2. InOrder(hub, toHub, sync) /\ Longer(toHub, p) /\ sync # NoSync /\ z # NoSync
    BY <1>1, <1>2, <1>3, <2>1
  <2>3. sync.rows \subseteq WireRecords /\ (SnapOpen(z) => SnapOpen(sync)) /\ d = p[Len(toHub) + 1]
    BY <1>1, <1>6, <1>8, <2>1
  <2>4. z.rows = sync.rows \ R /\ Before(R, z.rows)
    BY <2>1
  <2>5. ~SnapOpen(z) => AllUpTo(toHub, R, d.through)
    BY <1>12, <2>1
  <2>6. Sends(toHub, p, sync, z, d, R)
    BY <2>2, <2>3, <2>4, <2>5 DEF Sends
  <2>7. /\ InOrder(hub, p, z)
        /\ Pending(p, z) = Pending(toHub, sync)
        /\ \A r \in OnWire(toHub) : r \in OnWire(p)
        /\ \A r \in R : r \in OnWire(p)
    <3>1. InOrder(hub, toHub, sync)
      BY <2>2
    <3>2. InOrder(hub, p, z)
      BY <2>6, <3>1, LongerOrder
    <3>3. Pending(p, z) = Pending(toHub, sync)
      BY <2>6, <3>1, LongerOrder
    <3>4. \A r \in OnWire(toHub) : r \in OnWire(p)
      BY <2>6, <3>1, LongerOrder
    <3>5. \A r \in R : r \in OnWire(p)
      BY <2>6, <3>1, LongerOrder
    <3> QED
      BY <3>2, <3>3, <3>4, <3>5
  <2> QED
    BY <2>1, <2>7
<1>14. SnapOpen(sync) /\ ~SnapOpen(sync') => d.done /\ SnapMsg(hub, toHub, Len(toHub) + 1)
  BY <1>8, <1>9
<1>15. Reaches(journal, hub, toHub', sync')
  <2>1. Sound(journal, current)
    BY JournalSound
  <2>2. Longer(toHub, toHub') /\ d = toHub'[Len(toHub) + 1] /\ d.through \in Nat /\ End(hub, toHub) \in Nat
    BY <1>1, <1>5, <1>6
  <2>3. Reaches(journal, hub, toHub, sync)
    BY <1>3
  <2>4. (\A r \in OnWire(toHub) : r \in OnWire(toHub')) /\ (\A r \in R : r \in OnWire(toHub'))
    BY <1>13
  <2> QED
    BY <1>10, <1>14, <2>1, <2>2, <2>3, <2>4, LongerReaches, ZenonT(40)
<1>16. Rising(hub, toHub')
  <2>1. End(hub, toHub) <= d.through
    BY <1>5, <1>6, <1>8, <1>10, <1>11 DEF Increment
  <2>2. \A i \in DOMAIN toHub' : toHub'[i].through \in Nat
    BY <1>1, <1>5, <1>6, LongerIndices
  <2> QED
    BY <1>1, <1>3, <1>5, <2>1, <2>2, LongerRising
<1>17. Fitted(Pending(toHub', sync'), hub.files, hub.row.snap)
  BY <1>3, <1>13
<1> QED
  BY <1>13, <1>15, <1>16, <1>17 DEF FitInv

(* send_catalog_pages. *)
LEMMA FitSendChunk ==
    ASSUME JournalInv, LinkInv, FlowInv, ShowInv, FitInv, SendChunk
    PROVE  FitInv'
<1>0. [SyncNext]_vars
  BY DEF SyncNext, ProtocolStep
<1>1. /\ Running /\ sync.stage = "streaming" /\ SameStream
      /\ UNCHANGED <<link, toHost, sent, hub, hostAck, journalVars>>
  BY SendChunkInv
<1>2. PICK d : Queues(d)
  BY SendChunkInv
<1>3. PICK n \in Nat \ {0}, chunk \in Seq(WireRecords) : SentChunk(n, chunk)
  BY SendChunkInv
<1>4. PICK R : R = Records(d.records)
  OBVIOUS
<1>5. d = toHub'[Len(toHub) + 1]
  BY <1>2 DEF Queues
<1>6. /\ d.records = chunk /\ DOMAIN chunk = 1 .. n /\ R \subseteq Pool
      /\ \A i, j \in 1 .. n : i < j => chunk[i].version < chunk[j].version
      /\ \A r \in R : \A g \in Pool \ R : r.version < g.version
      /\ d.done = (sync.rows \ R = {} /\ ~InFiles)
      /\ d.done => d.through = sync.current
      /\ sync'.rows = sync.rows \ R
      /\ sync'.stage = IF d.done THEN "joined" ELSE "streaming"
  <2>1. d.records = chunk /\ R = Records(chunk)
    BY <1>3, <1>4, <1>5 DEF SentChunk
  <2>2. /\ DOMAIN chunk = 1 .. n /\ R \subseteq Pool
        /\ \A i, j \in 1 .. n : i < j => chunk[i].version < chunk[j].version
        /\ \A i \in 1 .. n : \A g \in Pool \ R : chunk[i].version < g.version
        /\ d.done = (sync.rows \ R = {} /\ ~InFiles)
        /\ d.done => d.through = sync.current
        /\ sync'.rows = sync.rows \ R
        /\ sync'.stage = IF sync.rows \ R = {} /\ ~InFiles THEN "joined" ELSE "streaming"
    BY <1>3, <1>5, <2>1 DEF SentChunk
  <2>3. \A r \in R : \E i \in 1 .. n : r = chunk[i]
    BY <2>1, <2>2 DEF Records
  <2> QED
    BY <2>1, <2>2, <2>3
<1>7. Pool \subseteq sync.rows /\ (~InFiles => Pool = sync.rows)
      /\ (InFiles => sync.snapshot /\ Pool = {r \in sync.rows : r.kind = "file"})
  BY DEF Pool, InFiles
<1>8. Sorted(d.records)
  BY <1>6 DEF Sorted
<1>9. sync # NoSync
  BY <1>1 DEF SameStream
<1>10. InOrder(hub, toHub, sync)
  BY <1>9 DEF FitInv, Active
<1>11. Before(R, sync'.rows)
  <2> SUFFICES ASSUME NEW r \in R, NEW g \in sync.rows \ R, r.src = g.src PROVE r.version < g.version
    BY <1>6 DEF Before
  <2>1. CASE g \in Pool
    BY <1>6, <2>1
  <2>2. CASE g \notin Pool
    <3>1. InFiles /\ r.kind = "file" /\ g.kind # "file" /\ r \in sync.rows
      BY <1>6, <1>7, <2>2
    <3>2. SnapOpen(sync)
      BY <1>1, <1>7, <1>9, <3>1 DEF SnapOpen
    <3> QED
      BY <1>10, <3>1, <3>2 DEF InOrder
  <2> QED
    BY <2>1, <2>2
<1>12. FlowInv'
  BY FlowSendChunk
<1>13. epoch \in Nat /\ current \in Nat /\ UNCHANGED <<hub, sent, journal>>
  BY <1>0, <1>1, SyncMoves DEF journalVars
<1>14. R \subseteq sync.rows /\ (sync.snapshot /\ d.done => d.through = sync.current)
  BY <1>6, <1>7
<1>15. sync'.rows = sync.rows \ R /\ sync'.stage = IF d.done THEN "joined" ELSE "streaming"
  BY <1>6
<1> QED
  BY <1>1, <1>2, <1>4, <1>8, <1>11, <1>12, <1>13, <1>14, <1>15, FitSent, ZenonT(40)

(* A stream that has nothing to send, and is not a snapshot, changes        *)
(* nothing of what is pending.                                              *)
LEMMA IdleStream ==
    ASSUME NEW J, NEW h, NEW q, NEW y, NEW z, ~SnapOpen(y), ~SnapOpen(z),
           y # NoSync => y.rows = {}, z # NoSync => z.rows = {}
    PROVE  /\ InOrder(h, q, y) => InOrder(h, q, z)
           /\ Reaches(J, h, q, y) => Reaches(J, h, q, z)
           /\ Pending(q, z) = Pending(q, y)
<1>1. ASSUME InOrder(h, q, y) PROVE InOrder(h, q, z)
  BY <1>1 DEF InOrder, Before
<1>2. \A v : SnapEnd(h, q, z, v) <=> SnapEnd(h, q, y, v)
  BY DEF SnapEnd
<1>3. \A n : Passed(h, q, y, n) => Passed(h, q, z, n)
  BY <1>2 DEF Passed
<1>4. ASSUME Reaches(J, h, q, y) PROVE Reaches(J, h, q, z)
  BY <1>3, <1>4 DEF Reaches
<1>5. Pending(q, z) = Pending(q, y)
  BY DEF Pending
<1> QED
  BY <1>1, <1>4, <1>5

(* The end of a stream without rows. *)
LEMMA FitSendEmpty ==
    ASSUME JournalInv, LinkInv, FlowInv, ShowInv, FitInv, SendEmpty
    PROVE  FitInv'
<1>0. [SyncNext]_vars
  BY DEF SyncNext, ProtocolStep
<1>1. /\ Running /\ sync.stage = "streaming" /\ SameStream
      /\ sync'.stage = "joined" /\ sync'.rows = {} /\ sync.rows = {}
      /\ \/ sync.snapshot /\ SentEmpty /\ \E d : Queues(d)
         \/ ~sync.snapshot /\ sync.current # sync.start /\ SentEmpty /\ \E d : Queues(d)
         \/ ~sync.snapshot /\ sync.current = sync.start /\ toHub' = toHub
      /\ UNCHANGED <<link, toHost, sent, hub, hostAck, journalVars>>
  BY SendEmptyInv
<1>2. /\ sync # NoSync /\ sync' # NoSync /\ sync'.snapshot = sync.snapshot
  BY <1>1 DEF SameStream
<1>3. epoch \in Nat /\ current \in Nat /\ UNCHANGED <<hub, sent, journal>>
  BY <1>0, <1>1, SyncMoves DEF journalVars
<1>4. CASE ~sync.snapshot /\ toHub' = toHub
  <2>1. ~SnapOpen(sync) /\ ~SnapOpen(sync')
    BY <1>2, <1>4 DEF SnapOpen
  <2>2. /\ InOrder(hub, toHub, sync) /\ Rising(hub, toHub)
        /\ Reaches(journal, hub, toHub, sync)
        /\ Fitted(Pending(toHub, sync), hub.files, hub.row.snap)
    BY <1>2 DEF FitInv, Active
  <2>3. /\ InOrder(hub, toHub, sync') /\ Reaches(journal, hub, toHub, sync')
        /\ Pending(toHub, sync') = Pending(toHub, sync)
    BY <1>1, <2>1, <2>2, IdleStream
  <2> QED
    BY <1>3, <1>4, <2>2, <2>3 DEF FitInv
<1>5. CASE SentEmpty /\ \E d : Queues(d)
  <2>1. PICK d : Queues(d)
    BY <1>5
  <2>2. d = toHub'[Len(toHub) + 1]
    BY <2>1 DEF Queues
  <2>3. d.records = <<>> /\ d.done = TRUE /\ d.through = sync.current
    BY <1>5, <2>2 DEF SentEmpty
  <2>4. PICK R : R = Records(d.records)
    OBVIOUS
  <2>5. R = {} /\ Sorted(d.records) /\ Before(R, sync'.rows)
    BY <2>3, <2>4 DEF Records, Sorted, Before
  <2>6. R \subseteq sync.rows /\ sync'.rows = sync.rows \ R
    BY <1>1, <2>5
  <2>7. sync'.stage = IF d.done THEN "joined" ELSE "streaming"
    BY <1>1, <2>3
  <2>8. FlowInv'
    BY FlowSendEmpty
  <2> QED
    BY <1>1, <1>3, <2>1, <2>3, <2>4, <2>5, <2>6, <2>7, <2>8, FitSent, ZenonT(40)
<1> QED
  BY <1>1, <1>4, <1>5

(* The catalogue's cursor answered to the offer starts a stream. *)
LEMMA FitHostCursor ==
    ASSUME JournalInv, LinkInv, HostCursor
    PROVE  FitInv'
<1>1. /\ Answered /\ Running'
      /\ sync' = Queued(hub.row.version, hub.row.snap)
      /\ toHub' = <<>> /\ UNCHANGED <<hub, journalVars>>
  BY HostCursorInv
<1>2. hub.row.version \in Nat /\ hub.row.snap \in BOOLEAN
  BY <1>1 DEF Answered, LinkInv, SyncTypes, Projections, CursorRows
<1>3. sync'.stage = "queued" /\ sync'.rows = {} /\ sync'.snapshot = hub.row.snap /\ sync' # NoSync
  BY <1>1, <1>2, QueuedTypes
<1>4. DOMAIN toHub' = {} /\ End(hub, toHub') = hub.row.version
  BY <1>1 DEF End, Base
<1>5. InOrder(hub, toHub', sync') /\ Rising(hub, toHub')
  BY <1>3, <1>4 DEF InOrder, Rising
<1>6. Reaches(journal, hub, toHub', sync')
  BY <1>3, <1>4 DEF Reaches, Passed, SnapOpen
<1>7. Pending(toHub', sync') = {}
  BY <1>3, <1>4 DEF Pending, OnWire
<1>8. Fitted(Pending(toHub', sync'), hub.files, hub.row.snap)
  BY <1>7 DEF Fitted
<1>9. UNCHANGED <<journal, hub>>
  BY <1>1 DEF journalVars
<1> QED
  BY <1>5, <1>6, <1>8, <1>9 DEF FitInv

(* The next stream starts with nothing to send. *)
LEMMA FitSchedule ==
    ASSUME JournalInv, LinkInv, FlowInv, FitInv, SyncJoined \/ VersionsChanged
    PROVE  FitInv'
<1>1. /\ UNCHANGED <<link, toHub, toHost, hub, hostAck, journalVars>>
      /\ \/ UNCHANGED <<sync, sent>>
         \/ /\ Running /\ sent' \in Nat
            /\ sync' = NoSync \/ sync' = Queued(sent', FALSE)
            /\ \/ sync # NoSync /\ sync.stage = "joined" /\ sent' = sync.current
               \/ sync = NoSync /\ sent' = sent
  BY ScheduleInv
<1>2. UNCHANGED <<journal, hub, toHub>>
  BY <1>1 DEF journalVars
<1>3. CASE UNCHANGED <<sync, sent>>
  BY <1>2, <1>3 DEF FitInv, Active
<1>4. CASE ~UNCHANGED <<sync, sent>>
  <2>1. Active /\ ~SnapOpen(sync)
    BY <1>1, <1>4, SyncAssumption DEF Active, SnapOpen
  <2>2. sync' # NoSync => sync'.snapshot = FALSE /\ sync'.rows = {}
    BY <1>1, <1>4, QueuedTypes
  <2>3. ~SnapOpen(sync')
    BY <2>2 DEF SnapOpen
  <2>4. /\ InOrder(hub, toHub, sync) /\ Rising(hub, toHub)
        /\ Reaches(journal, hub, toHub, sync)
        /\ Fitted(Pending(toHub, sync), hub.files, hub.row.snap)
    BY <2>1 DEF FitInv
  <2>5. sync # NoSync => sync.rows = {}
    BY <1>1, <1>4, <2>1 DEF FlowInv, StreamInv
  <2>6. /\ InOrder(hub, toHub, sync') /\ Reaches(journal, hub, toHub, sync')
        /\ Pending(toHub, sync') = Pending(toHub, sync)
    BY <2>1, <2>2, <2>3, <2>4, <2>5, IdleStream
  <2> QED
    BY <1>2, <2>4, <2>6 DEF FitInv
<1> QED
  BY <1>3, <1>4

(* The journal moves under the link. *)
LEMMA FitMoves ==
    ASSUME JournalInv, LinkInv, FitInv, JournalInv', Moves, epoch \in Nat,
           UNCHANGED <<toHub, toHost, sync, sent, hub, epoch>>
    PROVE  FitInv'
<1>1. Sound(journal, current) /\ Sound(journal', current') /\ Moved(journal, journal', current)
  <2>1. Sound(journal, current)'
    BY JournalSound, PTL
  <2> QED
    BY <2>1, JournalSound, MovesMoved
<1>2. current \in Nat
  BY <1>1 DEF Sound
<1>3. CASE ~Active
  BY <1>3 DEF FitInv, Active
<1>4. CASE Active
  <2>1. Running
    BY <1>4, PhaseOf DEF Active
  <2>2. End(hub, toHub) \in Nat /\ End(hub, toHub) <= current
    BY <1>2, <2>1, EndTypes
  <2>3. /\ InOrder(hub, toHub, sync) /\ Rising(hub, toHub)
        /\ Reaches(journal, hub, toHub, sync)
        /\ Fitted(Pending(toHub, sync), hub.files, hub.row.snap)
    BY <1>4 DEF FitInv
  <2>4. Reaches(journal', hub, toHub, sync)
    <3> SUFFICES ASSUME ~SnapOpen(sync), NEW s \in Sources, Live(journal'[s]["file"]),
                        journal'[s]["file"].version <= End(hub, toHub)
                 PROVE  \/ Passed(hub, toHub, sync, journal'[s]["file"].version)
                        \/ Cell(journal', s, "file") \in OnWire(toHub)
      BY DEF Reaches
    <3>1. journal'[s]["file"].version \in Nat /\ "file" \in Kinds
      BY <1>1, KindNames DEF Sound, Live
    <3>2. journal'[s]["file"] = journal[s]["file"]
      BY <1>1, <1>2, <2>2, <3>1 DEF Moved
    <3>3. Cell(journal', s, "file") = Cell(journal, s, "file")
      BY <3>2 DEF Cell
    <3> QED
      BY <2>3, <3>2, <3>3 DEF Reaches
  <2> QED
    BY <2>3, <2>4 DEF FitInv
<1> QED
  BY <1>3, <1>4

(* A record that may change the bytes of a source whose file row is live is *)
(* not newer than that row, and older unless it is that row.                *)
LEMMA ResetsBefore ==
    ASSUME NEW J, NEW c \in Nat, Sound(J, c), NEW g, NEW v \in Nat, Genuine(J, g, v),
           g.version \in Nat, g.version <= v, Resets(g), NEW s, s = g.src, Live(J[s]["file"])
    PROVE  /\ g.version <= J[s]["file"].version
           /\ J[s]["file"].version <= v => g = Cell(J, s, "file")
<1>1. s \in Sources /\ "file" \in Kinds /\ J[s]["file"] # NoRecord
  BY KindNames DEF Genuine, Live
<1>2. J[s]["file"].version \in Nat
  BY <1>1 DEF Sound
<1>3. CASE g.kind = "file"
  <2>1. Cell(J, s, "file") = g \/ J[s]["file"].version > v
    BY <1>3 DEF Genuine
  <2>2. Cell(J, s, "file") = g => g.version = J[s]["file"].version
    BY DEF Cell
  <2> QED
    BY <1>2, <2>1, <2>2
<1>4. CASE g.kind = "file_error" /\ ~g.deleted
  <2>1. J[s]["file"].version > v
    BY <1>4 DEF Genuine
  <2> QED
    BY <1>2, <2>1
<1> QED
  BY <1>3, <1>4 DEF Resets

(* What is on the wire was true of the journal. *)
LEMMA WireGenuine ==
    ASSUME JournalInv, LinkInv, FlowInv, ShowInv, Active, epoch \in Nat, current \in Nat,
           NEW i \in DOMAIN toHub, NEW g \in Records(toHub[i].records)
    PROVE  /\ g \in WireRecords /\ g.version \in Nat
           /\ \E v \in Nat : Genuine(journal, g, v) /\ g.version <= v
           /\ SnapMsg(hub, toHub, i) => g \in Block(hub, toHub, sync)
           /\ ~SnapMsg(hub, toHub, i) => Base(hub, toHub, i) < g.version
<1>1. Running
  BY PhaseOf DEF Active
<1>2. /\ Len(toHub) \in Nat /\ DOMAIN toHub = 1 .. Len(toHub)
      /\ \A j \in DOMAIN toHub : toHub[j].through \in Nat /\ GoodDelta(toHub[j])
  BY <1>1, EndTypes
<1>3. g \in WireRecords /\ g.version \in Nat
  BY <1>2 DEF GoodDelta, GoodRecord, Records, WireRecords
<1>4. /\ MsgInv(journal, hub, toHub) /\ OpenInv(hub, toHub, sync)
      /\ StreamInv(journal, hub, toHub, sync, sent)
      /\ SnapInv(journal, hub, toHub, sync)
  BY DEF FlowInv, ShowInv
<1>5. SnapMsg(hub, toHub, i) => g \in Block(hub, toHub, sync)
  BY <1>3 DEF Block
<1>6. ASSUME ~SnapMsg(hub, toHub, i)
      PROVE  /\ Base(hub, toHub, i) < g.version
             /\ Genuine(journal, g, toHub[i].through) /\ g.version <= toHub[i].through
  <2>1. Increment(journal, Base(hub, toHub, i), toHub[i])
    BY <1>4, <1>6 DEF MsgInv
  <2>2. PICK a \in DOMAIN toHub[i].records : g = toHub[i].records[a]
    BY DEF Records
  <2> QED
    BY <2>1, <2>2 DEF Increment
<1>7. ASSUME SnapMsg(hub, toHub, i)
      PROVE  \E v \in Nat : Genuine(journal, g, v) /\ g.version <= v
  <2>1. hub.row.snap /\ toHub # <<>>
    BY <1>2, <1>7 DEF SnapMsg
  <2>2. sync # NoSync => sync.current \in Nat /\ sync.stage \in {"queued", "streaming", "joined"}
    BY StreamTypes DEF LinkInv
  <2>3. PICK v \in Nat : SnapEnd(hub, toHub, sync, v)
    BY <1>2, <1>4, <2>1, <2>2, SnapEnds
  <2>4. Progress(journal, hub, Block(hub, toHub, sync), v)
    BY <1>4, <2>3 DEF SnapInv
  <2>5. SnapRecord(journal, g, v)
    BY <1>5, <1>7, <2>4 DEF Progress
  <2> QED
    BY <2>5 DEF SnapRecord
<1>8. \E v \in Nat : Genuine(journal, g, v) /\ g.version <= v
  <2>1. CASE SnapMsg(hub, toHub, i)
    BY <1>7, <2>1
  <2>2. CASE ~SnapMsg(hub, toHub, i)
    BY <1>2, <1>6, <2>2
  <2> QED
    BY <2>1, <2>2
<1> QED
  BY <1>3, <1>5, <1>6, <1>8

(* A live file row that the link has got to and that is not on the wire is  *)
(* shown by the hub, and nothing on the wire takes it away.                 *)
LEMMA PassedShown ==
    ASSUME JournalInv, LinkInv, FlowInv, ShowInv, FitInv, Active, epoch \in Nat, current \in Nat,
           ~SnapOpen(sync), NEW s \in Sources, Live(journal[s]["file"]),
           NEW n, n = journal[s]["file"].version, n <= End(hub, toHub),
           Cell(journal, s, "file") \notin OnWire(toHub)
    PROVE  /\ hub.files[s] # NoFile
           /\ hub.files[s].rev = journal[s]["file"].payload.rev
           /\ hub.row.snap => hub.files[s].seen
           /\ \A g \in OnWire(toHub) : g.src = s /\ Resets(g) => n < g.version
<1> DEFINE f == Cell(journal, s, "file")
<1>1. Running
  BY PhaseOf DEF Active
<1>2. /\ Len(toHub) \in Nat /\ DOMAIN toHub = 1 .. Len(toHub) /\ hub.row.version \in Nat
      /\ \A j \in DOMAIN toHub : toHub[j].through \in Nat
  BY <1>1, EndTypes
<1>3. /\ SnapInv(journal, hub, toHub, sync)
      /\ Rising(hub, toHub) /\ Reaches(journal, hub, toHub, sync)
  BY DEF FlowInv, ShowInv, FitInv
<1>4. Sound(journal, current) /\ "file" \in Kinds
  BY JournalSound, KindNames
<1>5. n \in Nat
  BY <1>4 DEF Sound, Live
<1>6. ASSUME NEW g \in OnWire(toHub), g.src = s, Resets(g)
      PROVE  /\ g.version \in Nat /\ g # f
             /\ \E i \in DOMAIN toHub : g \in Records(toHub[i].records)
  BY <1>6, WireGenuine DEF OnWire, WireRecords
<1>7. Passed(hub, toHub, sync, n)
  BY <1>3 DEF Reaches
<1>8. CASE ~hub.row.snap
  <2>1. n <= hub.row.version
    BY <1>7, <1>8 DEF Passed, SnapEnd, SnapMsg
  <2>2. hub.row # NoRow /\ hub.row.epoch = epoch
    BY <1>1 DEF Running
  <2>3. Shown(journal, hub.files, hub.facts, s, "file")
    BY <1>4, <1>8, <2>1, <2>2 DEF ShowInv, CoverInv, UpTo
  <2>4. hub.files[s] # NoFile /\ hub.files[s].rev = journal[s]["file"].payload.rev
    BY <2>3 DEF Shown
  <2>5. ASSUME NEW g \in OnWire(toHub), g.src = s, Resets(g) PROVE n < g.version
    <3>1. PICK i \in DOMAIN toHub : g \in Records(toHub[i].records)
      BY <1>6, <2>5
    <3>2. Base(hub, toHub, i) < g.version /\ g.version \in Nat
      <4>1. ~SnapMsg(hub, toHub, i)
        BY <1>8 DEF SnapMsg
      <4> QED
        BY <3>1, <4>1, WireGenuine
    <3>3. hub.row.version <= Base(hub, toHub, i) /\ Base(hub, toHub, i) \in Nat
      <4>1. i # 1 => i - 1 \in DOMAIN toHub
        BY <1>2
      <4> QED
        BY <1>2, <1>3, <4>1 DEF Rising, Base
    <3> QED
      BY <1>2, <1>5, <2>1, <3>2, <3>3
  <2> QED
    BY <1>8, <2>4, <2>5
<1>9. CASE hub.row.snap
  <2>1. PICK v \in Nat : SnapEnd(hub, toHub, sync, v) /\ n <= v
    BY <1>7, <1>9 DEF Passed
  <2>2. PICK e \in DOMAIN toHub : SnapMsg(hub, toHub, e) /\ toHub[e].done /\ toHub[e].through = v
    BY <2>1 DEF SnapEnd
  <2>3. Progress(journal, hub, Block(hub, toHub, sync), v)
    BY <1>3, <2>1 DEF SnapInv
  <2>4. f \notin Block(hub, toHub, sync)
    BY DEF Block, OnWire
  <2>5. ShownSeen(journal, hub.files, hub.facts, s, "file")
    BY <1>4, <2>1, <2>3, <2>4 DEF Progress, Complete
  <2>6. /\ hub.files[s] # NoFile /\ hub.files[s].seen
        /\ hub.files[s].rev = journal[s]["file"].payload.rev
    BY <2>5 DEF ShownSeen
  <2>7. ASSUME NEW g \in OnWire(toHub), g.src = s, Resets(g) PROVE n < g.version
    <3>1. PICK i \in DOMAIN toHub : g \in Records(toHub[i].records)
      BY <1>6, <2>7
    <3>2. g.version \in Nat /\ g # f
      BY <1>6, <2>7
    <3>3. CASE SnapMsg(hub, toHub, i)
      <4>1. g \in Block(hub, toHub, sync)
        BY <3>1, <3>3, WireGenuine
      <4>2. Genuine(journal, g, v) /\ g.version <= v
        BY <2>3, <4>1 DEF Progress, SnapRecord
      <4>3. g = f
        BY <1>4, <2>1, <2>7, <3>2, <4>2, ResetsBefore
      <4> QED
        BY <3>2, <4>3
    <3>4. CASE ~SnapMsg(hub, toHub, i)
      <4>1. Base(hub, toHub, i) < g.version
        BY <3>1, <3>4, WireGenuine
      <4>2. PICK j \in 1 .. (i - 1) : toHub[j].done
        BY <1>9, <3>4 DEF SnapMsg
      <4>3. ~(j < e)
        <5>1. j < e => j \in 1 .. (e - 1)
          BY <1>2
        <5> QED
          BY <2>2, <4>2, <5>1 DEF SnapMsg
      <4>4. i # 1 /\ i - 1 \in DOMAIN toHub /\ (e = i - 1 \/ e < i - 1)
        BY <1>2, <4>3
      <4>5. Base(hub, toHub, i) = toHub[i - 1].through /\ Base(hub, toHub, i) \in Nat
        BY <1>2, <4>4 DEF Base
      <4>6. v <= toHub[i - 1].through
        <5>1. e < i - 1 => toHub[e].through <= toHub[i - 1].through
          BY <1>3, <4>4 DEF Rising
        <5> QED
          BY <2>2, <4>4, <5>1
      <4> QED
        BY <1>5, <2>1, <3>2, <4>1, <4>5, <4>6
    <3> QED
      BY <3>3, <3>4
  <2> QED
    BY <2>6, <2>7
<1> QED
  BY <1>8, <1>9

(* The rows of a read transaction, in the terms of the wire. *)
LEMMA RowsRead ==
    ASSUME JournalInv, NEW c, NEW r \in ReplayRows(c)
    PROVE  /\ r.src \in Sources /\ r.kind \in Kinds /\ r \in WireRecords
           /\ r = Cell(journal, r.src, r.kind) /\ journal[r.src][r.kind] # NoRecord
           /\ r.version \in Nat /\ r.version = journal[r.src][r.kind].version /\ r.version <= current
           /\ ~r.deleted => Live(journal[r.src][r.kind])
           /\ r.payload = journal[r.src][r.kind].payload
<1>1. /\ r.src \in Sources /\ r.kind \in Kinds /\ journal[r.src][r.kind] # NoRecord
      /\ r = AsRecord(r.src, r.kind) /\ GoodRecord(r) /\ r.version <= current
  BY ReadRows
<1>2. r = Cell(journal, r.src, r.kind)
  BY <1>1, JournalSound
<1>3. /\ r.version = journal[r.src][r.kind].version
      /\ r.deleted = journal[r.src][r.kind].deleted
      /\ r.payload = journal[r.src][r.kind].payload
  BY <1>2 DEF Cell
<1>4. r \in WireRecords /\ r.version \in Nat
  BY <1>1, RecordTypes DEF GoodRecord
<1> QED
  BY <1>1, <1>2, <1>3, <1>4 DEF Live

(* An answer that is read describes the file row read with it. *)
LEMMA AnswerRead ==
    ASSUME JournalInv, NEW c, NEW r \in ReplayRows(c), Answer(r), NEW s, s = r.src,
           NEW f, f = Cell(journal, s, "file")
    PROVE  /\ Live(journal[s]["file"]) /\ GoodRecord(f) /\ f \in WireRecords
           /\ f.src = s /\ f.kind = "file" /\ ~f.deleted /\ f.version = journal[s]["file"].version
           /\ f.version \in Nat /\ f.version < r.version
           /\ f.payload = journal[s]["file"].payload
           /\ FitsRev(r, f.payload.rev) /\ f.payload.rev # NoRev
<1>1. /\ s \in Sources /\ r.kind \in Kinds /\ r.version = journal[s][r.kind].version
      /\ Live(journal[s][r.kind]) /\ r.payload = journal[s][r.kind].payload /\ r.kind \in FactKinds
  BY RowsRead DEF Answer
<1>2. FactsFollow(journal[s]) /\ "file" \in Kinds
  BY <1>1, JournalSound, KindNames DEF Sound
<1>3. /\ Live(journal[s]["file"])
      /\ journal[s]["file"].version < journal[s][r.kind].version
      /\ Measured(r.kind, journal[s][r.kind].payload, journal[s]["file"].payload.rev)
  BY <1>1, <1>2 DEF FactsFollow
<1>4. SameStamp(r.kind, r.payload.size, MtimeOf[r.payload.rev], journal[s]["file"].payload.rev)
  BY <1>1, <1>3 DEF Measured, Answer
<1>5. journal[s]["file"] # NoRecord /\ ~journal[s]["file"].deleted
  BY <1>3 DEF Live
<1>6. GoodRecord(f) /\ journal[s]["file"].version \in Nat
  BY <1>1, <1>2, <1>5, JournalSound DEF Sound
<1>7. /\ f.src = s /\ f.kind = "file" /\ ~f.deleted /\ f.version = journal[s]["file"].version
      /\ f.payload = journal[s]["file"].payload
  BY <1>5 DEF Cell
<1>8. f.payload.rev # NoRev /\ f \in WireRecords
  BY <1>6, <1>7, RecordTypes DEF GoodRecord
<1> QED
  BY <1>1, <1>3, <1>4, <1>6, <1>7, <1>8 DEF FitsRev

(* A read transaction: every answer it finds will find its file. *)
LEMMA FitBeginPages ==
    ASSUME JournalInv, LinkInv, FlowInv, ShowInv, FitInv, BeginPages
    PROVE  FitInv'
<1>0. [SyncNext]_vars
  BY DEF SyncNext, ProtocolStep
<1>1. /\ Running /\ sync' # NoSync
      /\ sync'.stage = "streaming" /\ sync'.current = current
      /\ sync'.rows = IF sync.snapshot THEN SnapshotRows ELSE ReplayRows(sync.start)
      /\ sync'.snapshot = sync.snapshot
  BY BeginPagesInv
<1>2. /\ sync # NoSync /\ sync.stage = "queued" /\ Active
      /\ UNCHANGED <<toHub, toHost, sent, hub, journal, epoch>>
  BY DEF BeginPages, journalVars, Active
<1>3. /\ StreamInv(journal, hub, toHub, sync, sent)
      /\ InOrder(hub, toHub, sync) /\ Rising(hub, toHub)
      /\ Reaches(journal, hub, toHub, sync)
      /\ Fitted(Pending(toHub, sync), hub.files, hub.row.snap)
  BY <1>2 DEF FlowInv, FitInv
<1>4. epoch \in Nat /\ current \in Nat
  BY <1>0, SyncMoves
<1>5. /\ Len(toHub) \in Nat /\ DOMAIN toHub = 1 .. Len(toHub) /\ hub.row.version \in Nat
      /\ End(hub, toHub) \in Nat
  BY <1>1, <1>4, EndTypes
<1>6. Sound(journal, current) /\ "file" \in Kinds
      /\ \A s \in Sources, k \in Kinds : AsRecord(s, k) = Cell(journal, s, k)
  BY JournalSound, KindNames
<1>7. PICK c : /\ sync'.rows \subseteq ReplayRows(c)
               /\ c = IF sync.snapshot THEN 0 ELSE sync.start
  BY <1>1 DEF SnapshotRows
<1>8. PICK old, rows, new : /\ old = OnWire(toHub) /\ rows = sync'.rows
                            /\ new = Pending(toHub, sync')
  OBVIOUS
<1>9. /\ Pending(toHub, sync) = old
      /\ \A r : r \in new <=> r \in old \/ r \in rows
      /\ old \subseteq WireRecords
  <2>1. sync.rows = {}
    BY <1>1, <1>2 DEF Running
  <2>2. rows \subseteq WireRecords
    BY <1>7, <1>8, RowsRead
  <2> QED
    BY <1>1, <1>8, <2>1, <2>2 DEF Pending, OnWire
<1>10. sync.snapshot => old = {} /\ DOMAIN toHub = {}
  BY <1>2, <1>3, <1>8 DEF StreamInv, OnWire
<1>11. /\ SnapOpen(sync) <=> sync.snapshot
       /\ SnapOpen(sync') <=> sync.snapshot
  BY <1>1, <1>2 DEF SnapOpen
<1>12. ASSUME ~sync.snapshot
       PROVE  /\ sync.start = End(hub, toHub) /\ c = End(hub, toHub) /\ rows = ReplayRows(c)
              /\ \A r \in rows : End(hub, toHub) < r.version
              /\ \A i \in DOMAIN toHub : \A r \in Records(toHub[i].records) :
                    r.version <= End(hub, toHub) /\ r.version \in Nat
              /\ \A r \in old : r.version <= End(hub, toHub) /\ r.version \in Nat
  <2>1. sync.start = End(hub, toHub)
    BY <1>2, <1>3, <1>12 DEF StreamInv
  <2>2. c = End(hub, toHub) /\ rows = ReplayRows(c)
    BY <1>1, <1>7, <1>8, <1>12, <2>1
  <2>3. \A r \in rows : End(hub, toHub) < r.version
    <3>1. \A r \in rows : r.version > End(hub, toHub) /\ r.version \in Nat
      BY <2>2, ReadRows, RowsRead
    <3> QED
      BY <1>5, <3>1
  <2>4. \A i \in DOMAIN toHub : \A r \in Records(toHub[i].records) :
                    r.version <= End(hub, toHub) /\ r.version \in Nat
    BY <1>2, <1>3, <1>4, <1>11, <1>12, WireGenuine DEF InOrder
  <2>5. \A r \in old : r.version <= End(hub, toHub) /\ r.version \in Nat
    BY <1>8, <2>4 DEF OnWire
  <2> QED
    BY <2>1, <2>2, <2>3, <2>4, <2>5
<1>13. \A r \in rows : /\ r.src \in Sources /\ r \in WireRecords /\ r.version \in Nat
                       /\ r.version <= current
                       /\ r = Cell(journal, r.src, r.kind)
  BY <1>7, <1>8, RowsRead
<1>14. InOrder(hub, toHub, sync')
  <2>1. ASSUME NEW i \in DOMAIN toHub PROVE Before(Records(toHub[i].records), sync'.rows)
    <3>1. ~sync.snapshot
      BY <1>10
    <3>2. \A r \in Records(toHub[i].records) : r.version <= End(hub, toHub) /\ r.version \in Nat
      BY <1>12, <3>1
    <3>3. \A g \in rows : End(hub, toHub) < g.version /\ g.version \in Nat
      BY <1>12, <1>13, <3>1
    <3> QED
      BY <1>5, <1>8, <3>2, <3>3 DEF Before
  <2>2. ASSUME sync.snapshot, NEW r \in sync'.rows, NEW g \in sync'.rows,
               r.src = g.src, r.kind = "file", g.kind # "file"
        PROVE  r.version < g.version
    <3>1. /\ r \in ReplayRows(c) /\ g \in ReplayRows(c) /\ ~r.deleted /\ ~g.deleted
      BY <1>1, <1>7, <2>2 DEF SnapshotRows
    <3>2. PICK s : s = g.src
      OBVIOUS
    <3>3. /\ s \in Sources /\ Live(journal[s]["file"]) /\ r.version = journal[s]["file"].version
          /\ Live(journal[s][g.kind]) /\ g.version = journal[s][g.kind].version /\ g.kind \in Kinds
      BY <2>2, <3>1, <3>2, RowsRead
    <3>4. FactsFollow(journal[s]) /\ ErrorFollows(journal[s])
      BY <1>6, <3>3 DEF Sound
    <3>5. g.kind # "file_error"
      BY <3>3, <3>4 DEF ErrorFollows, Live
    <3>6. g.kind \in FactKinds
      BY <2>2, <3>3, <3>5 DEF Kinds, DerivedKinds
    <3> QED
      BY <3>3, <3>4, <3>6 DEF FactsFollow
  <2> QED
    BY <1>3, <1>11, <2>1, <2>2 DEF InOrder
<1>15. Reaches(journal, hub, toHub, sync')
  <2>1. CASE sync.snapshot
    BY <1>11, <2>1 DEF Reaches
  <2>2. CASE ~sync.snapshot
    <3>1. \A v : SnapEnd(hub, toHub, sync', v) <=> SnapEnd(hub, toHub, sync, v)
      BY <1>11, <2>2 DEF SnapEnd
    <3>2. \A n : Passed(hub, toHub, sync, n) => Passed(hub, toHub, sync', n)
      BY <3>1 DEF Passed
    <3> QED
      BY <1>3, <1>11, <2>2, <3>2 DEF Reaches
  <2> QED
    BY <2>1, <2>2
<1>16. ASSUME NEW r \in old, Answer(r)
       PROVE  FileAhead(r, new) \/ FileThere(r, new, hub.files, hub.row.snap)
  <2>1. ~sync.snapshot
    BY <1>10
  <2>2. FileAhead(r, old) \/ FileThere(r, old, hub.files, hub.row.snap)
    BY <1>3, <1>9, <1>16 DEF Fitted
  <2>3. \A g \in rows : ~(g.version < r.version)
    BY <1>5, <1>12, <1>13, <2>1
  <2>4. \A g \in new : g.version < r.version => g \in old
    BY <1>9, <2>3
  <2>5. FileAhead(r, old) => FileAhead(r, new)
    BY <1>9, <2>4 DEF FileAhead
  <2>6. FileThere(r, old, hub.files, hub.row.snap) => FileThere(r, new, hub.files, hub.row.snap)
    BY <2>4 DEF FileThere
  <2> QED
    BY <2>2, <2>5, <2>6
<1>17. ASSUME NEW r \in rows, Answer(r)
       PROVE  FileAhead(r, new) \/ FileThere(r, new, hub.files, hub.row.snap)
  <2>1. PICK s, f : s = r.src /\ f = Cell(journal, s, "file")
    OBVIOUS
  <2>2. /\ Live(journal[s]["file"]) /\ f \in WireRecords
        /\ f.src = s /\ f.kind = "file" /\ ~f.deleted /\ f.version = journal[s]["file"].version
        /\ f.version \in Nat /\ f.version < r.version
        /\ f.payload = journal[s]["file"].payload
        /\ FitsRev(r, f.payload.rev) /\ f.payload.rev # NoRev
    <3>1. r \in ReplayRows(c)
      BY <1>7, <1>8
    <3> QED
      BY <1>17, <2>1, <3>1, AnswerRead
  <2>3. s \in Sources
    BY <1>13, <2>1
  <2>4. ASSUME NEW g \in new, g.src = s, Resets(g) PROVE g.version \in Nat /\ g.version <= f.version
    <3>1. g.version \in Nat /\ \E v \in Nat : Genuine(journal, g, v) /\ g.version <= v
      <4>1. CASE g \in old
        <5>1. PICK i \in DOMAIN toHub : g \in Records(toHub[i].records)
          BY <1>8, <4>1 DEF OnWire
        <5> QED
          BY <1>2, <1>4, <5>1, WireGenuine
      <4>2. CASE g \in rows
        <5>1. Genuine(journal, g, current)
          <6>1. FlowInv'
            BY FlowBeginPages
          <6>2. StreamInv(journal, hub, toHub, sync', sent)
            BY <1>1, <1>2, <6>1 DEF FlowInv, Active
          <6> QED
            BY <1>1, <1>8, <4>2, <6>2 DEF StreamInv
        <5> QED
          BY <1>4, <1>13, <4>2, <5>1
      <4> QED
        BY <1>9, <4>1, <4>2
    <3>2. PICK v \in Nat : Genuine(journal, g, v) /\ g.version <= v
      BY <3>1
    <3>3. s = g.src
      BY <2>4
    <3>4. g.version <= journal[s]["file"].version
      BY <1>4, <1>6, <2>2, <2>4, <3>1, <3>2, <3>3, ResetsBefore
    <3> QED
      BY <2>2, <3>1, <3>4
  <2>5. CASE f \in new
    <3>1. \A g \in new : g.src = r.src /\ Resets(g) /\ g.version < r.version => g.version <= f.version
      BY <2>1, <2>4
    <3>2. FileAhead(r, new)
      BY <2>1, <2>2, <2>5, <3>1 DEF FileAhead
    <3> QED
      BY <3>2
  <2>6. CASE f \notin new
    <3>1. f \notin rows /\ f \notin OnWire(toHub)
      BY <1>8, <1>9, <2>6
    <3>2. journal[s]["file"] # NoRecord /\ ~journal[s]["file"].deleted /\ AsRecord(s, "file") = f
          /\ journal[s]["file"].version >= 1
      BY <1>6, <2>1, <2>2, <2>3 DEF Live, Sound
    <3>3. ~sync.snapshot
      <4> SUFFICES ASSUME sync.snapshot PROVE FALSE
        OBVIOUS
      <4>1. journal[s]["file"].version > 0
        BY <2>2, <3>2
      <4>2. f \in ReplayRows(0)
        BY <1>6, <2>3, <3>2, <4>1, ReadRows
      <4>3. f \in SnapshotRows
        BY <2>2, <4>2 DEF SnapshotRows
      <4> QED
        BY <1>1, <1>8, <3>1, <4>3
    <3>4. /\ c = End(hub, toHub) /\ rows = ReplayRows(c)
          /\ \A g \in rows : End(hub, toHub) < g.version
      BY <1>12, <3>3
    <3>5. f.version <= End(hub, toHub)
      <4> SUFFICES ASSUME ~(f.version <= End(hub, toHub)) PROVE FALSE
        OBVIOUS
      <4>1. journal[s]["file"].version > c
        BY <1>5, <2>2, <3>4
      <4>2. f \in ReplayRows(c)
        BY <1>6, <2>3, <3>2, <4>1, ReadRows
      <4> QED
        BY <3>1, <3>4, <4>2
    <3>6. /\ hub.files[s] # NoFile
          /\ hub.files[s].rev = journal[s]["file"].payload.rev
          /\ hub.row.snap => hub.files[s].seen
          /\ \A g \in OnWire(toHub) : g.src = s /\ Resets(g) => f.version < g.version
      <4>1. ~SnapOpen(sync)
        BY <1>11, <3>3
      <4>2. Cell(journal, s, "file") \notin OnWire(toHub)
        BY <2>1, <3>1
      <4>3. f.version = journal[s]["file"].version /\ f.version <= End(hub, toHub)
        BY <2>2, <3>5
      <4> QED
        BY <1>2, <1>4, <2>2, <2>3, <4>1, <4>2, <4>3, PassedShown
    <3>7. ASSUME NEW g \in new, g.src = r.src, Resets(g) PROVE ~(g.version < r.version)
      <4>1. g.version \in Nat /\ g.version <= f.version
        BY <2>1, <2>4, <3>7
      <4>2. CASE g \in old
        <5>1. f.version < g.version
          BY <1>8, <2>1, <3>6, <3>7, <4>2
        <5> QED
          BY <2>2, <4>1, <5>1
      <4>3. CASE g \in rows
        <5>1. End(hub, toHub) < g.version
          BY <3>4, <4>3
        <5> QED
          BY <1>5, <2>2, <3>5, <4>1, <5>1
      <4> QED
        BY <1>9, <4>2, <4>3
    <3>8. FitsRev(r, hub.files[s].rev) /\ hub.files[s].rev # NoRev
      BY <2>2, <3>6
    <3>9. FileThere(r, new, hub.files, hub.row.snap)
      BY <2>1, <3>6, <3>7, <3>8 DEF FileThere
    <3> QED
      BY <3>9
  <2> QED
    BY <2>5, <2>6
<1>18. Fitted(new, hub.files, hub.row.snap)
  BY <1>9, <1>16, <1>17 DEF Fitted
<1> QED
  BY <1>2, <1>3, <1>8, <1>14, <1>15, <1>18 DEF FitInv

(* Every step. *)
LEMMA FitInvStep ==
    ASSUME JournalInv, LinkInv, FlowInv, ShowInv, FitInv, [SyncNext]_vars
    PROVE  FitInv'
<1>1. JournalInv' /\ epoch \in Nat /\ (epoch' = epoch => Moves)
  BY SyncMoves
<1>2. CASE CatalogueStep
  <2>1. epoch' = epoch
    BY <1>2, CatalogueEpoch
  <2>2. UNCHANGED <<toHub, toHost, sync, sent, hub, epoch>>
    BY <1>2, <2>1 DEF CatalogueStep
  <2> QED
    BY <1>1, <2>1, <2>2, FitMoves
<1>3. CASE Break \/ RestartHost \/ HubReject
  <2>1. LinkDown
    BY <1>3 DEF Break, RestartHost, HubReject
  <2> QED
    BY <2>1 DEF LinkDown, FitInv, Active
<1>4. CASE Connect \/ SendOffer \/ HubOffer
  <2>1. ~Active
    <3>1. CASE Connect \/ SendOffer
      BY <3>1 DEF Connect, SendOffer, LinkInv, PhaseInv, Quiet, Active
    <3>2. CASE HubOffer
      BY <3>2, PhaseOf DEF HubOffer, Asked, Active
    <3> QED
      BY <1>4, <3>1, <3>2
  <2>2. ~Active'
    BY <1>4, <2>1 DEF Connect, SendOffer, HubOffer, Active
  <2> QED
    BY <2>2 DEF FitInv
<1>5. CASE HostAck
  <2>1. Running' /\ Running /\ UNCHANGED <<toHub, sync, sent, hub, journalVars>>
    BY <1>5, HostAckInv
  <2>2. Active' = Active
    BY <2>1 DEF Active
  <2> QED
    BY <2>1, <2>2 DEF FitInv, journalVars
<1>6. CASE UNCHANGED vars
  BY <1>6 DEF vars, linkVars, journalVars, FitInv, Active
<1> QED
  BY <1>2, <1>3, <1>4, <1>5, <1>6, FitHubApply, FitHostCursor, FitBeginPages,
     FitSendChunk, FitSendEmpty, FitSchedule DEF SyncNext, ProtocolStep

(* Every answer on the wire, or still to be sent, will find the bytes it     *)
(* describes when its turn comes: its file row arrives before it and nothing *)
(* in between replaces it, or the hub shows that file row already.           *)
THEOREM FitInvariant == SyncSpec => [](JournalInv /\ LinkInv /\ FlowInv /\ ShowInv /\ FitInv)
<1>1. SyncInit => FitInv
  BY DEF SyncInit, FitInv, Active
<1>2. JournalInv /\ LinkInv /\ FlowInv /\ ShowInv /\ FitInv /\ [SyncNext]_vars => FitInv'
  BY FitInvStep
<1> QED
  BY <1>1, <1>2, ShowInvariant, PTL DEF SyncSpec

(* A chunk that carries no failed hash is accepted. *)
LEMMA ChunkAccepted ==
    ASSUME JournalInv, LinkInv, FlowInv, ShowInv, FitInv, toHub # <<>>, Head(toHub).type = "delta",
           ~CarriesHashFailure(Head(toHub))
    PROVE  ApplyCatalogue(hub, Head(toHub)).ok
<1>1. PICK d : d = Head(toHub)
  OBVIOUS
<1>2. /\ d = toHub[1] /\ 1 \in DOMAIN toHub /\ GoodDelta(d) /\ d.epoch = epoch
      /\ d.through \in Nat /\ d.done \in BOOLEAN
      /\ hub \in Projections /\ hub.row \in CursorRows /\ hub.row.epoch = epoch
      /\ Running
  BY <1>1, HeadDelta
<1>3. epoch \in Nat /\ current \in Nat
  BY BoundAssumption DEF JournalInv, TypeOK, Versions
<1>4. /\ Acceptable(hub, d)
      /\ d.snapshot => hub.row.snap
      /\ hub.row.snap /\ ~d.done => d.through = 0
  BY <1>2, <1>3, HeadAcceptable
<1>5. /\ InOrder(hub, toHub, sync)
      /\ Fitted(Pending(toHub, sync), hub.files, hub.row.snap)
  BY <1>2 DEF FitInv, Running, Active
<1>6. PICK t : t = Tail(toHub)
  OBVIOUS
<1>7. Shorter(toHub, t)
  <2>1. toHub \in Seq(Offers \cup Deltas)
    BY DEF LinkInv, SyncTypes
  <2> QED
    BY <1>6, <2>1, QueueTail DEF Shorter
<1>8. PICK rest, R : rest = Pending(t, sync) /\ R = Records(d.records)
  OBVIOUS
<1>9. R \subseteq WireRecords /\ R = Records(toHub[1].records)
  BY <1>2, <1>8 DEF GoodDelta, GoodRecord, Records
<1>10. Pending(toHub, sync) = rest \cup R
  BY <1>7, <1>8, <1>9, ShorterPending, SMT
<1>11. Before(R, rest)
  <2> SUFFICES ASSUME NEW r \in R, NEW g \in rest, r.src = g.src PROVE r.version < g.version
    BY DEF Before
  <2>1. /\ \A i \in DOMAIN t : i + 1 \in DOMAIN toHub /\ 1 < i + 1 /\ t[i] = toHub[i + 1]
    BY <1>7 DEF Shorter
  <2>2. CASE sync # NoSync /\ g \in sync.rows
    BY <1>2, <1>5, <1>9, <2>2 DEF InOrder, Before
  <2>3. CASE g \in OnWire(t)
    <3>1. PICK i \in DOMAIN t : g \in Records(t[i].records)
      BY <2>3 DEF OnWire
    <3>2. Before(R, Records(t[i].records))
      BY <1>2, <1>5, <1>9, <2>1 DEF InOrder
    <3> QED
      BY <3>1, <3>2 DEF Before
  <2> QED
    BY <1>8, <2>2, <2>3 DEF Pending
<1>12. Sorted(d.records)
  BY <1>2, <1>5 DEF InOrder
<1>13. ASSUME NEW n \in DOMAIN d.records, d.records[n].kind \in FactKinds, ~d.records[n].deleted
       PROVE  d.records[n].payload.size # 0
  <2>1. GoodRecord(d.records[n])
    BY <1>2 DEF GoodDelta
  <2> QED
    BY <1>1, <1>13, <2>1 DEF GoodRecord, CarriesHashFailure
<1>14. /\ rest \subseteq WireRecords /\ Before(Records(d.records), rest)
       /\ Fitted(rest \cup Records(d.records), hub.files, hub.row.snap)
  BY <1>5, <1>8, <1>10, <1>11 DEF Pending
<1>15. /\ Folded(hub, d).ok
       /\ hub.row.snap /\ d.done => Folded(hub, d).max <= d.through
       /\ Folded(hub, d).max \in Nat
  BY <1>2, <1>4, <1>12, <1>13, <1>14, FoldedFitted
<1>16. ApplyCatalogue(hub, d).ok
  BY <1>2, <1>4, <1>15, CatalogueAccepts
<1> QED
  BY <1>1, <1>16

(* RefusedOnlyForHashes: however scans, answers, breaks, restarts and new    *)
(* epochs interleave, the hub refuses a chunk of a mediahost that follows    *)
(* the protocol for one reason only, a terminal hash failure in it; the      *)
(* mediahost refuses no acknowledgement, and no cursor finds a stream        *)
(* already running.                                                          *)
THEOREM OnlyHashesAreRefused == SyncSpec => []RefusedOnlyForHashes
<1>1. JournalInv /\ LinkInv /\ FlowInv /\ ShowInv /\ FitInv => RefusedOnlyForHashes
  <2> SUFFICES ASSUME JournalInv, LinkInv, FlowInv, ShowInv, FitInv PROVE RefusedOnlyForHashes
    OBVIOUS
  <2>1. toHub # <<>> /\ Head(toHub).type = "delta" =>
            ApplyCatalogue(hub, Head(toHub)).ok \/ CarriesHashFailure(Head(toHub))
    BY ChunkAccepted
  <2>2. toHost # <<>> /\ Head(toHost).type = "ack" => AckAcceptable(Head(toHost))
    <3> SUFFICES ASSUME toHost # <<>>, Head(toHost).type = "ack" PROVE AckAcceptable(Head(toHost))
      OBVIOUS
    <3>1. Running
      BY PhaseOf
    <3>2. Head(toHost) = toHost[1] /\ 1 \in DOMAIN toHost /\ toHost[1].version \in Nat
      <4>1. toHost \in Seq(Cursors \cup Acks)
        BY DEF LinkInv, SyncTypes
      <4>2. Head(toHost) = toHost[1] /\ 1 \in DOMAIN toHost /\ Head(toHost) \in Cursors \cup Acks
        BY <4>1, QueueTail
      <4> QED
        BY <4>2 DEF Cursors, Acks
    <3>3. toHost[1].epoch = epoch /\ toHost[1].version <= hub.row.version
      BY <3>1, <3>2 DEF Running
    <3>4. epoch \in Nat /\ current \in Nat
      BY BoundAssumption DEF JournalInv, TypeOK, Versions
    <3>5. hub.row.version \in Nat /\ hub.row.version <= current
      BY <3>1, <3>4, EndTypes
    <3> QED
      BY <3>2, <3>3, <3>4, <3>5 DEF AckAcceptable
  <2>3. toHost # <<>> /\ Head(toHost).type = "cursor" => sync = NoSync
    BY PhaseOf DEF Answered
  <2> QED
    BY <2>1, <2>2, <2>3 DEF RefusedOnlyForHashes
<1> QED
  BY <1>1, FitInvariant, PTL
=============================================================================
