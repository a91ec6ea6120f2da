-------------------------- MODULE MCCatalogJournal --------------------------
(* CatalogJournal on a small instance: revisions 1 and 2 have the same size *)
(* and different mtimes, revision 3 has another size.                       *)
EXTENDS CatalogJournal

MCSizeOf   == [r \in Revs |-> IF r = 3 THEN 20 ELSE 10]
MCMtimeOf  == [r \in Revs |-> IF r = 1 THEN 1 ELSE 2]
MCKindRank ==
    [k \in DerivedKinds |->
        CASE k = "file_error" -> 1
          [] k = "file_hashes" -> 2
          [] OTHER -> Cardinality(DerivedKinds)]
=============================================================================
