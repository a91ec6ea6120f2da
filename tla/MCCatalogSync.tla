--------------------------- MODULE MCCatalogSync ---------------------------
(* CatalogSync on small instances: revisions 1 and 2 share a size.          *)
EXTENDS CatalogSync, TLC

MCSizeOf   == [r \in Revs |-> IF r = 3 THEN 20 ELSE 10]
MCMtimeOf  == [r \in Revs |-> IF r = 1 THEN 1 ELSE 2]
MCKindRank == [k \in DerivedKinds |-> IF k = "file_error" THEN 1 ELSE 2]
MCSymmetry == Permutations(Sources)
=============================================================================
