---------------------------- MODULE MCCollectionScan ----------------------------
EXTENDS CollectionScan, TLC

\* Candidate 1 belongs to an accepted revision; job 1 starts with what cannot be deleted.
MCJobOf == 1 :> 0 @@ 2 :> 1 @@ 3 :> 2 @@ 4 :> 2 @@ 5 :> 1

=================================================================================
