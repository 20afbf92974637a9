------------------------------- MODULE MCTierManager -------------------------------
(* TierManager on small instances.  Characters, row ids, archive ids and    *)
(* requests are interchangeable, and only safety is checked under this      *)
(* symmetry.                                                                *)
EXTENDS TierManager, TLC

RequestSymmetry ==
    Permutations(Chars) \cup Permutations(Ids) \cup Permutations(ArchiveIds)
        \cup Permutations(Archivers) \cup Permutations(Restorers)
====================================================================================
