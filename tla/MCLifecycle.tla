-------------------------------- MODULE MCLifecycle --------------------------------
(* Lifecycle on small instances, under the symmetry of what is interchangeable. *)
EXTENDS Lifecycle, TLC

LifeSymmetry ==
    Permutations(Chars) \cup Permutations(Ids) \cup Permutations(ArchiveIds)
        \cup Permutations(Archivers) \cup Permutations(Restorers)
====================================================================================
