--------------------------- MODULE MCEpochManager ---------------------------
(* Small instances of EpochManager; threads of one role and objects are     *)
(* interchangeable.                                                         *)
EXTENDS EpochManager, TLC
Symmetry == Permutations(Writers) \union Permutations(Collectors) \union Permutations(Objs)
=============================================================================
