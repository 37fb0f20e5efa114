--------------------------- MODULE MCDatasetReaders ---------------------------
(* Small instances of DatasetReaders.                                      *)
EXTENDS DatasetReaders, TLC

(* Requests of one kind are interchangeable.                               *)
RequestSymmetry == Permutations(Savers) \cup Permutations(Readers)
=============================================================================
