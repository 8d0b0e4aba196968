--------------------------- MODULE MCMediaLibrary ---------------------------
(* Instances of MediaLibrary for TLC.                                      *)
EXTENDS MediaLibrary, TLC

Symmetry == Permutations(TaskAssets) \cup Permutations(Shared) \cup Permutations(Keys \ {SharedKey})
            \cup Permutations(Pollers) \cup Permutations(Removers)

=============================================================================
