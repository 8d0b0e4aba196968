----------------------------- MODULE MCModelSync -----------------------------
(* ModelSync with a few interchangeable management requests. *)
EXTENDS ModelSync, TLC

Interchangeable == Permutations(Admins)
=============================================================================
