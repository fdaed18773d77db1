--------------------------- MODULE MCResponseStore ---------------------------
(* ResponseStore on small sets of handles. *)
EXTENDS ResponseStore, TLC

\* Handles are interchangeable.
Symmetry == Permutations(Handle)
=============================================================================
