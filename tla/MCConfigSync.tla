--------------------------- MODULE MCConfigSync -----------------------------
(* Small instances of ConfigSync for TLC. *)
EXTENDS ConfigSync, TLC

\* Admin request slots are interchangeable (used for safety only).
RequestSymmetry == Permutations(Requests)
=============================================================================
