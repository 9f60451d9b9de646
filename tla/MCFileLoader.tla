----------------------------- MODULE MCFileLoader -----------------------------
(* Small instances of FileLoader for TLC. *)
EXTENDS FileLoader, TLC

FileSymmetry == Permutations(Files)

=============================================================================
