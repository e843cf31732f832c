-------------------------- MODULE MCArchiveRestore --------------------------
(* Small instances of ArchiveRestore.                                      *)
EXTENDS ArchiveRestore, TLC

CONSTANTS c1, c2

ContentSymmetry == Permutations(Content)
=============================================================================
