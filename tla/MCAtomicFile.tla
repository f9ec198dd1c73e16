---------------------------- MODULE MCAtomicFile ----------------------------
(* Small instances of AtomicFile: inodes are interchangeable. *)
EXTENDS AtomicFile, TLC

CONSTANTS i1, i2, i3, i4

Sym == Permutations(Inodes)

=============================================================================
