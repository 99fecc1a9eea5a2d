----------------------------- MODULE MCHotBackup -----------------------------
(* Instances of HotBackup for TLC: the slaves are interchangeable. *)
EXTENDS HotBackup, TLC

Symmetry == Permutations(Slave)
=============================================================================
