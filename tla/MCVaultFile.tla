----------------------------- MODULE MCVaultFile -----------------------------
(* Symmetry for model checking VaultFile.                                   *)
EXTENDS VaultFile, TLC

Symmetry == Permutations(Procs) \cup Permutations(Ids) \cup Permutations(Values)
=============================================================================
