--------------------------- MODULE MCDaemonSocket ---------------------------
(* Symmetry for model checking DaemonSocket: neither brokers nor clients are *)
(* told apart by anything but what they have done.                           *)
EXTENDS DaemonSocket, TLC

ProcessSymmetry == Permutations(Brokers) \cup Permutations(Clients)
=============================================================================
