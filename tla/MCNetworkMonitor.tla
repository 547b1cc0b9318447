---------------------------- MODULE MCNetworkMonitor ----------------------------
(* Instances of NetworkMonitor for TLC. *)
EXTENDS NetworkMonitor, TLC

TwoIps == 1..2
OneIp == {1}
\* A row per address, and one for an address that is inserted twice.
ThreeRows == 1..3
OneRow == {1}

Symmetry == Permutations(Threads)
=============================================================================
