-------------------------- MODULE MCServerAdmission --------------------------
(* ServerAdmission on an instance in which both caps can be reached.       *)
EXTENDS ServerAdmission, TLC

CONSTANTS c1, c2, c3, c4, a1, a2

Symmetry == Permutations(Conns) \cup Permutations(IPs)
=============================================================================
