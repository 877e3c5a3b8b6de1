-------------------------- MODULE MCSpawnProtocol --------------------------
(* SpawnProtocol on a small instance.  Clients and servers are             *)
(* interchangeable, which the safety runs exploit.                         *)
EXTENDS SpawnProtocol, TLC

Symmetry == Permutations(Clients) \cup Permutations(Servers)
=============================================================================
