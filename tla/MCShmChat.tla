------------------------------ MODULE MCShmChat ------------------------------
(* ShmChat with a finite set of interchangeable clients for TLC.            *)
EXTENDS ShmChat, TLC

Symmetry == Permutations(Clients)
=============================================================================
