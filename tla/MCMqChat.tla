------------------------------- MODULE MCMqChat -------------------------------
(* MqChat with a finite set of interchangeable clients for TLC.             *)
EXTENDS MqChat, TLC

Symmetry == Permutations(Clients)
=============================================================================
