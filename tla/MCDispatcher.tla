---------------------------- MODULE MCDispatcher ----------------------------
(* Dispatcher on small instances.  Clients and workers are interchangeable. *)
EXTENDS Dispatcher, TLC

Symmetry == Permutations(Client) \cup Permutations(Worker)
=============================================================================
