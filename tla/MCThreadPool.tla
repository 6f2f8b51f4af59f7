---------------------------- MODULE MCThreadPool ----------------------------
(***************************************************************************)
(* ThreadPool with queues so small that batches, bulk submissions and      *)
(* nested jobs overflow them.                                              *)
(***************************************************************************)
EXTENDS ThreadPool, TLC

PoolSymmetry == Permutations(Workers) \cup Permutations(Clients)
=============================================================================
