---------------------------- MODULE MCKeyStore -----------------------------
(***************************************************************************)
(* Instances of KeyStore for TLC.                                          *)
(***************************************************************************)
EXTENDS KeyStore, TLC

CONSTANTS p1, p2, k1, k2, k3, none

Interchangeable == Permutations(Procs) \cup Permutations(Kids)
=============================================================================
