------------------------------ MODULE MCKeyStore ------------------------------
(* A small instance of KeyStore. *)
EXTENDS KeyStore, TLC

Symmetry == Permutations(Callers) \union Permutations(Keks)
=============================================================================
