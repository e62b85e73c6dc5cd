------------------------------ MODULE MCVault ------------------------------
(***************************************************************************)
(* Small instances of Vault for TLC.                                       *)
(***************************************************************************)
EXTENDS Vault, TLC

\* Blob identifiers and plaintexts are interchangeable.
DataSymmetry == Permutations(Blobs) \union Permutations(Values)
=============================================================================
